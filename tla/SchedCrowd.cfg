\* Three threads that sleep and the serial reader.
SPECIFICATION Spec
CONSTANTS
  Idle = Idle
  None = None
  second = second
  third = third
  tlay2 = tlay2
  worker = worker
  Tasks <- AllTasks
  Sleepers <- ThreeSleepers
  Reader = tlay2
  Exiters = {}
  Delays = {1, 2}
  RxMax = 1
INVARIANTS NoTaskForgotten ReaderParksEmpty
PROPERTIES StaleOnlyFromIdle
SYMMETRY Symmetry
