\* A sleeper, the serial reader and a thread that computes and exits.
SPECIFICATION FairSpec
CONSTANTS
  Idle = Idle
  None = None
  second = second
  third = third
  tlay2 = tlay2
  worker = worker
  Tasks = {second, tlay2, worker}
  Sleepers = {second}
  Reader = tlay2
  Exiters = {worker}
  Delays = {1, 2}
  RxMax = 2
INVARIANTS SchedInv
PROPERTIES ByteIsRead ReadyRuns
