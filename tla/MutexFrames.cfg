\* The frame of tlay2.cpp:8-13 against the mutex that guards it.
SPECIFICATION MutexSpec
CONSTANTS
  Idle = Idle
  None = None
  first = first
  third = third
  tlay2 = tlay2
  Tasks = {third, tlay2}
  Sleepers = {third}
  Reader = tlay2
  Exiters = {}
  Delays = {2}
  RxMax = 1
  Senders = {third, tlay2}
INVARIANTS FramesIntact
