\* A thread that sleeps and sends, and the reader, which replies.
SPECIFICATION MutexSpec
CONSTANTS
  Idle = Idle
  None = None
  first = first
  third = third
  tlay2 = tlay2
  Tasks = {third, tlay2}
  Sleepers = {third}
  Reader = tlay2
  Exiters = {}
  Delays = {2}
  RxMax = 1
  Senders = {third, tlay2}
INVARIANTS CountMatches HolderRuns
