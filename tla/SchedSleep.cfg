\* Two sleepers and a thread that computes and exits; no serial input.
SPECIFICATION FairSpec
CONSTANTS
  Idle = Idle
  None = None
  second = second
  third = third
  tlay2 = tlay2
  worker = worker
  Tasks <- ThreeSleepers
  Sleepers <- TwoSleepers
  Reader <- None
  Exiters <- Worker
  Delays = {2, 3}
  RxMax = 1
INVARIANTS HaltSound DelayNotEarly ExitedStayExited NoTaskLost
PROPERTIES BootUndisturbed DelayEnds ReadyRuns
