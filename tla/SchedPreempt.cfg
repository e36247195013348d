\* The comment at timerPIT.cpp:57-59 against what the handler does.
SPECIFICATION Spec
CONSTANTS
  Idle = Idle
  None = None
  second = second
  third = third
  tlay2 = tlay2
  worker = worker
  Tasks <- ThreeSleepers
  Sleepers <- TwoSleepers
  Reader <- None
  Exiters <- Worker
  Delays = {2, 3}
  RxMax = 1
PROPERTIES PreemptsWhenNotIdle
