SPECIFICATION Spec
CONSTANTS
  Para = 4
  PtrIsr = {5, 7}
  PtrLc = {9, 12}
  PtrStack = 31
  ivt <- MCivt
  Memory <- MCMemory
  OwnStack <- MCOwnStack
  Jumps <- MCJumps
  Pushed = {15}
  Args = 2
  MaxDepth = 4
  IODepth = 0
INVARIANTS FlagsPinned StrayOnlyOutside
PROPERTIES SeesRealMode
CHECK_DEADLOCK FALSE
