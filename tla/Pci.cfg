\* Two sockets.
SPECIFICATION FairSpec
CONSTANTS
  Top = 64
  Page = 2
  MinAddr = 10
  Buses = 2
  Slots = 2
  Funcs = 3
  Machines <- MCMachines
  LowMemory = {0, 30, 63}
  Sockets = {1, 2}
  None = None
INVARIANTS OneDriverEach RegionsApart
PROPERTIES ScanEnds EventServed
CHECK_DEADLOCK FALSE
