SPECIFICATION Spec
CONSTANTS
  Packets <- MCPackets
  MaxPackets = 3
  Depth = 1
  DataDepth = 2
  PendingDepth = 1
CHECK_DEADLOCK FALSE
INVARIANTS PayloadIsItsOwn ToldIsWritten NeverStuck
