SPECIFICATION Spec
CONSTANTS
  W = 3
  B = 9
  CmdDepth = 1
  DataDepth = 1
  MaxWrites = 2
  MaxReads = 3
  MaxFailures = 1
  Base = {4, 8}
CHECK_DEADLOCK FALSE
INVARIANTS AccessesFit BytesKeepPlace NeverStuck
