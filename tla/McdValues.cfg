SPECIFICATION Spec
CONSTANTS
  LineWords <- MCLineWords
  Filtered = {"dram"}
  WritesFirst = {"dram"}
  SlotLines = 4
  Addresses = {1, 2}
  SmallAddresses = {}
  SplitLength = 2
  AccFilterEntries = 2
  FifoDepth = 1
  MdDepth = 4
  Keys = {a, b}
  Lengths = {2, 3}
  MaxPackets = 3
  Requests <- MCRequests
  KeyDepth = 2
  ValueDepth = 2
SYMMETRY KeySymmetry
CHECK_DEADLOCK FALSE
INVARIANTS WaitingIsExpected AnswersWhole AnswersRight NeverStuck
