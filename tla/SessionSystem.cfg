CONSTANTS
  Byte = 2
  FifoDepth = 2
  MaxSessions = 2
  Peers = {a}
  None = None
  SegmentPorts = {1, 2}
  PacketBudget = 2
  ListenBudget = 1
  OpenBudget = 3
  TimeOutBudget = 1
  TotalBudget = 4
SPECIFICATION MCSpec
INVARIANTS IdsAccounted CamMirrors AnswersInOrder
PROPERTY EverythingServed
CHECK_DEADLOCK FALSE
