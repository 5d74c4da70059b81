SPECIFICATION Spec
CONSTANTS
  Depth = 1
  DataDepth = 4
  HeaderDepth = 6
  PacketDataDepth = 3
  Ports = {1, 2}
  HeldPort = 1
  SentPackets <- MCSent
  ForeignPackets <- MCForeign
  MaxPackets = 2
  MaxPortCalls = 2
CHECK_DEADLOCK FALSE
INVARIANTS PacketsKeepApart RestIsDelivered
