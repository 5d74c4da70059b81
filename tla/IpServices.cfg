SPECIFICATION Spec
CONSTANTS
  Size <- MCSize
  Scenarios <- MCScenarios
  MaxDatagramSize = 28
  SumMod = 32
  EchoRequest = 8
  Broadcast = 9
  Gateway = 1
  Subnet = {1, 2}
  BroadcastMac = 99
  OurMac = 77
CHECK_DEADLOCK FALSE
INVARIANTS PacketsStayWhole FramesLeaveRight RestIsServed
