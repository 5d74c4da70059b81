SPECIFICATION MCFairSpec
CONSTANTS
  SeqMod = 16
  Isn = 13
  Isns = {5}
  PeerIsn = 15
  Mms = 2
  MaxRetries = 1
  QueueDepth = 2
  WriteSizes = {1}
  Plans <- RacePlans
CHECK_DEADLOCK FALSE
PROPERTIES Delivered
