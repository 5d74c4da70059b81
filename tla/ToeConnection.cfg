SPECIFICATION MCSpec
CONSTANTS
  SeqMod = 16
  Isn = 13
  Isns = {5}
  PeerIsn = 15
  Mms = 2
  MaxRetries = 1
  QueueDepth = 2
  WriteSizes = {1, 3}
  Plans <- SafetyPlans
CHECK_DEADLOCK FALSE
INVARIANTS SentIsWritten WindowKept NoGaps HandshakeAgreement TimeWaitEnds CloseIsTold
PROPERTIES AckdNeverBack
