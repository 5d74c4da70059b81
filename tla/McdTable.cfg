SPECIFICATION Spec
CONSTANTS
  Keys = {"a", "b"}
  BucketOf <- MCBuckets
  FlushBucket = 2
  NoBins = 2
  ConcFilterEntries = 2
  NoDram = 2
  NoFlash = 1
  Classes = {"small", "large"}
  FifoDepth = 1
  PopDepth = 1
  AssignDepth = 1
  ReturnDepth = 1
  Asked <- MCAsked
  MaxRequests = 3
  MaxFlushes = 2
CHECK_DEADLOCK FALSE
INVARIANTS AddressesAccounted NeverStuck
PROPERTY AtomicTable
