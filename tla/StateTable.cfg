CONSTANTS
  Sessions = {s1, s2}
  None = None
  FifoDepth = 2
  RxBudget = 2
  TxBudget = 2
  QueryBudget = 1
  TimerBudget = 1
SPECIFICATION MCFairSpec
INVARIANTS LocksDisjoint ReadStaysCurrent
PROPERTIES AtomicUpdates Drains DeferredCloseHappens
CHECK_DEADLOCK FALSE
