CONSTANTS
  MaxSession = 1
  AckTime = 2
  SourceDepth = 2
  DelayDepth = 2
  TxDepth = 2
  TokenDepth = 1
  CounterMod = 4
  RxBudget = 2
  TimerBudget = 1
  AppBudget = 1
SPECIFICATION MCSpec
INVARIANTS CountersTrue NeverBlocks AckUnderWay
PROPERTY EventsDrain
