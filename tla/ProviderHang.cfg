SPECIFICATION FairSpec
CONSTANTS
  Consumers = {c1}
  MaxQueue = 1
  MaxCalls = 2
  MaxLoops = 2
PROPERTY EveryCallReturns
CHECK_DEADLOCK FALSE
