SPECIFICATION FairSpec
CONSTANTS
  a = a
  Entries = {a}
  Shards <- OneShard
  ShardOf <- One
  Capacity = 2
  ClosesAt = 3
  Target = 4
  ReturnAt = 6
  None = None
  Executors = {x1}
  Conf = 1
  MaxScore = 7
  MaxForks = 1
  MaxDepth = 1
  MaxFaults = 1
  MaxRestarts = 0
INVARIANTS TypeOK PlannedBeforeSent
PROPERTIES SettlementIsSubmitted
CHECK_DEADLOCK FALSE
