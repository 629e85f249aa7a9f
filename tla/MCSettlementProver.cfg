SPECIFICATION Spec
CONSTANTS
  a = a
  Entries = {a}
  Shards <- OneShard
  ShardOf <- One
  Capacity = 2
  ClosesAt = 3
  Target = 4
  ReturnAt = 6
  None = None
  Executors = {x1}
  Conf = 1
  MaxScore = 7
  MaxForks = 0
  MaxDepth = 1
  MaxFaults = 0
  MaxRestarts = 1
INVARIANTS SurvivesProverRestart
CHECK_DEADLOCK FALSE
