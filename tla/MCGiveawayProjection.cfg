SPECIFICATION Spec
CONSTANTS
  a = a
  Entries = {a}
  Shards <- OneShard
  ShardOf <- One
  Capacity = 2
  ClosesAt = 3
  Target = 4
  ReturnAt = 5
  None = None
  Workers = {w1, w2}
  Conf = 1
  Faults = {"VSPC_PARSE_ERROR", "VSPC_NETWORK_ERROR"}
  StorageFaults = {"P2034"}
  MaxScore = 6
  MaxForks = 1
  MaxDepth = 2
  MaxFaults = 1
CONSTRAINT FewEmpty
SYMMETRY Symmetric
INVARIANTS TypeOK JournalIsExact ReconstructionMatchesContract CursorStandsOnChain GivenUpForCause
PROPERTIES NeverRewinds
CHECK_DEADLOCK FALSE
