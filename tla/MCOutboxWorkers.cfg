CONSTANTS
  creator = creator
  reminder1 = reminder1
  reminder2 = reminder2
  reader = reader
  rule1 = rule1
  NULL = NULL
  Rows = {1}
  KindOf <- ResultRows
  ChatOf <- OfReader
  Connections = {}
  Subscriptions = {reminder1, reminder2}
  Users = {reader}
  UserOf <- OneReader
  Rules = {}
  Matches <- AllMatch
  OneShot = {}
  Workers = {w1, w2}
  Handlers = {h1, h2}
  MaxAttempts = 2
  BatchSize = 1
  WatchLimit = 1
  MaxFaults = 2
SPECIFICATION Spec
SYMMETRY Symmetric
INVARIANTS TypeOK RetriesAreCounted WatchLimitKept
PROPERTIES OneMessageWithoutFaults SentIsFinal
