CONSTANTS
  creator = creator
  reminder1 = reminder1
  reminder2 = reminder2
  reader = reader
  rule1 = rule1
  NULL = NULL
  Rows = {1, 2}
  KindOf <- ClaimRows
  ChatOf <- OfCreator
  Connections = {creator}
  Subscriptions = {}
  Users = {reader}
  UserOf <- OneReader
  Rules = {rule1}
  Matches <- AllMatch
  OneShot = {rule1}
  Workers = {w1}
  Handlers = {}
  MaxAttempts = 2
  BatchSize = 2
  WatchLimit = 1
  MaxFaults = 1
SPECIFICATION FairSpec
PROPERTIES EveryRowIsSettled ShutChatGetsOneMore RuleCompletesOnDelivery
