CONSTANTS
  NULL = NULL
  Updates = {1, 2}
  Drafts = {11}
  Creators = {c1}
  Workspace = workspace
  Handlers = {h1, h2}
  Budget = 1
  Reserve = 1
  Costs = {0}
  MaxMonth = 2
  MaxFaults = 1
SPECIFICATION FairSpec
INVARIANTS TypeOK MadeOnce DraftsAreHonoured AcknowledgedIsHandled SpendingIsBooked
PROPERTIES EveryUpdateIsProcessed
CHECK_DEADLOCK FALSE
