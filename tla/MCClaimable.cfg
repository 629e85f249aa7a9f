CONSTANTS
  o1 = o1
  o2 = o2
  NULL = NULL
  Outputs = {o1, o2}
  AmountOf <- TwoAmounts
  Planned = 1
  Floor = 1
  Claimants = {c1}
  Users = {u1}
  Workers = {w1}
  Recheck = 1
  MaxFaults = 1
SPECIFICATION FairSpec
INVARIANTS TypeOK ClosedIsSpent FundingFits
PROPERTIES FollowsLifecycle UnclaimedReturns
CHECK_DEADLOCK FALSE
CONSTRAINT NotLost
