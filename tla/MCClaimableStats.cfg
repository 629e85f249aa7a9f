CONSTANTS
  o1 = o1
  o2 = o2
  NULL = NULL
  Outputs = {o1, o2}
  AmountOf <- TwoAmounts
  Planned = 1
  Floor = 1
  Claimants = {c1}
  Users = {u1, u2}
  Workers = {}
  Recheck = 1
  MaxFaults = 0
SPECIFICATION Spec
PROPERTIES ClosedIsFinal
CHECK_DEADLOCK FALSE
