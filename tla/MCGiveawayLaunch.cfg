SPECIFICATION FairSpec
CONSTANTS
  g1 = g1
  g2 = g2
  Giveaways = {g1, g2}
  Outputs = {o1, o2}
  For <- BothForOne
  Passes = {p1}
  Studios = {s1}
  Creators = {alice, bob}
  alice = alice
  bob = bob
  CreatorOf <- OneEach
  MaxUnfunded = 1
  Cutoff = 1
  Horizon = 2
  MaxLead = 1
  MaxFaults = 1
  None = None
INVARIANTS TypeOK SharedTerms OneFamily
PROPERTIES FundedGoesLive
CONSTRAINT CreatedFirst
CHECK_DEADLOCK FALSE
