SPECIFICATION SubscriptionSpec
CONSTANTS
  Subs = {s1, s2}
  NoSub = NoSub
  Calls = {c1, c2}
  Sweeps = {x1, x2}
  Portfolios <- MCPortfolios
  Starts = {"active"}
  MaxChanges = 2
  MaxTotal = 3
  MaxOwed = 1
  MaxFaults = 1
SYMMETRY Symmetric
CHECK_DEADLOCK FALSE
INVARIANTS
  SubscriptionTypeOK
  AnsweredMeansTrue
  PlanIsPaidFor
  MonthIsMailedOnce
PROPERTIES
  SeedIsStored
