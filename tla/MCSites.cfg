CONSTANTS
  None = None
  User = {u1, u2}
  Domain = {d1, d2}
  Call = {c1, c2}
  Admin = {}
  Limit = 1
  MaxCalls = 2
  MaxFaults = 3
SPECIFICATION FairSpec
INVARIANTS OwnerSound CreatesSound LeftoversFew
PROPERTY RequestsAnswered
CHECK_DEADLOCK FALSE
