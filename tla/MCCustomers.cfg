SPECIFICATION MCSpec
CONSTANTS
  u1 = u1
  u2 = u2
  e1 = e1
  e2 = e2
  s1 = s1
  s2 = s2
  c1 = c1
  c2 = c2
  k1 = k1
  k2 = k2
  r1 = r1
  r2 = r2
  r3 = r3
  q1 = q1
  q2 = q2
  q3 = q3
  User = {u1, u2}
  Email = {e1, e2}
  Req = {r1, r2, r3}
  None = None
  MaxTries = 1
  MaxUses = 1
  MaxCodes = 3
  MailInTime = TRUE
  Site = {s1, s2}
  Domain = {d1, d2}
  Claiming = {k1, k2}
  Limit = 1
  MaxChallenges = 1
  MaxEvents = 1
  Plan = {p1}
  Voucher = {c1, c2}
  Redeeming = {q1, q2, q3}
  MaxLimit = 2
SYMMETRY Symmetry
INVARIANTS UsesCounted ProofsStand
PROPERTY SettledForGood
CHECK_DEADLOCK FALSE
