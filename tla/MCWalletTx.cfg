CONSTANTS
  t1 = t1
  t2 = t2
  t3 = t3
  u1 = u1
  u2 = u2
  k1 = k1
  None = None
  Tx = {t1, t2, t3}
  User = {u1, u2}
  Code = {k1}
  Value <- MCValue
  MaxUses <- MCMaxUses
  Price = {0, 1}
  Change <- MCChange
  MaxBalance = 2
SPECIFICATION Spec
INVARIANTS TypeOK BookSound OrdersSettled CodesSound
PROPERTY LedgerSpec
SYMMETRY Alike
CHECK_DEADLOCK FALSE
