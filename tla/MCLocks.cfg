CONSTANTS
  c1 = c1
  c2 = c2
  c3 = c3
  i1 = i1
  None = None
  Call = {c1, c2, c3}
  Key = {k1, k2}
  Instance = {i1}
  Inst <- MCInst
  SlotLimit = 2
  Tx = {t1, t2, t3}
  User = {u1}
  Code = {v1}
  MaxBalance = 2
SPECIFICATION MCSpec
INVARIANTS TypeOK MutualExclusion SlotsExact HoldersSound
PROPERTIES MutexSpec EveryoneGoesOn
CHECK_DEADLOCK FALSE
