SPECIFICATION MCSpec
CONSTANTS
  a = a
  b = b
  f = f
  h = h
  x = x
  y = y
  p1 = p1
  p2 = p2
  None = None
  Proc = {p1, p2}
  Readers = {r1, r2, r3}
  MaxDrops = 1
  Gid = {g1, g2}
  Req <- Callers
  MaxLost = 1
  Stream <- Streams2
  Ports <- Ports2
  AdminReq = {}
  Pass = p
  MaxOps = 2
SYMMETRY Symmetry
INVARIANTS CacheSound 
PROPERTY NothingLiveRemoved
CHECK_DEADLOCK FALSE
