SPECIFICATION MCSpec
CONSTANTS
  Account = {d, e}
  Env = d
  Package = {k}
  Plan = {g, h}
  Sub = {1, 2}
  Thing = {x}
  Job = {j}
  Orphan = FALSE
  Proc = {p1, p2}
  Watched = {d}
  Task = {t}
  MaxTime = 1
  MaxSecret = 2
  Apart = TRUE
  None = None
SYMMETRY Symmetry
INVARIANTS RoutesSound ClientsSound
CHECK_DEADLOCK FALSE
