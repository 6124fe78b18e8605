SPECIFICATION MCSpec
CONSTANTS
  Site = {1, 2, 3}
  Account = {m, n}
  Stream = {f, g}
  Port = {p, q}
  None = None
  MaxChanges = 2
  User = {u, v}
  Req = {r1, r2}
  MaxMade = 2
  Alike = TRUE
  Remote = {"usage", "ranking"}
  Local = {"login_logs"}
  Web = {w1, w2}
  Rule = {a1, a2}
  Cert = {c1}
  MaxStamp = 6
  Patient = TRUE
SYMMETRY Symmetry
INVARIANTS AnswersOwn RequestsOwn
PROPERTY LateAnswersHarmless
CHECK_DEADLOCK FALSE
