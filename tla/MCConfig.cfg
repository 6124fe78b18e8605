SPECIFICATION MCSpec
CONSTANTS
  c1 = c1
  c2 = c2
  s1 = s1
  s2 = s2
  x1 = x1
  x2 = x2
  l1 = l1
  l2 = l2
  Nil = Nil
  Setting = {x1, x2}
  Default = {c1, c2}
  Changer = {q}
  MaxGroup = 1
  Name = {"old"}
  Upgraded = {}
  Kind = {"certs", "dnsapis", "acls", "sites"}
  Req = {r}
  Web = {s1, s2}
  Lister = {l1, l2}
  Odd = FALSE
SYMMETRY Symmetry
 
PROPERTY FieldsSound
CHECK_DEADLOCK FALSE
