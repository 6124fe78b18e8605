CONSTANTS
  pass1 = pass1
  pass2 = pass2
  p1 = p1
  Nothing = Nothing
  Sub = {s1}
  Plan = {p1, p2}
  Days <- MCDays
  Once = {p1}
  Renewable = {p1, p2}
  GraceDays = 1
  Pass = {pass1, pass2}
  Call = {c}
  MaxTime = 2
  MaxOrders = 3
  MaxGifts = 1
  MaxEdits = 1
SPECIFICATION FairMCSpec
INVARIANTS PaidTimeSound ChargesSound PlansOnce
PROPERTY EndedSettles
CHECK_DEADLOCK FALSE
