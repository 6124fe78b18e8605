CONSTANTS
  Nothing = Nothing
  Site = {s1, s2}
  Scheduler = {e}
  Request = {r}
  Jobs = {"on", "off", "compat_on", "compat_off", "isolate", "release"}
  MaxJobs = 2
  MaxFaults = 1
SPECIFICATION FairQuota
PROPERTIES HoldsSound OverQuotaSuspends SuspensionsClose
CHECK_DEADLOCK FALSE
