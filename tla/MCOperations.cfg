CONSTANTS
  None = None
  Node = {n1, n2}
  QueueLimit = 2
  Retention = 1
  MaxJobs = 5
  MaxBackups = 4
  MaxFaults = 1
  Asked = {"delete_backup", "restore"}
SPECIFICATION FairSpec
INVARIANTS RevivedUnserved RestoreSound JobsSound
PROPERTIES QueueDrains RestoreAccounted
CHECK_DEADLOCK FALSE
