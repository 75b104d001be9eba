SPECIFICATION FairSpec
CONSTANTS
  Workers = {w}
  QueueSize = 2
  Tasks = {t1, t2}
  Targets = {"SELF_TEST", "ESTOP"}
  Genesis = Genesis
  Torn = Torn
  Clerk = clerk
  MaxNumber = 3
  MaxIncidents = 3
INVARIANTS StateIsAnnounced AuditIsComplete AuditIsOnDisk
PROPERTIES TransitionsEnd
CHECK_DEADLOCK FALSE
