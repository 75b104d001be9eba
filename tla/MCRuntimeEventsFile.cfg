SPECIFICATION Spec
CONSTANTS
  Workers = {w}
  QueueSize = 2
  Tasks = {t1, t2}
  Targets = {"SELF_TEST", "ESTOP"}
  Genesis = Genesis
  Torn = Torn
  Clerk = clerk
  MaxNumber = 2
  MaxIncidents = 2
INVARIANTS FileIsNumberedUpwards
CHECK_DEADLOCK FALSE
