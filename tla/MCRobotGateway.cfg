SPECIFICATION FairSpec
CONSTANTS
  Tasks = {a, b}
  SeqModulus = 5
  OutCapacity = 2
  InCapacity = 1
  Disturbances = {"late", "lost", "garbled", "stray", "cancelled", "hung_up", "closed"}
  MaxDisturbances = 3
INVARIANTS ReceiptIsGenuine RequestsTakeTurns
PROPERTIES RequestsEnd Recovers
CHECK_DEADLOCK FALSE
