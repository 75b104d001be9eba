SPECIFICATION FairMonitorSpec
CONSTANTS
  Workers = {w}
  QueueSize = 2
  Components = {drive, camera}
  Critical = {drive}
  Conditions = {"HEALTHY", "raises", "hangs"}
  Task = task
  Callers = {caller}
  MaxIncidents = 3
INVARIANTS KnowsWhatItAnnounced StaleOnlyIfOvertaken
PROPERTIES LastingStatusIsAnnounced
CHECK_DEADLOCK FALSE
