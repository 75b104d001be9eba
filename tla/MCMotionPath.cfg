SPECIFICATION Spec
CONSTANTS
  HostTimeout = 2
  CommandTtl = 1
  Authorizations = {a, b}
  NoId = NoId
  SeqModulus = 8
  ClockModulus = 8
  RobotTimeout = 1
  MaxLoopTime = 1
  ManualResets = TRUE
  MaxTime = 2
  MaxSequence = 2
  MaxFaults = 2
  MaxRequests = 4
SYMMETRY Symmetric
INVARIANTS StoppedMeansStopped MotionsHappenAsTold
