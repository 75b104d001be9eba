SPECIFICATION Spec
CONSTANTS
  HostTimeout = 2
  CommandTtl = 1
  Authorizations = {a, b}
  NoId = NoId
  SeqModulus = 8
  ClockModulus = 8
  RobotTimeout = 2
  MaxLoopTime = 1
  ManualResets = FALSE
  MaxTime = 3
  MaxSequence = 4
  MaxFaults = 0
  MaxRequests = 4
PROPERTY BlockedMotionIsRefused
