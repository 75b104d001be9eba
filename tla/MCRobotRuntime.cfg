SPECIFICATION Spec
CONSTANTS
  SeqModulus = 6
  ClockModulus = 7
  HeartbeatTimeout = 2
  MaxLoopTime = 2
  CommandIds = {a, b}
  NoId = NoId
  ManualInputs = TRUE
  MaxSilence = 6
  MaxAccepted = 2
INVARIANTS NeverReadyAgainstInputs WatchdogDeadline ReplayWindow
PROPERTIES ImplementsEmergencyStop MotionNeedsLiveHeartbeat
