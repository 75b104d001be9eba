SPECIFICATION Spec
CONSTANTS
  HeartbeatTimeout = 2
  NonFinite = NonFinite
  Missing = Missing
  MaxSequence = 7
  MaxAuthorizations = 3
  Ages <- MCAges
  Envelope <- MCEnvelope
  Candidates <- MCCandidates
  AllDynamics <- MCDynamics
INVARIANTS LatchIsExplained CurrentAuthorizationIsPermitted StopsAlwaysLatch
PROPERTIES CausesForgottenOnlyByReset ImplementsEmergencyStop ApprovedMotionIsSafe
