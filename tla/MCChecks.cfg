SPECIFICATION ChecksSpec
CONSTANTS
  NonFinite = NonFinite
  Missing = Missing
  arm = arm
  hand = hand
  Infinity = 1000
  Requests <- MCRequests
  AllSettings <- MCAllSettings
  Motions <- MCMotions
  Absent = Absent
  Evidences <- MCEvidences
  Configs <- MCConfigs
  Results <- MCResults
  Calibrations <- MCCalibrations
  Angles <- MCAngles
  MaxRuns = 2
  AngleWidth = 4
  WaveWindow = 5
  Telemetry <- MCTelemetry
  MaxSamples = 6
  MaxSpeeches = 3
  Window = 1
  Modulus = 5
  MaxLag = 2
  MaxTime = 5
  Gestures <- MCGestures
  Voices <- MCVoices
  Answers <- MCAnswers
  Profile <- MCProfile
  Plant <- MCPlant
  Commands <- MCCommands
  MaxSteps = 9
INVARIANTS ApprovesExactlySafeMotion FilesGovernMotion PermitIsEarned GuardKeepsCalibration GestureIsSound SpeechesAreAccounted BehaviorIsGrounded TwinIsTruthful
CHECK_DEADLOCK FALSE
