SPECIFICATION Spec
CONSTANTS
  MaxPayload = 2
  Headroom = 8
  MaxChunk = 10
  SentPayloads <- MCSentPayloads
  DamageValues <- MCDamageValues
  MaxSent = 3
  MaxFaults = 1
  ByteBase = 16
  MaxJoints = 2
  NotFinite = NotFinite
  HostMessages <- MCHostMessages
  FirmwareMessages <- MCFirmwareMessages
  JointProtocolIds <- MCJointProtocolIds
  Authorizations <- MCAuthorizations
  OtherBytes <- MCOtherBytes
INVARIANTS FramesGetThrough NothingHidden CodecsAgree MotionIsUnaltered
CHECK_DEADLOCK FALSE
