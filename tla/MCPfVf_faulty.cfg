SPECIFICATION Spec
CONSTANTS
  Block <- MCBlock
  Crc <- adf_pfvf_crc
  MsgMaxRetries = 3
  RespRetries = 2
  Scenarios <- Faulty
INVARIANT NotificationHandled
INVARIANT UpIsKnown
INVARIANT BlockIntegrity
INVARIANT VersionsAgreed
CHECK_DEADLOCK FALSE
