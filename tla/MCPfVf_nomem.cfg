SPECIFICATION FairSpec
CONSTANTS
  Block <- MCBlock
  Crc <- adf_pfvf_crc
  MsgMaxRetries = 3
  RespRetries = 2
  Scenarios <- NoMemory
PROPERTY InterruptsComeBack
CHECK_DEADLOCK FALSE
