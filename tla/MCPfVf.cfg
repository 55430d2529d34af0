SPECIFICATION FairSpec
CONSTANTS
  Block <- MCBlock
  Crc <- adf_pfvf_crc
  MsgMaxRetries = 3
  RespRetries = 2
  Scenarios <- QuietOrNote
INVARIANT ResponseFits
INVARIANT InUseOwned
PROPERTY NoOverwrite
PROPERTY BringUpEnds
PROPERTY InterruptsComeBack
CHECK_DEADLOCK FALSE
