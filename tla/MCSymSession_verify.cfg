SPECIFICATION FairSpec
CONSTANTS
  Threads = {t1, t2}
  Streamer = t1
  t1 = t1
  t2 = t2
  None = None
  Scenarios <- VerifyScenarios
PROPERTY QueuedIsSent
CHECK_DEADLOCK FALSE
