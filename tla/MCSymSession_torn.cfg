SPECIFICATION Spec
CONSTANTS
  Threads = {t1, t2}
  Streamer = t1
  t1 = t1
  t2 = t2
  None = None
  Scenarios <- TornScenarios
INVARIANT OneBlocking
CHECK_DEADLOCK FALSE
