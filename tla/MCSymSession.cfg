SPECIFICATION FairSpec
CONSTANTS
  Threads = {t1, t2}
  Streamer = t1
  t1 = t1
  t2 = t2
  None = None
  Scenarios <- AllScenarios
INVARIANTS BlockedByOne StreamsChain IvReturned ReferenceCount UpdateExclusive
PROPERTY AllAnswered
CHECK_DEADLOCK FALSE
