SPECIFICATION FairSpec
CONSTANTS
  Threads = {t1, t2}
  Blocks = {b1, b2, b3}
  NULL = NULL
  CtrMod = 4
  SizeMod = 8
  Stall = 3
INVARIANTS CountSettles PoolInv
PROPERTIES LockFree
CHECK_DEADLOCK FALSE
