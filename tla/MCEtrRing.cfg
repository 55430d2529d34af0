SPECIFICATION FairSpec
CONSTANTS
  Empty = Empty
  Senders = {s1, s2}
  Msgs = {m1, m2, m3, m4}
  TxSlots = 4
  RxSlots = 4
  Quotas = {0, 1, 2}
INVARIANT IndInv
PROPERTY ServiceSpec
PROPERTY EveryRequestCompletes
