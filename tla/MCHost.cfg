SPECIFICATION HostSpec
CONSTANTS
  pfa = pfa
  pfb = pfb
  vfa = vfa
  vfb = vfb
  Pfs = {pfa, pfb}
  Vfs = {vfa, vfb}
  PfOf <- MCPfOf
  DriverOf <- MCDriverOf
  MaxDevices = 3
  MaxNoMem = 1
  MaxUnloads = 1
  MaxBinds = 2
  proc = proc
  child = child
  t1 = t1
  t2 = t2
  t3 = t3
  Procs = {proc, child}
  Threads = {t1, t2, t3}
  ProcOf <- MCProcOf
  Children = {child}
  Devs = {0, 1}
  AccelId <- MCAccelId
  NumProcesses = 2
  StartRefCountMax = 2
  StartBounds <- MCStartBounds
  MaxResets = 2
  MaxSalFaults = 2
  MaxStarts = 2
  u1 = u1
  u2 = u2
  Users = {u1, u2}
  Gap = 2
  Plans <- MCPlans
  RingBounds <- MCRingBounds
  Callers = {u1, u2}
  Sessions <- MCSessions
  MaxRequests = 3
  MaxDcResets = 1
  MaxDcFaults = 2
SYMMETRY HostSymmetry
CHECK_DEADLOCK FALSE
INVARIANT LookupTotal
INVARIANT FilesOwned
INVARIANT MapsOnce
INVARIANT InstancesKept
INVARIANT ContainersOwned
INVARIANT Settles
INVARIANT UsedExact
INVARIANT ArbFollowsOwner
INVARIANT QuietBeforeFree
INVARIANT DcCountExact
INVARIANT RemovedQuiet
INVARIANT StreamFramed
PROPERTY WaitsOnlyWhenFull
