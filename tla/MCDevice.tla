------------------------------- MODULE MCDevice -------------------------------
(***************************************************************************)
(* Instances of Device for TLC.  Each scenario says which calls the        *)
(* threads make, how many, and which calls of the routines can fail.       *)
(***************************************************************************)
EXTENDS Device

NoCalls == [ctl |-> {}, pci |-> {}, err |-> {}]
NoneLeft == [ctl |-> 0, pci |-> 0, err |-> 0]

\* Everything that can fail inside init, start, stop and shutdown.
RoutineFaults == {"etr", "admin", "arb", "ae", "fw", "irq", "params", "svcinit", "aestart",
                  "svcstart", "sysfs", "uio", "ext", "algs", "svcstop", "svcshutdown", "config"}

\* The ioctls, and an autoreset beside fewer of them; one call of the routines
\* fails, anywhere.
Ioctls(n, errors) ==
  [calls |-> [NoCalls EXCEPT !.ctl = {"config", "start", "stop", "reset"}, !.err = {"error"}],
   left |-> [NoneLeft EXCEPT !.ctl = n, !.err = errors],
   user |-> FALSE, others |-> 0,
   faults |-> RoutineFaults \cup {"setupirq", "record"}, maxFaults |-> 1]

\* SR-IOV on and off and a stop, with another PF that has virtual functions or
\* without.
Functions(n) ==
  [calls |-> [NoCalls EXCEPT !.ctl = {"stop"}, !.pci = {"sriov_on", "sriov_off"}],
   left |-> [NoneLeft EXCEPT !.ctl = 1, !.pci = 3],
   user |-> FALSE, others |-> n,
   faults |-> {"config", "fw", "svcinit", "aestart", "uio", "save", "restore", "vfalloc",
               "pfwq", "pciiov"}, maxFaults |-> 2]

\* SR-IOV beside an autoreset and a user.
FunctionsReset ==
  [calls |-> [NoCalls EXCEPT !.pci = {"sriov_on", "sriov_off"}, !.err = {"error"}],
   left |-> [NoneLeft EXCEPT !.pci = 2, !.err = 1],
   user |-> TRUE, others |-> 0,
   faults |-> {"config", "svcinit"}, maxFaults |-> 1]

\* Recovery after a PCI error beside a reset by ioctl and an autoreset, with a user.
Recovery == [calls |-> [NoCalls EXCEPT !.ctl = {"reset"}, !.pci = {"slot_reset"}, !.err = {"error"}],
             left |-> [ctl |-> 1, pci |-> 1, err |-> 1],
             user |-> TRUE, others |-> 0,
             faults |-> {"fw", "aestart", "record", "timeout"}, maxFaults |-> 2]

MCScenarios == {Ioctls(3, 0), Ioctls(2, 1), Recovery, FunctionsReset}
                 \cup {Functions(n) : n \in 0..1}
===============================================================================
