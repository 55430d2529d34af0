--------------------------------- MODULE MCHost -------------------------------
(* Five independent parts of the host, instantiated for TLC: the table of    *)
(* devices, the start of user processes, the services of one process, the    *)
(* rings of one bundle, a compression session.  A behaviour moves one of     *)
(* them; the others stay as they begin.                                      *)
EXTENDS DevTable, UserStart, SalEvents, UioRings, DcSession, TLC

CONSTANTS pfa, pfb, vfa, vfb, proc, child, t1, t2, t3, u1, u2

MCPfOf == (vfa :> pfa) @@ (vfb :> pfb)
MCDriverOf == (vfa :> "c62xvf") @@ (vfb :> "dh895xccvf")
MCProcOf == (t1 :> proc) @@ (t2 :> proc) @@ (t3 :> child)
\* The second device's number is not its id, as after a VF went to a guest.
MCAccelId == (0 :> 0) @@ (1 :> 2)
\* Two processes with rings of their own, and two configured for the same ring.
MCPlans == {(u1 :> {i}) @@ (u2 :> {j}) : i, j \in 0..1} \ {(u1 :> {1}) @@ (u2 :> {1})}
\* A device stops and comes back, or one more call is made.
MCStartBounds ==
  {[calls |-> 4, toggles |-> 0, faults |-> 1], [calls |-> 3, toggles |-> 1, faults |-> 1]}
\* A fault, or a new process where one died.
MCRingBounds ==
  {[puts |-> 1, faults |-> 1, spawns |-> 0], [puts |-> 1, faults |-> 0, spawns |-> 1]}
\* A stateful stream of one direction, called either way, one session for both
\* directions, and a stateless session, whose requests do not depend on the flush.
MCSessions ==
  {[stateful |-> TRUE, sync |-> s, dirs |-> {"decomp"}, flushes |-> {"none", "full", "final"}] :
     s \in BOOLEAN}
  \cup {[stateful |-> TRUE, sync |-> FALSE, dirs |-> Dirs, flushes |-> {"final"}],
        [stateful |-> FALSE, sync |-> FALSE, dirs |-> {"comp"}, flushes |-> {"final"}]}
\* u1 and u2 stand for the processes that share a bundle, and in the part of the
\* session for its two calling threads.
HostSymmetry == Permutations({t1, t2}) \cup Permutations({u1, u2})

VARIABLE part
hostVars == <<part, tabVars, usrVars, salVars, uioVars, dcVars>>

HostInit ==
  /\ part \in {"table", "names", "events", "rings", "dc"}
  /\ TabInit /\ UsrInit /\ SalInit /\ UioInit /\ DcInit
  /\ part # "names" => up = Devs /\ hosts = {} /\ ~limited /\ limit.toggles = 0
  /\ part # "rings" => plan = [u \in Users |-> {0}] /\ left.spawns = 0
  /\ part # "dc" => ~dc.stateful

HostNext ==
  \/ part = "table" /\ TabNext /\ UNCHANGED <<part, usrVars, salVars, uioVars, dcVars>>
  \/ part = "names" /\ UsrNext /\ UNCHANGED <<part, tabVars, salVars, uioVars, dcVars>>
  \/ part = "events" /\ SalNext /\ UNCHANGED <<part, tabVars, usrVars, uioVars, dcVars>>
  \/ part = "rings" /\ UioNext /\ UNCHANGED <<part, tabVars, usrVars, salVars, dcVars>>
  \/ part = "dc" /\ DcNext /\ UNCHANGED <<part, tabVars, usrVars, salVars, uioVars>>

HostSpec == HostInit /\ [][HostNext]_hostVars
===============================================================================
