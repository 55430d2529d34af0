-------------------------------- MODULE MCPfVf --------------------------------
(* Instances of PfVf for TLC. *)
EXTENDS PfVf, PfVfCrc

\* A block of the second version: eight bytes, some of them equal.
MCBlock == <<2, 8, 1, 0, 0, 0, 47, 62, 1, 0>>

Scenario(pf, vf, faults, l, n, e) ==
  [pfVersion |-> pf, vfVersion |-> vf, faults |-> faults,
   lives |-> l, notes |-> n, early |-> e]

\* Everything is in time, for every pair of versions.
Quiet == {Scenario(3, 3, {}, 2, 0, 0), Scenario(2, 3, {}, 2, 0, 0), Scenario(3, 2, {}, 2, 0, 0)}

\* A notification over two lives of the VF, and over one with mixed versions;
\* two late responses; early timeouts and lost interrupts with a notification;
\* a second notification while the VF may still be at the first; a guest that
\* is killed.
Faulty == {Scenario(3, 3, {}, 2, 1, 0),
           Scenario(2, 3, {}, 1, 1, 0), Scenario(3, 2, {}, 1, 1, 0),
           Scenario(3, 3, {"resp_timeout"}, 1, 0, 2),
           Scenario(3, 3, {"ack_timeout", "ratelimit", "nomem"}, 1, 1, 1),
           Scenario(1, 3, {"ack_timeout"}, 1, 2, 1),
           Scenario(3, 3, {"crash"}, 2, 0, 0)}

\* One notification at any moment; and that with every scenario of Quiet.
OneNote == {Scenario(3, 3, {}, 1, 1, 0)}
QuietOrNote == Quiet \cup OneNote

NoMemory == {Scenario(3, 3, {"nomem"}, 1, 0, 0)}
===============================================================================
