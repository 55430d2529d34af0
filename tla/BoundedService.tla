--------------------------- MODULE BoundedService ---------------------------
(***************************************************************************)
(* What a request/response ring pair promises to its users: a service that *)
(* holds a bounded set of outstanding requests.  A request is accepted     *)
(* once, only while fewer than Capacity are outstanding, and every         *)
(* completion is that of an outstanding request, once.                     *)
(***************************************************************************)
EXTENDS FiniteSets, Integers

CONSTANTS Msgs,      \* requests a user may submit
          Capacity   \* how many may be outstanding

VARIABLE outstanding \* accepted requests whose callback has not run

Init == outstanding = {}

Accept(m) ==
  /\ m \in Msgs \ outstanding
  /\ Cardinality(outstanding) < Capacity
  /\ outstanding' = outstanding \cup {m}

Complete(m) ==
  /\ m \in outstanding
  /\ outstanding' = outstanding \ {m}

Next == \E m \in Msgs : Accept(m) \/ Complete(m)

Spec == Init /\ [][Next]_outstanding

=============================================================================
