------------------------------ MODULE BlockPool ------------------------------
(***************************************************************************)
(* What a memory pool promises its clients (lac_mem_pools.h): a block is   *)
(* in the pool or handed out, never both; taking a block and giving it     *)
(* back are single, indivisible events.                                    *)
(***************************************************************************)
CONSTANT Blocks

VARIABLES pool,  \* blocks that can be taken
          owned  \* blocks handed out

bvars == <<pool, owned>>

Init == pool = {} /\ owned = {}

\* The pool is filled, one new block at a time.
Add(b) ==
  /\ b \notin pool \cup owned
  /\ pool' = pool \cup {b}
  /\ UNCHANGED owned

\* A block of the pool is freed; no client has it.
Drop(b) ==
  /\ b \in pool
  /\ pool' = pool \ {b}
  /\ UNCHANGED owned

Take(b) ==
  /\ b \in pool
  /\ b \notin owned
  /\ pool' = pool \ {b}
  /\ owned' = owned \cup {b}

Give(b) ==
  /\ b \in owned
  /\ b \notin pool
  /\ pool' = pool \cup {b}
  /\ owned' = owned \ {b}

Next == \E b \in Blocks : Add(b) \/ Drop(b) \/ Take(b) \/ Give(b)

Spec == Init /\ [][Next]_bvars
=============================================================================
