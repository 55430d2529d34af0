------------------------------- MODULE MemPool -------------------------------
(***************************************************************************)
(* A memory pool of the access layer (lac_mem_pools.c) over its lock-free  *)
(* stack (lac_lock_free_stack.h).  Any number of threads take and return   *)
(* blocks with a compare-and-swap on one word that packs a 48-bit pointer  *)
(* and a 16-bit counter; pNext of a block is written without protection.   *)
(* Pools are created and destroyed by one thread, untracked (every caller  *)
(* of Lac_MemPoolCreate passes trackMemory = CPA_FALSE).                   *)
(***************************************************************************)
EXTENDS Integers, Sequences, FiniteSets

CONSTANTS Threads,  \* threads that call Lac_MemPoolEntryAlloc and EntryFree
          Blocks,   \* the pool's memory blocks
          NULL,     \* no block
          CtrMod,   \* values of pointer_t.ctr: 2^16 in the code
          SizeMod,  \* values of availBlks: 2^64 in the code
          Stall     \* swaps by others between a thread's read of the top and
                    \* its compare-and-swap

\* The counter protects a thread that is overtaken by fewer than CtrMod
\* swaps: a bound on scheduling, 65535 swaps in the code.
ASSUME NullAssumption == NULL \notin Blocks
ASSUME CtrAssumption == CtrMod \in Nat /\ Stall \in Nat /\ Stall < CtrMod
ASSUME SizeAssumption == SizeMod \in Nat /\ SizeMod > 0
\* Every block has an address of its own, and a size_t holds any address.
ASSUME FiniteAssumption ==
  IsFiniteSet(Threads) /\ IsFiniteSet(Blocks) /\ Cardinality(Blocks) < SizeMod

VARIABLES
  phase,     \* the pool: being created, up, being cleaned up, gone
  heap,      \* blocks allocated from the system and not freed
  top,       \* stack->top: [ptr, ctr]
  pNext,     \* pNext of each block
  availBlks, \* availBlks of the pool header
  pc,        \* where each thread is in EntryAlloc or EntryFree
  old,       \* its old_top
  next,      \* its new_top.ptr while it pops
  val,       \* the block it has popped or is pushing
  app,       \* blocks in the hands of the pool's clients
  free,      \* auxiliary: the blocks of the stack, from the top
  age        \* auxiliary: swaps since the thread read old_top

vars == <<phase, heap, top, pNext, availBlks, pc, old, next, val, app, free,
          age>>
stackVars == <<top, pNext, free>>
poolVars == <<phase, heap>>

Ptr == Blocks \cup {NULL}
Top == [ptr : Ptr, ctr : 0 .. CtrMod - 1]
Elems(s) == {s[i] : i \in 1 .. Len(s)}

\* A thread that has read old_top and not yet swapped.
Snapshot(t) == pc[t] \in {"next", "popcas", "link", "pushcas"}

\* The new value of the top word: the counter is a 16-bit field.
Swapped(p) == [ptr |-> p, ctr |-> (top.ctr + 1) % CtrMod]

\* A successful compare-and-swap makes every other thread's old_top older.
\* No thread is overtaken more than Stall times.
Overtake(t) ==
  /\ \A u \in Threads \ {t} : Snapshot(u) => age[u] < Stall
  /\ age' = [u \in Threads |-> IF u = t THEN 0
                               ELSE IF Snapshot(u) THEN age[u] + 1 ELSE age[u]]

Init ==
  /\ phase = "create" /\ heap = {}
  /\ top = [ptr |-> NULL, ctr |-> 0]
  /\ pNext \in [Blocks -> {NULL}]
  /\ availBlks = 0
  /\ pc = [t \in Threads |-> "idle"]
  /\ old = [t \in Threads |-> [ptr |-> NULL, ctr |-> 0]]
  /\ next = [t \in Threads |-> NULL]
  /\ val = [t \in Threads |-> NULL]
  /\ app = {} /\ free = <<>>
  /\ age = [t \in Threads |-> 0]

threadVars == <<pc, old, next, val, app, age>>

----------------------------------------------------------------------------
(* Lac_MemPoolCreate and Lac_MemPoolCleanUpInternal, single-threaded.      *)

\* One turn of the allocation loop.
CreatePush(b) ==
  /\ phase = "create"
  /\ b \notin heap
  /\ heap' = heap \cup {b}
  /\ pNext' = [pNext EXCEPT ![b] = top.ptr]
  /\ top' = Swapped(b)
  /\ free' = <<b>> \o free
  /\ availBlks' = (availBlks + 1) % SizeMod
  /\ UNCHANGED <<phase, threadVars>>

\* The block could not be allocated: clean up and give up.
CreateFail ==
  /\ phase = "create"
  /\ heap # Blocks
  /\ phase' = "cleanup"
  /\ UNCHANGED <<heap, stackVars, availBlks, threadVars>>

CreateDone ==
  /\ phase = "create"
  /\ heap = Blocks
  /\ phase' = "up"
  /\ UNCHANGED <<heap, stackVars, availBlks, threadVars>>

\* Lac_MemPoolDestroy: not thread safe, no thread is in the pool.
Destroy ==
  /\ phase = "up"
  /\ \A t \in Threads : pc[t] = "idle"
  /\ phase' = "cleanup"
  /\ UNCHANGED <<heap, stackVars, availBlks, threadVars>>

\* The clean-up loop pops a block and frees its memory.
CleanupPop ==
  /\ phase = "cleanup"
  /\ top.ptr # NULL
  /\ heap' = heap \ {top.ptr}
  /\ top' = Swapped(pNext[top.ptr])
  /\ free' = Tail(free)
  /\ UNCHANGED <<phase, pNext, availBlks, threadVars>>

CleanupDone ==
  /\ phase = "cleanup"
  /\ top.ptr = NULL
  /\ phase' = "gone"
  /\ UNCHANGED <<heap, stackVars, availBlks, threadVars>>

----------------------------------------------------------------------------
(* Lac_MemPoolEntryAlloc: pop, one step per access to shared memory.       *)

\* old_top = stack->top; an empty stack returns CPA_STATUS_RETRY.
PopRead(t) ==
  /\ phase = "up"
  /\ pc[t] \in {"idle", "pop"}
  /\ pc' = [pc EXCEPT ![t] = IF top.ptr = NULL THEN "idle" ELSE "next"]
  /\ old' = [old EXCEPT ![t] = top]
  /\ age' = [age EXCEPT ![t] = 0]
  /\ UNCHANGED <<poolVars, stackVars, availBlks, next, val, app>>

\* new_top.ptr = next->pNext, of a block that may be someone else's by now.
PopNext(t) ==
  /\ pc[t] = "next"
  /\ next' = [next EXCEPT ![t] = pNext[old[t].ptr]]
  /\ pc' = [pc EXCEPT ![t] = "popcas"]
  /\ UNCHANGED <<poolVars, stackVars, availBlks, old, val, app, age>>

PopSwap(t) ==
  /\ pc[t] = "popcas"
  /\ top = old[t]
  /\ top' = Swapped(next[t])
  /\ free' = Tail(free)
  /\ val' = [val EXCEPT ![t] = old[t].ptr]
  /\ pc' = [pc EXCEPT ![t] = "sub"]
  /\ Overtake(t)
  /\ UNCHANGED <<poolVars, pNext, availBlks, old, next, app>>

\* Mutant: a failed swap is retried with the old snapshot.
PopMiss_Stale(t) ==
  /\ pc[t] = "popcas"
  /\ top # old[t]
  /\ pc' = [pc EXCEPT ![t] = "next"]
  /\ UNCHANGED <<poolVars, stackVars, availBlks, old, next, val, app, age>>

PopMiss(t) ==
  /\ pc[t] = "popcas"
  /\ top # old[t]
  /\ pc' = [pc EXCEPT ![t] = "pop"]
  /\ UNCHANGED <<poolVars, stackVars, availBlks, old, next, val, app, age>>

\* availBlks is decremented and the block goes to the client.
AllocReturn(t) ==
  /\ pc[t] = "sub"
  /\ availBlks' = (availBlks - 1) % SizeMod
  /\ app' = app \cup {val[t]}
  /\ val' = [val EXCEPT ![t] = NULL]
  /\ pc' = [pc EXCEPT ![t] = "idle"]
  /\ UNCHANGED <<poolVars, stackVars, old, next, age>>

----------------------------------------------------------------------------
(* Lac_MemPoolEntryFree: push.  Any thread may return any block that the   *)
(* clients hold.                                                           *)

FreeCall(t, b) ==
  /\ phase = "up"
  /\ pc[t] = "idle"
  /\ b \in app
  /\ app' = app \ {b}
  /\ val' = [val EXCEPT ![t] = b]
  /\ pc' = [pc EXCEPT ![t] = "push"]
  /\ UNCHANGED <<poolVars, stackVars, availBlks, old, next, age>>

PushRead(t) ==
  /\ pc[t] = "push"
  /\ old' = [old EXCEPT ![t] = top]
  /\ age' = [age EXCEPT ![t] = 0]
  /\ pc' = [pc EXCEPT ![t] = "link"]
  /\ UNCHANGED <<poolVars, stackVars, availBlks, next, val, app>>

\* val->pNext = PTR(old_top.ptr), before the block is in the stack.
PushLink(t) ==
  /\ pc[t] = "link"
  /\ pNext' = [pNext EXCEPT ![val[t]] = old[t].ptr]
  /\ pc' = [pc EXCEPT ![t] = "pushcas"]
  /\ UNCHANGED <<poolVars, top, free, availBlks, old, next, val, app, age>>

\* Mutant: the swap is a plain store; what others swapped since is undone.
PushSwap_Store(t) ==
  /\ pc[t] = "pushcas"
  /\ top' = Swapped(val[t])
  /\ free' = <<val[t]>> \o free
  /\ val' = [val EXCEPT ![t] = NULL]
  /\ pc' = [pc EXCEPT ![t] = "add"]
  /\ Overtake(t)
  /\ UNCHANGED <<poolVars, pNext, availBlks, old, next, app>>

PushSwap(t) ==
  /\ pc[t] = "pushcas"
  /\ top = old[t]
  /\ top' = Swapped(val[t])
  /\ free' = <<val[t]>> \o free
  /\ val' = [val EXCEPT ![t] = NULL]
  /\ pc' = [pc EXCEPT ![t] = "add"]
  /\ Overtake(t)
  /\ UNCHANGED <<poolVars, pNext, availBlks, old, next, app>>

PushMiss(t) ==
  /\ pc[t] = "pushcas"
  /\ top # old[t]
  /\ pc' = [pc EXCEPT ![t] = "push"]
  /\ UNCHANGED <<poolVars, stackVars, availBlks, old, next, val, app, age>>

\* Mutant: the count is not given back.
FreeReturn_NoAdd(t) ==
  /\ pc[t] = "add"
  /\ pc' = [pc EXCEPT ![t] = "idle"]
  /\ UNCHANGED <<poolVars, stackVars, availBlks, old, next, val, app, age>>

\* availBlks is incremented after the block can be taken again.
FreeReturn(t) ==
  /\ pc[t] = "add"
  /\ availBlks' = (availBlks + 1) % SizeMod
  /\ pc' = [pc EXCEPT ![t] = "idle"]
  /\ UNCHANGED <<poolVars, stackVars, old, next, val, app, age>>

----------------------------------------------------------------------------
Pool == (\E b \in Blocks : CreatePush(b)) \/ CreateFail \/ CreateDone
        \/ Destroy \/ CleanupPop \/ CleanupDone
Pop(t) == PopRead(t) \/ PopNext(t) \/ PopSwap(t) \/ PopMiss(t) \/ AllocReturn(t)
Push(t) == PushRead(t) \/ PushLink(t) \/ PushSwap(t) \/ PushMiss(t)
           \/ FreeReturn(t)

Next ==
  \/ Pool
  \/ \E t \in Threads : Pop(t) \/ Push(t) \/ \E b \in Blocks : FreeCall(t, b)

Spec == Init /\ [][Next]_vars

\* A thread inside the pool keeps running; no thread has to enter it.
FairSpec ==
  Spec /\ \A t \in Threads : WF_vars(pc[t] # "idle" /\ (Pop(t) \/ Push(t)))

----------------------------------------------------------------------------
TypeOK ==
  /\ phase \in {"create", "up", "cleanup", "gone"}
  /\ heap \in SUBSET Blocks /\ app \in SUBSET Blocks
  /\ top \in Top /\ pNext \in [Blocks -> Ptr]
  /\ availBlks \in 0 .. SizeMod - 1
  /\ pc \in [Threads -> {"idle", "pop", "next", "popcas", "sub",
                         "push", "link", "pushcas", "add"}]
  /\ old \in [Threads -> Top]
  /\ next \in [Threads -> Ptr] /\ val \in [Threads -> Ptr]
  /\ free \in Seq(Blocks)
  /\ age \in [Threads -> 0 .. Stall]

\* s lists, once each, the blocks linked through nx from the block p.
Linked(s, p, nx) ==
  /\ \A i, j \in 1 .. Len(s) : s[i] = s[j] => i = j
  /\ p = IF s = <<>> THEN NULL ELSE s[1]
  /\ \A i \in 1 .. Len(s) : nx[s[i]] = IF i = Len(s) THEN NULL ELSE s[i + 1]

\* The blocks linked from stack->top through pNext are exactly the free ones,
\* in order and without a cycle, whatever half-done pushes and pops there are.
StackIntact == Linked(free, top.ptr, pNext)

\* No block is handed out twice: a block is in the stack, with the clients or
\* in the hands of one thread that pops or pushes it, and in one of them only.
BlockOnce ==
  /\ app \cap Elems(free) = {}
  /\ \A t \in Threads : val[t] # NULL =>
       /\ val[t] \notin app
       /\ val[t] \notin Elems(free)
       /\ \A u \in Threads : val[u] = val[t] => u = t

\* Blocks outside the stack: with the clients or in a thread's hands.
Handed == app \cup {val[t] : t \in {u \in Threads : val[u] # NULL}}

\* Nothing is lost: cleaning a pool up, after a failed creation too, frees all
\* its blocks but the ones that the clients never returned.
NoneLost ==
  /\ heap = Elems(free) \cup Handed
  /\ phase = "gone" => heap = app

\* availBlks counts the free blocks whenever no thread is in the pool (between
\* the swap and the atomic add or subtract it may be off, and even wrap).
CountSettles ==
  phase = "up" /\ (\A t \in Threads : pc[t] = "idle") => availBlks = Len(free)

\* The stack is lock-free: a thread that tries to swap returns, or some other
\* thread's pop or push goes through.
LockFree ==
  \A t \in Threads : pc[t] \in {"popcas", "pushcas"} ~>
    (pc[t] = "idle" \/ \E u \in Threads : pc[u] \in {"sub", "add"})

\* A thread has a block in its hands exactly between its pop's swap and return
\* or its push's call and swap; outside "up" no thread is in the pool.
ThreadInv ==
  /\ \A t \in Threads :
       val[t] # NULL <=> pc[t] \in {"sub", "push", "link", "pushcas"}
  /\ phase # "up" => \A t \in Threads : pc[t] = "idle"

\* The counter tells how often a thread with a snapshot was overtaken: its swap
\* succeeds only if nothing moved, and what it prepared is then still right.
SnapshotInv ==
  \A t \in Threads : Snapshot(t) =>
    /\ \/ top.ctr = old[t].ctr + age[t]
       \/ top.ctr = old[t].ctr + age[t] - CtrMod
    /\ age[t] = 0 => top = old[t]
    /\ pc[t] \in {"next", "popcas"} => old[t].ptr # NULL
    /\ pc[t] = "popcas" /\ age[t] = 0 => next[t] = pNext[old[t].ptr]
    /\ pc[t] = "pushcas" => pNext[val[t]] = old[t].ptr

\* The inductive invariant: the stack and the whereabouts of its blocks are
\* right because every swap that succeeds was prepared on the current top.
PoolInv ==
  TypeOK /\ StackIntact /\ BlockOnce /\ NoneLost /\ ThreadInv /\ SnapshotInv

\* The pool implements BlockPool: the swaps are the events of taking and
\* giving back, for pops and pushes that interleave in any way.
BP == INSTANCE BlockPool WITH pool <- Elems(free), owned <- Handed
PoolSpec == BP!Spec
=============================================================================
