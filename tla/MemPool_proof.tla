---------------------------- MODULE MemPool_proof ----------------------------
(***************************************************************************)
(* Proofs about MemPool for any number of threads and blocks and any width *)
(* of the counter, as long as no thread is overtaken more than Stall times *)
(* between its read of the top and its compare-and-swap.                   *)
(***************************************************************************)
EXTENDS MemPool, SequenceTheorems, FiniteSetTheorems, TLAPS

\* What pushing a block does to the list of free blocks.
LEMMA PushSeq ==
  ASSUME NEW s \in Seq(Blocks), NEW b \in Blocks
  PROVE  /\ <<b>> \o s \in Seq(Blocks)
         /\ Len(<<b>> \o s) = Len(s) + 1
         /\ (<<b>> \o s)[1] = b
         /\ \A i \in 2 .. Len(s) + 1 : (<<b>> \o s)[i] = s[i - 1]
         /\ Elems(<<b>> \o s) = Elems(s) \cup {b}
<1> DEFINE r == <<b>> \o s
<1>1. <<b>> \in Seq(Blocks) /\ Len(<<b>>) = 1 /\ <<b>>[1] = b
  OBVIOUS
<1>2. /\ r \in Seq(Blocks) /\ Len(r) = Len(s) + 1
      /\ \A i \in 1 .. Len(s) + 1 : r[i] = IF i <= 1 THEN b ELSE s[i - 1]
  BY <1>1, ConcatProperties
<1>3. Elems(r) = Elems(s) \cup {b}
  <2> HIDE DEF r
  <2>1. Len(s) \in Nat
    BY LenProperties
  <2>2. \A i \in 1 .. Len(r) : r[i] \in Elems(s) \cup {b}
    BY <1>2, <2>1 DEF Elems
  <2>3. \A i \in 1 .. Len(s) : i + 1 \in 1 .. Len(r) /\ r[i + 1] = s[i]
    BY <1>2, <2>1
  <2>4. 1 \in 1 .. Len(r) /\ r[1] = b
    BY <1>2, <2>1
  <2> QED BY <2>2, <2>3, <2>4, SMTT(30) DEF Elems
<1> QED BY <1>2, <1>3, LenProperties

\* What popping a block does to a list without repetitions.
LEMMA PopSeq ==
  ASSUME NEW s \in Seq(Blocks), s # <<>>,
         \A i, j \in 1 .. Len(s) : s[i] = s[j] => i = j
  PROVE  /\ Tail(s) \in Seq(Blocks)
         /\ Len(s) \in Nat \ {0}
         /\ Len(Tail(s)) = Len(s) - 1
         /\ \A i \in 1 .. Len(s) - 1 : Tail(s)[i] = s[i + 1]
         /\ s[1] \in Blocks
         /\ Elems(Tail(s)) = Elems(s) \ {s[1]}
<1> DEFINE r == Tail(s)
<1>1. /\ r \in Seq(Blocks) /\ Len(r) = Len(s) - 1
      /\ \A i \in 1 .. Len(r) : r[i] = s[i + 1]
  BY HeadTailProperties, Zenon
<1>2. Len(s) \in Nat \ {0}
  BY EmptySeq, Zenon
<1>3. s[1] \in Blocks
  BY <1>2, ElementOfSeq
<1>4. Elems(r) = Elems(s) \ {s[1]}
  <2> HIDE DEF r
  <2>1. \A i \in 1 .. Len(r) : r[i] \in Elems(s) /\ r[i] # s[1]
    BY <1>1, <1>2 DEF Elems
  <2>2. \A i \in 1 .. Len(s) : s[i] # s[1] => i - 1 \in 1 .. Len(r) /\ r[i - 1] = s[i]
    BY <1>1, <1>2
  <2>3. Elems(r) \subseteq Elems(s) \ {s[1]}
    BY <2>1 DEF Elems
  <2>4. ASSUME NEW x \in Elems(s) \ {s[1]}
        PROVE  x \in Elems(r)
    <3>1. PICK i \in 1 .. Len(s) : x = s[i]
      BY Zenon DEF Elems
    <3> QED BY <3>1, <2>2 DEF Elems
  <2> QED BY <2>3, <2>4, Zenon
<1> QED BY <1>1, <1>2, <1>3, <1>4, Zenon

\* push: a block outside the list whose pNext is the top becomes the new top.
LEMMA LinkedPush ==
  ASSUME NEW s \in Seq(Blocks), NEW b \in Blocks, NEW p, NEW nx,
         Linked(s, p, nx), b \notin Elems(s), nx[b] = p
  PROVE  Linked(<<b>> \o s, b, nx)
<1> DEFINE r == <<b>> \o s
<1>1. /\ r \in Seq(Blocks) /\ Len(r) = Len(s) + 1 /\ r[1] = b
      /\ \A i \in 2 .. Len(s) + 1 : r[i] = s[i - 1]
  BY PushSeq, Zenon
<1>2. Len(s) \in Nat /\ (s = <<>> <=> Len(s) = 0)
  BY EmptySeq, LenProperties, Zenon
<1>3. \A i \in 2 .. Len(s) + 1 : r[i] # b
  BY <1>1, <1>2 DEF Elems
<1> HIDE DEF r
<1>4. \A i, j \in 1 .. Len(r) : r[i] = r[j] => i = j
  <2> SUFFICES ASSUME NEW i \in 1 .. Len(r), NEW j \in 1 .. Len(r), r[i] = r[j]
               PROVE  i = j
    OBVIOUS
  <2>1. CASE i = 1 \/ j = 1
    BY <2>1, <1>1, <1>2, <1>3
  <2>2. CASE i # 1 /\ j # 1
    <3>1. i - 1 \in 1 .. Len(s) /\ j - 1 \in 1 .. Len(s)
      BY <2>2, <1>1, <1>2
    <3>2. s[i - 1] = s[j - 1]
      BY <2>2, <1>1, <1>2
    <3>3. i - 1 = j - 1
      BY <3>1, <3>2, Zenon DEF Linked
    <3> QED BY <3>3
  <2> QED BY <2>1, <2>2, Zenon
<1>5. \A i \in 1 .. Len(r) : nx[r[i]] = IF i = Len(r) THEN NULL ELSE r[i + 1]
  <2> SUFFICES ASSUME NEW i \in 1 .. Len(r)
               PROVE  nx[r[i]] = IF i = Len(r) THEN NULL ELSE r[i + 1]
    BY Zenon
  <2>1. CASE i = 1
    BY <2>1, <1>1, <1>2 DEF Linked
  <2>2. CASE i # 1
    <3>1. i - 1 \in 1 .. Len(s) /\ r[i] = s[i - 1]
      BY <2>2, <1>1, <1>2
    <3>2. nx[s[i - 1]] = IF i - 1 = Len(s) THEN NULL ELSE s[i - 1 + 1]
      BY <3>1, Zenon DEF Linked
    <3>3. ASSUME i # Len(r) PROVE r[i + 1] = s[i - 1 + 1]
      <4>1. Len(r) = Len(s) + 1 /\ Len(s) \in Nat /\ i \in 1 .. Len(r)
        BY <1>1, <1>2, Zenon
      <4>2. i + 1 \in 2 .. Len(s) + 1 /\ i + 1 - 1 = i - 1 + 1
        BY <2>2, <3>3, <4>1
      <4>3. r[i + 1] = s[i + 1 - 1]
        BY <1>1, <4>2
      <4> QED BY <4>2, <4>3, Zenon
    <3>4. i = Len(r) <=> i - 1 = Len(s)
      <4>1. Len(r) = Len(s) + 1 /\ Len(s) \in Nat /\ i \in 1 .. Len(r)
        BY <1>1, <1>2, Zenon
      <4> QED BY <4>1
    <3> QED BY <3>1, <3>2, <3>3, <3>4, Zenon
  <2> QED BY <2>1, <2>2, Zenon
<1>6. r # <<>>
  BY <1>1, <1>2
<1> QED BY <1>1, <1>4, <1>5, <1>6, Zenon DEF Linked, r

\* pop: the top's pNext becomes the new top.
LEMMA LinkedPop ==
  ASSUME NEW s \in Seq(Blocks), NEW p, NEW nx, Linked(s, p, nx), p # NULL
  PROVE  /\ s # <<>> /\ p = s[1] /\ p \in Blocks /\ p \in Elems(s)
         /\ Tail(s) \in Seq(Blocks)
         /\ Elems(Tail(s)) = Elems(s) \ {p}
         /\ Linked(Tail(s), nx[p], nx)
<1> DEFINE r == Tail(s)
<1>1. s # <<>> /\ p = s[1]
  BY Zenon DEF Linked
<1>2. /\ r \in Seq(Blocks) /\ Len(s) \in Nat \ {0} /\ Len(r) = Len(s) - 1
      /\ \A i \in 1 .. Len(s) - 1 : r[i] = s[i + 1]
      /\ p \in Blocks /\ Elems(r) = Elems(s) \ {p}
  BY <1>1, PopSeq, Zenon DEF Linked
<1>3. r = <<>> <=> Len(r) = 0
  BY <1>2, EmptySeq, Zenon
<1>4. p \in Elems(s)
  BY <1>1, <1>2 DEF Elems
<1> HIDE DEF r
<1>5. \A i, j \in 1 .. Len(r) : r[i] = r[j] => i = j
  <2> SUFFICES ASSUME NEW i \in 1 .. Len(r), NEW j \in 1 .. Len(r), r[i] = r[j]
               PROVE  i = j
    BY Zenon
  <2>1. i + 1 \in 1 .. Len(s) /\ j + 1 \in 1 .. Len(s) /\ s[i + 1] = s[j + 1]
    BY <1>2
  <2>2. i + 1 = j + 1
    BY <2>1 DEF Linked
  <2> QED BY <2>2
<1>6. nx[p] = IF r = <<>> THEN NULL ELSE r[1]
  BY <1>1, <1>2, <1>3 DEF Linked
<1>7. \A i \in 1 .. Len(r) : nx[r[i]] = IF i = Len(r) THEN NULL ELSE r[i + 1]
  <2> SUFFICES ASSUME NEW i \in 1 .. Len(r)
               PROVE  nx[r[i]] = IF i = Len(r) THEN NULL ELSE r[i + 1]
    BY Zenon
  <2>1. i + 1 \in 1 .. Len(s) /\ r[i] = s[i + 1]
    BY <1>2
  <2>2. nx[s[i + 1]] = IF i + 1 = Len(s) THEN NULL ELSE s[i + 1 + 1]
    BY <2>1, Zenon DEF Linked
  <2>3. i # Len(r) => r[i + 1] = s[i + 1 + 1]
    BY <1>2
  <2> QED BY <2>1, <2>2, <2>3, <1>2
<1> QED BY <1>1, <1>2, <1>4, <1>5, <1>6, <1>7, Zenon DEF Linked, r

\* A write to pNext of a block outside the list leaves the list alone.
LEMMA LinkedFrame ==
  ASSUME NEW s \in Seq(Blocks), NEW p, NEW nx \in [Blocks -> Ptr],
         NEW b \in Blocks, NEW v, Linked(s, p, nx), b \notin Elems(s)
  PROVE  Linked(s, p, [nx EXCEPT ![b] = v])
<1>1. \A i \in 1 .. Len(s) : s[i] \in Blocks /\ s[i] # b
  BY ElementOfSeq, Zenon DEF Elems
<1> QED BY <1>1, Zenon DEF Linked

----------------------------------------------------------------------------
(* The inductive invariant.                                                *)

\* A swap succeeds only if the thread was not overtaken: the counter, which
\* wraps, tells 0 from 1 .. Stall swaps apart.
LEMMA NotOvertaken ==
  ASSUME PoolInv, NEW t \in Threads, Snapshot(t), top = old[t]
  PROVE  age[t] = 0
<1>1. age[t] \in 0 .. Stall /\ old[t] \in Top
  BY Zenon DEF PoolInv, TypeOK
<1>2. old[t].ctr \in 0 .. CtrMod - 1
  BY <1>1, Zenon DEF Top
<1>3. top.ctr = old[t].ctr + age[t] \/ top.ctr = old[t].ctr + age[t] - CtrMod
  BY Zenon DEF PoolInv, SnapshotInv
<1>4. top.ctr = old[t].ctr
  BY Zenon
<1> QED BY <1>1, <1>2, <1>3, <1>4, CtrAssumption

\* The counter after a swap, without the remainder.
LEMMA NextCounter ==
  ASSUME TypeOK
  PROVE  \A p \in Ptr :
           /\ Swapped(p) \in Top
           /\ Swapped(p).ptr = p
           /\ Swapped(p).ctr = IF top.ctr + 1 = CtrMod THEN 0 ELSE top.ctr + 1
<1>1. top.ctr \in 0 .. CtrMod - 1
  BY DEF TypeOK, Top
<1>2. (top.ctr + 1) % CtrMod = IF top.ctr + 1 = CtrMod THEN 0 ELSE top.ctr + 1
  BY <1>1, CtrAssumption
<1> QED BY <1>1, <1>2, CtrAssumption DEF Swapped, Top

\* availBlks stays in its width.
LEMMA CountType ==
  ASSUME TypeOK
  PROVE  /\ (availBlks + 1) % SizeMod \in 0 .. SizeMod - 1
         /\ (availBlks - 1) % SizeMod \in 0 .. SizeMod - 1
BY SizeAssumption DEF TypeOK

\* The empty pool, before Lac_MemPoolCreate's loop, satisfies the invariant.
LEMMA InitInv == Init => PoolInv
<1> SUFFICES ASSUME Init PROVE PoolInv
  BY Zenon
<1>1. TypeOK
  <2>1. 0 \in 0 .. CtrMod - 1 /\ 0 \in 0 .. SizeMod - 1 /\ 0 \in 0 .. Stall
    BY CtrAssumption, SizeAssumption
  <2>2. <<>> \in Seq(Blocks)
    BY EmptySeq
  <2> QED BY <2>1, <2>2, Zenon DEF Init, TypeOK, Top, Ptr
<1>2. Elems(<<>>) = {} /\ Len(<<>>) = 0
  BY DEF Elems
<1>3. StackIntact
  BY <1>2 DEF Init, StackIntact, Linked
<1>4. BlockOnce /\ NoneLost /\ ThreadInv /\ SnapshotInv
  BY <1>2 DEF Init, BlockOnce, NoneLost, Handed, ThreadInv, SnapshotInv, Snapshot
<1> QED BY <1>1, <1>3, <1>4, Zenon DEF PoolInv

\* Pool creation and clean-up, with no thread in the pool, keep the invariant.
LEMMA PoolStep == PoolInv /\ Pool => PoolInv'
<1> SUFFICES ASSUME PoolInv, Pool PROVE PoolInv'
  BY Zenon
<1> USE DEF PoolInv
<1>1. ASSUME NEW b \in Blocks, CreatePush(b) PROVE PoolInv'
  <2>1. \A t \in Threads : pc[t] = "idle" /\ val[t] = NULL
    BY <1>1, Zenon DEF CreatePush, ThreadInv
  <2>2. b \notin Elems(free) /\ b \notin Handed
    BY <1>1, Zenon DEF CreatePush, NoneLost
  <2>3. top.ptr \in Ptr /\ b \in Ptr /\ free \in Seq(Blocks)
    BY Zenon DEF TypeOK, Top, Ptr
  <2>4. free' \in Seq(Blocks) /\ Elems(free') = Elems(free) \cup {b}
    BY <1>1, <2>3, PushSeq, Zenon DEF CreatePush
  <2>5. top' \in Top /\ top'.ptr = b
    BY <1>1, <2>3, NextCounter, Zenon DEF CreatePush
  <2>6. availBlks' \in 0 .. SizeMod - 1
    BY <1>1, CountType, Zenon DEF CreatePush
  <2>7. TypeOK'
    BY <1>1, <2>3, <2>4, <2>5, <2>6 DEF CreatePush, threadVars, TypeOK
  <2>8. StackIntact'
    <3>1. Linked(free, top.ptr, pNext')
      BY <1>1, <2>2, <2>3, LinkedFrame, Zenon DEF CreatePush, StackIntact, TypeOK
    <3>2. pNext'[b] = top.ptr
      BY <1>1 DEF CreatePush, TypeOK
    <3> QED BY Zenon, <1>1, <2>2, <2>3, <2>5, <3>1, <3>2, LinkedPush
         DEF CreatePush, StackIntact
  <2>9. Handed' = Handed /\ \A t \in Threads : val'[t] = NULL
    BY <1>1, <2>1, Zenon DEF CreatePush, threadVars, Handed
  <2>10. BlockOnce'
    BY <1>1, <2>2, <2>4, <2>9 DEF CreatePush, threadVars, BlockOnce, Handed
  <2>11. NoneLost'
    BY <1>1, <2>4, <2>9, Zenon DEF CreatePush, threadVars, NoneLost
  <2>12. ThreadInv' /\ SnapshotInv'
    BY <1>1, <2>1 DEF CreatePush, threadVars, ThreadInv, SnapshotInv, Snapshot
  <2> QED BY <2>7, <2>8, <2>10, <2>11, <2>12, Zenon
<1>2. ASSUME CreateFail \/ CreateDone \/ Destroy PROVE PoolInv'
  <2> USE <1>2 DEF CreateFail, CreateDone, Destroy, stackVars, threadVars
  <2>1. TypeOK' /\ StackIntact' /\ BlockOnce'
    BY Zenon DEF TypeOK, StackIntact, BlockOnce
  <2>2. NoneLost'
    BY Zenon DEF NoneLost, Handed
  <2>3. ThreadInv' /\ SnapshotInv'
    BY Zenon DEF ThreadInv, SnapshotInv, Snapshot
  <2> QED BY <2>1, <2>2, <2>3, Zenon
<1>3. ASSUME CleanupPop PROVE PoolInv'
  <2>1. \A t \in Threads : pc[t] = "idle" /\ val[t] = NULL
    BY <1>3, Zenon DEF CleanupPop, ThreadInv
  <2>2. free \in Seq(Blocks) /\ top.ptr # NULL /\ Linked(free, top.ptr, pNext)
    BY <1>3, Zenon DEF CleanupPop, TypeOK, StackIntact
  <2>3. /\ top.ptr \in Blocks /\ top.ptr \in Elems(free)
        /\ free' \in Seq(Blocks) /\ Elems(free') = Elems(free) \ {top.ptr}
        /\ Linked(free', pNext[top.ptr], pNext)
    BY <1>3, <2>2, LinkedPop, Zenon DEF CleanupPop
  <2>4. pNext[top.ptr] \in Ptr
    BY <2>3, Zenon DEF TypeOK
  <2>5. top' \in Top /\ top'.ptr = pNext[top.ptr]
    BY <1>3, <2>4, NextCounter, Zenon DEF CleanupPop
  <2>6. TypeOK'
    BY <1>3, <2>3, <2>5, Zenon DEF CleanupPop, threadVars, TypeOK
  <2>7. StackIntact'
    BY <1>3, <2>3, <2>5, Zenon DEF CleanupPop, StackIntact
  <2>8. Handed' = Handed /\ Handed = app /\ \A t \in Threads : val'[t] = NULL
    BY <1>3, <2>1, Zenon DEF CleanupPop, threadVars, Handed
  <2>9. BlockOnce'
    BY <1>3, <2>3, <2>8, Zenon DEF CleanupPop, threadVars, BlockOnce
  <2>10. NoneLost'
    BY <1>3, <2>3, <2>8, Zenon DEF CleanupPop, threadVars, NoneLost, BlockOnce
  <2>11. ThreadInv' /\ SnapshotInv'
    BY <1>3, <2>1, Zenon DEF CleanupPop, threadVars, ThreadInv, SnapshotInv, Snapshot
  <2> QED BY <2>6, <2>7, <2>9, <2>10, <2>11, Zenon
<1>4. ASSUME CleanupDone PROVE PoolInv'
  <2> USE <1>4 DEF CleanupDone, stackVars, threadVars
  <2>1. TypeOK' /\ StackIntact' /\ BlockOnce'
    BY Zenon DEF TypeOK, StackIntact, BlockOnce
  <2>2. Elems(free) = {}
    <3>1. free \in Seq(Blocks) /\ Linked(free, NULL, pNext)
      BY Zenon DEF TypeOK, StackIntact
    <3>2. free # <<>> => free[1] \in Blocks
      BY <3>1, EmptySeq, ElementOfSeq
    <3>3. free = <<>>
      BY <3>1, <3>2, NullAssumption, Zenon DEF Linked
    <3> QED BY <3>3 DEF Elems
  <2>3. Handed' = Handed /\ Handed = app
    BY Zenon DEF Handed, ThreadInv
  <2>4. NoneLost'
    BY <2>2, <2>3, Zenon DEF NoneLost
  <2>5. ThreadInv' /\ SnapshotInv'
    BY DEF ThreadInv, SnapshotInv, Snapshot
  <2> QED BY <2>1, <2>4, <2>5, Zenon
<1> QED BY <1>1, <1>2, <1>3, <1>4, Zenon DEF Pool

\* A swap makes every snapshot but the swapping thread's own one older by one,
\* and the counter, modulo its width, records it.
LEMMA SwapAges ==
  ASSUME PoolInv, NEW t \in Threads, NEW p \in Ptr, top' = Swapped(p),
         Overtake(t), NEW u \in Threads \ {t}, Snapshot(u)
  PROVE  /\ age'[u] = age[u] + 1 /\ age'[u] \in 1 .. Stall
         /\ \/ top'.ctr = old[u].ctr + age'[u]
            \/ top'.ctr = old[u].ctr + age'[u] - CtrMod
<1>1. age[u] \in 0 .. Stall /\ old[u] \in Top
  BY DEF PoolInv, TypeOK
<1>2. age'[u] = age[u] + 1 /\ age[u] < Stall
  BY Zenon DEF Overtake
<1>3. old[u].ctr \in 0 .. CtrMod - 1
  BY <1>1, Zenon DEF Top
<1>4. top.ctr = old[u].ctr + age[u] \/ top.ctr = old[u].ctr + age[u] - CtrMod
  BY Zenon DEF PoolInv, SnapshotInv
<1>5. top'.ctr = IF top.ctr + 1 = CtrMod THEN 0 ELSE top.ctr + 1
  BY NextCounter, Zenon DEF PoolInv
<1> QED BY <1>1, <1>2, <1>3, <1>4, <1>5, CtrAssumption

\* Overtake keeps the ages in their range.
LEMMA AgeType ==
  ASSUME TypeOK, NEW t \in Threads, Overtake(t)
  PROVE  age' \in [Threads -> 0 .. Stall]
<1>1. \A u \in Threads : age[u] \in 0 .. Stall
  BY DEF TypeOK
<1> QED BY <1>1, CtrAssumption DEF Overtake

\* The steps of a pop keep the invariant.
LEMMA PopStep == ASSUME PoolInv, NEW t \in Threads, Pop(t) PROVE PoolInv'
<1> USE DEF PoolInv
<1>1. CASE PopRead(t)
  <2> USE <1>1 DEF PopRead, poolVars, stackVars
  <2>1. TypeOK'
    BY CtrAssumption DEF TypeOK
  <2>2. StackIntact' /\ BlockOnce' /\ NoneLost'
    BY DEF StackIntact, BlockOnce, NoneLost, Handed
  <2>3. ThreadInv'
    BY Zenon DEF ThreadInv, TypeOK
  <2>4. SnapshotInv'
    <3> SUFFICES ASSUME NEW u \in Threads, Snapshot(u)'
                 PROVE  SnapshotInv!(u)!2'
      BY Zenon DEF SnapshotInv
    <3> QED BY DEF SnapshotInv, Snapshot, TypeOK, Top
  <2> QED BY <2>1, <2>2, <2>3, <2>4, Zenon
<1>2. CASE PopNext(t)
  <2> USE <1>2 DEF PopNext, poolVars, stackVars
  <2>1. old[t].ptr \in Blocks
    BY DEF SnapshotInv, Snapshot, TypeOK, Top, Ptr
  <2>2. TypeOK'
    BY <2>1, Zenon DEF TypeOK
  <2>3. StackIntact' /\ BlockOnce' /\ NoneLost'
    BY DEF StackIntact, BlockOnce, NoneLost, Handed
  <2>4. ThreadInv'
    BY DEF ThreadInv, TypeOK
  <2>5. SnapshotInv'
    BY Zenon DEF SnapshotInv, Snapshot, TypeOK
  <2> QED BY <2>2, <2>3, <2>4, <2>5, Zenon
<1>3. CASE PopSwap(t)
  <2> USE <1>3 DEF PopSwap, poolVars
  <2>1. Snapshot(t) /\ age[t] = 0
    BY NotOvertaken, Zenon DEF Snapshot
  <2>2. /\ top.ptr # NULL /\ old[t].ptr = top.ptr
        /\ next[t] = pNext[top.ptr]
    BY <2>1, Zenon DEF SnapshotInv
  <2>3. free \in Seq(Blocks) /\ Linked(free, top.ptr, pNext)
    BY Zenon DEF TypeOK, StackIntact
  <2>4. /\ top.ptr \in Blocks /\ top.ptr \in Elems(free)
        /\ free' \in Seq(Blocks) /\ Elems(free') = Elems(free) \ {top.ptr}
        /\ Linked(free', pNext[top.ptr], pNext)
    BY <2>2, <2>3, LinkedPop, Zenon
  <2>5. next[t] \in Ptr /\ top' \in Top /\ top'.ptr = next[t]
    BY NextCounter, Zenon DEF TypeOK
  <2>6. age' \in [Threads -> 0 .. Stall]
    BY AgeType, Zenon
  <2>7. TypeOK'
    BY <2>2, <2>4, <2>5, <2>6, Zenon DEF TypeOK, Ptr
  <2>8. StackIntact'
    BY <2>2, <2>4, <2>5, Zenon DEF StackIntact
  <2>9. val[t] = NULL /\ val' = [val EXCEPT ![t] = top.ptr] /\ val \in [Threads -> Ptr]
    BY <2>2, Zenon DEF ThreadInv, TypeOK
  <2>10. BlockOnce'
    BY <2>4, <2>9, NullAssumption, SMTT(30) DEF BlockOnce
  <2>11. Handed' = Handed \cup {top.ptr}
    BY <2>2, <2>9, SMTT(30) DEF Handed
  <2>12. NoneLost'
    BY <2>4, <2>11 DEF NoneLost, ThreadInv
  <2>13. ThreadInv'
    BY <2>2, <2>9, Zenon DEF ThreadInv, TypeOK
  <2>14. SnapshotInv'
    <3> SUFFICES ASSUME NEW u \in Threads, Snapshot(u)'
                 PROVE  SnapshotInv!(u)!2'
      BY Zenon DEF SnapshotInv
    <3>1. u # t /\ Snapshot(u) /\ pc'[u] = pc[u] /\ val'[u] = val[u]
      BY <2>9, Zenon DEF Snapshot, TypeOK
    <3>2. /\ age'[u] \in 1 .. Stall
          /\ top'.ctr = old[u].ctr + age'[u] \/ top'.ctr = old[u].ctr + age'[u] - CtrMod
      BY <3>1, <2>5, SwapAges, Zenon
    <3> QED BY <3>1, <3>2, SMTT(30) DEF SnapshotInv
  <2> QED BY <2>7, <2>8, <2>10, <2>12, <2>13, <2>14, Zenon
<1>4. CASE PopMiss(t)
  <2> USE <1>4 DEF PopMiss, poolVars, stackVars
  <2>1. TypeOK' /\ StackIntact' /\ BlockOnce' /\ NoneLost'
    BY DEF TypeOK, StackIntact, BlockOnce, NoneLost, Handed
  <2>2. ThreadInv'
    BY Zenon DEF ThreadInv, TypeOK
  <2>3. SnapshotInv'
    BY DEF SnapshotInv, Snapshot, TypeOK
  <2> QED BY <2>1, <2>2, <2>3, Zenon
<1>5. CASE AllocReturn(t)
  <2> USE <1>5 DEF AllocReturn, poolVars, stackVars
  <2>1. val[t] # NULL /\ val[t] \in Blocks
    BY Zenon DEF ThreadInv, TypeOK, Ptr
  <2>2. TypeOK'
    BY <2>1, CountType, Zenon DEF TypeOK, Ptr
  <2>3. StackIntact'
    BY Zenon DEF StackIntact
  <2>4. val \in [Threads -> Ptr]
    BY Zenon DEF TypeOK
  <2>5. BlockOnce'
    BY <2>1, <2>4, Zenon DEF BlockOnce
  <2>6. Handed' = Handed
    BY <2>1, <2>4, Zenon DEF Handed
  <2>7. NoneLost'
    BY <2>6, Zenon DEF NoneLost, ThreadInv
  <2>8. ThreadInv'
    BY Zenon DEF ThreadInv, TypeOK
  <2>9. SnapshotInv'
    BY <2>4 DEF SnapshotInv, Snapshot, TypeOK
  <2> QED BY <2>2, <2>3, <2>5, <2>7, <2>8, <2>9, Zenon
<1> QED BY <1>1, <1>2, <1>3, <1>4, <1>5, Zenon DEF Pop

\* A client's call of Lac_MemPoolEntryFree keeps the invariant.
LEMMA FreeCallStep ==
  ASSUME PoolInv, NEW t \in Threads, NEW b \in Blocks, FreeCall(t, b)
  PROVE  PoolInv' /\ Handed' = Handed
<1> USE DEF PoolInv, FreeCall, poolVars, stackVars
<1>1. TypeOK'
  BY Zenon DEF TypeOK, Ptr
<1>2. StackIntact'
  BY Zenon DEF StackIntact
<1>3. val \in [Threads -> Ptr] /\ val[t] = NULL /\ b # NULL
  BY NullAssumption, Zenon DEF TypeOK, ThreadInv
<1>4. BlockOnce'
  <2> SUFFICES ASSUME NEW u \in Threads, val'[u] # NULL
               PROVE  /\ val'[u] \notin app' /\ val'[u] \notin Elems(free')
                      /\ \A w \in Threads : val'[w] = val'[u] => w = u
    BY Zenon DEF BlockOnce
  <2>1. CASE u = t
    BY <1>3, <2>1, Zenon DEF BlockOnce
  <2>2. CASE u # t
    BY <1>3, <2>2, Zenon DEF BlockOnce
  <2> QED BY <2>1, <2>2, Zenon
<1>5. Handed' = Handed
  <2>1. {val'[u] : u \in {w \in Threads : val'[w] # NULL}}
          = {val[u] : u \in {w \in Threads : val[w] # NULL}} \cup {b}
    BY <1>3, Zenon
  <2> QED BY <2>1, Zenon DEF Handed
<1>6. NoneLost'
  BY <1>5, Zenon DEF NoneLost
<1>7. ThreadInv'
  BY <1>3 DEF ThreadInv, TypeOK
<1>8. SnapshotInv'
  BY <1>3 DEF SnapshotInv, Snapshot, TypeOK
<1> QED BY <1>1, <1>2, <1>4, <1>5, <1>6, <1>7, <1>8, Zenon

\* The steps of a push keep the invariant.
LEMMA PushStep == ASSUME PoolInv, NEW t \in Threads, Push(t) PROVE PoolInv'
<1> USE DEF PoolInv
<1>1. CASE PushRead(t)
  <2> USE <1>1 DEF PushRead, poolVars, stackVars
  <2>1. TypeOK'
    BY CtrAssumption DEF TypeOK
  <2>2. StackIntact' /\ BlockOnce' /\ NoneLost'
    BY DEF StackIntact, BlockOnce, NoneLost, Handed
  <2>3. ThreadInv'
    BY Zenon DEF ThreadInv, TypeOK
  <2>4. SnapshotInv'
    BY DEF SnapshotInv, Snapshot, TypeOK, Top
  <2> QED BY <2>1, <2>2, <2>3, <2>4, Zenon
<1>2. CASE PushLink(t)
  <2> USE <1>2 DEF PushLink, poolVars
  <2>1. val[t] # NULL /\ val[t] \in Blocks /\ val[t] \notin Elems(free)
    BY Zenon DEF ThreadInv, TypeOK, Ptr, BlockOnce
  <2>2. TypeOK'
    BY <2>1, Zenon DEF TypeOK, Top
  <2>3. StackIntact'
    BY <2>1, LinkedFrame, Zenon DEF StackIntact, TypeOK
  <2>4. BlockOnce' /\ NoneLost'
    BY Zenon DEF BlockOnce, NoneLost, Handed
  <2>5. ThreadInv'
    BY Zenon DEF ThreadInv, TypeOK
  <2>6. SnapshotInv'
    <3> SUFFICES ASSUME NEW u \in Threads, Snapshot(u)'
                 PROVE  SnapshotInv!(u)!2'
      BY DEF SnapshotInv
    <3>1. CASE u = t
      BY <3>1, <2>1, Zenon DEF SnapshotInv, Snapshot, TypeOK
    <3>2. CASE u # t
      <4>1. pc'[u] = pc[u] /\ Snapshot(u)
        BY <3>2, Zenon DEF Snapshot, TypeOK
      <4>2. pc[u] = "pushcas" => val[u] # NULL /\ val[u] # val[t] /\ val[u] \in Blocks
        BY <3>2, <2>1, Zenon DEF ThreadInv, BlockOnce, TypeOK, Ptr
      <4>3. pc[u] \in {"next", "popcas"} /\ age[u] = 0 =>
              old[u].ptr # val[t] /\ old[u].ptr \in Blocks
        <5> SUFFICES ASSUME pc[u] \in {"next", "popcas"}, age[u] = 0
                     PROVE  old[u].ptr # val[t] /\ old[u].ptr \in Blocks
          OBVIOUS
        <5>1. old[u].ptr = top.ptr /\ top.ptr # NULL
          BY <4>1, Zenon DEF SnapshotInv
        <5>2. top.ptr \in Blocks /\ top.ptr \in Elems(free)
          BY <5>1, LinkedPop, Zenon DEF StackIntact, TypeOK
        <5> QED BY <5>1, <5>2, <2>1, Zenon
      <4> QED BY <4>1, <4>2, <4>3, Zenon DEF SnapshotInv, TypeOK
    <3> QED BY <3>1, <3>2, Zenon
  <2> QED BY <2>2, <2>3, <2>4, <2>5, <2>6, Zenon
<1>3. CASE PushSwap(t)
  <2> USE <1>3 DEF PushSwap, poolVars
  <2> DEFINE b == val[t]
  <2>1. b # NULL /\ b \in Blocks /\ b \in Ptr /\ b \notin Elems(free) /\ b \notin app
    BY Zenon DEF ThreadInv, TypeOK, Ptr, BlockOnce
  <2>2. pNext[b] = top.ptr
    BY Zenon DEF SnapshotInv, Snapshot
  <2>3. free \in Seq(Blocks) /\ Linked(free, top.ptr, pNext)
    BY Zenon DEF TypeOK, StackIntact
  <2>4. /\ free' \in Seq(Blocks) /\ Elems(free') = Elems(free) \cup {b}
        /\ Linked(free', b, pNext)
    BY <2>1, <2>2, <2>3, PushSeq, LinkedPush, Zenon
  <2>5. top' \in Top /\ top'.ptr = b
    BY <2>1, NextCounter, Zenon
  <2>6. age' \in [Threads -> 0 .. Stall]
    BY AgeType, Zenon
  <2>7. TypeOK'
    BY <2>4, <2>5, <2>6, Zenon DEF TypeOK, Ptr
  <2>8. StackIntact'
    BY <2>4, <2>5, Zenon DEF StackIntact
  <2>9. val \in [Threads -> Ptr]
    BY Zenon DEF TypeOK
  <2>10. BlockOnce'
    BY <2>1, <2>4, <2>9, Zenon DEF BlockOnce
  <2>11. Handed' = Handed \ {b}
    <3>1. \A u \in Threads : val'[u] = IF u = t THEN NULL ELSE val[u]
      BY <2>9
    <3>2. \A u \in Threads : u # t => val[u] # b
      BY <2>1, Zenon DEF BlockOnce
    <3> QED BY <2>1, <3>1, <3>2, Zenon DEF Handed
  <2>12. b \in Handed
    BY <2>1, Zenon DEF Handed
  <2>13. NoneLost'
    BY <2>4, <2>11, <2>12, Zenon DEF NoneLost, ThreadInv
  <2>14. ThreadInv'
    BY <2>9, Zenon DEF ThreadInv, TypeOK
  <2>15. SnapshotInv'
    <3> SUFFICES ASSUME NEW u \in Threads, Snapshot(u)'
                 PROVE  SnapshotInv!(u)!2'
      BY Zenon DEF SnapshotInv
    <3>1. u # t /\ Snapshot(u) /\ pc'[u] = pc[u] /\ val'[u] = val[u]
      BY <2>9, Zenon DEF Snapshot, TypeOK
    <3>2. /\ age'[u] \in 1 .. Stall
          /\ top'.ctr = old[u].ctr + age'[u] \/ top'.ctr = old[u].ctr + age'[u] - CtrMod
      BY <3>1, <2>1, SwapAges
    <3> QED BY <3>1, <3>2, SMTT(30) DEF SnapshotInv
  <2> QED BY <2>7, <2>8, <2>10, <2>13, <2>14, <2>15, Zenon
<1>4. CASE PushMiss(t)
  <2> USE <1>4 DEF PushMiss, poolVars, stackVars
  <2>1. TypeOK' /\ StackIntact' /\ BlockOnce' /\ NoneLost'
    BY DEF TypeOK, StackIntact, BlockOnce, NoneLost, Handed
  <2>2. ThreadInv'
    BY Zenon DEF ThreadInv, TypeOK
  <2>3. SnapshotInv'
    BY DEF SnapshotInv, Snapshot, TypeOK
  <2> QED BY <2>1, <2>2, <2>3, Zenon
<1>5. CASE FreeReturn(t)
  <2> USE <1>5 DEF FreeReturn, poolVars, stackVars
  <2>1. TypeOK'
    BY CountType, Zenon DEF TypeOK
  <2>2. StackIntact' /\ BlockOnce' /\ NoneLost'
    BY Zenon DEF StackIntact, BlockOnce, NoneLost, Handed
  <2>3. ThreadInv'
    BY Zenon DEF ThreadInv, TypeOK
  <2>4. SnapshotInv'
    BY DEF SnapshotInv, Snapshot, TypeOK
  <2> QED BY <2>1, <2>2, <2>3, <2>4, Zenon
<1> QED BY <1>1, <1>2, <1>3, <1>4, <1>5, Zenon DEF Push

\* Every step of the pool keeps the invariant.
LEMMA NextInv == PoolInv /\ [Next]_vars => PoolInv'
<1> SUFFICES ASSUME PoolInv, [Next]_vars PROVE PoolInv'
  BY Zenon
<1>1. CASE UNCHANGED vars
  BY <1>1 DEF vars, PoolInv, TypeOK, StackIntact, BlockOnce, NoneLost, Handed,
              ThreadInv, SnapshotInv, Snapshot
<1>2. CASE Pool
  BY <1>2, PoolStep, Zenon
<1>3. ASSUME NEW t \in Threads,
             Pop(t) \/ Push(t) \/ \E b \in Blocks : FreeCall(t, b)
      PROVE  PoolInv'
  BY <1>3, PopStep, PushStep, FreeCallStep
<1> QED BY <1>1, <1>2, <1>3, Zenon DEF Next

\* The inductive invariant of the memory pool: the lock-free stack over its
\* 16-bit counter, with any number of threads in pop and push.
THEOREM PoolInvariant == Spec => []PoolInv
BY InitInv, NextInv, PTL DEF Spec

\* The free blocks stay linked from the top, in order and without a cycle.
THEOREM StackStaysIntact == Spec => []StackIntact
<1>1. PoolInv => StackIntact
  BY Zenon DEF PoolInv
<1> QED BY <1>1, PoolInvariant, PTL

\* Lac_MemPoolEntryAlloc never hands a block out twice.
THEOREM NoDoubleAllocation == Spec => []BlockOnce
<1>1. PoolInv => BlockOnce
  BY Zenon DEF PoolInv
<1> QED BY <1>1, PoolInvariant, PTL

\* No block is lost, and clean-up frees all but the blocks the clients kept.
THEOREM NoBlockLost == Spec => []NoneLost
<1>1. PoolInv => NoneLost
  BY Zenon DEF PoolInv
<1> QED BY <1>1, PoolInvariant, PTL

----------------------------------------------------------------------------
(* The count of available blocks.                                          *)

\* What availBlks would be with no thread between its swap and its add or
\* subtract, up to the times it has wrapped.
At(l) == {t \in Threads : pc[t] = l}
Turns == {k * SizeMod : k \in Int}
CountInv ==
  phase \in {"create", "up"} =>
    \E p \in Turns :
      availBlks = Len(free) + Cardinality(At("sub")) - Cardinality(At("add")) + p

\* One more turn round the modulus.
LEMMA OneTurn ==
  ASSUME NEW p \in Turns
  PROVE  p \in Int /\ p + SizeMod \in Turns /\ p - SizeMod \in Turns
<1>1. PICK k \in Int : p = k * SizeMod
  BY DEF Turns
<1>2. (k + 1) * SizeMod = p + SizeMod /\ (k - 1) * SizeMod = p - SizeMod /\ p \in Int
  BY <1>1, SizeAssumption
<1> QED BY <1>2 DEF Turns

\* Only no turn at all is shorter than one.
LEMMA NoTurn ==
  /\ 0 \in Turns
  /\ \A p \in Turns : -SizeMod < p /\ p < SizeMod => p = 0
<1>1. 0 \in Turns
  <2>1. 0 * SizeMod = 0
    BY SizeAssumption
  <2> QED BY <2>1 DEF Turns
<1>2. ASSUME NEW p \in Turns, -SizeMod < p, p < SizeMod
      PROVE  p = 0
  <2>1. PICK k \in Int : p = k * SizeMod
    BY Zenon DEF Turns
  <2>2. CASE k >= 1
    <3>1. k * SizeMod >= SizeMod
      BY <2>2, SizeAssumption
    <3> QED BY <1>2, <2>1, <3>1, SizeAssumption
  <2>3. CASE k <= -1
    <3>1. k * SizeMod <= -SizeMod
      BY <2>3, SizeAssumption
    <3> QED BY <1>2, <2>1, <3>1, SizeAssumption
  <2>4. CASE k = 0
    BY <2>1, <2>4, SizeAssumption
  <2> QED BY <2>2, <2>3, <2>4
<1> QED BY <1>1, <1>2

\* The atomic add and subtract of a size_t.
LEMMA WrapAdd ==
  ASSUME NEW a \in 0 .. SizeMod - 1
  PROVE  /\ (a + 1) % SizeMod = IF a = SizeMod - 1 THEN 0 ELSE a + 1
         /\ (a - 1) % SizeMod = IF a = 0 THEN SizeMod - 1 ELSE a - 1
<1>1. CASE a = SizeMod - 1
  BY <1>1, SizeAssumption
<1>2. CASE a = 0
  BY <1>2, SizeAssumption
<1> QED BY <1>1, <1>2, SizeAssumption

LEMMA AtFinite ==
  ASSUME NEW l
  PROVE  IsFiniteSet(At(l)) /\ Cardinality(At(l)) \in Nat
<1>1. IsFiniteSet(At(l))
  BY FS_Subset, FiniteAssumption, Zenon DEF At
<1> QED BY <1>1, FS_CardinalityType, Zenon

\* The step of t from one place to another.
LEMMA AtMoves ==
  ASSUME TypeOK, NEW t \in Threads, NEW m, pc' = [pc EXCEPT ![t] = m], NEW l
  PROVE  /\ m # l /\ pc[t] # l => Cardinality(At(l)') = Cardinality(At(l))
         /\ m = l /\ pc[t] # l => Cardinality(At(l)') = Cardinality(At(l)) + 1
         /\ m # l /\ pc[t] = l => Cardinality(At(l)') = Cardinality(At(l)) - 1
<1>1. IsFiniteSet(At(l)) /\ Cardinality(At(l)) \in Nat
  BY AtFinite, Zenon
<1>2. CASE m = l
  <2>1. At(l)' = At(l) \cup {t} /\ (t \in At(l) <=> pc[t] = l)
    BY <1>2, Zenon DEF At, TypeOK
  <2>2. Cardinality(At(l) \cup {t}) = IF t \in At(l) THEN Cardinality(At(l)) ELSE Cardinality(At(l)) + 1
    BY <1>1, FS_AddElement, Zenon
  <2> QED BY <1>1, <1>2, <2>1, <2>2, Zenon
<1>3. CASE m # l
  <2>1. At(l)' = At(l) \ {t} /\ (t \in At(l) <=> pc[t] = l)
    BY <1>3, Zenon DEF At, TypeOK
  <2>2. Cardinality(At(l) \ {t}) = IF t \in At(l) THEN Cardinality(At(l)) - 1 ELSE Cardinality(At(l))
    BY <1>1, FS_RemoveElement, Zenon
  <2> QED BY <1>1, <1>3, <2>1, <2>2, Zenon
<1> QED BY <1>2, <1>3

\* A count that moves with what it counts stays right up to the modulus.
LEMMA InStep ==
  ASSUME NEW a \in 0 .. SizeMod - 1, NEW n \in Int, NEW p \in Turns, a = n + p
  PROVE  /\ \E q \in Turns : (a + 1) % SizeMod = (n + 1) + q
         /\ \E q \in Turns : (a - 1) % SizeMod = (n - 1) + q
<1>1. p \in Int /\ p + SizeMod \in Turns /\ p - SizeMod \in Turns /\ SizeMod \in Nat
  BY OneTurn, SizeAssumption, Zenon
<1>2. \E q \in Turns : (a + 1) % SizeMod = (n + 1) + q
  <2>1. CASE a = SizeMod - 1
    <3>1. (a + 1) % SizeMod = (n + 1) + (p - SizeMod)
      BY <1>1, <2>1, WrapAdd
    <3> QED BY <1>1, <3>1, Zenon
  <2>2. CASE a # SizeMod - 1
    <3>1. (a + 1) % SizeMod = (n + 1) + p
      BY <1>1, <2>2, WrapAdd
    <3> QED BY <3>1, Zenon
  <2> QED BY <2>1, <2>2
<1>3. \E q \in Turns : (a - 1) % SizeMod = (n - 1) + q
  <2>1. CASE a = 0
    <3>1. (a - 1) % SizeMod = SizeMod - 1
      BY <1>1, <2>1, WrapAdd, Zenon
    <3>2. SizeMod - 1 = (n - 1) + (p + SizeMod)
      BY <1>1, <2>1
    <3>3. (a - 1) % SizeMod = (n - 1) + (p + SizeMod)
      BY <3>1, <3>2, Zenon
    <3> QED BY <1>1, <3>3, Zenon
  <2>2. CASE a # 0
    <3>1. (a - 1) % SizeMod = (n - 1) + p
      BY <1>1, <2>2, WrapAdd
    <3> QED BY <3>1
  <2> QED BY <2>1, <2>2, Zenon
<1> QED BY <1>2, <1>3, Zenon

\* The steps that keep the count: nothing moves, or the count moves with it.
LEMMA CountKept ==
  ASSUME TypeOK, CountInv, phase \in {"create", "up"}, NEW m \in Int,
         LET n == Len(free) + Cardinality(At("sub")) - Cardinality(At("add"))
         IN  \/ availBlks' = availBlks /\ m = n
             \/ availBlks' = (availBlks + 1) % SizeMod /\ m = n + 1
             \/ availBlks' = (availBlks - 1) % SizeMod /\ m = n - 1,
         m = Len(free') + Cardinality(At("sub")') - Cardinality(At("add")')
  PROVE  CountInv'
<1> DEFINE n == Len(free) + Cardinality(At("sub")) - Cardinality(At("add"))
<1>1. PICK p \in Turns : availBlks = n + p
  BY Zenon DEF CountInv
<1>2. n \in Int
  BY AtFinite, LenProperties DEF TypeOK
<1>3. availBlks \in 0 .. SizeMod - 1
  BY Zenon DEF TypeOK
<1>4. \/ availBlks' = availBlks /\ m = n
      \/ availBlks' = (availBlks + 1) % SizeMod /\ m = n + 1
      \/ availBlks' = (availBlks - 1) % SizeMod /\ m = n - 1
  OBVIOUS
<1>5. PICK a, b, c : a = availBlks /\ b = availBlks' /\ c = n
  BY Zenon
<1> HIDE DEF n
<1>6. a \in 0 .. SizeMod - 1 /\ c \in Int /\ a = c + p
  BY <1>1, <1>2, <1>3, <1>5, Zenon
<1>7. \/ b = a /\ m = c
      \/ b = (a + 1) % SizeMod /\ m = c + 1
      \/ b = (a - 1) % SizeMod /\ m = c - 1
  BY <1>4, <1>5, Zenon
<1>8. \E q \in Turns : availBlks' = m + q
  <2>1. \E q \in Turns : b = m + q
    <3>1. \E q \in Turns : (a + 1) % SizeMod = (c + 1) + q
      BY <1>1, <1>6, InStep, Zenon
    <3>2. \E q \in Turns : (a - 1) % SizeMod = (c - 1) + q
      BY <1>1, <1>6, InStep, Zenon
    <3> QED BY <1>1, <1>6, <1>7, <3>1, <3>2, Zenon
  <2> QED BY <1>5, <2>1, Zenon
<1> QED BY <1>8, Zenon DEF CountInv

LEMMA PoolCount == ASSUME PoolInv, CountInv, Pool PROVE CountInv'
<1> USE DEF PoolInv
<1>0. /\ Len(free) \in Nat /\ Cardinality(At("sub")) \in Nat /\ Cardinality(At("add")) \in Nat
  BY AtFinite, LenProperties, Zenon DEF TypeOK
<1>1. At("sub")' = At("sub") /\ At("add")' = At("add")
  BY Zenon DEF Pool, CreatePush, CreateFail, CreateDone, Destroy, CleanupPop, CleanupDone, threadVars, At
<1>2. ASSUME NEW b \in Blocks, CreatePush(b) PROVE CountInv'
  <2>1. Len(free') = Len(free) + 1
    BY <1>2, PushSeq, Zenon DEF CreatePush, TypeOK
  <2>2. phase \in {"create", "up"} /\ availBlks' = (availBlks + 1) % SizeMod
    BY <1>2, Zenon DEF CreatePush
  <2> DEFINE m == Len(free) + Cardinality(At("sub")) - Cardinality(At("add")) + 1
  <2>3. m \in Int /\ m = Len(free') + Cardinality(At("sub")') - Cardinality(At("add")')
    BY <1>0, <1>1, <2>1
  <2> QED BY <2>2, <2>3, CountKept, Zenon
<1>3. CASE CreateDone
  <2>1. availBlks' = availBlks /\ free' = free /\ phase \in {"create", "up"}
    BY <1>3, Zenon DEF CreateDone, stackVars
  <2> QED BY <1>1, <2>1 DEF CountInv
<1>4. CASE CreateFail \/ Destroy \/ CleanupPop \/ CleanupDone
  BY <1>4, Zenon DEF CreateFail, Destroy, CleanupPop, CleanupDone, CountInv
<1> QED BY <1>2, <1>3, <1>4, Zenon DEF Pool

LEMMA ThreadCount ==
  ASSUME PoolInv, CountInv, NEW t \in Threads,
         Pop(t) \/ Push(t) \/ \E b \in Blocks : FreeCall(t, b)
  PROVE  CountInv'
<1> USE DEF PoolInv
<1> DEFINE n == Len(free) + Cardinality(At("sub")) - Cardinality(At("add"))
<1>0. /\ Len(free) \in Nat /\ Cardinality(At("sub")) \in Nat /\ Cardinality(At("add")) \in Nat
  BY AtFinite, LenProperties DEF TypeOK
<1>1. phase = "up" /\ phase' = phase
  <2>1. phase' = phase
    BY Zenon DEF Pop, Push, PopRead, PopNext, PopSwap, PopMiss, AllocReturn, PushRead, PushLink, PushSwap,
           PushMiss, FreeReturn, FreeCall, poolVars
  <2>2. phase = "up" \/ pc[t] # "idle"
    BY Zenon DEF Pop, Push, PopRead, PopNext, PopSwap, PopMiss, AllocReturn, PushRead, PushLink, PushSwap,
           PushMiss, FreeReturn, FreeCall
  <2> QED BY <2>1, <2>2, Zenon DEF ThreadInv
<1>2. ASSUME NEW l, l \notin {"sub", "add"}, pc[t] \notin {"sub", "add"}, pc' = [pc EXCEPT ![t] = l],
             free' = free, availBlks' = availBlks
      PROVE  CountInv'
  <2>1. Cardinality(At("sub")') = Cardinality(At("sub")) /\ Cardinality(At("add")') = Cardinality(At("add"))
    BY <1>2, AtMoves, Zenon
  <2>2. n \in Int /\ n = Len(free') + Cardinality(At("sub")') - Cardinality(At("add")')
    BY <1>0, <1>2, <2>1
  <2> QED BY <1>1, <1>2, <2>2, CountKept, Zenon
<1>3. CASE PopRead(t) \/ PopNext(t) \/ PopMiss(t) \/ PushRead(t) \/ PushLink(t) \/ PushMiss(t)
           \/ \E b \in Blocks : FreeCall(t, b)
  <2>1. free' = free /\ availBlks' = availBlks /\ pc[t] \notin {"sub", "add"}
    BY <1>3, Zenon DEF PopRead, PopNext, PopMiss, PushRead, PushLink, PushMiss, FreeCall, stackVars
  <2>2. \E l : l \notin {"sub", "add"} /\ pc' = [pc EXCEPT ![t] = l]
    BY <1>3, Zenon DEF PopRead, PopNext, PopMiss, PushRead, PushLink, PushMiss, FreeCall
  <2> QED BY <1>2, <2>1, <2>2, ZenonT(60)
<1>4. CASE PopSwap(t)
  <2>1. Cardinality(At("sub")') = Cardinality(At("sub")) + 1 /\ Cardinality(At("add")') = Cardinality(At("add"))
    <3>1. TypeOK /\ pc[t] = "popcas" /\ pc' = [pc EXCEPT ![t] = "sub"]
      BY <1>4, Zenon DEF PopSwap
    <3>2. "popcas" # "sub" /\ "popcas" # "add" /\ "sub" # "add"
      BY Zenon
    <3> HIDE DEF PoolInv
    <3> QED BY <3>1, <3>2, AtMoves, Zenon
  <2>2. top.ptr # NULL
    BY <1>4, NotOvertaken, Zenon DEF PopSwap, SnapshotInv, Snapshot
  <2>3. Len(free') = Len(free) - 1
    <3>1. free # <<>>
      BY <2>2, Zenon DEF StackIntact, Linked
    <3> QED BY <1>4, <3>1, PopSeq, Zenon DEF PopSwap, TypeOK, StackIntact, Linked
  <2>4. n \in Int /\ n = Len(free') + Cardinality(At("sub")') - Cardinality(At("add")')
    BY <1>0, <2>1, <2>3, SMTT(30)
  <2>5. availBlks' = availBlks
    BY <1>4, Zenon DEF PopSwap
  <2> QED BY <1>1, <2>4, <2>5, CountKept, Zenon
<1>5. CASE AllocReturn(t)
  <2>1. Cardinality(At("sub")') = Cardinality(At("sub")) - 1 /\ Cardinality(At("add")') = Cardinality(At("add"))
    <3>1. TypeOK /\ pc[t] = "sub" /\ pc' = [pc EXCEPT ![t] = "idle"]
      BY <1>5, Zenon DEF AllocReturn
    <3>2. "idle" \notin {"sub", "add"}
      BY Zenon
    <3> HIDE DEF PoolInv
    <3> QED BY <3>1, <3>2, AtMoves, Zenon
  <2>2. free' = free /\ availBlks' = (availBlks - 1) % SizeMod
    BY <1>5, Zenon DEF AllocReturn, stackVars
  <2>3. n - 1 \in Int /\ n - 1 = Len(free') + Cardinality(At("sub")') - Cardinality(At("add")')
    BY <1>0, <2>1, <2>2
  <2> QED BY <1>1, <2>2, <2>3, CountKept, Zenon
<1>6. CASE PushSwap(t)
  <2>1. Cardinality(At("sub")') = Cardinality(At("sub")) /\ Cardinality(At("add")') = Cardinality(At("add")) + 1
    <3>1. TypeOK /\ pc[t] = "pushcas" /\ pc' = [pc EXCEPT ![t] = "add"]
      BY <1>6, Zenon DEF PushSwap
    <3>2. "pushcas" # "sub" /\ "pushcas" # "add" /\ "sub" # "add"
      BY Zenon
    <3> HIDE DEF PoolInv
    <3> QED BY <3>1, <3>2, AtMoves, Zenon
  <2>2. val[t] \in Blocks
    BY <1>6, Zenon DEF PushSwap, ThreadInv, TypeOK, Ptr
  <2>3. Len(free') = Len(free) + 1
    BY <1>6, <2>2, PushSeq, Zenon DEF PushSwap, TypeOK
  <2>4. n \in Int /\ n = Len(free') + Cardinality(At("sub")') - Cardinality(At("add")')
    BY <1>0, <2>1, <2>3
  <2>5. availBlks' = availBlks
    BY <1>6, Zenon DEF PushSwap
  <2> QED BY <1>1, <2>4, <2>5, CountKept, Zenon
<1>7. CASE FreeReturn(t)
  <2>1. Cardinality(At("sub")') = Cardinality(At("sub")) /\ Cardinality(At("add")') = Cardinality(At("add")) - 1
    <3>1. TypeOK /\ pc[t] = "add" /\ pc' = [pc EXCEPT ![t] = "idle"]
      BY <1>7 DEF FreeReturn
    <3>2. "idle" \notin {"sub", "add"}
      OBVIOUS
    <3> HIDE DEF PoolInv
    <3> QED BY <3>1, <3>2, AtMoves, Zenon
  <2>2. free' = free /\ availBlks' = (availBlks + 1) % SizeMod
    BY <1>7, Zenon DEF FreeReturn, stackVars
  <2>3. n + 1 \in Int /\ n + 1 = Len(free') + Cardinality(At("sub")') - Cardinality(At("add")')
    BY <1>0, <2>1, <2>2
  <2> QED BY <1>1, <2>2, <2>3, CountKept, Zenon
<1> QED BY <1>3, <1>4, <1>5, <1>6, <1>7, Zenon DEF Pop, Push

LEMMA InitCount == Init => CountInv
<1> SUFFICES ASSUME Init PROVE CountInv
  BY Zenon
<1>1. At("sub") = {} /\ At("add") = {}
  BY Zenon DEF Init, At
<1>2. Len(free) = 0 /\ Cardinality(At("sub")) = 0 /\ Cardinality(At("add")) = 0 /\ availBlks = 0
  BY <1>1, FS_EmptySet, Zenon DEF Init
<1>3. availBlks = Len(free) + Cardinality(At("sub")) - Cardinality(At("add")) + 0
  BY <1>2
<1> QED BY <1>3, NoTurn, Zenon DEF CountInv

LEMMA NextCount == PoolInv /\ CountInv /\ [Next]_vars => CountInv'
<1> SUFFICES ASSUME PoolInv, CountInv, [Next]_vars PROVE CountInv'
  BY Zenon
<1>1. CASE UNCHANGED vars
  BY <1>1, Zenon DEF vars, CountInv, At
<1> QED BY <1>1, PoolCount, ThreadCount DEF Next

\* A list without repetitions is no longer than the set it is drawn from.
LEMMA FreeFits == ASSUME PoolInv PROVE Len(free) \in Nat /\ Len(free) < SizeMod
<1>1. free \in Seq(Blocks) /\ \A i, j \in 1 .. Len(free) : free[i] = free[j] => i = j
  BY DEF PoolInv, TypeOK, StackIntact, Linked
<1>2. Len(free) \in Nat /\ free \in [1 .. Len(free) -> Blocks]
  BY <1>1, LenProperties
<1>3. free \in Injection(1 .. Len(free), Blocks)
  BY <1>1, <1>2 DEF Injection, IsInjective
<1>4. Cardinality(1 .. Len(free)) <= Cardinality(Blocks)
  BY <1>3, FS_Injection, FiniteAssumption, Zenon
<1>5. Cardinality(1 .. Len(free)) = Len(free)
  BY <1>2, FS_Interval, SMTT(30)
<1>6. Cardinality(Blocks) \in Nat
  BY FS_CardinalityType, FiniteAssumption, Zenon
<1> QED BY <1>2, <1>4, <1>5, <1>6, FiniteAssumption, SizeAssumption

\* availBlks, added to and subtracted from outside the swaps, is the number of
\* free blocks whenever no thread is in the pool, however the calls interleaved
\* and whether or not it wrapped on the way.
THEOREM CountIsSettled == Spec => []CountSettles
<1>1. PoolInv /\ CountInv => CountSettles
  <2> SUFFICES ASSUME PoolInv, CountInv, phase = "up", \A t \in Threads : pc[t] = "idle"
               PROVE  availBlks = Len(free)
    BY Zenon DEF CountSettles
  <2>1. At("sub") = {} /\ At("add") = {}
    BY Zenon DEF At
  <2>2. Cardinality(At("sub")) = 0 /\ Cardinality(At("add")) = 0
    BY <2>1, FS_EmptySet, Zenon
  <2>3. PICK p \in Turns : availBlks = Len(free) + Cardinality(At("sub")) - Cardinality(At("add")) + p
    BY Zenon DEF CountInv
  <2>4. availBlks \in 0 .. SizeMod - 1 /\ p \in Int
    BY <2>3, OneTurn, Zenon DEF PoolInv, TypeOK
  <2>5. availBlks = Len(free) + p
    BY <2>2, <2>3, <2>4, FreeFits
  <2>6. -SizeMod < p /\ p < SizeMod
    BY <2>4, <2>5, FreeFits, SizeAssumption
  <2> QED BY <2>3, <2>5, <2>6, NoTurn, FreeFits
<1>2. Spec => []CountInv
  BY InitCount, NextCount, PoolInvariant, PTL DEF Spec
<1> QED BY <1>1, <1>2, PoolInvariant, PTL

----------------------------------------------------------------------------
(* The pool implements BlockPool.                                          *)

\* A step that leaves the stack and the hands alone is no event of BlockPool.
LEMMA NoEvent ==
  ASSUME free' = free, Handed' = Handed
  PROVE  UNCHANGED BP!bvars
BY Zenon DEF BP!bvars, Elems

\* The steps of creation and clean-up add and drop blocks.
LEMMA PoolRefines == ASSUME PoolInv, Pool PROVE [BP!Next]_(BP!bvars)
<1> USE DEF PoolInv
<1>1. ASSUME NEW b \in Blocks, CreatePush(b) PROVE BP!Add(b)
  <2>1. b \notin Elems(free) \cup Handed
    BY <1>1, Zenon DEF CreatePush, NoneLost
  <2>2. Elems(free') = Elems(free) \cup {b}
    BY <1>1, PushSeq DEF CreatePush, TypeOK
  <2>3. Handed' = Handed
    BY <1>1, Zenon DEF CreatePush, threadVars, Handed
  <2> QED BY <2>1, <2>2, <2>3 DEF BP!Add
<1>2. ASSUME CreateFail \/ CreateDone \/ Destroy \/ CleanupDone
      PROVE  UNCHANGED BP!bvars
  <2>1. free' = free /\ Handed' = Handed
    BY <1>2, Zenon DEF CreateFail, CreateDone, Destroy, CleanupDone, stackVars,
                threadVars, Handed
  <2> QED BY <2>1, NoEvent, Zenon
<1>3. ASSUME CleanupPop PROVE BP!Drop(top.ptr) /\ top.ptr \in Blocks
  <2>1. /\ top.ptr \in Blocks /\ top.ptr \in Elems(free)
        /\ Elems(free') = Elems(free) \ {top.ptr}
    BY <1>3, LinkedPop, Zenon DEF CleanupPop, TypeOK, StackIntact
  <2>2. Handed' = Handed
    BY <1>3 DEF CleanupPop, threadVars, Handed
  <2> QED BY <2>1, <2>2, Zenon DEF BP!Drop
<1> QED BY <1>1, <1>2, <1>3, Zenon DEF Pool, BP!Next

\* Of the steps of a pop only the swap is an event, the taking of the top.
LEMMA PopRefines ==
  ASSUME PoolInv, NEW t \in Threads, Pop(t) PROVE [BP!Next]_(BP!bvars)
<1> USE DEF PoolInv
<1>1. CASE PopSwap(t)
  <2> USE <1>1 DEF PopSwap
  <2>1. top.ptr # NULL /\ old[t].ptr = top.ptr
    BY Zenon DEF SnapshotInv, Snapshot
  <2>2. /\ top.ptr \in Blocks /\ top.ptr \in Elems(free)
        /\ Elems(free') = Elems(free) \ {top.ptr}
    BY <2>1, LinkedPop, Zenon DEF TypeOK, StackIntact
  <2>3. top.ptr \notin Handed
    BY <2>2, Zenon DEF BlockOnce, Handed
  <2>4. Handed' = Handed \cup {top.ptr}
    <3>1. val \in [Threads -> Ptr] /\ val[t] = NULL
      BY Zenon DEF TypeOK, ThreadInv
    <3> QED BY <2>1, <3>1, Zenon DEF Handed
  <2>5. BP!Take(top.ptr)
    BY <2>2, <2>3, <2>4, Zenon DEF BP!Take
  <2> QED BY <2>2, <2>5, Zenon DEF BP!Next
<1>2. CASE PopRead(t) \/ PopNext(t) \/ PopMiss(t)
  <2>1. free' = free /\ Handed' = Handed
    BY <1>2, Zenon DEF PopRead, PopNext, PopMiss, stackVars, Handed
  <2> QED BY <2>1, NoEvent, Zenon
<1>3. CASE AllocReturn(t)
  <2>1. val[t] # NULL /\ val \in [Threads -> Ptr]
    BY <1>3, Zenon DEF AllocReturn, ThreadInv, TypeOK
  <2>2. free' = free /\ Handed' = Handed
    BY <1>3, <2>1, Zenon DEF AllocReturn, stackVars, Handed
  <2> QED BY <2>2, NoEvent, Zenon
<1> QED BY <1>1, <1>2, <1>3, Zenon DEF Pop

\* Of the steps of a push only the swap is an event, the giving back.
LEMMA PushRefines ==
  ASSUME PoolInv, NEW t \in Threads, Push(t) PROVE [BP!Next]_(BP!bvars)
<1> USE DEF PoolInv
<1>1. CASE PushSwap(t)
  <2> USE <1>1 DEF PushSwap
  <2> DEFINE b == val[t]
  <2>1. b # NULL /\ b \in Blocks /\ b \notin Elems(free) /\ b \notin app
    BY Zenon DEF ThreadInv, TypeOK, Ptr, BlockOnce
  <2>2. Elems(free') = Elems(free) \cup {b}
    BY <2>1, PushSeq, Zenon DEF TypeOK
  <2>3. b \in Handed
    BY <2>1, Zenon DEF Handed
  <2>4. Handed' = Handed \ {b}
    <3>1. \A u \in Threads : val'[u] = IF u = t THEN NULL ELSE val[u]
      BY DEF TypeOK
    <3>2. \A u \in Threads : u # t => val[u] # b
      BY <2>1, Zenon DEF BlockOnce
    <3> QED BY <2>1, <3>1, <3>2, Zenon DEF Handed
  <2>5. BP!Give(b)
    BY <2>1, <2>2, <2>3, <2>4, Zenon DEF BP!Give
  <2> QED BY <2>1, <2>5, Zenon DEF BP!Next
<1>2. CASE PushRead(t) \/ PushLink(t) \/ PushMiss(t) \/ FreeReturn(t)
  <2>1. free' = free /\ Handed' = Handed
    BY <1>2 DEF PushRead, PushLink, PushMiss, FreeReturn, stackVars, Handed
  <2> QED BY <2>1, NoEvent, Zenon
<1> QED BY <1>1, <1>2, Zenon DEF Push

\* Lac_MemPoolEntryAlloc and Lac_MemPoolEntryFree on any number of threads act
\* on the pool as if each were one indivisible event, at its swap.
THEOREM PoolImplementsBlockPool == Spec => PoolSpec
<1>1. Init => BP!Init
  BY DEF Init, BP!Init, Elems, Handed
<1>2. PoolInv /\ [Next]_vars => [BP!Next]_(BP!bvars)
  <2> SUFFICES ASSUME PoolInv, [Next]_vars PROVE [BP!Next]_(BP!bvars)
    BY Zenon
  <2>1. CASE UNCHANGED vars
    BY <2>1, NoEvent DEF vars, Handed
  <2>2. CASE Pool
    BY <2>2, PoolRefines
  <2>3. ASSUME NEW t \in Threads, Pop(t) \/ Push(t)
        PROVE  [BP!Next]_(BP!bvars)
    BY <2>3, PopRefines, PushRefines, Zenon
  <2>4. ASSUME NEW t \in Threads, NEW b \in Blocks, FreeCall(t, b)
        PROVE  UNCHANGED BP!bvars
    BY <2>4, FreeCallStep, NoEvent, Zenon DEF FreeCall, stackVars
  <2> QED BY <2>1, <2>2, <2>3, <2>4 DEF Next
<1> QED BY <1>1, <1>2, PoolInvariant, PTL DEF Spec, PoolSpec, BP!Spec
=============================================================================
