---------------------------- MODULE SymCount_proof ----------------------------
(* Proofs about SymSession: what is counted as pending on a session, and what *)
(* an update, the removal and the blocking condition have from the count.     *)
EXTENDS SymSession_proof, FiniteSetTheorems

\* The requests written and not answered, and the readers of the session.
Waiting == {t \in Threads : pc[t] \in Counting}
Readers == {t \in Threads : pc[t] \in Reading}
CountInv ==
  /\ pendingCbCount = Len(queue) + InUse + Cardinality(Waiting)
  /\ accessReaders = Cardinality(Readers)
  /\ \A t \in Threads : pc[t] = "update" => accessLock = t
  /\ accessLock # None => accessReaders = 0 /\ pendingCbCount = 0
  /\ ~alive => pendingCbCount = 0 /\ \A t \in Threads : pc[t] = "idle"

\* Every request is worked on with the descriptor it was written for.
GenInv ==
  /\ \A r \in ring : r.gen = gen
  /\ \A i \in 1..Len(queue) : queue[i].gen = gen
  /\ \A i \in 1..Len(resp) : resp[i].req.gen = gen
  /\ cb.pc # "idle" => cb.req.gen = gen
  /\ \A t \in Threads : pc[t] \in Unsent => req[t].gen = gen

RefInv == IInv /\ IsFiniteSet(ring) /\ CountInv /\ GenInv
-----------------------------------------------------------------------------
(* The counts.                                                               *)

LEMMA CountMoves ==
  ASSUME TypeOK, TypeOK', NEW B, NEW t \in Threads, \A u \in Threads \ {t} : pc'[u] = pc[u]
  PROVE  LET X == {u \in Threads : pc[u] \in B}
             Y == {u \in Threads : pc'[u] \in B}
         IN  /\ IsFiniteSet(X) /\ Cardinality(X) \in Nat
             /\ pc[t] \in B /\ pc'[t] \notin B => Cardinality(Y) = Cardinality(X) - 1
             /\ pc[t] \notin B /\ pc'[t] \in B => Cardinality(Y) = Cardinality(X) + 1
             /\ (pc[t] \in B <=> pc'[t] \in B) => Cardinality(Y) = Cardinality(X)
<1> DEFINE X == {u \in Threads : pc[u] \in B}
           Y == {u \in Threads : pc'[u] \in B}
<1>1. IsFiniteSet(X) /\ Cardinality(X) \in Nat
  BY FS_Subset, FS_CardinalityType, ThreadsAssumption, Zenon
<1>2. /\ pc[t] \in B /\ pc'[t] \notin B => t \in X /\ Y = X \ {t}
      /\ pc[t] \notin B /\ pc'[t] \in B => t \notin X /\ Y = X \cup {t}
      /\ (pc[t] \in B <=> pc'[t] \in B) => Y = X
  OBVIOUS
<1> HIDE DEF X, Y
<1>3. pc[t] \in B /\ pc'[t] \notin B => Cardinality(Y) = Cardinality(X) - 1
  BY <1>1, <1>2, FS_RemoveElement, Zenon
<1>4. pc[t] \notin B /\ pc'[t] \in B => Cardinality(Y) = Cardinality(X) + 1
  BY <1>1, <1>2, FS_AddElement, Zenon
<1>5. (pc[t] \in B <=> pc'[t] \in B) => Cardinality(Y) = Cardinality(X)
  BY <1>2, Zenon
<1> QED BY <1>1, <1>3, <1>4, <1>5, Zenon DEF X, Y

LEMMA CountTypes ==
  ASSUME TypeOK, IsFiniteSet(ring)
  PROVE  /\ IsFiniteSet(Waiting) /\ IsFiniteSet(Readers)
         /\ Cardinality(Waiting) \in Nat /\ Cardinality(Readers) \in Nat
         /\ Cardinality(ring) \in Nat /\ Len(queue) \in Nat /\ Len(resp) \in Nat /\ InUse \in Nat
<1>1. IsFiniteSet(Waiting) /\ IsFiniteSet(Readers)
  BY FS_Subset, ThreadsAssumption, Zenon DEF Waiting, Readers
<1>2. Cardinality(ring) \in Nat /\ Len(queue) \in Nat /\ Len(resp) \in Nat
  BY FS_CardinalityType DEF TypeOK
<1> QED BY <1>1, <1>2, FS_CardinalityType DEF InUse

\* A count of zero: there is nothing anywhere.
LEMMA NothingPending ==
  ASSUME TypeOK, IsFiniteSet(ring), CountInv, pendingCbCount = 0
  PROVE  /\ queue = <<>> /\ ring = {} /\ resp = <<>> /\ cb.pc = "idle"
         /\ \A t \in Threads : pc[t] \notin Counting
<1>1. Len(queue) = 0 /\ InUse = 0 /\ Cardinality(Waiting) = 0
  BY CountTypes DEF CountInv
<1>2. Cardinality(ring) = 0 /\ Len(resp) = 0 /\ cb.pc = "idle"
  BY <1>1, CountTypes DEF InUse
<1>3. Waiting = {} /\ ring = {}
  BY <1>1, <1>2, CountTypes, FS_EmptySet, Zenon DEF TypeOK
<1>4. queue = <<>> /\ resp = <<>>
  BY <1>1, <1>2 DEF TypeOK
<1> QED BY <1>2, <1>3, <1>4, Zenon DEF Waiting

LEMMA NobodyReads ==
  ASSUME TypeOK, IsFiniteSet(ring), CountInv, accessLock # None
  PROVE  \A t \in Threads : pc[t] \notin Unsent
<1>1. accessReaders = 0 /\ pendingCbCount = 0
  BY Zenon DEF CountInv
<1>2. Readers = {}
  BY <1>1, CountTypes, FS_EmptySet, Zenon DEF CountInv
<1> QED BY <1>1, <1>2, NothingPending, Zenon DEF Readers, Unsent

\* The sum changes as its parts do.
Shift(q, u, w, a) ==
  /\ Len(queue') = Len(queue) + q /\ InUse' = InUse + u
  /\ Cardinality(Waiting') = Cardinality(Waiting) + w
  /\ Cardinality(Readers') = Cardinality(Readers) + a
  /\ pendingCbCount' = pendingCbCount + (q + u + w) /\ accessReaders' = accessReaders + a

LEMMA SumNext ==
  ASSUME TypeOK, TypeOK', IsFiniteSet(ring), CountInv,
         NEW q \in Int, NEW u \in Int, NEW w \in Int, NEW a \in Int, Shift(q, u, w, a)
  PROVE  /\ pendingCbCount' = Len(queue') + InUse' + Cardinality(Waiting')
         /\ accessReaders' = Cardinality(Readers')
<1>1. PICK i, j, k, n \in Nat : /\ i = Len(queue) /\ j = InUse /\ k = Cardinality(Waiting)
                                /\ n = Cardinality(Readers)
  BY CountTypes, Zenon
<1>2. pendingCbCount = i + j + k /\ accessReaders = n
  BY <1>1, Zenon DEF CountInv
<1>3. /\ Len(queue') = i + q /\ InUse' = j + u /\ Cardinality(Waiting') = k + w
      /\ Cardinality(Readers') = n + a
      /\ pendingCbCount' = i + j + k + (q + u + w) /\ accessReaders' = n + a
  BY <1>1, <1>2, Zenon DEF Shift
<1>4. i + j + k + (q + u + w) = (i + q) + (j + u) + (k + w)
  OBVIOUS
<1> QED BY <1>3, <1>4, Zenon

\* The steps of a call: where the thread moves and what it does to the counts.
LEMMA InCallCount ==
  ASSUME RefInv, TypeOK', NEW t \in Threads, InCall(t)
  PROVE  CountInv'
<1>1. TypeOK /\ IsFiniteSet(ring) /\ CountInv /\ PlaceInv
  BY Zenon DEF RefInv, IInv
<1>2. /\ \A u \in Threads \ {t} : pc'[u] = pc[u] /\ req'[u] = req[u]
      /\ pc[t] \in Unsent \cup {"accepted", "update"}
  BY <1>1, InCallMoves, Zenon
<1>3. pc[t] # "idle" /\ alive' = alive /\ resp' = resp /\ cb' = cb
  BY <1>2, Zenon DEF InCall, TakeCookie, FormatFails, CountPending, UnlockSessionReader, ReadFlag, ReadTail,
         Recheck, Enqueue, Block, Put, Unblock, Undo, Accepted, SessionUpdate, Unsent, Reading,
         Counting, devVars
<1>4. alive'
  BY <1>1, <1>3, Zenon DEF CountInv
<1>5. /\ pc[t] \in Counting /\ pc'[t] \notin Counting => Cardinality(Waiting') = Cardinality(Waiting) - 1
      /\ pc[t] \notin Counting /\ pc'[t] \in Counting => Cardinality(Waiting') = Cardinality(Waiting) + 1
      /\ (pc[t] \in Counting <=> pc'[t] \in Counting) => Cardinality(Waiting') = Cardinality(Waiting)
      /\ pc[t] \in Reading /\ pc'[t] \notin Reading => Cardinality(Readers') = Cardinality(Readers) - 1
      /\ (pc[t] \in Reading <=> pc'[t] \in Reading) => Cardinality(Readers') = Cardinality(Readers)
  BY <1>1, <1>2, CountMoves, Zenon DEF Waiting, Readers
<1>6. /\ Cardinality(Waiting) \in Nat /\ Cardinality(Readers) \in Nat /\ Cardinality(ring) \in Nat
      /\ Len(queue) \in Nat /\ InUse \in Nat /\ Len(resp) \in Nat
      /\ pendingCbCount \in Int /\ accessReaders \in Int
  BY <1>1, CountTypes, SMTT(30) DEF CountInv
<1>7. ring' = ring => InUse' = InUse
  BY <1>3, Zenon DEF InUse
<1>8. accessLock # None => pc[t] \notin Unsent
  BY <1>1, NobodyReads, SMTT(30)
<1>9. ASSUME NEW q \in Int, NEW n \in Int, NEW w \in Int, NEW a \in Int, Shift(q, n, w, a),
             accessLock' = accessLock, pc[t] # "update", pc'[t] # "update",
             pc[t] = "accepted" => UNCHANGED <<pendingCbCount, accessReaders>>
      PROVE  CountInv'
  <2>1. /\ pendingCbCount' = Len(queue') + InUse' + Cardinality(Waiting')
        /\ accessReaders' = Cardinality(Readers')
    BY <1>1, <1>9, SumNext, Zenon
  <2>2. \A u \in Threads : pc'[u] = "update" => accessLock' = u
    BY <1>1, <1>2, <1>9, Zenon DEF CountInv
  <2>3. accessLock' # None => accessReaders' = 0 /\ pendingCbCount' = 0
    BY <1>1, <1>2, <1>8, <1>9, Zenon DEF CountInv
  <2> QED BY <1>4, <2>1, <2>2, <2>3, Zenon DEF CountInv
<1>0. 0 \in Int /\ 1 \in Int /\ -1 \in Int
  OBVIOUS
<1> USE DEF Reading, Counting
<1>10. CASE TakeCookie(t) \/ ReadFlag(t) \/ ReadTail(t) \/ Recheck(t) \/ Block(t) \/ Unblock(t) \/ Accepted(t)
  <2>1. /\ UNCHANGED <<queue, ring, accessReaders, accessLock, pendingCbCount>>
        /\ pc[t] \in Reading <=> pc'[t] \in Reading
        /\ pc[t] \in Counting <=> pc'[t] \in Counting
        /\ pc[t] # "update" /\ pc'[t] # "update"
    <3>1. UNCHANGED <<queue, ring, accessReaders, accessLock, pendingCbCount>>
      BY <1>10, Zenon DEF TakeCookie, ReadFlag, ReadTail, Recheck, Block, Unblock, Accepted, queueVars,
                   devVars, lockVars
    <3>2. \/ pc[t] = "cookie" /\ pc'[t] = "format"
          \/ pc[t] \in {"flag", "tail", "lock", "send", "refused"}
             /\ pc'[t] \in {"tail", "lock", "send", "enqueue", "put", "undo"}
          \/ pc[t] = "accepted" /\ pc'[t] = "idle"
      BY <1>1, <1>10, CallPlaces, Zenon
    <3> QED BY <3>1, <3>2, Zenon
  <2>2. /\ Len(queue') = Len(queue) /\ InUse' = InUse
        /\ Cardinality(Waiting') = Cardinality(Waiting) /\ Cardinality(Readers') = Cardinality(Readers)
    BY <1>5, <1>7, <2>1, Zenon
  <2>3. Shift(0, 0, 0, 0)
    <3> HIDE DEF Reading, Counting
    <3> QED BY <1>6, <2>2, <2>1 DEF Shift
  <2> QED BY <1>0, <1>9, <2>1, <2>3, Zenon
<1>11. CASE FormatFails(t) \/ UnlockSessionReader(t)
  <2>1. /\ UNCHANGED <<queue, ring, accessLock, pendingCbCount>>
        /\ pc[t] \in Reading /\ pc'[t] \notin Reading /\ accessReaders' = accessReaders - 1
        /\ pc[t] \in Counting <=> pc'[t] \in Counting
        /\ pc[t] \notin {"update", "accepted"} /\ pc'[t] # "update"
    BY <1>1, <1>11, SMTT(30) DEF FormatFails, UnlockSessionReader, TypeOK, queueVars, devVars
  <2>2. /\ Len(queue') = Len(queue) /\ InUse' = InUse
        /\ Cardinality(Waiting') = Cardinality(Waiting) /\ Cardinality(Readers') = Cardinality(Readers) - 1
    BY <1>5, <1>7, <2>1, Zenon
  <2>3. Shift(0, 0, 0, -1)
    <3> HIDE DEF Reading, Counting
    <3> QED BY <1>6, <2>2, <2>1 DEF Shift
  <2> QED BY <1>0, <1>9, <2>1, <2>3, Zenon
<1>12. CASE CountPending(t)
  <2>1. /\ UNCHANGED <<queue, ring, accessLock, accessReaders>>
        /\ pc[t] \in Reading <=> pc'[t] \in Reading
        /\ pc[t] \notin Counting /\ pc'[t] \in Counting /\ pendingCbCount' = pendingCbCount + 1
        /\ pc[t] \notin {"update", "accepted"} /\ pc'[t] # "update"
    BY <1>1, <1>12, Zenon DEF CountPending, TypeOK, queueVars, devVars, lockVars
  <2>2. /\ Len(queue') = Len(queue) /\ InUse' = InUse
        /\ Cardinality(Waiting') = Cardinality(Waiting) + 1 /\ Cardinality(Readers') = Cardinality(Readers)
    BY <1>5, <1>7, <2>1, Zenon
  <2>3. Shift(0, 0, 1, 0)
    <3> HIDE DEF Reading, Counting
    <3> QED BY <1>6, <2>2, <2>1 DEF Shift
  <2> QED BY <1>0, <1>9, <2>1, <2>3, Zenon
<1>13. CASE Enqueue(t)
  <2>1. /\ UNCHANGED <<ring, accessLock, accessReaders, pendingCbCount>>
        /\ pc[t] \in Reading <=> pc'[t] \in Reading
        /\ pc[t] \in Counting /\ pc'[t] \notin Counting /\ Len(queue') = Len(queue) + 1
        /\ pc[t] \notin {"update", "accepted"} /\ pc'[t] # "update"
    <3>1. /\ UNCHANGED <<ring, accessLock, accessReaders, pendingCbCount>> /\ pc[t] = "enqueue"
          /\ pc' = [pc EXCEPT ![t] = "accepted"] /\ queue' = Append(queue, req[t])
      BY <1>13, Zenon DEF Enqueue, devVars, lockVars
    <3>2. pc'[t] = "accepted"
      BY <1>1, <3>1, Zenon DEF TypeOK
    <3>3. Len(queue') = Len(queue) + 1
      BY <1>1, <3>1 DEF TypeOK
    <3> QED BY <3>1, <3>2, <3>3, Zenon
  <2>2. /\ Len(queue') = Len(queue) + 1 /\ InUse' = InUse
        /\ Cardinality(Waiting') = Cardinality(Waiting) - 1 /\ Cardinality(Readers') = Cardinality(Readers)
    BY <1>5, <1>7, <2>1, Zenon
  <2>3. Shift(1, 0, -1, 0)
    <3> HIDE DEF Reading, Counting
    <3> QED BY <1>6, <2>2, <2>1 DEF Shift
  <2> QED BY <1>0, <1>9, <2>1, <2>3, Zenon
<1>14. CASE Put(t)
  <2>1. /\ UNCHANGED <<queue, accessLock, accessReaders, pendingCbCount>>
        /\ pc[t] = "put"
        /\ \/ ring' = ring /\ pc'[t] = "refused"
           \/ ring' = ring \cup {req[t]} /\ pc'[t] = "accepted"
    BY <1>1, <1>14, Zenon DEF Put, TypeOK, queueVars, lockVars
  <2>2. CASE ring' = ring /\ pc'[t] = "refused"
    <3>1. /\ Len(queue') = Len(queue) /\ InUse' = InUse
          /\ Cardinality(Waiting') = Cardinality(Waiting) /\ Cardinality(Readers') = Cardinality(Readers)
      BY <1>5, <1>7, <2>1, <2>2, Zenon
    <3>2. Shift(0, 0, 0, 0)
      <4> HIDE DEF Reading, Counting
      <4> QED BY <1>6, <3>1, <2>1 DEF Shift
    <3> QED BY <1>0, <1>9, <2>1, <2>2, <3>2, Zenon
  <2>3. CASE ring' = ring \cup {req[t]} /\ pc'[t] = "accepted"
    <3>1. req[t] \notin ring
      BY <1>1, <2>1, Zenon DEF PlaceInv, Unsent
    <3>2. Cardinality(ring') = Cardinality(ring) + 1
      BY <1>1, <2>3, <3>1, FS_AddElement, Zenon DEF TypeOK
    <3>3. InUse' = InUse + 1
      BY <1>3, <1>6, <3>2 DEF InUse
    <3>4. /\ Len(queue') = Len(queue) /\ InUse' = InUse + 1
          /\ Cardinality(Waiting') = Cardinality(Waiting) - 1 /\ Cardinality(Readers') = Cardinality(Readers)
      BY <1>5, <2>1, <2>3, <3>3, Zenon
    <3>5. Shift(0, 1, -1, 0)
      <4> HIDE DEF Reading, Counting
      <4> QED BY <1>6, <3>4, <2>1 DEF Shift
    <3> QED BY <1>0, <1>9, <2>1, <2>3, <3>3, <3>5, Zenon
  <2> QED BY <2>1, <2>2, <2>3, Zenon
<1>15. CASE Undo(t)
  <2>1. /\ UNCHANGED <<queue, ring, accessLock, accessReaders>>
        /\ pc[t] \in Reading <=> pc'[t] \in Reading
        /\ pc[t] \in Counting /\ pc'[t] \notin Counting /\ pendingCbCount' = pendingCbCount - 1
        /\ pc[t] \notin {"update", "accepted"} /\ pc'[t] # "update"
    BY <1>1, <1>15, Zenon DEF Undo, TypeOK, queueVars, devVars, lockVars
  <2>2. /\ Len(queue') = Len(queue) /\ InUse' = InUse
        /\ Cardinality(Waiting') = Cardinality(Waiting) - 1 /\ Cardinality(Readers') = Cardinality(Readers)
    BY <1>5, <1>7, <2>1, Zenon
  <2>3. Shift(0, 0, -1, 0)
    <3> HIDE DEF Reading, Counting
    <3> QED BY <1>6, <2>2, <2>1 DEF Shift
  <2> QED BY <1>0, <1>9, <2>1, <2>3, Zenon
<1>16. CASE SessionUpdate(t)
  <2>1. /\ UNCHANGED <<queue, ring, accessReaders, pendingCbCount>> /\ accessLock' = None
        /\ pc[t] = "update" /\ pc'[t] = "idle"
    BY <1>1, <1>16, Zenon DEF SessionUpdate, TypeOK, queueVars, devVars
  <2>2. /\ Len(queue') = Len(queue) /\ InUse' = InUse
        /\ Cardinality(Waiting') = Cardinality(Waiting)
        /\ Cardinality(Readers') = Cardinality(Readers)
    BY <1>5, <1>7, <2>1, Zenon
  <2>3. \A u \in Threads : pc'[u] # "update"
    BY <1>1, <1>2, <2>1 DEF CountInv
  <2> QED BY <1>1, <1>4, <2>1, <2>2, <2>3, Zenon DEF CountInv
<1> QED BY <1>10, <1>11, <1>12, <1>13, <1>14, <1>15, <1>16, Zenon DEF InCall

LEMMA CountNext ==
  ASSUME RefInv, TypeOK', Next
  PROVE  CountInv'
<1>1. TypeOK /\ IsFiniteSet(ring) /\ CountInv /\ PlaceInv /\ QueueInv
  BY Zenon DEF RefInv, IInv
<1>2. /\ Cardinality(Waiting) \in Nat /\ Cardinality(Readers) \in Nat /\ Cardinality(ring) \in Nat
      /\ Len(queue) \in Nat /\ InUse \in Nat /\ Len(resp) \in Nat
      /\ pendingCbCount \in Int /\ accessReaders \in Int
  BY <1>1, CountTypes, SMTT(30) DEF CountInv
<1>3. ASSUME NEW t \in Threads, NEW kind \in Kinds, Perform(t, kind) PROVE CountInv'
  <2>1. /\ pc[t] = "idle" /\ pc'[t] = "cookie" /\ \A u \in Threads \ {t} : pc'[u] = pc[u]
        /\ accessReaders' = accessReaders + 1 /\ accessLock = None
        /\ UNCHANGED <<accessLock, pendingCbCount, queue, ring, resp, cb, alive>> /\ alive
    BY <1>1, <1>3, PerformType, Zenon DEF Perform, queueVars, devVars
  <2>2. /\ Cardinality(Waiting') = Cardinality(Waiting)
        /\ Cardinality(Readers') = Cardinality(Readers) + 1
    BY <1>1, <2>1, CountMoves, Zenon DEF Waiting, Readers, Counting, Reading
  <2>3. InUse' = InUse /\ Len(queue') = Len(queue)
    BY <2>1, Zenon DEF InUse
  <2>4. \A u \in Threads : pc'[u] = "update" => accessLock' = u
    BY <1>1, <2>1, Zenon DEF CountInv
  <2>5. accessReaders' = Cardinality(Readers') /\ pendingCbCount' = Len(queue') + InUse' + Cardinality(Waiting')
    BY <1>1, <2>1, <2>2, <2>3, Zenon DEF CountInv
  <2> QED BY <2>1, <2>4, <2>5, Zenon DEF CountInv
<1>4. ASSUME NEW t \in Threads, LockSessionWriter(t) PROVE CountInv'
  <2>1. /\ UNCHANGED <<accessReaders, pendingCbCount, queue, ring, resp, cb, alive>> /\ alive
        /\ pc[t] = "idle" /\ accessLock = None
        /\ \/ pc' = pc /\ accessLock' = accessLock
           \/ /\ pc'[t] = "update" /\ accessLock' = t /\ \A u \in Threads \ {t} : pc'[u] = pc[u]
              /\ ~(accessReaders > 0 \/ pendingCbCount > 0)
    BY <1>1, <1>4, Zenon DEF LockSessionWriter, TypeOK, queueVars, devVars
  <2>2. InUse' = InUse
    BY <2>1, Zenon DEF InUse
  <2>3. CASE pc' = pc /\ accessLock' = accessLock
    BY <1>1, <2>1, <2>2, <2>3, Zenon DEF CountInv, Waiting, Readers
  <2>4. CASE /\ pc'[t] = "update" /\ accessLock' = t /\ \A u \in Threads \ {t} : pc'[u] = pc[u]
             /\ ~(accessReaders > 0 \/ pendingCbCount > 0)
    <3>1. /\ Cardinality(Waiting') = Cardinality(Waiting)
          /\ Cardinality(Readers') = Cardinality(Readers)
      BY <1>1, <2>1, <2>4, CountMoves, Zenon DEF Waiting, Readers, Counting, Reading
    <3>2. accessReaders = 0 /\ pendingCbCount = 0
      BY <1>1, <1>2, <2>4 DEF CountInv
    <3>3. \A u \in Threads : pc'[u] = "update" => accessLock' = u
      BY <1>1, <2>1, <2>4, ThreadsAssumption, Zenon DEF CountInv
    <3> QED BY <1>1, <2>1, <2>2, <3>1, <3>2, <3>3, Zenon DEF CountInv
  <2> QED BY <2>1, <2>3, <2>4, Zenon
<1>5. ASSUME UNCHANGED <<pc, accessReaders, accessLock, alive>>, NEW n \in {0, -1}, NEW i \in Int,
             Shift(i, n - i, 0, 0), n = -1 => cb.pc # "idle"
      PROVE  CountInv'
  <2>1. Cardinality(Waiting') = Cardinality(Waiting) /\ Cardinality(Readers') = Cardinality(Readers)
    BY <1>5, Zenon DEF Waiting, Readers
  <2>2. pendingCbCount = 0 => n = 0
    BY <1>1, <1>5, NothingPending, Zenon
  <2>3. pendingCbCount' = Len(queue') + InUse' + Cardinality(Waiting')
    <3>1. PICK a, b, c \in Nat : a = Len(queue) /\ b = InUse /\ c = Cardinality(Waiting)
      BY <1>2, Zenon
    <3>2. pendingCbCount' = a + b + c + n
      BY <1>1, <1>5, <3>1 DEF CountInv, Shift
    <3>3. Len(queue') = a + i /\ InUse' = b + (n - i) /\ Cardinality(Waiting') = c
      BY <1>5, <2>1, <3>1, Zenon DEF Shift
    <3>4. a + b + c + n = (a + i) + (b + (n - i)) + c
      OBVIOUS
    <3> QED BY <3>2, <3>3, <3>4, Zenon
  <2>7. pendingCbCount = 0 => pendingCbCount' = 0
    BY <1>5, <2>2 DEF Shift
  <2>4. accessLock' # None => accessReaders' = 0 /\ pendingCbCount' = 0
    BY <1>1, <1>5, <2>7, Zenon DEF CountInv
  <2>5. ~alive' => pendingCbCount' = 0 /\ \A t \in Threads : pc'[t] = "idle"
    BY <1>1, <1>5, <2>7, Zenon DEF CountInv
  <2>6. accessReaders' = Cardinality(Readers') /\ \A t \in Threads : pc'[t] = "update" => accessLock' = t
    BY <1>1, <1>5, <2>1, Zenon DEF CountInv
  <2> QED BY <2>3, <2>4, <2>5, <2>6, Zenon DEF CountInv
<1>6. CASE Callback
  <2>1. /\ UNCHANGED <<pc, accessReaders, accessLock, alive, ring, queue, pendingCbCount>>
        /\ cb.pc = "idle" /\ resp # <<>> /\ resp' = Tail(resp)
    BY <1>6, Zenon DEF Callback, thrVars, lockVars, queueVars
  <2>2. cb'.pc # "idle" /\ Len(resp') = Len(resp) - 1
    BY <1>1, <1>6, <2>1, CallbackType, HeadOfResp, Zenon
  <2>3. Waiting' = Waiting /\ Readers' = Readers /\ InUse' = InUse + (0 - 0)
    BY <1>2, <2>1, <2>2 DEF InUse, Waiting, Readers
  <2>9. Shift(0, 0 - 0, 0, 0)
    BY <1>2, <2>1, <2>3 DEF Shift
  <2> QED BY <1>5, <2>1, <2>9
<1>7. CASE DequeueLock \/ DequeueHead \/ DequeueEnd \/ UserCallback
  <2>1. /\ UNCHANGED <<pc, accessReaders, accessLock, alive, ring, resp, queue, pendingCbCount>>
        /\ cb.pc # "idle" /\ cb'.pc # "idle"
    BY <1>1, <1>7, Zenon DEF DequeueLock, DequeueHead, DequeueEnd, UserCallback, TypeOK, thrVars, queueVars,
                      lockVars, devVars
  <2>2. Waiting' = Waiting /\ Readers' = Readers /\ InUse' = InUse + (0 - 0)
    BY <1>2, <2>1, SMTT(30) DEF InUse, Waiting, Readers
  <2>9. Shift(0, 0 - 0, 0, 0)
    BY <1>2, <2>1, <2>2 DEF Shift
  <2> QED BY <1>5, <2>1, <2>9, SMTT(30)
<1>8. CASE DequeuePut
  <2>1. /\ UNCHANGED <<pc, accessReaders, accessLock, alive, resp, pendingCbCount>>
        /\ cb.pc = "put" /\ cb'.pc # "idle" /\ queue # <<>>
        /\ \/ ring' = ring /\ queue' = queue
           \/ ring' = ring \cup {Head(queue)} /\ queue' = Tail(queue)
    BY <1>1, <1>8, Zenon DEF DequeuePut, TypeOK, thrVars, lockVars, QueueInv
  <2>2. CASE ring' = ring /\ queue' = queue
    <3>1. Waiting' = Waiting /\ Readers' = Readers /\ InUse' = InUse + (0 - 0)
      BY <1>2, <2>1, <2>2 DEF InUse, Waiting, Readers
    <3>9. Shift(0, 0 - 0, 0, 0)
      BY <1>2, <2>1, <2>2, <3>1 DEF Shift
    <3> QED BY <1>5, <2>1, <3>9
  <2>3. CASE ring' = ring \cup {Head(queue)} /\ queue' = Tail(queue)
    <3>1. Head(queue) \notin ring /\ Len(queue') = Len(queue) - 1
      BY <1>1, <2>1, <2>3, HeadOfQueue DEF PlaceInv
    <3>2. Cardinality(ring') = Cardinality(ring) + 1
      BY <1>1, <2>3, <3>1, FS_AddElement, Zenon DEF TypeOK
    <3>3. InUse' = InUse + 1
      BY <1>2, <2>1, <3>2 DEF InUse
    <3>4. Waiting' = Waiting /\ Readers' = Readers /\ InUse' = InUse + (0 - (-1))
      BY <1>2, <2>1, <3>1, <3>3 DEF Waiting, Readers
    <3>9. Shift(-1, 0 - (-1), 0, 0)
      BY <1>2, <2>1, <3>1, <3>4 DEF Shift
    <3> QED BY <1>5, <2>1, <3>9
  <2> QED BY <2>1, <2>2, <2>3, Zenon
<1>9. CASE CallbackReturn
  <2>1. /\ UNCHANGED <<pc, accessReaders, accessLock, alive, ring, resp, queue>>
        /\ pendingCbCount' = pendingCbCount - 1 /\ cb.pc # "idle" /\ cb'.pc = "idle"
    BY <1>9, Zenon DEF CallbackReturn, thrVars, lockVars, queueVars, devVars, Idle
  <2>2. Waiting' = Waiting /\ Readers' = Readers /\ InUse' = InUse + (-1 - 0)
    BY <1>2, <2>1 DEF InUse, Waiting, Readers
  <2>9. Shift(0, -1 - 0, 0, 0)
    BY <1>2, <2>1, <2>2, SMTT(30) DEF Shift
  <2> QED BY <1>5, <2>1, <2>9
<1>10. ASSUME NEW r \in ring, NEW ok \in BOOLEAN, Device(r, ok) PROVE CountInv'
  <2>1. /\ UNCHANGED <<pc, accessReaders, accessLock, alive, cb, queue, pendingCbCount>>
        /\ ring' = ring \ {r} /\ Len(resp') = Len(resp) + 1
    BY <1>1, <1>10, DeviceType, Zenon DEF Device, thrVars, lockVars, queueVars
  <2>2. Cardinality(ring') = Cardinality(ring) - 1
    BY <1>1, <2>1, FS_RemoveElement, Zenon DEF TypeOK
  <2>3. Waiting' = Waiting /\ Readers' = Readers /\ InUse' = InUse + (0 - 0)
    BY <1>2, <2>1, <2>2 DEF InUse, Waiting, Readers
  <2>9. Shift(0, 0 - 0, 0, 0)
    BY <1>2, <2>1, <2>3 DEF Shift
  <2> QED BY <1>5, <2>1, <2>9
<1>11. CASE RemoveSession
  <2>1. /\ UNCHANGED <<pc, accessReaders, accessLock, pendingCbCount, queue, ring, resp, cb>>
        /\ pendingCbCount = 0 /\ \A t \in Threads : pc[t] = "idle"
    BY <1>11, Zenon DEF RemoveSession, thrVars, lockVars, queueVars, devVars
  <2>2. InUse' = InUse /\ Waiting' = Waiting /\ Readers' = Readers
    BY <2>1 DEF InUse, Waiting, Readers
  <2> QED BY <1>1, <2>1, <2>2 DEF CountInv
<1> QED BY <1>1, <1>3, <1>4, <1>6, <1>7, <1>8, <1>9, <1>10, <1>11, InCallCount DEF Next, Call, Poll, Answer
\* An update meets no request, so all keep the descriptor they were written for.
LEMMA GenNext ==
  ASSUME RefInv, TypeOK', Next
  PROVE  GenInv'
<1>1. TypeOK /\ IsFiniteSet(ring) /\ GenInv /\ QueueInv /\ CountInv
  BY Zenon DEF RefInv, IInv
<1>2. ASSUME gen' = gen, ring' \subseteq ring, queue' = queue, UNCHANGED <<pc, req>>,
             \A i \in 1..Len(resp') : resp'[i].req.gen = gen, cb'.pc # "idle" => cb'.req.gen = gen
      PROVE  GenInv'
  BY <1>1, <1>2, Zenon DEF GenInv
<1>3. ASSUME NEW t \in Threads, InCall(t) PROVE GenInv'
  <2>1. /\ \A u \in Threads \ {t} : pc'[u] = pc[u] /\ req'[u] = req[u]
        /\ req'[t] = req[t] \/ pc'[t] = "idle"
        /\ pc'[t] \in Unsent \cup {"accepted"} => pc[t] \in Unsent
        /\ UNCHANGED <<resp, cb>>
    BY <1>1, <1>3, InCallMoves, Zenon DEF InCall, TakeCookie, FormatFails, CountPending, UnlockSessionReader,
        ReadFlag, ReadTail, Recheck, Enqueue, Block, Put, Unblock, Undo, Accepted, SessionUpdate, devVars
  <2>2. "idle" \notin Unsent /\ {"enqueue", "put"} \subseteq Unsent
    BY Zenon DEF Unsent, Reading, Counting
  <2>3. CASE SessionUpdate(t)
    <3>1. pc[t] = "update" /\ accessLock # None
      BY <1>1, <2>3, CallPlaces, ThreadsAssumption DEF CountInv
    <3>2. /\ queue = <<>> /\ ring = {} /\ resp = <<>> /\ cb.pc = "idle"
          /\ \A u \in Threads : pc[u] \notin Unsent
      BY <1>1, <3>1, NothingPending, NobodyReads, Zenon DEF CountInv
    <3>3. UNCHANGED <<queue, ring>>
      BY <2>3, Zenon DEF SessionUpdate, queueVars, devVars
    <3>4. queue' = <<>> /\ resp' = <<>> /\ ring' = {} /\ cb'.pc = "idle"
      BY <2>1, <3>2, <3>3, Zenon
    <3>5. \A u \in Threads : pc'[u] \notin Unsent
      BY <2>1, <2>2, <3>2, Zenon
    <3>6. 1..Len(queue') = {} /\ 1..Len(resp') = {}
      BY <3>4
    <3> QED BY <3>4, <3>5, <3>6, Zenon DEF GenInv
  <2>4. CASE ~SessionUpdate(t)
    <3>1. gen' = gen
      BY <1>3, <2>4, Zenon DEF InCall, TakeCookie, FormatFails, CountPending, UnlockSessionReader,
        ReadFlag, ReadTail, Recheck, Enqueue, Block, Put, Unblock, Undo, Accepted
    <3>2. \A u \in Threads : pc'[u] \in Unsent => req'[u].gen = gen
      BY <1>1, <2>1, <2>2, Zenon DEF GenInv
    <3>3. \A r \in ring' : r.gen = gen
      <4>1. ring' = ring \/ (pc[t] = "put" /\ ring' = ring \cup {req[t]})
        BY <1>3, <2>4, Zenon DEF InCall, TakeCookie, FormatFails, CountPending, UnlockSessionReader,
          ReadFlag, ReadTail, Recheck, Enqueue, Block, Put, Unblock, Undo, Accepted, devVars
      <4> QED BY <1>1, <2>2, <4>1, Zenon DEF GenInv
    <3>4. \A i \in 1..Len(queue') : queue'[i].gen = gen
      <4>1. queue' = queue \/ (pc[t] = "enqueue" /\ queue' = Append(queue, req[t]))
        BY <1>3, <2>4, Zenon DEF InCall, TakeCookie, FormatFails, CountPending, UnlockSessionReader,
          ReadFlag, ReadTail, Recheck, Enqueue, Block, Put, Unblock, Undo, Accepted, queueVars
      <4>2. CASE pc[t] = "enqueue" /\ queue' = Append(queue, req[t])
        <5>1. req[t].gen = gen /\ req[t] \in Good
          BY <1>1, <2>2, <4>2, Zenon DEF GenInv, TypeOK
        <5>2. /\ \A i \in 1..Len(queue) : queue'[i] = queue[i]
              /\ queue'[Len(queue) + 1] = req[t]
              /\ \A i \in 1..Len(queue') : i \in 1..Len(queue) \/ i = Len(queue) + 1
          BY <1>1, <4>2, <5>1, EndOfQueue, Zenon
        <5> QED BY <1>1, <5>1, <5>2, Zenon DEF GenInv
      <4>3. CASE queue' = queue
        <5>1. \A i \in 1..Len(queue) : queue[i].gen = gen
          BY <1>1, Zenon DEF GenInv
        <5> QED BY <4>3, <5>1
      <4> QED BY <4>1, <4>2, <4>3, Zenon
    <3> QED BY <1>1, <2>1, <3>1, <3>2, <3>3, <3>4, Zenon DEF GenInv
  <2> QED BY <2>3, <2>4
<1>4. ASSUME NEW t \in Threads, Call(t) PROVE GenInv'
  <2>1. UNCHANGED <<gen, ring, queue, resp, cb>>
    BY <1>4, Zenon DEF Call, Perform, LockSessionWriter, queueVars, devVars
  <2>2. ASSUME NEW kind \in Kinds, Perform(t, kind) PROVE \A u \in Threads : pc'[u] \in Unsent => req'[u].gen = gen
    BY <1>1, <2>2, PerformType, Zenon DEF GenInv
  <2>3. ASSUME LockSessionWriter(t) PROVE \A u \in Threads : pc'[u] \in Unsent => req'[u].gen = gen
    <3>1. "update" \notin Unsent
      BY Zenon DEF Unsent, Reading, Counting
    <3>2. req' = req /\ \A u \in Threads : pc'[u] = pc[u] \/ pc'[u] = "update"
      BY <1>1, <2>3, Zenon DEF LockSessionWriter, TypeOK
    <3> QED BY <1>1, <3>1, <3>2, Zenon DEF GenInv
  <2> QED BY <1>1, <1>4, <2>1, <2>2, <2>3, Zenon DEF GenInv, Call
<1>5. CASE Callback
  <2>1. UNCHANGED <<gen, ring, queue, pc, req>> /\ resp # <<>> /\ resp' = Tail(resp)
    BY <1>5, Zenon DEF Callback, thrVars, queueVars
  <2>2. cb'.req = resp[1].req /\ Len(resp) > 0 /\ Len(resp) \in Nat
    BY <1>1, <1>5, <2>1, CallbackType, HeadOfResp, Zenon
  <2>3. cb'.req.gen = gen
    BY <1>1, <2>2 DEF GenInv
  <2>4. \A i \in 1..Len(resp') : resp'[i].req.gen = gen
    <3>1. \A i \in 1..Len(resp) : resp[i].req.gen = gen
      BY <1>1, Zenon DEF GenInv
    <3>2. /\ Len(resp') = Len(resp) - 1
          /\ \A i \in 1..Len(resp') : resp'[i] = resp[i + 1]
      BY <1>1, <2>1, HeadOfResp, Zenon
    <3>3. \A i \in 1..Len(resp') : i + 1 \in 1..Len(resp)
      BY <2>2, <3>2
    <3> QED BY <3>1, <3>2, <3>3, Zenon
  <2> QED BY <1>2, <2>1, <2>3, <2>4, Zenon
<1>6. CASE DequeueLock \/ DequeueHead \/ DequeueEnd \/ UserCallback \/ CallbackReturn \/ RemoveSession
  <2>1. UNCHANGED <<gen, ring, queue, pc, req, resp>>
    BY <1>6, Zenon DEF DequeueLock, DequeueHead, DequeueEnd, UserCallback, CallbackReturn, RemoveSession,
                thrVars, queueVars, devVars
  <2>2. cb'.pc # "idle" => cb.pc # "idle" /\ cb'.req = cb.req
    <3>1. CASE DequeueLock \/ DequeueHead \/ DequeueEnd \/ UserCallback
      <4>1. cb.pc # "idle" /\ \E x \in CbPlaces : cb' = [cb EXCEPT !.pc = x]
        BY <3>1, Zenon DEF DequeueLock, DequeueHead, DequeueEnd, UserCallback, CbPlaces
      <4>2. cb \in [pc : CbPlaces, req : Good \cup {None}]
        BY <1>1, Zenon DEF TypeOK
      <4> QED BY <4>1, <4>2
    <3>2. CASE CallbackReturn
      BY <3>2, Zenon DEF CallbackReturn, Idle
    <3>3. CASE RemoveSession
      BY <3>3, Zenon DEF RemoveSession
    <3> QED BY <1>6, <3>1, <3>2, <3>3, Zenon
  <2> QED BY <1>1, <1>2, <2>1, <2>2, Zenon DEF GenInv
<1>7. CASE DequeuePut
  <2>1. UNCHANGED <<gen, pc, req, resp>> /\ queue # <<>> /\ cb.pc = "put"
    BY <1>1, <1>7, Zenon DEF DequeuePut, thrVars, QueueInv
  <2>2. cb'.req = cb.req
    BY <1>1, <1>7, Zenon DEF DequeuePut, TypeOK
  <2>3. \/ ring' = ring /\ queue' = queue
        \/ ring' = ring \cup {Head(queue)} /\ queue' = Tail(queue)
    BY <1>7, Zenon DEF DequeuePut
  <2>4. /\ Head(queue) = queue[1] /\ Len(queue) > 0 /\ Len(queue) \in Nat
        /\ Len(Tail(queue)) = Len(queue) - 1 /\ \A i \in 1..Len(Tail(queue)) : Tail(queue)[i] = queue[i + 1]
    BY <1>1, <2>1, HeadOfQueue, Zenon
  <2>5. /\ \A r \in ring' : r.gen = gen
        /\ \A i \in 1..Len(queue') : queue'[i].gen = gen
    <3>1. /\ \A r \in ring : r.gen = gen
          /\ \A i \in 1..Len(queue) : queue[i].gen = gen
      BY <1>1, Zenon DEF GenInv
    <3>2. 1 \in 1..Len(queue) /\ \A i \in 1..Len(Tail(queue)) : i + 1 \in 1..Len(queue)
      BY <2>4
    <3>3. CASE ring' = ring /\ queue' = queue
      BY <3>1, <3>3, Zenon
    <3>4. CASE ring' = ring \cup {Head(queue)} /\ queue' = Tail(queue)
      BY <2>4, <3>1, <3>2, <3>4, Zenon
    <3> QED BY <2>3, <3>3, <3>4, Zenon
  <2> QED BY <1>1, <2>1, <2>2, <2>5, Zenon DEF GenInv
<1>8. ASSUME NEW r \in ring, NEW ok \in BOOLEAN, Device(r, ok) PROVE GenInv'
  <2>1. UNCHANGED <<gen, pc, req, queue, cb>>
    BY <1>8, Zenon DEF Device, thrVars, queueVars
  <2>2. /\ ring' = ring \ {r} /\ Len(resp') = Len(resp) + 1 /\ Len(resp) \in Nat
        /\ \A i \in 1..Len(resp) : resp'[i] = resp[i]
        /\ resp'[Len(resp) + 1].req = r
    BY <1>1, <1>8, DeviceType, Zenon
  <2>3. \A i \in 1..Len(resp') : resp'[i].req.gen = gen
    <3>1. (\A i \in 1..Len(resp) : resp[i].req.gen = gen) /\ r.gen = gen
      BY <1>1, <1>8, Zenon DEF GenInv
    <3>2. \A i \in 1..Len(resp') : i \in 1..Len(resp) \/ i = Len(resp) + 1
      BY <2>2
    <3> QED BY <2>2, <3>1, <3>2, Zenon
  <2> QED BY <1>1, <1>2, <2>1, <2>2, <2>3, Zenon DEF GenInv
<1> QED BY <1>3, <1>4, <1>5, <1>6, <1>7, <1>8, Zenon DEF Next, Poll, Answer

-----------------------------------------------------------------------------
(* The invariant, and what it says.                                          *)

LEMMA RingFinite ==
  ASSUME IsFiniteSet(ring), Next
  PROVE  IsFiniteSet(ring')
<1>1. ASSUME NEW t \in Threads, InCall(t) \/ Call(t) PROVE IsFiniteSet(ring')
  <2>1. ring' = ring \/ ring' = ring \cup {req[t]}
    BY <1>1, Zenon DEF InCall, Call, Perform, LockSessionWriter, TakeCookie, FormatFails, CountPending,
      UnlockSessionReader, ReadFlag, ReadTail, Recheck, Enqueue, Block, Put, Unblock, Undo, Accepted,
      SessionUpdate, devVars
  <2>2. IsFiniteSet(ring \cup {req[t]})
    BY FS_AddElement, SMTT(30)
  <2> QED BY <2>1, <2>2, Zenon
<1>2. CASE Poll
  <2>1. ring' = ring \/ ring' = ring \cup {Head(queue)}
    BY <1>2, SMTT(30) DEF Poll, Callback, DequeueLock, DequeueHead, DequeuePut, DequeueEnd, UserCallback,
      CallbackReturn, devVars
  <2>2. IsFiniteSet(ring \cup {Head(queue)})
    BY FS_AddElement, Zenon
  <2> QED BY <2>1, <2>2, Zenon
<1>3. CASE Answer
  <2>1. PICK r \in ring, ok \in BOOLEAN : Device(r, ok)
    BY <1>3, Zenon DEF Answer
  <2>2. IsFiniteSet(ring \ {r})
    BY FS_RemoveElement, Zenon
  <2> QED BY <2>1, <2>2, Zenon DEF Device
<1>4. CASE RemoveSession
  BY <1>4 DEF RemoveSession, devVars
<1> QED BY <1>1, <1>2, <1>3, <1>4, Zenon DEF Next

LEMMA RefInit == Init => IsFiniteSet(ring) /\ CountInv /\ GenInv
<1> SUFFICES ASSUME Init PROVE IsFiniteSet(ring) /\ CountInv /\ GenInv
  BY Zenon
<1>1. IsFiniteSet({}) /\ Cardinality({}) = 0
  BY FS_EmptySet, Zenon
<1>2. /\ \A t \in Threads : pc[t] = "idle" /\ pc[t] \notin Unsent \cup {"accepted"}
      /\ queue = <<>> /\ resp = <<>> /\ ring = {} /\ Len(queue) = 0 /\ Len(resp) = 0 /\ cb.pc = "idle"
  BY Zenon DEF Init, Idle, Unsent, Reading, Counting
<1>3. alive
  BY Zenon DEF Init
<1>4. Waiting = {} /\ Readers = {} /\ InUse = 0
  BY <1>1, <1>2, SMTT(30) DEF Waiting, Readers, Reading, Counting, InUse
<1>5. CountInv
  BY <1>1, <1>2, <1>3, <1>4, SMTT(30) DEF Init, CountInv
<1>6. GenInv
  BY <1>2 DEF GenInv
<1> QED BY <1>1, <1>2, <1>5, <1>6, Zenon

LEMMA RefNext ==
  ASSUME RefInv, IInv', [Next]_vars
  PROVE  RefInv'
<1>1. CASE UNCHANGED vars
  <2>1. UNCHANGED <<pc, req, done, pendingCbCount, queue, ring, resp, cb, strm, gen, alive,
                    accessLock, accessReaders>>
    BY <1>1, Zenon DEF vars, thrVars, lockVars, queueVars, clientVars, devVars
  <2>2. CountInv'
    BY <2>1, Zenon DEF RefInv, CountInv, Waiting, Readers, InUse
  <2>4. GenInv' /\ IsFiniteSet(ring')
    BY <2>1, Zenon DEF RefInv, GenInv
  <2> QED BY <2>2, <2>4, Zenon DEF RefInv
<1>2. CASE Next
  <2>1. IsFiniteSet(ring) /\ TypeOK'
    BY Zenon DEF RefInv, IInv
  <2> QED BY <1>2, <2>1, RingFinite, CountNext, GenNext, Zenon DEF RefInv
<1> QED BY <1>1, <1>2, Zenon

\* The counts, the places and the descriptors of the requests agree in every
\* state that calls, the polling thread and the device can bring a session to.
THEOREM RefInvariant == Spec => []RefInv
<1>1. Init => RefInv
  BY InitOK, RefInit, SMTT(30) DEF RefInv
<1>2. RefInv /\ IInv' /\ [Next]_vars => RefInv'
  BY RefNext, SMTT(30)
<1> QED BY <1>1, <1>2, SymInvariant, PTL DEF Spec

\* pendingCbCount counts exactly the requests that are written and not yet
\* answered, and a session is removed only when there is none.
THEOREM CountIsReferences == Spec => []ReferenceCount
<1>1. RefInv => ReferenceCount
  <2> SUFFICES ASSUME RefInv PROVE ReferenceCount
    BY Zenon
  <2>1. TypeOK /\ IsFiniteSet(ring) /\ CountInv
    BY Zenon DEF RefInv, IInv
  <2>2. Waiting = {t \in Threads : pc[t] \in {"unlock", "flag", "tail", "lock", "enqueue",
                                              "send", "put", "refused", "undo"}}
    BY SMTT(30) DEF Waiting, Counting
  <2>3. ASSUME ~alive PROVE queue = <<>> /\ OnTheWay = {}
    <3>1. queue = <<>> /\ ring = {} /\ resp = <<>> /\ cb.pc = "idle"
      BY <2>1, <2>3, NothingPending, Zenon DEF CountInv
    <3>2. 1..Len(resp) = {}
      BY <3>1
    <3> QED BY <3>1, <3>2, Zenon DEF OnTheWay, Elements
  <2> QED BY <2>1, <2>2, <2>3, Zenon DEF ReferenceCount, CountInv
<1> QED BY <1>1, RefInvariant, PTL

\* cpaCySymUpdateSession has the session to itself, and no request is worked on
\* with a content descriptor other than the one it was written for.
THEOREM UpdateIsExclusive == Spec => []UpdateExclusive
<1>1. RefInv => UpdateExclusive
  <2> SUFFICES ASSUME RefInv PROVE UpdateExclusive
    BY Zenon
  <2>1. TypeOK /\ IsFiniteSet(ring) /\ CountInv /\ GenInv
    BY Zenon DEF RefInv, IInv
  <2>2. ASSUME NEW t \in Threads, pc[t] = "update"
        PROVE  /\ \A u \in Threads : pc[u] \in {"idle", "accepted", "update"}
               /\ queue = <<>> /\ OnTheWay = {}
    <3>1. accessLock # None /\ pendingCbCount = 0
      BY <2>1, <2>2, ThreadsAssumption, Zenon DEF CountInv
    <3>2. queue = <<>> /\ ring = {} /\ resp = <<>> /\ cb.pc = "idle"
      BY <2>1, <3>1, NothingPending, Zenon
    <3>3. \A u \in Threads : pc[u] \in {"idle", "accepted", "update"}
      BY <2>1, <3>1, NobodyReads, Zenon DEF TypeOK, Places
    <3>4. 1..Len(resp) = {}
      BY <3>2
    <3> QED BY <3>2, <3>3, <3>4 DEF OnTheWay, Elements
  <2>3. \A r \in OnTheWay \cup Elements(queue) : r.gen = gen
    BY <2>1 DEF OnTheWay, Elements, GenInv
  <2> QED BY <2>2, <2>3 DEF UpdateExclusive
<1> QED BY <1>1, RefInvariant, PTL

\* One blocking condition per session: unless the unlocked test of
\* LacSymQueue_RequestSend was torn, at most one partial holds the session, none
\* while nonBlockingOpsInProgress is set, and one while it is clear unless the
\* queue lost the one who drains it.
THEOREM OneHoldsSession == Spec => []BlockedByOne
<1>1. IInv => BlockedByOne
  <2> SUFFICES ASSUME IInv, ~torn PROVE BlockedByOne
    BY Zenon DEF BlockedByOne
  <2>1. TypeOK /\ AloneInv /\ Streamer \in Threads
    BY ThreadsAssumption, Zenon DEF IInv
  <2> DEFINE S == {req[t] : t \in {u \in Threads : pc[u] \in {"put", "refused"} /\ Partial(req[u])}}
             A == {resp[i].req : i \in RespPart}
             L == IF cb.pc = "lock" THEN {cb.req} ELSE {}
             H == IF cb.pc = "put" /\ Partial(Head(queue)) THEN {Head(queue)} ELSE {}
  <2>2. Blocking = RingPart \cup A \cup S \cup L \cup H
    BY DEF Blocking, RingPart, RespPart, Elements
  <2>3. S = IF Sender THEN {req[Streamer]} ELSE {}
    <3>1. ASSUME NEW u \in Threads, pc[u] \in {"put", "refused"}, Partial(req[u]) PROVE u = Streamer
      <4>1. pc[u] \in Unsent
        BY <3>1, Zenon DEF Unsent, Counting
      <4> QED BY <2>1, <3>1, <4>1, OwnRequest, Zenon
    <3>2. Sender <=> pc[Streamer] \in {"put", "refused"} /\ Partial(req[Streamer])
      BY Zenon DEF Sender, Streams
    <3> QED BY <2>1, <3>1, <3>2, Zenon
  <2>4. (Drainer <=> L \cup H # {}) /\ \A x, y \in L \cup H : x = y
    BY Zenon DEF Drainer
  <2>5. (RespPart = {} <=> A = {}) /\ \A x, y \in A : x = y
    BY <2>1, Zenon DEF AloneInv
  <2> HIDE DEF S, A, L, H
  <2>6. \A x, y \in Blocking : x = y
    BY <2>1, <2>2, <2>3, <2>4, <2>5, Zenon DEF AloneInv
  <2>7. Blocking = {} <=> Free
    BY <2>2, <2>3, <2>4, <2>5, Zenon DEF Free
  <2>8. OneBlocking
    <3>1. CASE Blocking = {}
      <4>1. Cardinality(Blocking) = 0
        BY <3>1, FS_EmptySet, Zenon
      <4> QED BY <4>1 DEF OneBlocking
    <3>2. CASE Blocking # {}
      <4>1. PICK x : Blocking = {x}
        BY <2>6, <3>2
      <4>2. Cardinality(Blocking) = 1
        BY <4>1, FS_Singleton, SMTT(30)
      <4> QED BY <4>2, SMTT(30) DEF OneBlocking
    <3> QED BY <3>1, <3>2, Zenon
  <2> QED BY <2>1, <2>7, <2>8, Zenon DEF BlockedByOne, AloneInv
<1> QED BY <1>1, SymInvariant, PTL
===============================================================================
