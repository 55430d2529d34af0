--------------------------- MODULE SymSession_proof ---------------------------
(* Proofs about SymSession: any number of threads, calls and queued requests, *)
(* any size of the ring and of the pool of cookies.  The types, the lock of   *)
(* the queue and the order of the partials are here, the counts of references *)
(* are in SymCount_proof.                                                     *)
EXTENDS SymSession, TLAPS

Reading == {"cookie", "format", "unlock"}
Counting == {"unlock", "flag", "tail", "lock", "enqueue", "send", "put", "refused", "undo"}
Unsent == Reading \cup Counting       \* the request is the thread's own
Places == {"idle", "accepted", "update"} \cup Unsent
CbPlaces == {"idle", "lock", "loop", "put", "user", "return"}

Request == [th : Threads, kind : Kinds, at : Nat \X Nat, gen : Nat]

\* Packets are numbered by their thread, partials by stream and from 1.
Numbered(r) ==
  /\ Partial(r) => r.th = Streamer
  /\ r.kind = "start" => r.at[2] = 1
  /\ r.kind \in {"mid", "end"} => r.at[2] > 1

Good == {r \in Request : Numbered(r)}
Response == [req : Good, ok : BOOLEAN]

TypeOK ==
  /\ pc \in [Threads -> Places] /\ req \in [Threads -> Good \cup {None}]
  /\ \A t \in Threads : pc[t] \in Unsent \cup {"accepted"} => req[t] \in Good /\ req[t].th = t
  /\ done \in [Threads -> [partials : Nat, fulls : Nat, updates : Nat]]
  /\ nonBlockingOpsInProgress \in BOOLEAN /\ tail \in BOOLEAN
  /\ queue \in Seq(Good) /\ resp \in Seq(Response)
  /\ ring \subseteq Good
  /\ cb \in [pc : CbPlaces, req : Good \cup {None}]
  /\ cb.pc # "idle" => cb.req \in Good
  /\ cb.pc = "lock" => Partial(cb.req)
  /\ opState \in Nat \X Nat /\ strm \in Nat \X Nat /\ gen \in Nat
  /\ partialState \in {"full", "partial"}
  /\ partialState = "partial" => strm[2] > 0
  /\ alive \in BOOLEAN /\ torn \in BOOLEAN /\ broken \in BOOLEAN

\* requestQueueLock is held to append a request and to drain the queue.
QueueInv ==
  /\ \A t \in Threads : pc[t] = "enqueue" => requestQueueLock = t
  /\ cb.pc \in {"loop", "put"} => requestQueueLock = "poll"
  /\ cb.pc = "put" => queue # <<>>
  /\ queue # <<>> => tail

\* A request is in one place.  Full packets are told apart by their number,
\* partials by their place in the streams.
Upto(a, b) == a[1] < b[1] \/ (a[1] = b[1] /\ a[2] <= b[2])
Known(r) ==
  IF Partial(r) THEN Upto(r.at, strm) \/ (pc[Streamer] = "accepted" /\ req[Streamer] = r)
                ELSE r.at[2] <= done[r.th].fulls
PlaceInv ==
  /\ \A i, j \in 1..Len(queue) : queue[i] = queue[j] => i = j
  /\ \A i \in 1..Len(queue) : queue[i] \notin ring /\ Known(queue[i])
  /\ \A r \in ring : Known(r)
  /\ \A t \in Threads : pc[t] \in Unsent =>
       req[t] \notin ring /\ \A i \in 1..Len(queue) : queue[i] # req[t]
  /\ \A t \in Threads : pc[t] \in Unsent \cup {"accepted"} =>
       IF Partial(req[t]) THEN ~Upto(req[t].at, strm)
                          ELSE req[t].at[2] <= done[t].fulls

\* The places a partial holds the session from: one at a time.
RingPart == {r \in ring : Partial(r)}
RespPart == {i \in 1..Len(resp) : Partial(resp[i].req)}
Streams(x) == pc[Streamer] = x /\ Partial(req[Streamer])
Sender == Streams("put") \/ Streams("refused")
Drainer == cb.pc = "lock" \/ (cb.pc = "put" /\ Partial(Head(queue)))
Free == RingPart = {} /\ RespPart = {} /\ ~Sender /\ ~Drainer

NoneQueued == \A i \in 1..Len(queue) : ~Partial(queue[i])

\* A partial is sent past the queue only when the queue holds no partial.
AloneInv ==
  ~torn =>
    /\ \A r, s \in RingPart : r = s
    /\ \A i, j \in RespPart : i = j
    /\ RingPart # {} => RespPart = {} /\ ~Sender /\ ~Drainer
    /\ RespPart # {} => ~Sender /\ ~Drainer
    /\ ~(Sender /\ Drainer)
    /\ nonBlockingOpsInProgress => Free
    /\ broken \/ nonBlockingOpsInProgress \/ ~Free
    /\ Sender => NoneQueued
    /\ Streams("send") => NoneQueued /\ nonBlockingOpsInProgress

\* The state the device will have left when the first k requests of the queue q
\* have gone through it, with the partials rp on the ring and op in the buffer.
Before(r) == <<r.at[1], r.at[2] - 1>>
Ahead(rp, op, a) == IF rp = {} THEN op = a ELSE \E r \in rp : r.at = a
Leaves(q, rp, op, k, a) ==
  \/ \E i \in 1..k : /\ Partial(q[i]) /\ q[i].at = a
                     /\ \A j \in (i + 1)..k : ~Partial(q[j])
  \/ Ahead(rp, op, a) /\ \A j \in 1..k : ~Partial(q[j])

\* A packet is issued in the state the client was left in.
PacketInv ==
  pc[Streamer] \in Unsent \cup {"accepted"} /\ Partial(req[Streamer]) =>
    IF req[Streamer].kind = "start" THEN partialState = "full"
    ELSE partialState = "partial" /\ strm = Before(req[Streamer])

\* Every packet of a stream but the first finds the state of the one before,
\* and the client's next packet the state of its last.
QueueChain ==
  \A j \in 1..Len(queue) :
    queue[j].kind \in {"mid", "end"} => Leaves(queue, RingPart, opState, j - 1, Before(queue[j]))
ClientChain ==
  IF Streams("accepted")
  THEN req[Streamer].kind # "end" => Leaves(queue, RingPart, opState, Len(queue), req[Streamer].at)
  ELSE partialState = "partial" => Leaves(queue, RingPart, opState, Len(queue), strm)
ChainInv ==
  ~torn =>
    /\ chained /\ iv.got = iv.want
    /\ \A r \in RingPart : opState = Before(r)
    /\ Streams("put") => opState = Before(req[Streamer])
    /\ cb.pc = "put" /\ Partial(Head(queue)) => opState = Before(Head(queue))
    /\ \A i \in RespPart : opState = resp[i].req.at
    /\ QueueChain /\ ClientChain

IInv == TypeOK /\ QueueInv /\ PlaceInv /\ AloneInv /\ PacketInv /\ ChainInv
-----------------------------------------------------------------------------
LEMMA InitOK == Init => IInv
<1> SUFFICES ASSUME Init PROVE IInv
  BY Zenon
<1>1. Streamer \in Threads
  BY ThreadsAssumption, Zenon
<1>2. /\ pc \in [Threads -> Places] /\ req \in [Threads -> Good \cup {None}]
      /\ \A t \in Threads : pc[t] = "idle" /\ pc[t] \notin Unsent \cup {"accepted"}
  BY Zenon DEF Init, Places, Unsent, Reading, Counting
<1>3. done \in [Threads -> [partials : Nat, fulls : Nat, updates : Nat]]
  BY Zenon DEF Init
<1>4. nonBlockingOpsInProgress \in BOOLEAN /\ tail \in BOOLEAN /\ alive /\ ~torn /\ ~broken /\ chained
      /\ alive \in BOOLEAN /\ torn \in BOOLEAN /\ broken \in BOOLEAN /\ nonBlockingOpsInProgress
  BY Zenon DEF Init
<1>5. queue = <<>> /\ resp = <<>> /\ ring = {} /\ Len(queue) = 0 /\ Len(resp) = 0
      /\ queue \in Seq(Good) /\ resp \in Seq(Response)
  BY DEF Init
<1>6. cb = Idle /\ cb.pc = "idle" /\ cb \in [pc : CbPlaces, req : Good \cup {None}]
  BY Zenon DEF Init, Idle, CbPlaces
<1>7. opState \in Nat \X Nat /\ strm \in Nat \X Nat /\ gen \in Nat /\ partialState = "full"
  BY Zenon DEF Init
<1>8. TypeOK
  BY <1>1, <1>2, <1>3, <1>4, <1>5, <1>6, <1>7, Zenon DEF TypeOK
<1>11. QueueInv /\ PlaceInv
  BY <1>2, <1>5, <1>6 DEF QueueInv, PlaceInv
<1>12. Free
  BY <1>1, <1>2, <1>5, <1>6 DEF Free, RingPart, RespPart, Sender, Streams, Drainer
<1>13. AloneInv
  BY <1>1, <1>2, <1>4, <1>5, <1>12, Zenon DEF AloneInv, Free, Streams, NoneQueued
<1>14. ChainInv /\ PacketInv
  <2>1. PacketInv /\ QueueChain /\ ClientChain
    BY <1>1, <1>2, <1>5, <1>7 DEF PacketInv, QueueChain, ClientChain, Streams
  <2>2. iv.got = iv.want
    BY ZenonT(60) DEF Init
  <2> QED BY <1>1, <1>2, <1>4, <1>6, <1>12, <2>1, <2>2, Zenon DEF ChainInv, Free, Streams
<1> QED BY <1>8, <1>11, <1>13, <1>14, Zenon DEF IInv

\* A step of thread t that changes its place and drops or keeps its request.
LEMMA ThreadMoves ==
  ASSUME TypeOK, NEW t \in Threads, NEW x \in Places, pc' = [pc EXCEPT ![t] = x],
         \/ req' = req /\ (x \in Unsent \cup {"accepted"} => pc[t] \in Unsent)
         \/ req' = [req EXCEPT ![t] = None] /\ x = "idle"
  PROVE  /\ pc' \in [Threads -> Places] /\ req' \in [Threads -> Good \cup {None}]
         /\ \A u \in Threads : pc'[u] \in Unsent \cup {"accepted"} => req'[u] \in Good /\ req'[u].th = u
         /\ pc'[t] = x /\ \A u \in Threads \ {t} : pc'[u] = pc[u] /\ req'[u] = req[u]
<1>1. "idle" \notin Unsent \cup {"accepted"}
  BY Zenon DEF Unsent, Reading, Counting
<1> QED BY <1>1, ZenonT(60) DEF TypeOK

LEMMA PerformType ==
  ASSUME TypeOK, NEW t \in Threads, NEW kind \in Kinds, Perform(t, kind)
  PROVE  /\ TypeOK'
         /\ pc[t] = "idle" /\ pc'[t] = "cookie" /\ \A u \in Threads \ {t} : pc'[u] = pc[u] /\ req'[u] = req[u]
         /\ req'[t].kind = kind /\ req'[t].gen = gen
         /\ Partial(req'[t]) => PartialPacketStateCheck(kind) /\ ~Upto(req'[t].at, strm)
         /\ kind \in {"mid", "end"} => strm = Before(req'[t])
         /\ kind = "full" => req'[t].at[2] = done[t].fulls + 1 /\ done'[t].fulls = done[t].fulls + 1
         /\ \A u \in Threads \ {t} : done'[u] = done[u]
         /\ done'[t].fulls >= done[t].fulls
<1> DEFINE which == IF kind = "full" THEN "fulls" ELSE "partials"
           at == CASE kind = "full"  -> <<0, done[t].fulls + 1>>
                   [] kind = "start" -> <<strm[1] + 1, 1>>
                   [] OTHER          -> <<strm[1], strm[2] + 1>>
           r == [th |-> t, kind |-> kind, at |-> at, gen |-> gen]
<1>1. done[t] \in [partials : Nat, fulls : Nat, updates : Nat] /\ strm[1] \in Nat /\ strm[2] \in Nat
  BY DEF TypeOK
<1>2. at \in Nat \X Nat
  BY <1>1 DEF Kinds
<1>3. /\ kind = "start" => at = <<strm[1] + 1, 1>> /\ partialState = "full"
      /\ kind \in {"mid", "end"} => at = <<strm[1], strm[2] + 1>> /\ partialState = "partial" /\ strm[2] > 0
      /\ kind = "full" => at = <<0, done[t].fulls + 1>>
      /\ kind # "full" => t = Streamer
  BY Zenon DEF Perform, PartialPacketStateCheck, TypeOK
<1> HIDE DEF at
<1>4. r.th = t /\ r.kind = kind /\ r.at = at /\ r.gen = gen
  BY Zenon
<1>5. r \in Request
  BY <1>2, Zenon DEF Request, TypeOK
<1>6. req' = [req EXCEPT ![t] = r] /\ pc' = [pc EXCEPT ![t] = "cookie"] /\ pc[t] = "idle"
      /\ done' = [done EXCEPT ![t][which] = @ + 1]
  BY Zenon DEF Perform, at
<1> HIDE DEF r
<1>7. Numbered(r)
  BY <1>1, <1>2, <1>3, <1>4 DEF Numbered, Partial
<1>8. r \in Good
  BY <1>5, <1>7, Zenon DEF Good
<1>9. /\ pc' \in [Threads -> Places] /\ req' \in [Threads -> Good \cup {None}]
      /\ pc'[t] = "cookie" /\ req'[t] = r
      /\ \A u \in Threads \ {t} : pc'[u] = pc[u] /\ req'[u] = req[u]
  BY <1>6, <1>8, Zenon DEF TypeOK, Places, Unsent, Reading
<1>10. \A u \in Threads : pc'[u] \in Unsent \cup {"accepted"} => req'[u] \in Good /\ req'[u].th = u
  <2>1. req'[t] \in Good /\ req'[t].th = t
    BY <1>4, <1>8, <1>9, Zenon
  <2>2. \A u \in Threads \ {t} : pc'[u] \in Unsent \cup {"accepted"} => req'[u] \in Good /\ req'[u].th = u
    BY <1>9, SMTT(30) DEF TypeOK
  <2> QED BY <2>1, <2>2, Zenon
<1>11. /\ done' \in [Threads -> [partials : Nat, fulls : Nat, updates : Nat]]
       /\ \A u \in Threads \ {t} : done'[u] = done[u]
       /\ done'[t].fulls = IF kind = "full" THEN done[t].fulls + 1 ELSE done[t].fulls
  <2>1. CASE kind = "full"
    <3> DEFINE d == [done[t] EXCEPT !.fulls = @ + 1]
    <3>1. done' = [done EXCEPT ![t] = d]
      BY <1>6, <2>1, Zenon
    <3>2. d \in [partials : Nat, fulls : Nat, updates : Nat]
          /\ d.fulls = done[t].fulls + 1
      BY <1>1
    <3> HIDE DEF d
    <3> QED BY <2>1, <3>1, <3>2, Zenon DEF TypeOK
  <2>2. CASE kind # "full"
    <3> DEFINE d == [done[t] EXCEPT !.partials = @ + 1]
    <3>1. done' = [done EXCEPT ![t] = d]
      BY <1>6, <2>2, Zenon
    <3>2. d \in [partials : Nat, fulls : Nat, updates : Nat]
          /\ d.fulls = done[t].fulls
      BY <1>1
    <3> HIDE DEF d
    <3> QED BY <2>2, <3>1, <3>2 DEF TypeOK
  <2> QED BY <2>1, <2>2, Zenon
<1>12. UNCHANGED <<scn, cookies, accessLock, pendingCbCount, nonBlockingOpsInProgress, queueVars,
                   clientVars, opState, gen, devVars, cb, alive, iv, torn, broken>>
  BY Zenon DEF Perform
<1>13. TypeOK'
  BY <1>9, <1>10, <1>11, <1>12, ZenonT(60) DEF TypeOK, queueVars, clientVars, devVars
<1>14. Partial(r) => ~Upto(r.at, strm) /\ PartialPacketStateCheck(kind)
  BY <1>1, <1>3, <1>4 DEF Partial, Upto, Perform, Kinds
<1>15. kind \in {"mid", "end"} => strm = Before(r)
  <2>1. strm = <<strm[1], strm[2]>>
    BY DEF TypeOK
  <2>2. kind \in {"mid", "end"} => r.at[1] = strm[1] /\ r.at[2] - 1 = strm[2]
    BY <1>1, <1>3, <1>4
  <2> QED BY <2>1, <2>2, Zenon DEF Before
<1> QED BY <1>1, <1>3, <1>4, <1>6, <1>9, <1>11, <1>13, <1>14, <1>15

\* The steps of a call only move the thread and, at its end, drop the request.
LEMMA InCallMoves ==
  ASSUME TypeOK, NEW t \in Threads, InCall(t)
  PROVE  /\ pc' \in [Threads -> Places] /\ req' \in [Threads -> Good \cup {None}]
         /\ \A u \in Threads : pc'[u] \in Unsent \cup {"accepted"} => req'[u] \in Good /\ req'[u].th = u
         /\ \A u \in Threads \ {t} : pc'[u] = pc[u] /\ req'[u] = req[u]
         /\ req'[t] = req[t] \/ pc'[t] = "idle"
         /\ pc'[t] \in Unsent \cup {"accepted"} => pc[t] \in Unsent
         /\ pc[t] \in Unsent \cup {"accepted", "update"}
<1>1. \E x \in Places : /\ pc' = [pc EXCEPT ![t] = x]
                        /\ \/ req' = req /\ (x \in Unsent \cup {"accepted"} => pc[t] \in Unsent)
                           \/ req' = [req EXCEPT ![t] = None] /\ x = "idle"
  <2> USE DEF Places, Unsent, Reading, Counting
  <2>1. CASE TakeCookie(t) \/ FormatFails(t) \/ CountPending(t) \/ UnlockSessionReader(t)
    BY <2>1, SMTT(30) DEF TakeCookie, FormatFails, CountPending, UnlockSessionReader
  <2>2. CASE ReadFlag(t)
    BY <2>2, Zenon DEF ReadFlag
  <2>3. CASE ReadTail(t)
    BY <2>3, Zenon DEF ReadTail
  <2>4. CASE Recheck(t)
    BY <2>4, Zenon DEF Recheck
  <2>5. CASE Enqueue(t) \/ Block(t) \/ Unblock(t) \/ Undo(t)
    BY <2>5, Zenon DEF Enqueue, Block, Unblock, Undo
  <2>6. CASE Put(t)
    BY <2>6, Zenon DEF Put
  <2>7. CASE Accepted(t) \/ SessionUpdate(t)
    BY <2>7, Zenon DEF Accepted, SessionUpdate
  <2> QED BY <2>1, <2>2, <2>3, <2>4, <2>5, <2>6, <2>7, Zenon DEF InCall
<1>2. pc[t] \in Unsent \cup {"accepted", "update"}
  BY Zenon DEF InCall, TakeCookie, FormatFails, CountPending, UnlockSessionReader, ReadFlag, ReadTail,
         Recheck, Enqueue, Block, Put, Unblock, Undo, Accepted, SessionUpdate, Unsent, Reading, Counting
<1>3. PICK x \in Places : /\ pc' = [pc EXCEPT ![t] = x]
                          /\ \/ req' = req /\ (x \in Unsent \cup {"accepted"} => pc[t] \in Unsent)
                             \/ req' = [req EXCEPT ![t] = None] /\ x = "idle"
  BY <1>1, Zenon
<1>4. "idle" \notin Unsent \cup {"accepted"}
  BY Zenon DEF Unsent, Reading, Counting
<1> QED BY <1>2, <1>3, <1>4, ThreadMoves, Zenon

\* A packet gives the state buffer a pair of numbers.
LEMMA StateType ==
  ASSUME TypeOK, NEW r \in Good
  PROVE  /\ r.at \in Nat \X Nat /\ r.kind \in Kinds /\ r.th \in Threads /\ r.gen \in Nat
         /\ Numbered(r)
         /\ StateOnSend(r) \in Nat \X Nat
  BY Zenon DEF Good, Request, StateOnSend, TypeOK

LEMMA InCallType ==
  ASSUME TypeOK, NEW t \in Threads, InCall(t)
  PROVE  TypeOK'
<1> USE InCallMoves
<1>1. CASE TakeCookie(t) \/ FormatFails(t) \/ CountPending(t) \/ UnlockSessionReader(t) \/ ReadFlag(t)
  <2>1. UNCHANGED <<done, nonBlockingOpsInProgress, queue, tail, resp, ring, cb, clientVars,
                    opState, gen, alive, torn, broken>>
    BY <1>1, Zenon DEF TakeCookie, FormatFails, CountPending, UnlockSessionReader, ReadFlag, queueVars, devVars
  <2> QED BY <2>1, ZenonT(60) DEF TypeOK, clientVars
<1>2. CASE ReadTail(t)
  <2>1. torn' \in BOOLEAN
    BY <1>2, Zenon DEF ReadTail
  <2> QED BY <1>2, <2>1, ZenonT(60) DEF TypeOK, ReadTail, queueVars, clientVars, devVars
<1>3. CASE Recheck(t)
  BY <1>3, ZenonT(60) DEF TypeOK, Recheck, clientVars, devVars
<1>4. CASE Enqueue(t)
  <2>1. req[t] \in Good
    BY <1>4, Zenon DEF Enqueue, TypeOK, Unsent, Counting
  <2>2. queue' \in Seq(Good)
    BY <1>4, <2>1, SMTT(30) DEF Enqueue, TypeOK
  <2> QED BY <1>4, <2>2, ZenonT(60) DEF TypeOK, Enqueue, clientVars, devVars
<1>5. CASE Block(t)
  <2>1. req[t] \in Good
    BY <1>5, Zenon DEF Block, TypeOK, Unsent, Counting
  <2>2. opState' \in Nat \X Nat
    BY <1>5, <2>1, StateType, Zenon DEF Block
  <2>3. nonBlockingOpsInProgress' \in BOOLEAN
    BY <1>5, Zenon DEF Block
  <2> QED BY <1>5, <2>2, <2>3, Zenon DEF TypeOK, Block, queueVars, clientVars, devVars
<1>6. CASE Put(t)
  <2>1. req[t] \in Good
    BY <1>6, Zenon DEF Put, TypeOK, Unsent, Counting
  <2>2. ring' \subseteq Good
    BY <1>6, <2>1, SMTT(30) DEF Put, TypeOK
  <2> QED BY <1>6, <2>2, ZenonT(60) DEF TypeOK, Put, queueVars, clientVars
<1>7. CASE Unblock(t)
  <2>1. nonBlockingOpsInProgress' \in BOOLEAN /\ broken' \in BOOLEAN
    BY <1>7, Zenon DEF Unblock
  <2> QED BY <1>7, <2>1, Zenon DEF TypeOK, Unblock, queueVars, clientVars, devVars
<1>8. CASE Undo(t)
  BY <1>8, ZenonT(60) DEF TypeOK, Undo, queueVars, clientVars, devVars
<1>10. CASE SessionUpdate(t)
  <2>1. gen \in Nat /\ gen' = gen + 1
    BY <1>10, Zenon DEF TypeOK, SessionUpdate
  <2>2. gen' \in Nat
    BY <2>1
  <2> QED BY <1>10, <2>2, ZenonT(60) DEF TypeOK, SessionUpdate, queueVars, clientVars, devVars
<1>9. CASE Accepted(t)
  <2>1. req[t] \in Good
    BY <1>9, Zenon DEF Accepted, TypeOK
  <2>2. /\ strm' \in Nat \X Nat /\ partialState' \in {"full", "partial"}
        /\ partialState' = "partial" => strm'[2] > 0
    <3>1. CASE Partial(req[t])
      <4>1. req[t].at[2] > 0 /\ req[t].at \in Nat \X Nat
        BY <2>1, <3>1, StateType, SMTT(30) DEF Numbered, Partial, Kinds
      <4> QED BY <1>9, <3>1, <4>1, Zenon DEF Accepted
    <3>2. CASE ~Partial(req[t])
      BY <1>9, <3>2 DEF Accepted, clientVars, TypeOK
    <3> QED BY <3>1, <3>2, Zenon
  <2> QED BY <1>9, <2>2, Zenon DEF TypeOK, Accepted, queueVars, devVars
<1> QED BY <1>1, <1>2, <1>3, <1>4, <1>5, <1>6, <1>7, <1>8, <1>9, <1>10, Zenon DEF InCall

\* The request at the head of the queue, and the response that is polled.
LEMMA HeadOfQueue ==
  ASSUME TypeOK, queue # <<>>
  PROVE  /\ Head(queue) = queue[1] /\ Head(queue) \in Good /\ Len(queue) > 0 /\ Len(queue) \in Nat
         /\ Tail(queue) \in Seq(Good) /\ Len(Tail(queue)) = Len(queue) - 1
         /\ \A i \in 1..Len(Tail(queue)) : Tail(queue)[i] = queue[i + 1]
  BY DEF TypeOK

LEMMA EndOfQueue ==
  ASSUME TypeOK, NEW r \in Good, queue' = Append(queue, r)
  PROVE  /\ Len(queue) \in Nat /\ Len(queue') = Len(queue) + 1 /\ queue'[Len(queue) + 1] = r
         /\ \A i \in 1..Len(queue) : queue'[i] = queue[i]
         /\ \A i \in 1..Len(queue') : i \in 1..Len(queue) \/ i = Len(queue) + 1
  BY DEF TypeOK

LEMMA HeadOfResp ==
  ASSUME TypeOK, resp # <<>>
  PROVE  /\ Head(resp) = resp[1] /\ Head(resp) \in Response /\ Len(resp) > 0 /\ Len(resp) \in Nat
         /\ Head(resp).req \in Good /\ Head(resp).ok \in BOOLEAN
         /\ Tail(resp) \in Seq(Response) /\ Len(Tail(resp)) = Len(resp) - 1
         /\ \A i \in 1..Len(Tail(resp)) : Tail(resp)[i] = resp[i + 1]
<1>1. /\ Head(resp) = resp[1] /\ Head(resp) \in Response /\ Len(resp) > 0 /\ Len(resp) \in Nat
      /\ Tail(resp) \in Seq(Response) /\ Len(Tail(resp)) = Len(resp) - 1
      /\ \A i \in 1..Len(Tail(resp)) : Tail(resp)[i] = resp[i + 1]
  BY DEF TypeOK
<1> QED BY <1>1, Zenon DEF Response

\* What the polling thread is left with.
LEMMA CallbackType ==
  ASSUME TypeOK, Callback
  PROVE  /\ TypeOK'
         /\ cb'.req = Head(resp).req
         /\ cb'.pc = IF Partial(Head(resp).req) /\ Head(resp).ok THEN "lock" ELSE "user"
<1> DEFINE r == Head(resp)
           x == IF Partial(r.req) /\ r.ok THEN "lock" ELSE "user"
<1>1. resp # <<>> /\ resp' = Tail(resp) /\ cb' = [pc |-> x, req |-> r.req]
  BY Zenon DEF Callback
<1>2. r.req \in Good /\ x \in CbPlaces /\ (x = "lock" => Partial(r.req))
  BY <1>1, HeadOfResp, Zenon DEF CbPlaces
<1>3. resp' \in Seq(Response)
  BY <1>1, HeadOfResp, Zenon
<1>4. broken' \in BOOLEAN
  BY Zenon DEF Callback
<1>5. /\ cb' \in [pc : CbPlaces, req : Good \cup {None}]
      /\ cb'.req = r.req /\ cb'.pc = x
  <2> HIDE DEF r, x
  <2> QED BY <1>1, <1>2, Zenon
<1> HIDE DEF r, x
<1>6. TypeOK'
  BY <1>2, <1>3, <1>4, <1>5, Zenon DEF TypeOK, Callback, thrVars, queueVars, clientVars
<1> QED BY <1>5, <1>6, Zenon DEF r, x

LEMMA PollMoves ==
  ASSUME TypeOK, NEW x \in CbPlaces \ {"lock"}, cb.pc # "idle", cb' = [cb EXCEPT !.pc = x]
  PROVE  /\ cb' \in [pc : CbPlaces, req : Good \cup {None}] /\ cb'.pc = x /\ cb'.req = cb.req
         /\ cb.req \in Good
  BY Zenon DEF TypeOK

LEMMA PollType ==
  ASSUME TypeOK, DequeueLock \/ DequeueHead \/ DequeuePut \/ DequeueEnd \/ UserCallback \/ CallbackReturn,
         QueueInv
  PROVE  TypeOK'
<1> USE DEF CbPlaces
<1>1. CASE DequeueLock
  BY <1>1, PollMoves, Zenon DEF TypeOK, DequeueLock, thrVars, clientVars, devVars
<1>2. CASE DequeueHead
  <2>1. opState' \in Nat \X Nat
    BY <1>2, HeadOfQueue, StateType, Zenon DEF DequeueHead
  <2>2. nonBlockingOpsInProgress' \in BOOLEAN
    BY <1>2, Zenon DEF DequeueHead
  <2> QED BY <1>2, <2>1, <2>2, PollMoves, Zenon DEF TypeOK, DequeueHead, thrVars, queueVars, clientVars, devVars
<1>3. CASE DequeuePut
  <2>1. queue # <<>> /\ cb.pc = "put"
    BY <1>3, Zenon DEF DequeuePut, QueueInv
  <2>2. Head(queue) \in Good /\ Tail(queue) \in Seq(Good)
    BY <2>1, HeadOfQueue, Zenon
  <2>3. ring' \subseteq Good /\ queue' \in Seq(Good) /\ broken' \in BOOLEAN
    BY <1>3, <2>2, ZenonT(60) DEF DequeuePut, TypeOK
  <2>4. cb' = [cb EXCEPT !.pc = "loop"] \/ cb' = [cb EXCEPT !.pc = "user"]
    BY <1>3, Zenon DEF DequeuePut
  <2> QED BY <1>3, <2>1, <2>3, <2>4, PollMoves, Zenon DEF TypeOK, DequeuePut, thrVars, clientVars
<1>4. CASE DequeueEnd
  <2>1. tail' \in BOOLEAN
    BY <1>4, Zenon DEF DequeueEnd
  <2> QED BY <1>4, <2>1, PollMoves, Zenon DEF TypeOK, DequeueEnd, thrVars, clientVars, devVars
<1>5. CASE UserCallback
  BY <1>5, PollMoves, Zenon DEF TypeOK, UserCallback, thrVars, queueVars, clientVars, devVars
<1>6. CASE CallbackReturn
  <2>1. cb' \in [pc : CbPlaces, req : Good \cup {None}] /\ cb'.pc = "idle"
    BY <1>6, Zenon DEF CallbackReturn, Idle
  <2> QED BY <1>6, <2>1, Zenon DEF TypeOK, CallbackReturn, thrVars, queueVars, clientVars, devVars
<1> QED BY <1>1, <1>2, <1>3, <1>4, <1>5, <1>6, Zenon

LEMMA DeviceType ==
  ASSUME TypeOK, NEW r \in ring, NEW ok \in BOOLEAN, Device(r, ok)
  PROVE  /\ TypeOK'
         /\ r \in Good /\ ring' = ring \ {r} /\ Len(resp') = Len(resp) + 1 /\ Len(resp) \in Nat
         /\ \A i \in 1..Len(resp) : resp'[i] = resp[i]
         /\ resp'[Len(resp) + 1].req = r
<1> DEFINE a == [req |-> r, ok |-> ok]
<1>1. r \in Good /\ a.req = r /\ a \in Response
  BY Zenon DEF TypeOK, Response
<1>2. resp' = Append(resp, a) /\ ring' = ring \ {r}
  BY Zenon DEF Device
<1> HIDE DEF a
<1>3. /\ resp' \in Seq(Response) /\ Len(resp') = Len(resp) + 1 /\ Len(resp) \in Nat
      /\ \A i \in 1..Len(resp) : resp'[i] = resp[i]
      /\ resp'[Len(resp) + 1] = a
  BY <1>1, <1>2 DEF TypeOK
<1>4. ring' \subseteq Good
  BY <1>2, Zenon DEF TypeOK
<1>5. opState' \in Nat \X Nat
  BY <1>1, StateType, Zenon DEF Device, TypeOK
<1>6. TypeOK'
  BY <1>3, <1>4, <1>5, SMTT(30) DEF TypeOK, Device, thrVars, queueVars, clientVars
<1> QED BY <1>1, <1>2, <1>3, <1>6, Zenon

LEMMA OtherType ==
  ASSUME TypeOK, RemoveSession \/ (\E t \in Threads : LockSessionWriter(t))
  PROVE  TypeOK'
<1>1. CASE RemoveSession
  BY <1>1, Zenon DEF TypeOK, RemoveSession, thrVars, queueVars, clientVars, devVars
<1>2. ASSUME NEW t \in Threads, LockSessionWriter(t) PROVE TypeOK'
  <2> DEFINE d == [done[t] EXCEPT !.updates = @ + 1]
  <2>0. done[t] \in [partials : Nat, fulls : Nat, updates : Nat]
    BY Zenon DEF TypeOK
  <2>1. d \in [partials : Nat, fulls : Nat, updates : Nat]
    BY <2>0
  <2>2. done' = [done EXCEPT ![t] = d]
    BY <1>2, Zenon DEF LockSessionWriter
  <2> HIDE DEF d
  <2>3. done' \in [Threads -> [partials : Nat, fulls : Nat, updates : Nat]]
    BY <2>1, <2>2, Zenon DEF TypeOK
  <2>4. \/ pc' = pc
        \/ pc' = [pc EXCEPT ![t] = "update"]
    BY <1>2, Zenon DEF LockSessionWriter
  <2>5. "update" \in Places /\ "update" \notin Unsent \cup {"accepted"}
    BY Zenon DEF Places, Unsent, Reading, Counting
  <2>6. pc' \in [Threads -> Places] /\ \A u \in Threads :
          pc'[u] \in Unsent \cup {"accepted"} => req[u] \in Good /\ req[u].th = u
    <3>1. CASE pc' = pc
      BY <3>1, Zenon DEF TypeOK
    <3>2. CASE pc' = [pc EXCEPT ![t] = "update"]
      <4>1. pc'[t] = "update" /\ \A u \in Threads \ {t} : pc'[u] = pc[u]
        BY <3>2, Zenon DEF TypeOK
      <4>2. pc' \in [Threads -> Places]
        BY <2>5, <3>2, Zenon DEF TypeOK
      <4> QED BY <2>5, <4>1, <4>2, SMTT(30) DEF TypeOK
    <3> QED BY <2>4, <3>1, <3>2
  <2> QED BY <1>2, <2>3, <2>6, Zenon DEF TypeOK, LockSessionWriter, queueVars, clientVars, devVars
<1> QED BY <1>1, <1>2, Zenon

\* The places a step of a call leads from and to.
LEMMA CallPlaces ==
  ASSUME TypeOK, NEW t \in Threads
  PROVE  /\ TakeCookie(t) => pc[t] = "cookie" /\ pc'[t] = "format"
         /\ FormatFails(t) => pc[t] = "format" /\ pc'[t] = "idle"
         /\ CountPending(t) => pc[t] = "format" /\ pc'[t] = "unlock"
         /\ UnlockSessionReader(t) => pc[t] = "unlock" /\ pc'[t] = "flag"
         /\ ReadFlag(t) => pc[t] = "flag" /\ pc'[t] \in {"tail", "lock"}
         /\ ReadTail(t) => pc[t] = "tail" /\ pc'[t] \in {"lock", "send"}
         /\ Recheck(t) => pc[t] = "lock" /\ pc'[t] \in {"enqueue", "send"}
         /\ Enqueue(t) => pc[t] = "enqueue" /\ pc'[t] = "accepted"
         /\ Block(t) => pc[t] = "send" /\ pc'[t] = "put"
         /\ Put(t) => pc[t] = "put" /\ pc'[t] \in {"accepted", "refused"}
         /\ Unblock(t) => pc[t] = "refused" /\ pc'[t] = "undo"
         /\ Undo(t) => pc[t] = "undo" /\ pc'[t] = "idle"
         /\ Accepted(t) => pc[t] = "accepted" /\ pc'[t] = "idle"
         /\ SessionUpdate(t) => pc[t] = "update" /\ pc'[t] = "idle"
<1>1. TakeCookie(t) => pc[t] = "cookie" /\ pc'[t] = "format"
  BY Zenon DEF TakeCookie, TypeOK
<1>2. FormatFails(t) => pc[t] = "format" /\ pc'[t] = "idle"
  BY DEF FormatFails, TypeOK
<1>3. CountPending(t) => pc[t] = "format" /\ pc'[t] = "unlock"
  BY Zenon DEF CountPending, TypeOK
<1>4. UnlockSessionReader(t) => pc[t] = "unlock" /\ pc'[t] = "flag"
  BY Zenon DEF UnlockSessionReader, TypeOK
<1>5. ReadFlag(t) => pc[t] = "flag" /\ pc'[t] \in {"tail", "lock"}
  BY Zenon DEF ReadFlag, TypeOK
<1>6. ReadTail(t) => pc[t] = "tail" /\ pc'[t] \in {"lock", "send"}
  BY Zenon DEF ReadTail, TypeOK
<1>7. Recheck(t) => pc[t] = "lock" /\ pc'[t] \in {"enqueue", "send"}
  BY Zenon DEF Recheck, TypeOK
<1>8. Enqueue(t) => pc[t] = "enqueue" /\ pc'[t] = "accepted"
  BY Zenon DEF Enqueue, TypeOK
<1>9. Block(t) => pc[t] = "send" /\ pc'[t] = "put"
  BY Zenon DEF Block, TypeOK
<1>10. Put(t) => pc[t] = "put" /\ pc'[t] \in {"accepted", "refused"}
  BY Zenon DEF Put, TypeOK
<1>11. Unblock(t) => pc[t] = "refused" /\ pc'[t] = "undo"
  BY Zenon DEF Unblock, TypeOK
<1>12. Undo(t) => pc[t] = "undo" /\ pc'[t] = "idle"
  BY Zenon DEF Undo, TypeOK
<1>13. Accepted(t) => pc[t] = "accepted" /\ pc'[t] = "idle"
  BY Zenon DEF Accepted, TypeOK
<1>14. SessionUpdate(t) => pc[t] = "update" /\ pc'[t] = "idle"
  BY DEF SessionUpdate, TypeOK
<1> QED BY <1>1, <1>2, <1>3, <1>4, <1>5, <1>6, <1>7, <1>8, <1>9, <1>10, <1>11, <1>12, <1>13, <1>14, Zenon

\* The lock of the queue.
LEMMA QueueNext ==
  ASSUME IInv, TypeOK', Next
  PROVE  QueueInv'
<1>1. TypeOK /\ QueueInv /\ None # "poll" /\ "poll" \notin Threads /\ None \notin Threads
  BY ThreadsAssumption, Zenon DEF IInv
<1>2. ASSUME NEW t \in Threads, InCall(t) PROVE QueueInv'
  <2>1. \A u \in Threads \ {t} : pc'[u] = pc[u]
    BY <1>1, <1>2, InCallMoves, Zenon
  <2>2. CASE Recheck(t)
    <3>1. \/ requestQueueLock' = t /\ requestQueueLock = None
          \/ requestQueueLock' = requestQueueLock /\ pc'[t] = "send"
      BY <1>1, <2>2, SMTT(30) DEF Recheck, TypeOK
    <3> QED BY <1>1, <2>1, <2>2, <3>1, Zenon DEF Recheck, QueueInv
  <2>3. CASE Enqueue(t)
    <3>1. pc[t] = "enqueue" /\ pc'[t] = "accepted" /\ requestQueueLock = t /\ tail' /\ cb' = cb
      BY <1>1, <2>3, ZenonT(60) DEF Enqueue, TypeOK, QueueInv
    <3>2. cb.pc \notin {"loop", "put"} /\ \A u \in Threads \ {t} : pc[u] # "enqueue"
      BY <1>1, <3>1, Zenon DEF QueueInv
    <3> QED BY <1>1, <2>1, <3>1, <3>2, Zenon DEF QueueInv
  <2>4. CASE ~Recheck(t) /\ ~Enqueue(t)
    <3>1. UNCHANGED queueVars /\ cb' = cb /\ pc'[t] # "enqueue"
      BY <1>1, <1>2, <2>4, ZenonT(60) DEF InCall, TakeCookie, FormatFails, CountPending, UnlockSessionReader,
        ReadFlag, ReadTail, Block, Put, Unblock, Undo, Accepted, SessionUpdate, TypeOK
    <3> QED BY <1>1, <2>1, <3>1, Zenon DEF QueueInv, queueVars
  <2> QED BY <2>2, <2>3, <2>4, Zenon
<1>3. ASSUME NEW t \in Threads, Call(t) PROVE QueueInv'
  <2>1. UNCHANGED queueVars /\ cb' = cb
    BY <1>3, Zenon DEF Call, Perform, LockSessionWriter
  <2>2. \A u \in Threads : pc'[u] = "enqueue" => pc[u] = "enqueue"
    BY <1>1, <1>3, ZenonT(60) DEF Call, Perform, LockSessionWriter, TypeOK
  <2> QED BY <1>1, <2>1, <2>2, Zenon DEF QueueInv, queueVars
<1>4. CASE Callback
  <2>1. cb.pc = "idle" /\ cb'.pc \in {"lock", "user"} /\ UNCHANGED <<pc, queueVars>>
    BY <1>1, <1>4, CallbackType, Zenon DEF Callback, thrVars
  <2> QED BY <1>1, <2>1, Zenon DEF QueueInv, queueVars
<1>5. CASE DequeueLock \/ DequeueHead \/ DequeueEnd \/ UserCallback
  <2>1. /\ pc' = pc /\ queue' = queue
        /\ \/ cb.pc = "lock" /\ cb'.pc = "loop" /\ requestQueueLock = None /\ requestQueueLock' = "poll" /\ tail' = tail
           \/ cb.pc = "loop" /\ cb'.pc = "put" /\ UNCHANGED queueVars /\ queue # <<>>
           \/ cb.pc = "loop" /\ cb'.pc = "user" /\ requestQueueLock' = None /\ (tail /\ queue # <<>> => tail')
           \/ cb'.pc = "return" /\ UNCHANGED queueVars
    BY <1>1, <1>5, ZenonT(60) DEF DequeueLock, DequeueHead, DequeueEnd, UserCallback, TypeOK, thrVars, queueVars
  <2> QED BY <1>1, <2>1, Zenon DEF QueueInv, queueVars
<1>6. CASE DequeuePut
  <2>1. /\ pc' = pc /\ tail' = tail /\ cb.pc = "put" /\ queue # <<>>
        /\ \/ cb'.pc = "loop" /\ requestQueueLock' = requestQueueLock
           \/ cb'.pc = "user" /\ requestQueueLock' = None
    BY <1>1, <1>6 DEF DequeuePut, TypeOK, thrVars, QueueInv
  <2> QED BY <1>1, <2>1, Zenon DEF QueueInv
<1>7. CASE CallbackReturn
  <2>1. UNCHANGED <<pc, queueVars>> /\ cb'.pc = "idle"
    BY <1>7, Zenon DEF CallbackReturn, thrVars, Idle
  <2> QED BY <1>1, <2>1, Zenon DEF QueueInv, queueVars
<1>8. CASE Answer \/ RemoveSession
  <2>1. UNCHANGED <<pc, queueVars, cb>>
    BY <1>8, Zenon DEF Answer, Device, RemoveSession, thrVars
  <2> QED BY <1>1, <2>1, Zenon DEF QueueInv, queueVars
<1> QED BY <1>2, <1>3, <1>4, <1>5, <1>6, <1>7, <1>8, Zenon DEF Next, Poll
-----------------------------------------------------------------------------
(* Each request in one place.                                                *)

\* A request is its thread's; partials are the streamer's.
LEMMA OwnRequest ==
  ASSUME TypeOK, NEW t \in Threads, pc[t] \in Unsent \cup {"accepted"}
  PROVE  /\ req[t] \in Good /\ req[t].th = t /\ (Partial(req[t]) => t = Streamer)
         /\ req[t].at \in Nat \X Nat /\ req[t].kind \in Kinds
         /\ \A u \in Threads : u # t /\ pc[u] \in Unsent \cup {"accepted"} => req[u] # req[t]
<1>1. \A u \in Threads : pc[u] \in Unsent \cup {"accepted"} => req[u] \in Good /\ req[u].th = u
  BY Zenon DEF TypeOK
<1>2. Numbered(req[t]) /\ req[t].at \in Nat \X Nat /\ req[t].kind \in Kinds
  BY <1>1, StateType, Zenon
<1> QED BY <1>1, <1>2, Zenon DEF Numbered

LEMMA UptoOrder ==
  ASSUME NEW a \in Nat \X Nat, NEW b \in Nat \X Nat
  PROVE  /\ Upto(a, a)
         /\ ~Upto(b, a) => \A c \in Nat \X Nat : Upto(c, a) => Upto(c, b)
  BY DEF Upto

\* Steps that put no request anywhere.
LEMMA PlaceStay ==
  ASSUME TypeOK, PlaceInv, queue' = queue, ring' \subseteq ring, strm' = strm,
         \A u \in Threads : done'[u].fulls >= done[u].fulls /\ done'[u].fulls \in Nat,
         \A u \in Threads : /\ pc'[u] \in Unsent \cup {"accepted"} =>
                                 pc[u] \in Unsent \cup {"accepted"} /\ req'[u] = req[u]
                            /\ pc'[u] \in Unsent => pc[u] \in Unsent
                            /\ pc[u] = "accepted" => pc'[u] = "accepted" /\ req'[u] = req[u]
  PROVE  PlaceInv'
<1>1. Streamer \in Threads
  BY ThreadsAssumption, Zenon
<1>2. \A u \in Threads : done[u].fulls \in Nat
  BY Zenon DEF TypeOK
<1>3. ASSUME NEW r \in Good, Known(r) PROVE Known(r)'
  <2>1. r.at[2] \in Nat /\ r.th \in Threads
    BY StateType, Zenon
  <2> QED BY <1>1, <1>2, <1>3, <2>1 DEF Known
<1>4. \A i \in 1..Len(queue) : queue[i] \in Good
  BY SMTT(30) DEF TypeOK
<1>5. ring \subseteq Good
  BY Zenon DEF TypeOK
<1>6. \A u \in Threads : pc[u] \in Unsent \cup {"accepted"} => req[u].at[2] \in Nat
  BY OwnRequest, Zenon
<1>7. /\ \A i, j \in 1..Len(queue') : queue'[i] = queue'[j] => i = j
      /\ \A i \in 1..Len(queue') : queue'[i] \notin ring' /\ Known(queue[i])'
      /\ \A r \in ring' : Known(r)'
  BY <1>3, <1>4, <1>5, Zenon DEF PlaceInv
<1>8. \A u \in Threads : pc'[u] \in Unsent =>
        req'[u] \notin ring' /\ \A i \in 1..Len(queue') : queue'[i] # req'[u]
  BY Zenon DEF PlaceInv
<1>9. \A u \in Threads : pc'[u] \in Unsent \cup {"accepted"} =>
       IF Partial(req'[u]) THEN ~Upto(req'[u].at, strm') ELSE req'[u].at[2] <= done'[u].fulls
  BY <1>2, <1>6 DEF PlaceInv
<1> QED BY <1>7, <1>8, <1>9, Zenon DEF PlaceInv, Known

\* The request of a thread is put on the ring, or at the end of the queue.
LEMMA PlaceSend ==
  ASSUME TypeOK, PlaceInv, NEW t \in Threads, pc[t] \in Unsent, pc'[t] = "accepted",
         req' = req, \A u \in Threads \ {t} : pc'[u] = pc[u], UNCHANGED <<strm, done>>,
         \/ queue' = queue /\ ring' = ring \cup {req[t]}
         \/ queue' = Append(queue, req[t]) /\ ring' = ring
  PROVE  PlaceInv'
<1>1. Streamer \in Threads /\ "accepted" \notin Unsent
  BY ThreadsAssumption, Zenon DEF Unsent, Reading, Counting
<1>2. /\ req[t] \in Good /\ req[t].th = t /\ (Partial(req[t]) => t = Streamer)
      /\ req[t] \notin ring /\ \A i \in 1..Len(queue) : queue[i] # req[t]
  BY OwnRequest, Zenon DEF PlaceInv
<1>3. Known(req[t])'
  BY <1>2, Zenon DEF Known, PlaceInv
<1>4. ASSUME NEW r, Known(r) PROVE Known(r)'
  BY <1>1, <1>4, Zenon DEF Known
<1>5. \A u \in Threads : pc'[u] \in Unsent => req[u] # req[t] /\ pc[u] \in Unsent
  BY <1>1, OwnRequest
<1>6. \A u \in Threads : pc'[u] \in Unsent \cup {"accepted"} =>
       IF Partial(req'[u]) THEN ~Upto(req'[u].at, strm') ELSE req'[u].at[2] <= done'[u].fulls
  BY Zenon DEF PlaceInv
<1>7. CASE queue' = queue /\ ring' = ring \cup {req[t]}
  <2>1. /\ \A i, j \in 1..Len(queue') : queue'[i] = queue'[j] => i = j
        /\ \A i \in 1..Len(queue') : queue'[i] \notin ring' /\ Known(queue[i])'
        /\ \A r \in ring' : Known(r)'
    BY <1>2, <1>3, <1>4, <1>7, Zenon DEF PlaceInv
  <2>2. \A u \in Threads : pc'[u] \in Unsent =>
          req'[u] \notin ring' /\ \A i \in 1..Len(queue') : queue'[i] # req'[u]
    BY <1>5, <1>7, Zenon DEF PlaceInv
  <2> QED BY <1>6, <1>7, <2>1, <2>2, Zenon DEF PlaceInv, Known
<1>8. CASE queue' = Append(queue, req[t]) /\ ring' = ring
  <2>1. /\ Len(queue') = Len(queue) + 1 /\ queue'[Len(queue) + 1] = req[t] /\ Len(queue) \in Nat
        /\ \A i \in 1..Len(queue) : queue'[i] = queue[i]
    BY <1>2, <1>8 DEF TypeOK
  <2>2. \A i \in 1..Len(queue') : i \in 1..Len(queue) \/ i = Len(queue) + 1
    BY <2>1
  <2>3. \A i, j \in 1..Len(queue') : queue'[i] = queue'[j] => i = j
    BY <1>2, <2>1, <2>2 DEF PlaceInv
  <2>4. \A i \in 1..Len(queue') : queue'[i] \notin ring'
    BY <1>2, <1>8, <2>1, <2>2, ZenonT(60) DEF PlaceInv
  <2>5. \A i \in 1..Len(queue') : Known(queue[i])' /\ \A r \in ring' : Known(r)'
    <3>1. \A i \in 1..Len(queue) : Known(queue[i])
      BY Zenon DEF PlaceInv
    <3>2. \A r \in ring : Known(r)
      BY Zenon DEF PlaceInv
    <3>3. ASSUME NEW i \in 1..Len(queue') PROVE Known(queue[i])'
      <4>1. CASE i \in 1..Len(queue)
        <5>1. Known(queue[i])
          BY <3>1, <4>1, Zenon
        <5>2. queue'[i] = queue[i]
          BY <2>1, <4>1, Zenon
        <5> QED BY <1>1, <5>1, <5>2, Zenon DEF Known
      <4>2. CASE i = Len(queue) + 1
        BY <1>3, <2>1, <4>2, Zenon DEF Known
      <4> QED BY <2>2, <4>1, <4>2, Zenon
    <3> QED BY <1>4, <1>8, <3>2, <3>3, Zenon
  <2>6. \A r \in ring' : Known(r)'
    BY <1>4, <1>8, Zenon DEF PlaceInv
  <2>7. \A u \in Threads : pc'[u] \in Unsent =>
          req'[u] \notin ring' /\ \A i \in 1..Len(queue') : queue'[i] # req'[u]
    BY <1>5, <1>8, <2>1, <2>2 DEF PlaceInv
  <2> QED BY <1>6, <2>3, <2>4, <2>5, <2>6, <2>7, Zenon DEF PlaceInv
<1> QED BY <1>7, <1>8, Zenon

LEMMA AcceptedPlace ==
  ASSUME TypeOK, PlaceInv, NEW t \in Threads, Accepted(t)
  PROVE  PlaceInv'
<1>1. Streamer \in Threads /\ {"accepted", "idle"} \cap Unsent = {}
  BY ThreadsAssumption, Zenon DEF Unsent, Reading, Counting
<1>2. /\ pc[t] = "accepted" /\ pc'[t] = "idle" /\ UNCHANGED <<queue, ring, done>>
      /\ \A u \in Threads \ {t} : pc'[u] = pc[u] /\ req'[u] = req[u]
  BY CallPlaces, InCallMoves, Zenon DEF Accepted, queueVars, devVars, InCall
<1>3. (Partial(req[t]) => t = Streamer) /\ req[t].at \in Nat \X Nat
  BY <1>2, OwnRequest, Zenon
<1>4. strm' = IF Partial(req[t]) THEN req[t].at ELSE strm
  BY Zenon DEF Accepted, clientVars
<1>5. strm \in Nat \X Nat
  BY Zenon DEF TypeOK
<1>6. ASSUME NEW r \in Good, Known(r) PROVE Known(r)'
  <2>1. r.at \in Nat \X Nat
    BY StateType, Zenon
  <2>2. CASE ~Partial(r)
    BY <1>2, <1>6, <2>2, Zenon DEF Known
  <2>3. CASE Partial(r) /\ Partial(req[t])
    <3>1. ~Upto(req[t].at, strm)
      BY <1>2, <2>3, Zenon DEF PlaceInv
    <3>2. Upto(r.at, strm) \/ req[t] = r
      BY <1>3, <1>6, <2>3, Zenon DEF Known
    <3>3. Upto(r.at, req[t].at)
      BY <1>3, <1>5, <2>1, <3>1, <3>2, UptoOrder, Zenon
    <3> QED BY <1>4, <2>3, <3>3, Zenon DEF Known
  <2>4. CASE Partial(r) /\ ~Partial(req[t])
    BY <1>1, <1>2, <1>4, <1>6, <2>4, Zenon DEF Known
  <2> QED BY <2>2, <2>3, <2>4, Zenon
<1>7. \A i \in 1..Len(queue) : queue[i] \in Good /\ Known(queue[i])
  <2>1. \A i \in 1..Len(queue) : queue[i] \in Good
    BY DEF TypeOK
  <2> QED BY <2>1, Zenon DEF PlaceInv
<1>8. \A r \in ring : r \in Good /\ Known(r)
  BY Zenon DEF TypeOK, PlaceInv
<1>9. ASSUME NEW i \in 1..Len(queue) PROVE Known(queue[i])'
  <2>1. queue[i] \in Good /\ Known(queue[i]) /\ queue'[i] = queue[i]
    BY <1>2, <1>7, Zenon
  <2> QED BY <1>1, <1>2, <1>6, <2>1, Zenon DEF Known
<1>10. \A r \in ring' : Known(r)'
  BY <1>2, <1>6, <1>8, Zenon
<1>11. ASSUME NEW u \in Threads, pc'[u] \in Unsent \cup {"accepted"}
       PROVE  IF Partial(req'[u]) THEN ~Upto(req'[u].at, strm') ELSE req'[u].at[2] <= done'[u].fulls
  <2>1. u # t /\ pc[u] = pc'[u] /\ req'[u] = req[u]
    BY <1>1, <1>2, <1>11, Zenon
  <2>2. Partial(req[u]) => u = Streamer
    BY <1>11, <2>1, OwnRequest, Zenon
  <2>3. Partial(req[u]) => ~Partial(req[t])
    BY <1>3, <2>1, <2>2, Zenon
  <2> QED BY <1>2, <1>4, <1>11, <2>1, <2>3, Zenon DEF PlaceInv
<1>12. \A u \in Threads : pc'[u] \in Unsent =>
         req'[u] \notin ring' /\ \A i \in 1..Len(queue') : queue'[i] # req'[u]
  BY <1>1, <1>2 DEF PlaceInv
<1>13. /\ \A i, j \in 1..Len(queue') : queue'[i] = queue'[j] => i = j
       /\ \A i \in 1..Len(queue') : queue'[i] \notin ring'
  BY <1>2 DEF PlaceInv
<1> QED BY <1>2, <1>9, <1>10, <1>11, <1>12, <1>13, Zenon DEF PlaceInv

LEMMA PerformPlace ==
  ASSUME TypeOK, PlaceInv, NEW t \in Threads, NEW kind \in Kinds, Perform(t, kind)
  PROVE  PlaceInv'
<1>1. Streamer \in Threads /\ {"accepted", "idle"} \cap Unsent = {} /\ "cookie" \in Unsent
  BY ThreadsAssumption, Zenon DEF Unsent, Reading, Counting
<1>2. /\ TypeOK' /\ UNCHANGED <<queue, ring, strm>>
      /\ pc[t] = "idle" /\ pc'[t] = "cookie" /\ \A u \in Threads \ {t} : pc'[u] = pc[u] /\ req'[u] = req[u]
      /\ req'[t].kind = kind
      /\ Partial(req'[t]) => ~Upto(req'[t].at, strm)
      /\ kind = "full" => req'[t].at[2] = done[t].fulls + 1 /\ done'[t].fulls = done[t].fulls + 1
      /\ \A u \in Threads \ {t} : done'[u] = done[u]
      /\ done'[t].fulls >= done[t].fulls
  BY PerformType, Zenon DEF Perform, queueVars, clientVars, devVars
<1>3. \A u \in Threads : done[u].fulls \in Nat /\ done'[u].fulls \in Nat
  BY <1>2, Zenon DEF TypeOK
<1>4. req'[t].th = t /\ (Partial(req'[t]) => t = Streamer) /\ req'[t] \in Good
  <2>1. req'[t] \in Good /\ req'[t].th = t
    BY <1>1, <1>2 DEF TypeOK
  <2> QED BY <2>1, StateType, Zenon DEF Numbered
<1>5. ASSUME NEW r \in Good, Known(r) PROVE Known(r)' /\ r # req'[t]
  <2>1. r.at[2] \in Nat /\ r.th \in Threads
    BY StateType, Zenon
  <2>2. CASE Partial(r)
    BY <1>1, <1>2, <1>4, <1>5, <2>2, Zenon DEF Known
  <2>3. CASE ~Partial(r)
    BY <1>2, <1>3, <1>4, <1>5, <2>1, <2>3 DEF Known, Partial
  <2> QED BY <2>2, <2>3
<1>6. \A i \in 1..Len(queue) : queue[i] \in Good /\ Known(queue[i])
  <2>1. \A i \in 1..Len(queue) : queue[i] \in Good
    BY SMTT(30) DEF TypeOK
  <2> QED BY <2>1, Zenon DEF PlaceInv
<1>7. \A r \in ring : r \in Good /\ Known(r)
  BY Zenon DEF TypeOK, PlaceInv
<1>8. \A r \in ring' : Known(r)' /\ r # req'[t]
  BY <1>2, <1>5, <1>7, Zenon
<1>9. ASSUME NEW i \in 1..Len(queue) PROVE Known(queue[i])' /\ queue[i] # req'[t]
  <2>1. queue[i] \in Good /\ Known(queue[i]) /\ queue'[i] = queue[i]
    BY <1>2, <1>6, Zenon
  <2>2. queue[i].at[2] \in Nat /\ queue[i].th \in Threads /\ queue[i] # req'[t]
    BY <1>5, <2>1, StateType, Zenon
  <2>3. CASE Partial(queue[i])
    BY <1>1, <1>2, <1>4, <2>1, <2>2, <2>3, Zenon DEF Known
  <2>4. CASE ~Partial(queue[i])
    BY <1>2, <1>3, <2>1, <2>2, <2>4, SMTT(30) DEF Known
  <2> QED BY <2>2, <2>3, <2>4, Zenon
<1>10. ASSUME NEW u \in Threads, pc'[u] \in Unsent
       PROVE  req'[u] \notin ring' /\ \A i \in 1..Len(queue') : queue'[i] # req'[u]
  <2>1. CASE u = t
    BY <1>2, <1>8, <1>9, <2>1, Zenon
  <2>2. CASE u # t
    BY <1>2, <1>10, <2>2 DEF PlaceInv
  <2> QED BY <2>1, <2>2, Zenon
<1>11. ASSUME NEW u \in Threads, pc'[u] \in Unsent \cup {"accepted"}
       PROVE  IF Partial(req'[u]) THEN ~Upto(req'[u].at, strm') ELSE req'[u].at[2] <= done'[u].fulls
  <2>1. CASE u = t
    BY <1>2, <1>3, <2>1 DEF Partial
  <2>2. CASE u # t
    BY <1>2, <1>11, <2>2, Zenon DEF PlaceInv
  <2> QED BY <2>1, <2>2, Zenon
<1>12. /\ \A i, j \in 1..Len(queue') : queue'[i] = queue'[j] => i = j
       /\ \A i \in 1..Len(queue') : queue'[i] \notin ring'
  BY <1>2 DEF PlaceInv
<1> QED BY <1>2, <1>8, <1>9, <1>10, <1>11, <1>12, Zenon DEF PlaceInv

LEMMA DequeuePlace ==
  ASSUME TypeOK, PlaceInv, queue # <<>>, UNCHANGED <<pc, req, done, strm>>,
         ring' = ring \cup {Head(queue)}, queue' = Tail(queue)
  PROVE  PlaceInv'
<1>1. /\ Head(queue) = queue[1] /\ Len(queue) > 0 /\ Len(queue) \in Nat
      /\ Len(queue') = Len(queue) - 1 /\ \A i \in 1..Len(queue') : queue'[i] = queue[i + 1]
  BY HeadOfQueue, Zenon
<1>2. \A i \in 1..Len(queue') : i + 1 \in 1..Len(queue) /\ i + 1 # 1
  BY <1>1
<1>3. 1 \in 1..Len(queue)
  BY <1>1
<1>4. \A i, j \in 1..Len(queue') : queue'[i] = queue'[j] => i = j
  BY <1>1, <1>2 DEF PlaceInv
<1>5. \A i \in 1..Len(queue') : queue'[i] \notin ring'
  BY <1>1, <1>2, <1>3 DEF PlaceInv
<1>6. ASSUME NEW i \in 1..Len(queue') PROVE Known(queue[i])'
  BY <1>1, <1>2, Zenon DEF PlaceInv, Known
<1>7. ASSUME NEW r \in ring' PROVE Known(r)'
  BY <1>1, <1>3 DEF PlaceInv, Known
<1>8. \A u \in Threads : pc'[u] \in Unsent =>
         req'[u] \notin ring' /\ \A i \in 1..Len(queue') : queue'[i] # req'[u]
  BY <1>1, <1>2, <1>3 DEF PlaceInv
<1>9. \A u \in Threads : pc'[u] \in Unsent \cup {"accepted"} =>
       IF Partial(req'[u]) THEN ~Upto(req'[u].at, strm') ELSE req'[u].at[2] <= done'[u].fulls
  BY Zenon DEF PlaceInv
<1> QED BY <1>4, <1>5, <1>6, <1>7, <1>8, <1>9, Zenon DEF PlaceInv

LEMMA PlaceNext ==
  ASSUME IInv, TypeOK', Next
  PROVE  PlaceInv'
<1>1. TypeOK /\ PlaceInv /\ QueueInv
  BY Zenon DEF IInv
<1>2. \A u \in Threads : done[u].fulls \in Nat
  BY <1>1, Zenon DEF TypeOK
<1>3. ASSUME NEW t \in Threads, InCall(t) PROVE PlaceInv'
  <2>1. /\ \A u \in Threads \ {t} : pc'[u] = pc[u] /\ req'[u] = req[u]
        /\ req'[t] = req[t] \/ pc'[t] = "idle"
        /\ pc'[t] \in Unsent \cup {"accepted"} => pc[t] \in Unsent
    BY <1>1, <1>3, InCallMoves, Zenon
  <2>2. {"idle", "accepted"} \cap Unsent = {} /\ {"enqueue", "put"} \subseteq Unsent
    BY Zenon DEF Unsent, Reading, Counting
  <2>3. CASE Accepted(t)
    BY <1>1, <2>3, AcceptedPlace, Zenon
  <2>4. CASE Enqueue(t)
    <3>1. pc[t] = "enqueue" /\ pc'[t] = "accepted"
      BY <1>1, <2>4, CallPlaces, Zenon
    <3>2. req' = req /\ UNCHANGED <<strm, done, ring>> /\ queue' = Append(queue, req[t])
      BY <2>4, Zenon DEF Enqueue, clientVars, devVars
    <3> QED BY <1>1, <2>1, <2>2, <3>1, <3>2, PlaceSend, Zenon
  <2>5. CASE Put(t) /\ ring' # ring
    <3>1. pc[t] = "put"
      BY <1>1, <2>5, CallPlaces, Zenon
    <3>2. /\ req' = req /\ UNCHANGED <<strm, done, queue>>
          /\ ring' = ring \cup {req[t]} /\ pc' = [pc EXCEPT ![t] = "accepted"]
      BY <2>5, Zenon DEF Put, clientVars, queueVars
    <3>3. pc'[t] = "accepted"
      BY <1>1, <3>2, Zenon DEF TypeOK
    <3> QED BY <1>1, <2>1, <2>2, <3>1, <3>2, <3>3, PlaceSend, Zenon
  <2>6. CASE ~Accepted(t) /\ ~Enqueue(t) /\ ~(Put(t) /\ ring' # ring)
    <3>1. UNCHANGED <<queue, ring, strm, done>>
      BY <1>3, <2>6, Zenon DEF InCall, TakeCookie, FormatFails, CountPending, UnlockSessionReader, ReadFlag,
        ReadTail, Recheck, Block, Put, Unblock, Undo, SessionUpdate, queueVars, devVars, clientVars
    <3>2. pc[t] # "accepted"
      BY <1>1, <1>3, <2>6, CallPlaces, Zenon DEF InCall
    <3>3. \A u \in Threads : /\ pc'[u] \in Unsent \cup {"accepted"} =>
                                 pc[u] \in Unsent \cup {"accepted"} /\ req'[u] = req[u]
                             /\ pc'[u] \in Unsent => pc[u] \in Unsent
                             /\ pc[u] = "accepted" => pc'[u] = "accepted" /\ req'[u] = req[u]
      BY <2>1, <2>2, <3>2, Zenon
    <3> QED BY <1>1, <1>2, <3>1, <3>3, PlaceStay
  <2> QED BY <2>3, <2>4, <2>5, <2>6, Zenon
<1>4. ASSUME NEW t \in Threads, LockSessionWriter(t) PROVE PlaceInv'
  <2>1. UNCHANGED <<queue, ring, strm, req>>
    BY <1>4, Zenon DEF LockSessionWriter, queueVars, devVars, clientVars
  <2>2. \A u \in Threads : done'[u].fulls = done[u].fulls
    BY <1>1, <1>4, SMTT(30) DEF LockSessionWriter, TypeOK
  <2>3. pc[t] = "idle" /\ (pc' = pc \/ pc' = [pc EXCEPT ![t] = "update"])
    BY <1>4, Zenon DEF LockSessionWriter
  <2>4. \A u \in Threads : pc'[u] = pc[u] \/ (pc'[u] = "update" /\ pc[u] = "idle")
    BY <1>1, <2>3, ZenonT(60) DEF TypeOK
  <2>5. {"idle", "update"} \cap (Unsent \cup {"accepted"}) = {}
    BY Zenon DEF Unsent, Reading, Counting
  <2> QED BY <1>1, <1>2, <2>1, <2>2, <2>4, <2>5, PlaceStay
<1>5. CASE DequeuePut
  <2>1. UNCHANGED <<pc, req, done, strm>> /\ queue # <<>>
    BY <1>1, <1>5, Zenon DEF DequeuePut, thrVars, clientVars, QueueInv
  <2>2. \/ ring' = ring /\ queue' = queue
        \/ ring' = ring \cup {Head(queue)} /\ queue' = Tail(queue)
    BY <1>5, Zenon DEF DequeuePut
  <2> QED BY <1>1, <1>2, <2>1, <2>2, DequeuePlace, PlaceStay
<1>6. CASE Callback \/ DequeueLock \/ DequeueHead \/ DequeueEnd \/ UserCallback \/ CallbackReturn
           \/ Answer \/ RemoveSession
  <2>1. UNCHANGED <<pc, req, done, strm, queue>> /\ ring' \subseteq ring
    BY <1>6, Zenon DEF Callback, DequeueLock, DequeueHead, DequeueEnd, UserCallback, CallbackReturn, Answer,
        Device, RemoveSession, thrVars, clientVars, queueVars, devVars
  <2> QED BY <1>1, <1>2, <2>1, PlaceStay
<1> QED BY <1>1, <1>3, <1>4, <1>5, <1>6, PerformPlace, Zenon DEF Next, Call, Poll

-----------------------------------------------------------------------------
(* One partial at a time.                                                    *)

LEMMA AloneStay ==
  ASSUME IInv, torn' \/ ~torn, UNCHANGED nonBlockingOpsInProgress, broken' \/ ~broken,
         RingPart' = RingPart, RespPart' = RespPart, NoneQueued => NoneQueued',
         Sender' <=> Sender, Drainer' <=> Drainer,
         ~torn' /\ Streams("send")' => NoneQueued' /\ nonBlockingOpsInProgress
  PROVE  AloneInv'
  BY Zenon DEF IInv, AloneInv, Free

\* Where the streamer is when another thread moves.
LEMMA StreamerStays ==
  ASSUME NEW t \in Threads, t # Streamer, \A u \in Threads \ {t} : pc'[u] = pc[u] /\ req'[u] = req[u]
  PROVE  \A x \in {"send", "put", "refused", "accepted"} : Streams(x)' <=> Streams(x)
<1>1. pc'[Streamer] = pc[Streamer] /\ req'[Streamer] = req[Streamer]
  BY ThreadsAssumption, Zenon
<1> QED BY <1>1, Zenon DEF Streams

\* Steps of a call that leave the queue and the device alone.
LEMMA LocalAlone ==
  ASSUME IInv, NEW t \in Threads,
         \/ TakeCookie(t) \/ FormatFails(t) \/ CountPending(t) \/ UnlockSessionReader(t) \/ ReadFlag(t)
         \/ Undo(t) \/ Accepted(t) \/ SessionUpdate(t) \/ ReadTail(t) \/ Recheck(t)
  PROVE  AloneInv'
<1>1. TypeOK /\ QueueInv
  BY Zenon DEF IInv
<1>2. /\ \A u \in Threads \ {t} : pc'[u] = pc[u] /\ req'[u] = req[u]
      /\ req'[t] = req[t] \/ pc'[t] = "idle"
  BY <1>1, InCallMoves, Zenon DEF InCall
<1>3. UNCHANGED <<ring, resp, queue, cb, nonBlockingOpsInProgress, broken>>
  BY Zenon DEF TakeCookie, FormatFails, CountPending, UnlockSessionReader, ReadFlag, Undo, Accepted,
         SessionUpdate, ReadTail, Recheck, queueVars, devVars
<1>4. RingPart' = RingPart /\ RespPart' = RespPart /\ (NoneQueued' <=> NoneQueued) /\ (Drainer' <=> Drainer)
  BY <1>3, Zenon DEF RingPart, RespPart, NoneQueued, Drainer
<1>5. pc[t] \notin {"send", "put", "refused"} /\ pc'[t] \notin {"put", "refused"}
  BY <1>1, CallPlaces, Zenon
<1>6. Sender' <=> Sender
  <2>1. CASE t = Streamer
    BY <1>5, <2>1, Zenon DEF Sender, Streams
  <2>2. CASE t # Streamer
    BY <1>2, <2>2, StreamerStays, Zenon DEF Sender
  <2> QED BY <2>1, <2>2, Zenon
<1>7. torn' \/ ~torn
  BY Zenon DEF TakeCookie, FormatFails, CountPending, UnlockSessionReader, ReadFlag, Undo, Accepted,
         SessionUpdate, ReadTail, Recheck
<1>8. ~torn' /\ Streams("send")' => NoneQueued' /\ nonBlockingOpsInProgress
  <2>1. CASE t # Streamer
    BY <1>2, <1>4, <1>7, <2>1, StreamerStays, Zenon DEF IInv, AloneInv
  <2>2. CASE t = Streamer /\ pc'[t] # "send"
    BY <2>2, Zenon DEF Streams
  <2>3. CASE t = Streamer /\ pc'[t] = "send"
    <3>1. ReadTail(t) \/ Recheck(t)
      BY <1>1, <2>3, CallPlaces, Zenon
    <3>2. "send" \notin {"lock", "enqueue"}
      BY Zenon
    <3>3. ~tail /\ (ReadTail(t) \/ nonBlockingOpsInProgress)
      <4>1. CASE ReadTail(t)
        BY <1>1, <2>3, <4>1, Zenon DEF ReadTail, TypeOK
      <4>2. CASE Recheck(t)
        BY <1>1, <2>3, <4>2, Zenon DEF Recheck, TypeOK
      <4> QED BY <3>1, <4>1, <4>2, Zenon
    <3>4. queue = <<>>
      BY <1>1, <3>3, Zenon DEF QueueInv
    <3>5. ReadTail(t) /\ ~torn' /\ Partial(req[t]) => nonBlockingOpsInProgress
      BY <3>3, Zenon DEF ReadTail
    <3>6. Streams("send")' => Partial(req[t])
      BY <1>2, <2>3, Zenon DEF Streams
    <3> QED BY <1>4, <3>3, <3>4, <3>5, <3>6 DEF NoneQueued
  <2> QED BY <2>1, <2>2, <2>3, Zenon
<1> QED BY <1>3, <1>4, <1>6, <1>7, <1>8, AloneStay, Zenon

LEMMA SendAlone ==
  ASSUME IInv, NEW t \in Threads, Enqueue(t) \/ Block(t) \/ Put(t) \/ Unblock(t)
  PROVE  AloneInv'
<1>1. TypeOK /\ QueueInv /\ AloneInv /\ Streamer \in Threads
  BY ThreadsAssumption, Zenon DEF IInv
<1>2. /\ \A u \in Threads \ {t} : pc'[u] = pc[u] /\ req'[u] = req[u]
      /\ req'[t] = req[t] \/ pc'[t] = "idle"
  BY <1>1, InCallMoves, Zenon DEF InCall
<1>3. UNCHANGED <<resp, cb, torn>> /\ RespPart' = RespPart
  BY Zenon DEF Enqueue, Block, Put, Unblock, devVars, RespPart
<1>4. pc[t] \in {"enqueue", "send", "put", "refused"} /\ req'[t] = req[t] /\ pc'[t] # "send"
  BY <1>1, <1>2, CallPlaces, Zenon
<1>5. req[t] \in Good /\ (Partial(req[t]) => t = Streamer)
  <2>1. pc[t] \in Unsent
    BY <1>4, Zenon DEF Unsent, Counting
  <2> QED BY <1>1, <2>1, OwnRequest, Zenon
<1>6. ~Partial(req[t]) => \A x \in {"send", "put", "refused", "accepted"} : Streams(x)' <=> Streams(x)
  <2>1. CASE t = Streamer
    BY <1>4, <2>1, Zenon DEF Streams
  <2>2. CASE t # Streamer
    BY <1>2, <2>2, StreamerStays, Zenon
  <2> QED BY <2>1, <2>2, Zenon
<1>7. CASE Enqueue(t)
  <2>1. /\ pc[t] = "enqueue" /\ pc'[t] = "accepted" /\ requestQueueLock = t
        /\ UNCHANGED <<ring, nonBlockingOpsInProgress, broken>> /\ queue' = Append(queue, req[t])
    BY <1>1, <1>7, CallPlaces, Zenon DEF Enqueue, devVars, QueueInv
  <2>2. cb.pc # "put"
    BY <1>1, <2>1, ThreadsAssumption, Zenon DEF QueueInv
  <2>3. RingPart' = RingPart /\ (Drainer' <=> Drainer)
    BY <1>3, <2>1, <2>2, Zenon DEF RingPart, Drainer
  <2>4. CASE Partial(req[t])
    <3>1. ~Sender /\ ~Sender' /\ ~Streams("send")'
      BY <1>5, <2>1, <2>4 DEF Sender, Streams
    <3> QED BY <1>1, <1>3, <2>1, <2>3, <3>1, Zenon DEF AloneInv, Free
  <2>5. CASE ~Partial(req[t])
    <3>1. NoneQueued => NoneQueued'
      BY <1>1, <1>5, <2>1, <2>5, EndOfQueue DEF NoneQueued
    <3>2. (Sender' <=> Sender) /\ (Streams("send")' <=> Streams("send"))
      BY <1>6, <2>5, Zenon DEF Sender
    <3> QED BY <1>1, <1>3, <2>1, <2>3, <3>1, <3>2, Zenon DEF AloneInv, Free
  <2> QED BY <2>4, <2>5, Zenon
<1>8. CASE Block(t)
  <2>1. /\ UNCHANGED <<ring, queue, broken>> /\ pc[t] = "send" /\ pc'[t] = "put"
        /\ nonBlockingOpsInProgress' <=> (nonBlockingOpsInProgress /\ ~Partial(req[t]))
    BY <1>1, <1>8, CallPlaces, Zenon DEF Block, queueVars, devVars
  <2>2. RingPart' = RingPart /\ (Drainer' <=> Drainer) /\ (NoneQueued' <=> NoneQueued)
    BY <1>3, <2>1, Zenon DEF RingPart, Drainer, NoneQueued
  <2>3. CASE Partial(req[t])
    <3>1. Streams("send") /\ Sender' /\ ~Streams("send")'
      BY <1>4, <1>5, <2>1, <2>3 DEF Sender, Streams
    <3> QED BY <1>1, <1>3, <2>1, <2>2, <2>3, <3>1, Zenon DEF AloneInv, Free
  <2>4. CASE ~Partial(req[t])
    <3>1. (Sender' <=> Sender) /\ (Streams("send")' <=> Streams("send"))
      BY <1>6, <2>4, Zenon DEF Sender
    <3> QED BY <1>1, <1>3, <2>1, <2>2, <2>4, <3>1, Zenon DEF AloneInv, Free
  <2> QED BY <2>3, <2>4, Zenon
<1>9. CASE Put(t)
  <2>1. /\ UNCHANGED <<queue, broken, nonBlockingOpsInProgress>> /\ pc[t] = "put"
    BY <1>1, <1>9, CallPlaces, Zenon DEF Put, queueVars
  <2>2. (Drainer' <=> Drainer) /\ (NoneQueued' <=> NoneQueued)
    BY <1>3, <2>1, Zenon DEF Drainer, NoneQueued
  <2>3. \/ ring' = ring /\ pc'[t] = "refused"
        \/ ring' = ring \cup {req[t]} /\ pc'[t] = "accepted"
    BY <1>1, <1>9, Zenon DEF Put, TypeOK
  <2>4. CASE ~Partial(req[t])
    <3>1. (Sender' <=> Sender) /\ (Streams("send")' <=> Streams("send"))
      BY <1>6, <2>4, Zenon DEF Sender
    <3>2. RingPart' = RingPart
      BY <2>3, <2>4, Zenon DEF RingPart
    <3> QED BY <1>1, <1>3, <2>1, <2>2, <3>1, <3>2, Zenon DEF AloneInv, Free
  <2>5. CASE Partial(req[t]) /\ ring' = ring /\ pc'[t] = "refused"
    <3>1. Sender' /\ Sender /\ ~Streams("send")'
      BY <1>4, <1>5, <2>1, <2>5, Zenon DEF Sender, Streams
    <3>2. RingPart' = RingPart
      BY <2>5, Zenon DEF RingPart
    <3> QED BY <1>1, <1>3, <2>1, <2>2, <3>1, <3>2, Zenon DEF AloneInv, Free
  <2>6. CASE Partial(req[t]) /\ ring' = ring \cup {req[t]} /\ pc'[t] = "accepted"
    <3>1. ~Sender' /\ Sender /\ ~Streams("send")'
      BY <1>4, <1>5, <2>1, <2>6, Zenon DEF Sender, Streams
    <3>2. RingPart' = RingPart \cup {req[t]}
      BY <2>6, Zenon DEF RingPart
    <3> QED BY <1>1, <1>3, <2>1, <2>2, <3>1, <3>2, Zenon DEF AloneInv, Free
  <2> QED BY <2>3, <2>4, <2>5, <2>6
<1>10. CASE Unblock(t)
  <2>1. /\ UNCHANGED <<ring, queue>> /\ pc[t] = "refused" /\ pc'[t] = "undo"
        /\ nonBlockingOpsInProgress' <=> (nonBlockingOpsInProgress \/ Partial(req[t]))
        /\ broken => broken'
    BY <1>1, <1>10, CallPlaces, Zenon DEF Unblock, queueVars, devVars
  <2>2. RingPart' = RingPart /\ (Drainer' <=> Drainer) /\ (NoneQueued' <=> NoneQueued)
    BY <1>3, <2>1, Zenon DEF RingPart, Drainer, NoneQueued
  <2>3. CASE Partial(req[t])
    <3>1. Sender /\ ~Sender' /\ ~Streams("send")'
      BY <1>4, <1>5, <2>1, <2>3, Zenon DEF Sender, Streams
    <3> QED BY <1>1, <1>3, <2>1, <2>2, <2>3, <3>1 DEF AloneInv, Free
  <2>4. CASE ~Partial(req[t])
    <3>1. (Sender' <=> Sender) /\ (Streams("send")' <=> Streams("send"))
      BY <1>6, <2>4, Zenon DEF Sender
    <3> QED BY <1>1, <1>3, <2>1, <2>2, <2>4, <3>1, Zenon DEF AloneInv, Free
  <2> QED BY <2>3, <2>4, Zenon
<1> QED BY <1>7, <1>8, <1>9, <1>10, Zenon

LEMMA DeviceAlone ==
  ASSUME IInv, NEW r \in ring, NEW ok \in BOOLEAN, Device(r, ok)
  PROVE  /\ AloneInv'
         /\ Partial(r) => RingPart' = RingPart \ {r} /\ RespPart' = RespPart \cup {Len(resp) + 1}
         /\ ~Partial(r) => RingPart' = RingPart /\ RespPart' = RespPart
<1>1. TypeOK /\ AloneInv
  BY Zenon DEF IInv
<1>2. UNCHANGED <<pc, req, queue, cb, nonBlockingOpsInProgress, torn, broken>>
  BY Zenon DEF Device, thrVars, queueVars
<1>3. /\ ring' = ring \ {r} /\ Len(resp') = Len(resp) + 1 /\ Len(resp) \in Nat
      /\ \A i \in 1..Len(resp) : resp'[i] = resp[i]
      /\ resp'[Len(resp) + 1].req = r
  BY <1>1, DeviceType, Zenon
<1>4. /\ Sender' <=> Sender
      /\ Drainer' <=> Drainer
      /\ NoneQueued' <=> NoneQueued
      /\ Streams("send")' <=> Streams("send")
  BY <1>2, Zenon DEF Sender, Streams, Drainer, NoneQueued
<1>5. RingPart' = RingPart \ {r} /\ (Partial(r) <=> r \in RingPart)
  BY <1>3, Zenon DEF RingPart
<1>6. \A i \in 1..Len(resp') : i \in 1..Len(resp) \/ i = Len(resp) + 1
  BY <1>3, SMTT(30)
<1>7. RespPart' = IF Partial(r) THEN RespPart \cup {Len(resp) + 1} ELSE RespPart
  BY <1>3, <1>6 DEF RespPart
<1>8. CASE Partial(r)
  BY <1>1, <1>2, <1>4, <1>5, <1>7, <1>8 DEF AloneInv, Free
<1>9. CASE ~Partial(r)
  BY <1>1, <1>2, <1>4, <1>5, <1>7, <1>9 DEF AloneInv, Free
<1> QED BY <1>5, <1>7, <1>8, <1>9, Zenon

LEMMA CallbackAlone ==
  ASSUME IInv, Callback
  PROVE  /\ AloneInv'
         /\ \A i \in RespPart' : i + 1 \in RespPart /\ resp'[i] = resp[i + 1]
         /\ Partial(Head(resp).req) => 1 \in RespPart
<1>1. TypeOK /\ AloneInv
  BY Zenon DEF IInv
<1>2. /\ UNCHANGED <<pc, req, queue, ring, nonBlockingOpsInProgress, torn>>
      /\ cb.pc = "idle" /\ resp # <<>> /\ resp' = Tail(resp)
      /\ broken' <=> (broken \/ (Partial(Head(resp).req) /\ ~Head(resp).ok))
  <2>1. broken' <=> (broken \/ (Partial(Head(resp).req) /\ ~Head(resp).ok))
    BY Zenon DEF Callback
  <2> QED BY <2>1, SMTT(30) DEF Callback, thrVars, queueVars
<1>3. /\ cb'.req = Head(resp).req
      /\ cb'.pc = IF Partial(Head(resp).req) /\ Head(resp).ok THEN "lock" ELSE "user"
  BY <1>1, CallbackType, Zenon
<1>4. /\ Head(resp) = resp[1] /\ Len(resp) > 0 /\ Len(resp) \in Nat
      /\ Len(resp') = Len(resp) - 1 /\ \A i \in 1..Len(resp') : resp'[i] = resp[i + 1]
  BY <1>1, <1>2, HeadOfResp, Zenon
<1>5. /\ Sender' <=> Sender
      /\ NoneQueued' <=> NoneQueued
      /\ Streams("send")' <=> Streams("send")
      /\ RingPart' = RingPart
  BY <1>2, Zenon DEF Sender, Streams, NoneQueued, RingPart
<1>6. ~Drainer /\ (Drainer' <=> (Partial(Head(resp).req) /\ Head(resp).ok))
  BY <1>2, <1>3, Zenon DEF Drainer
<1>7. \A i \in RespPart' : i \in Nat /\ i + 1 \in RespPart /\ i + 1 # 1 /\ resp'[i] = resp[i + 1]
  BY <1>4 DEF RespPart
<1>8. Partial(Head(resp).req) <=> 1 \in RespPart
  BY <1>4 DEF RespPart
<1>9. ~Partial(Head(resp).req) /\ RespPart # {} => RespPart' # {}
  <2> SUFFICES ASSUME ~Partial(Head(resp).req), NEW i \in RespPart PROVE RespPart' # {}
    BY Zenon
  <2>1. i \in 1..Len(resp) /\ i # 1 /\ Partial(resp[i].req)
    BY <1>8, Zenon DEF RespPart
  <2>2. i - 1 \in 1..Len(resp') /\ resp'[i - 1] = resp[i]
    BY <1>4, <2>1
  <2> QED BY <2>1, <2>2, Zenon DEF RespPart
<1>10. ~torn => \A i, j \in RespPart' : i = j
  BY <1>1, <1>7 DEF AloneInv
<1>11. RespPart = {} => RespPart' = {}
  BY <1>7, Zenon
<1>12. ASSUME Partial(Head(resp).req) PROVE AloneInv'
  <2>1. ~torn => RespPart' = {}
    BY <1>1, <1>7, <1>8, <1>12, Zenon DEF AloneInv
  <2>2. ~Drainer /\ RespPart # {} /\ (Drainer' \/ broken') /\ (broken => broken')
    BY <1>2, <1>6, <1>8, <1>12, Zenon
  <2>3. UNCHANGED <<nonBlockingOpsInProgress, torn>>
    BY <1>2, Zenon
  <2> QED BY <1>1, <1>5, <2>1, <2>2, <2>3, Zenon DEF AloneInv, Free
<1>13. ASSUME ~Partial(Head(resp).req) PROVE AloneInv'
  <2>1. ~Drainer /\ ~Drainer' /\ (broken' <=> broken) /\ (RespPart = {} <=> RespPart' = {})
    BY <1>2, <1>6, <1>9, <1>11, <1>13, Zenon
  <2>2. UNCHANGED <<nonBlockingOpsInProgress, torn>>
    BY <1>2
  <2> QED BY <1>1, <1>5, <1>10, <2>1, <2>2, Zenon DEF AloneInv, Free
<1> QED BY <1>7, <1>8, <1>12, <1>13

LEMMA DrainAlone ==
  ASSUME IInv, DequeueLock \/ DequeueHead \/ DequeuePut \/ DequeueEnd
  PROVE  AloneInv'
<1>1. TypeOK /\ AloneInv /\ QueueInv
  BY Zenon DEF IInv
<1>2. UNCHANGED <<pc, req, resp, torn>>
  BY Zenon DEF DequeueLock, DequeueHead, DequeuePut, DequeueEnd, thrVars, devVars
<1>3. RespPart' = RespPart /\ (Sender' <=> Sender) /\ (Streams("send")' <=> Streams("send"))
  BY <1>2, Zenon DEF RespPart, Sender, Streams
<1>4. CASE DequeueLock
  <2>1. /\ UNCHANGED <<ring, queue, broken>> /\ nonBlockingOpsInProgress' /\ cb.pc = "lock" /\ cb'.pc = "loop"
    BY <1>1, <1>4, Zenon DEF DequeueLock, TypeOK, devVars
  <2>2. RingPart' = RingPart /\ Drainer /\ ~Drainer' /\ (NoneQueued' <=> NoneQueued)
    BY <2>1, Zenon DEF RingPart, Drainer, NoneQueued
  <2> QED BY <1>1, <1>2, <1>3, <2>1, <2>2, Zenon DEF AloneInv, Free
<1>5. CASE DequeueHead
  <2>1. /\ UNCHANGED <<ring, queue, broken>> /\ cb.pc = "loop" /\ cb'.pc = "put"
        /\ nonBlockingOpsInProgress /\ queue # <<>>
        /\ nonBlockingOpsInProgress' <=> ~Partial(Head(queue))
    <3>1. nonBlockingOpsInProgress' <=> ~Partial(Head(queue))
      BY <1>5, Zenon DEF DequeueHead
    <3> QED BY <1>1, <1>5, <3>1, Zenon DEF DequeueHead, TypeOK, devVars, queueVars
  <2>2. /\ RingPart' = RingPart /\ ~Drainer /\ (NoneQueued' <=> NoneQueued)
        /\ Drainer' <=> Partial(Head(queue))
    BY <2>1, Zenon DEF RingPart, Drainer, NoneQueued
  <2>3. NoneQueued => ~Partial(Head(queue))
    BY <1>1, <2>1, HeadOfQueue DEF NoneQueued
  <2> QED BY <1>1, <1>2, <1>3, <2>1, <2>2, <2>3, Zenon DEF AloneInv, Free
<1>6. CASE DequeuePut
  <2>1. /\ cb.pc = "put" /\ UNCHANGED nonBlockingOpsInProgress /\ queue # <<>> /\ cb'.pc \in {"loop", "user"}
        /\ \/ ring' = ring \cup {Head(queue)} /\ queue' = Tail(queue) /\ broken' = broken
           \/ ring' = ring /\ queue' = queue /\ broken'
    BY <1>1, <1>6, Zenon DEF DequeuePut, TypeOK, QueueInv
  <2>2. ~Drainer' /\ (Drainer <=> Partial(Head(queue)))
    BY <2>1, Zenon DEF Drainer
  <2>3. CASE ring' = ring /\ queue' = queue /\ broken'
    <3>1. RingPart' = RingPart /\ (NoneQueued' <=> NoneQueued)
      BY <2>3, Zenon DEF RingPart, NoneQueued
    <3> QED BY <1>1, <1>2, <1>3, <2>1, <2>2, <2>3, <3>1, Zenon DEF AloneInv, Free
  <2>4. CASE ring' = ring \cup {Head(queue)} /\ queue' = Tail(queue) /\ broken' = broken
    <3>1. RingPart' = IF Partial(Head(queue)) THEN RingPart \cup {Head(queue)} ELSE RingPart
      BY <2>4, Zenon DEF RingPart
    <3>2. NoneQueued => NoneQueued' /\ ~Partial(Head(queue))
      <4>1. /\ Head(queue) = queue[1] /\ Len(queue) > 0 /\ Len(queue) \in Nat
            /\ Len(queue') = Len(queue) - 1 /\ \A i \in 1..Len(queue') : queue'[i] = queue[i + 1]
        BY <1>1, <2>1, <2>4, HeadOfQueue, Zenon
      <4>2. 1 \in 1..Len(queue) /\ \A i \in 1..Len(queue') : i + 1 \in 1..Len(queue)
        BY <4>1
      <4> QED BY <4>1, <4>2, Zenon DEF NoneQueued
    <3>3. CASE Partial(Head(queue))
      BY <1>1, <1>2, <1>3, <2>1, <2>2, <2>4, <3>1, <3>2, <3>3, Zenon DEF AloneInv, Free
    <3>4. CASE ~Partial(Head(queue))
      BY <1>1, <1>2, <1>3, <2>1, <2>2, <2>4, <3>1, <3>2, <3>4, Zenon DEF AloneInv, Free
    <3> QED BY <3>3, <3>4, Zenon
  <2> QED BY <2>1, <2>3, <2>4, Zenon
<1>7. CASE DequeueEnd
  <2>1. UNCHANGED <<ring, queue, broken, nonBlockingOpsInProgress>> /\ cb.pc = "loop" /\ cb'.pc = "user"
    BY <1>1, <1>7, Zenon DEF DequeueEnd, TypeOK, devVars
  <2>2. RingPart' = RingPart /\ ~Drainer /\ ~Drainer' /\ (NoneQueued' <=> NoneQueued)
    BY <2>1, Zenon DEF RingPart, Drainer, NoneQueued
  <2> QED BY <1>1, <1>2, <1>3, <2>1, <2>2, Zenon DEF AloneInv, Free
<1> QED BY <1>4, <1>5, <1>6, <1>7, Zenon

LEMMA OtherAlone ==
  ASSUME IInv, UserCallback \/ CallbackReturn \/ RemoveSession \/ \E t \in Threads : Call(t)
  PROVE  AloneInv'
<1>1. TypeOK /\ AloneInv
  BY Zenon DEF IInv
<1>2. UNCHANGED <<ring, resp, queue, nonBlockingOpsInProgress, torn, broken>>
  BY Zenon DEF UserCallback, CallbackReturn, RemoveSession, Call, Perform, LockSessionWriter, devVars, queueVars
<1>3. RingPart' = RingPart /\ RespPart' = RespPart /\ (NoneQueued' <=> NoneQueued)
  BY <1>2 DEF RingPart, RespPart, NoneQueued
<1>4. Drainer' <=> Drainer
  <2>1. CASE UserCallback
    BY <1>1, <2>1, Zenon DEF UserCallback, Drainer, TypeOK
  <2>2. CASE CallbackReturn
    BY <1>1, <2>2, Zenon DEF CallbackReturn, Drainer, Idle
  <2>3. CASE RemoveSession \/ \E t \in Threads : Call(t)
    BY <1>2, <2>3, Zenon DEF RemoveSession, Call, Perform, LockSessionWriter, Drainer
  <2> QED BY <2>1, <2>2, <2>3, Zenon
<1>5. \A x \in {"send", "put", "refused"} : Streams(x)' <=> Streams(x)
  <2>1. CASE UserCallback \/ CallbackReturn \/ RemoveSession
    BY <2>1, Zenon DEF UserCallback, CallbackReturn, RemoveSession, Streams, thrVars
  <2>2. ASSUME NEW t \in Threads, NEW kind \in Kinds, Perform(t, kind)
        PROVE  \A x \in {"send", "put", "refused"} : Streams(x)' <=> Streams(x)
    BY <1>1, <2>2, PerformType, ThreadsAssumption, Zenon DEF Streams
  <2>3. ASSUME NEW t \in Threads, LockSessionWriter(t)
        PROVE  \A x \in {"send", "put", "refused"} : Streams(x)' <=> Streams(x)
    <3>1. req' = req /\ \A u \in Threads : pc'[u] = pc[u] \/ (pc'[u] = "update" /\ pc[u] = "idle")
      BY <1>1, <2>3, Zenon DEF LockSessionWriter, TypeOK
    <3> QED BY <3>1, ThreadsAssumption, Zenon DEF Streams
  <2> QED BY <2>1, <2>2, <2>3, Zenon DEF Call
<1> QED BY <1>1, <1>2, <1>3, <1>4, <1>5, Zenon DEF AloneInv, Free, Sender
-----------------------------------------------------------------------------
(* The packets of a stream in order.                                         *)

LEMMA PacketNext ==
  ASSUME IInv, Next
  PROVE  PacketInv'
<1>1. TypeOK /\ PacketInv /\ Streamer \in Threads
  BY ThreadsAssumption, Zenon DEF IInv
<1>2. {"idle", "update"} \cap (Unsent \cup {"accepted"}) = {}
  BY DEF Unsent, Reading, Counting
<1>3. ASSUME NEW t \in Threads, InCall(t) PROVE PacketInv'
  <2>1. /\ \A u \in Threads \ {t} : pc'[u] = pc[u] /\ req'[u] = req[u]
        /\ req'[t] = req[t] \/ pc'[t] = "idle"
        /\ pc'[t] \in Unsent \cup {"accepted"} => pc[t] \in Unsent
    BY <1>1, <1>3, InCallMoves, Zenon
  <2>2. CASE Accepted(t) /\ Partial(req[t])
    <3>1. pc[t] = "accepted" /\ pc'[t] = "idle"
      BY <1>1, <2>2, CallPlaces, Zenon
    <3>2. t = Streamer
      BY <1>1, <2>2, <3>1, OwnRequest, Zenon
    <3> QED BY <1>2, <3>1, <3>2, Zenon DEF PacketInv
  <2>3. CASE ~(Accepted(t) /\ Partial(req[t]))
    <3>1. UNCHANGED <<partialState, strm>>
      BY <1>3, <2>3, Zenon DEF InCall, TakeCookie, FormatFails, CountPending, UnlockSessionReader, ReadFlag,
        ReadTail, Recheck, Enqueue, Block, Put, Unblock, Undo, Accepted, SessionUpdate, clientVars
    <3>2. pc'[Streamer] \in Unsent \cup {"accepted"} =>
            req'[Streamer] = req[Streamer] /\ pc[Streamer] \in Unsent \cup {"accepted"}
      BY <1>1, <1>2, <2>1, Zenon
    <3> QED BY <1>1, <3>1, <3>2, Zenon DEF PacketInv
  <2> QED BY <2>2, <2>3, Zenon
<1>4. ASSUME NEW t \in Threads, NEW kind \in Kinds, Perform(t, kind) PROVE PacketInv'
  <2>1. UNCHANGED <<partialState, strm>>
    BY <1>4, Zenon DEF Perform, clientVars
  <2>2. /\ \A u \in Threads \ {t} : pc'[u] = pc[u] /\ req'[u] = req[u]
        /\ req'[t].kind = kind
        /\ Partial(req'[t]) => PartialPacketStateCheck(kind)
        /\ kind \in {"mid", "end"} => strm = Before(req'[t])
    BY <1>1, <1>4, PerformType, Zenon
  <2>3. CASE t # Streamer
    BY <1>1, <2>1, <2>2, <2>3, Zenon DEF PacketInv
  <2>4. CASE t = Streamer
    BY <1>1, <2>1, <2>2, <2>4, Zenon DEF PacketInv, PartialPacketStateCheck, Partial, Kinds
  <2> QED BY <2>3, <2>4, Zenon
<1>5. ASSUME NEW t \in Threads, LockSessionWriter(t) PROVE PacketInv'
  <2>1. UNCHANGED <<partialState, strm, req>>
    BY <1>5, Zenon DEF LockSessionWriter, clientVars
  <2>2. \A u \in Threads : pc'[u] = pc[u] \/ pc'[u] = "update"
    BY <1>1, <1>5, Zenon DEF LockSessionWriter, TypeOK
  <2> QED BY <1>1, <1>2, <2>1, <2>2, Zenon DEF PacketInv
<1>6. CASE Poll \/ Answer \/ RemoveSession
  <2>1. UNCHANGED <<partialState, strm, pc, req>>
    <3>1. CASE Poll
      BY <3>1, Zenon DEF Poll, Callback, DequeueLock, DequeueHead, DequeuePut, DequeueEnd, UserCallback,
        CallbackReturn, thrVars, clientVars
    <3>2. CASE Answer
      BY <3>2, Zenon DEF Answer, Device, thrVars, clientVars
    <3>3. CASE RemoveSession
      BY <3>3, Zenon DEF RemoveSession, thrVars, clientVars
    <3> QED BY <1>6, <3>1, <3>2, <3>3, Zenon
  <2> QED BY <1>1, <2>1, Zenon DEF PacketInv
<1> QED BY <1>3, <1>4, <1>5, <1>6, Zenon DEF Next, Call

\* Steps that touch neither the queue nor the state buffer nor the client.
LEMMA ChainStay ==
  ASSUME IInv, UNCHANGED <<queue, opState, iv, partialState, strm>>, RingPart' = RingPart,
         torn' \/ ~torn, chained' = chained,
         \A i \in RespPart' : \E j \in RespPart : resp'[i].req = resp[j].req,
         cb'.pc = "put" => cb.pc = "put",
         Streams("put")' => Streams("put") /\ req'[Streamer] = req[Streamer],
         Streams("accepted")' <=> Streams("accepted"),
         Streams("accepted") => req'[Streamer] = req[Streamer]
  PROVE  ChainInv'
<1>1. ChainInv
  BY Zenon DEF IInv
<1>2. QueueChain => QueueChain'
  BY Zenon DEF QueueChain
<1>3. ClientChain => ClientChain'
  BY Zenon DEF ClientChain
<1> QED BY <1>1, <1>2, <1>3, Zenon DEF ChainInv

\* How what the queue leaves changes with the queue.
LEMMA LeavesSame ==
  ASSUME NEW q, NEW p, NEW rp, NEW op, NEW rq, NEW oq, NEW k \in Nat, NEW a,
         \A i \in 1..k : p[i] = q[i], Ahead(rp, op, a) => Ahead(rq, oq, a),
         Leaves(q, rp, op, k, a)
  PROVE  Leaves(p, rq, oq, k, a)
<1>1. \A i \in 1..k : \A j \in (i + 1)..k : j \in 1..k
  OBVIOUS
<1> QED BY <1>1, Zenon DEF Leaves

LEMMA LeavesNone ==
  ASSUME NEW q, NEW rp, NEW op, NEW k \in Nat, NEW a, \A i \in 1..k : ~Partial(q[i])
  PROVE  Leaves(q, rp, op, k, a) <=> Ahead(rp, op, a)
  BY Zenon DEF Leaves

LEMMA LeavesLonger ==
  ASSUME NEW q, NEW p, NEW rp, NEW op, NEW k \in Nat, NEW m \in Nat, m = k + 1, NEW a,
         \A i \in 1..k : p[i] = q[i], ~Partial(p[m]), Leaves(q, rp, op, k, a)
  PROVE  Leaves(p, rp, op, m, a)
<1>1. Leaves(p, rp, op, k, a)
  BY LeavesSame, Zenon
<1>2. \A j \in 1..m : j \in 1..k \/ j = m
  OBVIOUS
<1>3. \A i \in 1..k : i \in 1..m /\ \A j \in (i + 1)..m : j \in (i + 1)..k \/ j = m
  OBVIOUS
<1> QED BY <1>1, <1>2, <1>3, Zenon DEF Leaves

LEMMA LeavesLast ==
  ASSUME NEW q, NEW rp, NEW op, NEW k \in Nat, k > 0, Partial(q[k]), NEW a, a = q[k].at
  PROVE  Leaves(q, rp, op, k, a)
<1>1. k \in 1..k /\ (k + 1)..k = {}
  OBVIOUS
<1> QED BY <1>1, Zenon DEF Leaves

LEMMA LeavesFirst ==
  ASSUME NEW q, NEW rp, NEW op, NEW rq, NEW oq, NEW k \in Nat, NEW a, k > 0, Partial(q[1]),
         Leaves(q, rp, op, k, a)
  PROVE  Leaves(q, rq, oq, k, a)
<1>1. 1 \in 1..k
  OBVIOUS
<1> QED BY <1>1, Zenon DEF Leaves

LEMMA LeavesTail ==
  ASSUME NEW q, NEW p, NEW rp, NEW op, NEW rq, NEW oq, NEW k \in Nat, NEW m \in Nat,
         m = k + 1, NEW a, \A i \in 1..k : p[i] = q[i + 1],
         Partial(q[1]) => Ahead(rq, oq, q[1].at),
         ~Partial(q[1]) /\ Ahead(rp, op, a) => Ahead(rq, oq, a),
         Leaves(q, rp, op, m, a)
  PROVE  Leaves(p, rq, oq, k, a)
<1>1. 1 \in 1..m /\ \A j \in 1..k : j + 1 \in 1..m /\ j + 1 \in 2..m
  OBVIOUS
<1>2. CASE Ahead(rp, op, a) /\ \A j \in 1..m : ~Partial(q[j])
  BY <1>1, <1>2, Zenon DEF Leaves
<1>3. ASSUME NEW i \in 1..m, Partial(q[i]), q[i].at = a, \A j \in (i + 1)..m : ~Partial(q[j])
      PROVE  Leaves(p, rq, oq, k, a)
  <2>1. CASE i = 1
    <3>1. \A j \in 1..k : ~Partial(p[j])
      BY <1>1, <1>3, <2>1
    <3> QED BY <1>3, <2>1, <3>1, Zenon DEF Leaves
  <2>2. CASE i # 1
    <3>1. i - 1 \in 1..k /\ i - 1 + 1 = i
      BY <2>2
    <3>2. p[i - 1] = q[i]
      BY <3>1, Zenon
    <3>3. \A j \in (i - 1 + 1)..k : j \in 1..k /\ j + 1 \in (i + 1)..m
      BY <3>1
    <3>4. \A j \in (i - 1 + 1)..k : ~Partial(p[j])
      BY <1>3, <3>3
    <3> QED BY <1>3, <3>1, <3>2, <3>4, Zenon DEF Leaves
  <2> QED BY <2>1, <2>2, Zenon
<1> QED BY <1>2, <1>3, Zenon DEF Leaves

\* Steps of a call before it is sent, and after.
LEMMA LocalChain ==
  ASSUME IInv, NEW t \in Threads,
         \/ TakeCookie(t) \/ FormatFails(t) \/ CountPending(t) \/ UnlockSessionReader(t) \/ ReadFlag(t)
         \/ Undo(t) \/ Accepted(t) \/ SessionUpdate(t) \/ ReadTail(t) \/ Recheck(t) \/ Unblock(t)
  PROVE  ChainInv'
<1>1. TypeOK /\ ChainInv
  BY Zenon DEF IInv
<1>2. /\ \A u \in Threads \ {t} : pc'[u] = pc[u] /\ req'[u] = req[u]
      /\ req'[t] = req[t] \/ pc'[t] = "idle"
  BY <1>1, InCallMoves, Zenon DEF InCall
<1>3. /\ UNCHANGED <<ring, resp, queue, cb, opState, iv, chained>> /\ (torn' \/ ~torn)
      /\ UNCHANGED <<partialState, strm>> \/ (Accepted(t) /\ Partial(req[t]))
  <2>1. UNCHANGED <<ring, resp, queue, cb, opState, iv, chained>>
    BY Zenon DEF TakeCookie, FormatFails, CountPending, UnlockSessionReader, ReadFlag, Undo, Accepted,
         SessionUpdate, ReadTail, Recheck, Unblock, queueVars, devVars
  <2>2. torn' \/ ~torn
    <3>1. CASE ReadTail(t)
      BY <3>1, Zenon DEF ReadTail
    <3>2. CASE ~ReadTail(t)
      <4>1. torn' = torn
        BY <3>2, Zenon DEF TakeCookie, FormatFails, CountPending, UnlockSessionReader, ReadFlag, Undo, Accepted,
          SessionUpdate, Recheck, Unblock
      <4> QED BY <4>1, Zenon
    <3> QED BY <3>1, <3>2, Zenon
  <2>3. UNCHANGED <<partialState, strm>> \/ (Accepted(t) /\ Partial(req[t]))
    BY Zenon DEF TakeCookie, FormatFails, CountPending, UnlockSessionReader, ReadFlag, Undo, Accepted,
         SessionUpdate, ReadTail, Recheck, Unblock, clientVars
  <2> QED BY <2>1, <2>2, <2>3, Zenon
<1>4. RingPart' = RingPart /\ RespPart' = RespPart
  BY <1>3, Zenon DEF RingPart, RespPart
<1>5. pc[t] # "put" /\ pc'[t] \notin {"put", "accepted"} /\ (pc[t] = "accepted" <=> Accepted(t))
  BY <1>1, CallPlaces, Zenon
<1>6. Streams("put")' => Streams("put") /\ req'[Streamer] = req[Streamer]
  BY <1>2, <1>5, ThreadsAssumption, Zenon DEF Streams
<1>7. CASE ~(Accepted(t) /\ Partial(req[t]))
  <2>1. Streams("accepted")' <=> Streams("accepted")
    BY <1>2, <1>5, <1>7, ThreadsAssumption, Zenon DEF Streams
  <2>2. Streams("accepted") => req'[Streamer] = req[Streamer]
    BY <1>2, <1>5, <1>7, ThreadsAssumption, Zenon DEF Streams
  <2> QED BY <1>3, <1>4, <1>6, <1>7, <2>1, <2>2, ChainStay, Zenon
<1>8. CASE Accepted(t) /\ Partial(req[t])
  <2>1. t = Streamer /\ pc[t] = "accepted" /\ pc'[t] = "idle"
    BY <1>1, <1>8, CallPlaces, OwnRequest, Zenon
  <2>2. partialState' = (IF req[t].kind = "end" THEN "full" ELSE "partial") /\ strm' = req[t].at
    BY <1>8, Zenon DEF Accepted
  <2>3. Streams("accepted") /\ ~Streams("accepted")'
    BY <1>8, <2>1, Zenon DEF Streams
  <2>4. QueueChain => QueueChain'
    BY <1>3, <1>4, Zenon DEF QueueChain
  <2>5. ClientChain => ClientChain'
    BY <1>3, <1>4, <2>1, <2>2, <2>3, Zenon DEF ClientChain
  <2> QED BY <1>1, <1>3, <1>4, <1>6, <2>4, <2>5, Zenon DEF ChainInv
<1> QED BY <1>7, <1>8, Zenon

\* What a step of the sender shares with the others of its kind.
LEMMA SendMoves ==
  ASSUME IInv, NEW t \in Threads, Enqueue(t) \/ Block(t) \/ Put(t)
  PROVE  /\ \A u \in Threads \ {t} : pc'[u] = pc[u] /\ req'[u] = req[u]
         /\ UNCHANGED <<resp, cb, torn, chained, iv, partialState, strm>> /\ RespPart' = RespPart
         /\ req'[t] = req[t] /\ req[t] \in Good /\ (Partial(req[t]) => t = Streamer)
         /\ pc[t] \in Unsent /\ pc[t] # "accepted"
         /\ ~Partial(req[t]) => \A x \in {"put", "accepted"} : Streams(x)' <=> Streams(x)
         /\ ~Partial(req[t]) => \A x \in {"put", "accepted"} : Streams(x) => req'[Streamer] = req[Streamer]
<1>1. TypeOK /\ Streamer \in Threads
  BY ThreadsAssumption, Zenon DEF IInv
<1>2. /\ \A u \in Threads \ {t} : pc'[u] = pc[u] /\ req'[u] = req[u]
      /\ req'[t] = req[t] \/ pc'[t] = "idle"
  BY <1>1, InCallMoves, Zenon DEF InCall
<1>3. UNCHANGED <<resp, cb, torn, chained, iv, partialState, strm>> /\ RespPart' = RespPart
  BY Zenon DEF Enqueue, Block, Put, devVars, clientVars, RespPart
<1>4. pc[t] \in {"enqueue", "send", "put"} /\ req'[t] = req[t]
  BY <1>1, <1>2, CallPlaces, Zenon
<1>5. pc[t] \in Unsent /\ pc[t] # "accepted"
  BY <1>4, Zenon DEF Unsent, Counting
<1>6. req[t] \in Good /\ (Partial(req[t]) => t = Streamer)
  BY <1>1, <1>5, OwnRequest, Zenon
<1>7. ~Partial(req[t]) => \A x \in {"put", "accepted"} : Streams(x)' <=> Streams(x)
  <2>1. CASE t = Streamer
    BY <1>4, <2>1, Zenon DEF Streams
  <2>2. CASE t # Streamer
    BY <1>2, <2>2, StreamerStays, Zenon
  <2> QED BY <2>1, <2>2, Zenon
<1>8. req'[Streamer] = req[Streamer]
  BY <1>1, <1>2, <1>4, Zenon
<1> QED BY <1>2, <1>3, <1>4, <1>5, <1>6, <1>7, <1>8, Zenon

LEMMA EnqueueChain ==
  ASSUME IInv, NEW t \in Threads, Enqueue(t)
  PROVE  ChainInv'
<1>1. TypeOK /\ QueueInv /\ PacketInv /\ ChainInv /\ Streamer \in Threads
  BY ThreadsAssumption, Zenon DEF IInv
<1>2. /\ UNCHANGED <<ring, opState, resp, cb, torn, chained, iv, partialState, strm>>
      /\ RespPart' = RespPart /\ RingPart' = RingPart
      /\ pc[t] = "enqueue" /\ pc'[t] = "accepted" /\ queue' = Append(queue, req[t])
  <2>1. /\ UNCHANGED <<ring, opState>> /\ queue' = Append(queue, req[t])
    BY Zenon DEF Enqueue, devVars
  <2>2. pc[t] = "enqueue" /\ pc'[t] = "accepted"
    BY <1>1, CallPlaces, Zenon
  <2> QED BY <2>1, <2>2, SendMoves, Zenon DEF RingPart
<1>3. /\ req[t] \in Good /\ req'[t] = req[t] /\ (Partial(req[t]) => t = Streamer) /\ pc[t] \in Unsent
      /\ \A u \in Threads \ {t} : pc'[u] = pc[u] /\ req'[u] = req[u]
  BY SendMoves, Zenon
<1>4. cb.pc # "put"
  BY <1>1, <1>2, ThreadsAssumption, Zenon DEF QueueInv
<1>5. /\ Len(queue) \in Nat /\ Len(queue') = Len(queue) + 1 /\ queue'[Len(queue) + 1] = req[t]
      /\ \A i \in 1..Len(queue) : queue'[i] = queue[i]
      /\ \A i \in 1..Len(queue') : i \in 1..Len(queue) \/ i = Len(queue) + 1
  BY <1>1, <1>2, <1>3, EndOfQueue, Zenon
<1>6. QueueChain /\ ClientChain => QueueChain'
  <2> SUFFICES ASSUME QueueChain, ClientChain, NEW j \in 1..Len(queue'), queue'[j].kind \in {"mid", "end"}
               PROVE  Leaves(queue', RingPart', opState', j - 1, Before(queue'[j]))
    BY Zenon DEF QueueChain
  <2>1. j - 1 \in Nat /\ \A i \in 1..(j - 1) : queue'[i] = queue[i]
    BY <1>5
  <2>2. CASE j \in 1..Len(queue)
    <3>1. Leaves(queue, RingPart, opState, j - 1, Before(queue'[j]))
      BY <1>5, <2>2, Zenon DEF QueueChain
    <3>2. \A a : Leaves(queue, RingPart, opState, j - 1, a) => Leaves(queue', RingPart, opState, j - 1, a)
      BY <2>1, LeavesSame
    <3> QED BY <1>2, <3>1, <3>2, Zenon
  <2>3. CASE j = Len(queue) + 1
    <3>1. queue'[j] = req[t] /\ Partial(req[t]) /\ t = Streamer /\ req[t].kind # "start" /\ j - 1 = Len(queue)
      BY <1>3, <1>5, <2>3 DEF Partial
    <3>2. partialState = "partial" /\ strm = Before(req[t]) /\ ~Streams("accepted")
      BY <1>1, <1>2, <1>3, <3>1, Zenon DEF PacketInv, Streams
    <3>3. Leaves(queue, RingPart, opState, j - 1, Before(queue'[j]))
      BY <3>1, <3>2, Zenon DEF ClientChain
    <3>4. \A a : Leaves(queue, RingPart, opState, j - 1, a) => Leaves(queue', RingPart, opState, j - 1, a)
      BY <2>1, LeavesSame
    <3> QED BY <1>2, <3>3, <3>4, Zenon
  <2> QED BY <1>5, <2>2, <2>3, Zenon
<1>7. CASE Partial(req[t])
  <2>1. Streams("accepted")' /\ ~Streams("put")' /\ req'[Streamer] = req[t]
    BY <1>2, <1>3, <1>7, Zenon DEF Streams
  <2>2. Leaves(queue', RingPart, opState, Len(queue'), req[t].at)
    <3>1. Partial(queue'[Len(queue')]) /\ queue'[Len(queue')].at = req[t].at
          /\ Len(queue') \in Nat /\ Len(queue') > 0
      BY <1>5, <1>7
    <3> QED BY <3>1, LeavesLast, Zenon
  <2>3. ClientChain'
    BY <1>2, <1>5, <2>1, <2>2, Zenon DEF ClientChain
  <2> QED BY <1>1, <1>2, <1>4, <1>6, <2>1, <2>3, Zenon DEF ChainInv
<1>8. CASE ~Partial(req[t])
  <2>1. /\ \A x \in {"put", "accepted"} : Streams(x)' <=> Streams(x)
        /\ \A x \in {"put", "accepted"} : Streams(x) => req'[Streamer] = req[Streamer]
    BY <1>8, SendMoves, Zenon
  <2>2. \A a : Leaves(queue, RingPart, opState, Len(queue), a) =>
                 Leaves(queue', RingPart, opState, Len(queue'), a)
    <3>1. ~Partial(queue'[Len(queue')]) /\ Len(queue') \in Nat
      BY <1>5, <1>8
    <3> QED BY <1>5, <3>1, LeavesLonger, Zenon
  <2>3. ClientChain => ClientChain'
    BY <1>2, <1>5, <2>1, <2>2, Zenon DEF ClientChain
  <2> QED BY <1>1, <1>2, <1>4, <1>6, <2>1, <2>3, Zenon DEF ChainInv
<1> QED BY <1>7, <1>8, Zenon

\* Nothing queued before it, the packet the sender goes on to send finds the
\* state of the one before.
LEMMA BlockChain ==
  ASSUME IInv, NEW t \in Threads, Block(t)
  PROVE  ChainInv'
<1>1. TypeOK /\ AloneInv /\ PacketInv /\ ChainInv
  BY Zenon DEF IInv
<1>2. /\ UNCHANGED <<resp, cb, torn, chained, iv, partialState, strm>> /\ RespPart' = RespPart
      /\ req'[t] = req[t] /\ req[t] \in Good /\ (Partial(req[t]) => t = Streamer) /\ pc[t] \in Unsent
  BY SendMoves, Zenon
<1>3. UNCHANGED <<queue, ring>> /\ RingPart' = RingPart /\ opState' = StateOnSend(req[t])
  BY Zenon DEF Block, queueVars, devVars, RingPart
<1>4. pc[t] = "send" /\ pc'[t] = "put"
  BY <1>1, CallPlaces, Zenon
<1>5. CASE ~Partial(req[t])
  <2>1. opState' = opState
    BY <1>3, <1>5, Zenon DEF StateOnSend, Partial
  <2>2. /\ \A x \in {"put", "accepted"} : Streams(x)' <=> Streams(x)
        /\ \A x \in {"put", "accepted"} : Streams(x) => req'[Streamer] = req[Streamer]
    BY <1>5, SendMoves, Zenon
  <2> QED BY <1>2, <1>3, <2>1, <2>2, ChainStay, Zenon
<1>6. CASE Partial(req[t])
  <2>1. /\ t = Streamer /\ Streams("send") /\ Streams("put")' /\ ~Streams("accepted") /\ ~Streams("accepted")'
        /\ req'[Streamer] = req[t]
    BY <1>2, <1>4, <1>6, Zenon DEF Streams
  <2>2. ~torn => /\ NoneQueued /\ RingPart = {} /\ RespPart = {} /\ ~Drainer
    BY <1>1, <2>1, Zenon DEF AloneInv, Free
  <2>3. IF req[t].kind = "start" THEN partialState = "full"
        ELSE partialState = "partial" /\ strm = Before(req[t])
    BY <1>1, <1>2, <1>6, <2>1, Zenon DEF PacketInv
  <2>4. Len(queue) \in Nat
    BY <1>1 DEF TypeOK
  <2>5. NoneQueued => QueueChain'
    BY <1>3, Zenon DEF NoneQueued, QueueChain, Partial
  <2>6. ~torn /\ req[t].kind # "start" => opState = Before(req[t])
    <3> SUFFICES ASSUME ~torn, req[t].kind # "start" PROVE opState = Before(req[t])
      BY Zenon
    <3>1. Leaves(queue, RingPart, opState, Len(queue), strm)
      BY <1>1, <2>1, <2>3, Zenon DEF ChainInv, ClientChain
    <3>2. Ahead(RingPart, opState, strm)
      BY <2>2, <2>4, <3>1, LeavesNone, Zenon DEF NoneQueued
    <3> QED BY <2>2, <2>3, <3>2, Zenon DEF Ahead
  <2>7. ~torn => opState' = Before(req[t])
    <3>1. CASE req[t].kind = "start"
      <4>1. req[t].at \in Nat \X Nat /\ req[t].at[2] = 1
        BY <1>2, <3>1, Zenon DEF Good, Request, Numbered
      <4> QED BY <1>3, <3>1, <4>1 DEF StateOnSend, Before
    <3>2. CASE req[t].kind # "start"
      BY <1>3, <2>6, <3>2, SMTT(30) DEF StateOnSend
    <3> QED BY <3>1, <3>2, Zenon
  <2>8. ~torn => ClientChain'
    <3>1. CASE req[t].kind = "start"
      BY <1>2, <2>1, <2>3, <3>1, Zenon DEF ClientChain
    <3>2. CASE req[t].kind # "start"
      <4>1. opState' = opState
        BY <1>3, <3>2, Zenon DEF StateOnSend
      <4> QED BY <1>1, <1>2, <1>3, <2>1, <4>1, Zenon DEF ClientChain, ChainInv
    <3> QED BY <3>1, <3>2, Zenon
  <2>9. ~torn => ~(cb'.pc = "put" /\ Partial(Head(queue)))
    BY <1>2, <2>2, Zenon DEF Drainer
  <2> QED BY <1>1, <1>2, <1>3, <2>1, <2>2, <2>5, <2>7, <2>8, <2>9, Zenon DEF ChainInv
<1> QED BY <1>5, <1>6, Zenon

LEMMA PutChain ==
  ASSUME IInv, NEW t \in Threads, Put(t)
  PROVE  ChainInv'
<1>1. TypeOK /\ AloneInv /\ ChainInv
  BY Zenon DEF IInv
<1>2. /\ UNCHANGED <<resp, cb, torn, chained, iv, partialState, strm>> /\ RespPart' = RespPart
      /\ req'[t] = req[t] /\ req[t] \in Good /\ (Partial(req[t]) => t = Streamer) /\ pc[t] \in Unsent
  BY SendMoves, Zenon
<1>3. UNCHANGED <<queue, opState>>
  BY Zenon DEF Put, queueVars
<1>4. \/ ring' = ring /\ pc'[t] = "refused"
      \/ ring' = ring \cup {req[t]} /\ pc'[t] = "accepted"
  BY <1>1, Zenon DEF Put, TypeOK
<1>5. pc[t] = "put"
  BY <1>1, CallPlaces, Zenon
<1>6. CASE ~Partial(req[t])
  <2>1. RingPart' = RingPart
    BY <1>4, <1>6, Zenon DEF RingPart
  <2>2. /\ \A x \in {"put", "accepted"} : Streams(x)' <=> Streams(x)
        /\ \A x \in {"put", "accepted"} : Streams(x) => req'[Streamer] = req[Streamer]
    BY <1>6, SendMoves, Zenon
  <2> QED BY <1>2, <1>3, <2>1, <2>2, ChainStay, Zenon
<1>7. CASE Partial(req[t]) /\ ring' = ring /\ pc'[t] = "refused"
  <2>1. RingPart' = RingPart
    BY <1>7, Zenon DEF RingPart
  <2>2. ~Streams("put")' /\ ~Streams("accepted")' /\ ~Streams("accepted")
    BY <1>2, <1>5, <1>7, Zenon DEF Streams
  <2> QED BY <1>2, <1>3, <2>1, <2>2, ChainStay, Zenon
<1>8. CASE Partial(req[t]) /\ ring' = ring \cup {req[t]} /\ pc'[t] = "accepted"
  <2>1. /\ t = Streamer /\ Streams("put") /\ Sender /\ ~Streams("put")' /\ Streams("accepted")'
        /\ req'[Streamer] = req[t]
    BY <1>2, <1>5, <1>8, Zenon DEF Streams, Sender
  <2>2. ~torn => NoneQueued /\ RingPart = {} /\ RespPart = {} /\ ~Drainer
    BY <1>1, <2>1, Zenon DEF AloneInv
  <2>3. RingPart' = RingPart \cup {req[t]}
    BY <1>8, Zenon DEF RingPart
  <2>4. ~torn => RingPart' = {req[t]}
    BY <2>2, <2>3, Zenon
  <2>5. NoneQueued => QueueChain'
    BY <1>3, Zenon DEF NoneQueued, QueueChain, Partial
  <2>6. Ahead({req[t]}, opState, req[t].at)
    BY Zenon DEF Ahead
  <2>7. Len(queue) \in Nat
    BY <1>1 DEF TypeOK
  <2>8. NoneQueued => Leaves(queue, {req[t]}, opState, Len(queue), req[t].at)
    BY <2>6, <2>7, LeavesNone, Zenon DEF NoneQueued
  <2>9. ~torn => ClientChain'
    <3> SUFFICES ASSUME ~torn PROVE ClientChain'
      BY Zenon
    <3>1. Leaves(queue, {req[t]}, opState, Len(queue), req[t].at) /\ RingPart' = {req[t]}
      BY <2>2, <2>4, <2>8, Zenon
    <3>2. Leaves(queue', RingPart', opState', Len(queue'), req'[Streamer].at)
      BY <1>3, <2>1, <3>1, Zenon
    <3> QED BY <2>1, <3>2, Zenon DEF ClientChain
  <2>10. ~torn => ~(cb'.pc = "put" /\ Partial(Head(queue)))
    BY <1>2, <2>2, Zenon DEF Drainer
  <2>11. ~torn => opState = Before(req[t])
    BY <1>1, <2>1 DEF ChainInv
  <2> QED BY <1>1, <1>2, <1>3, <2>1, <2>2, <2>4, <2>5, <2>9, <2>10, <2>11, Zenon DEF ChainInv
<1> QED BY <1>4, <1>6, <1>7, <1>8, Zenon

\* The device leaves what was ahead of the queue.
LEMMA DeviceChain ==
  ASSUME IInv, NEW r \in ring, NEW ok \in BOOLEAN, Device(r, ok)
  PROVE  ChainInv'
<1>1. TypeOK /\ AloneInv /\ ChainInv
  BY Zenon DEF IInv
<1>2. UNCHANGED <<pc, req, queue, cb, torn, iv, partialState, strm>>
  BY Zenon DEF Device, thrVars, queueVars, clientVars
<1>3. /\ Len(resp) \in Nat /\ \A i \in 1..Len(resp) : resp'[i] = resp[i]
      /\ resp'[Len(resp) + 1].req = r
  BY <1>1, DeviceType, Zenon
<1>4. /\ Partial(r) => RingPart' = RingPart \ {r} /\ RespPart' = RespPart \cup {Len(resp) + 1}
      /\ ~Partial(r) => RingPart' = RingPart /\ RespPart' = RespPart
  BY DeviceAlone, Zenon
<1>5. /\ opState' = IF Partial(r) THEN r.at ELSE opState
      /\ chained' <=> chained /\ (Partial(r) => opState = Before(r))
  <2>1. opState' = IF Partial(r) THEN r.at ELSE opState
    BY Zenon DEF Device
  <2>2. chained' <=> chained /\ (Partial(r) => opState = Before(r))
    BY Zenon DEF Device, Before
  <2> QED BY <2>1, <2>2, Zenon
<1>6. \A x \in {"put", "accepted"} : (Streams(x)' <=> Streams(x)) /\ req'[Streamer] = req[Streamer]
  BY <1>2, Zenon DEF Streams
<1>7. CASE ~Partial(r)
  <2>1. opState' = opState /\ (chained' <=> chained)
    BY <1>5, <1>7, Zenon
  <2>2. \A i \in RespPart' : i \in RespPart /\ resp'[i] = resp[i]
    BY <1>3, <1>4, <1>7, Zenon DEF RespPart
  <2>3. QueueChain => QueueChain'
    BY <1>2, <1>4, <1>7, <2>1, Zenon DEF QueueChain
  <2>4. ClientChain => ClientChain'
    BY <1>2, <1>4, <1>6, <1>7, <2>1, Zenon DEF ClientChain
  <2> QED BY <1>1, <1>2, <1>4, <1>6, <1>7, <2>1, <2>2, <2>3, <2>4, Zenon DEF ChainInv
<1>8. CASE Partial(r)
  <2> SUFFICES ASSUME ~torn PROVE ChainInv'
    BY <1>2, Zenon DEF ChainInv
  <2>1. r \in RingPart
    BY <1>8, Zenon DEF RingPart
  <2>2. RingPart = {r} /\ RespPart = {} /\ ~Sender /\ ~Drainer
    BY <1>1, <2>1, Zenon DEF AloneInv
  <2>3. RingPart' = {} /\ RespPart' = {Len(resp) + 1} /\ opState' = r.at /\ opState = Before(r)
    BY <1>1, <1>4, <1>5, <1>8, <2>1, <2>2, Zenon DEF ChainInv
  <2>4. \A a : Ahead(RingPart, opState, a) => Ahead({}, r.at, a)
    BY <2>2, Zenon DEF Ahead
  <2>5. \A k \in Nat : \A a : Leaves(queue, RingPart, opState, k, a) => Leaves(queue, {}, r.at, k, a)
    BY <2>4, LeavesSame, Zenon
  <2>6. Len(queue) \in Nat
    BY <1>1 DEF TypeOK
  <2>7. QueueChain'
    <3> SUFFICES ASSUME NEW j \in 1..Len(queue), queue[j].kind \in {"mid", "end"}
                 PROVE  Leaves(queue, {}, r.at, j - 1, Before(queue[j]))
      BY <1>2, <2>3, Zenon DEF QueueChain
    <3>1. j - 1 \in Nat /\ Leaves(queue, RingPart, opState, j - 1, Before(queue[j]))
      BY <1>1, <2>6 DEF ChainInv, QueueChain
    <3> QED BY <2>5, <3>1, Zenon
  <2>8. ClientChain'
    <3>1. \A a : Leaves(queue, RingPart, opState, Len(queue), a) => Leaves(queue', RingPart', opState', Len(queue'), a)
      BY <1>2, <2>3, <2>5, <2>6, Zenon
    <3>2. ClientChain
      BY <1>1, Zenon DEF ChainInv
    <3> QED BY <1>2, <1>6, <3>1, <3>2, Zenon DEF ClientChain
  <2>9. ~Streams("put")' /\ ~(cb'.pc = "put" /\ Partial(Head(queue')))
    BY <1>2, <1>6, <2>2, Zenon DEF Sender, Drainer
  <2>10. chained' /\ iv'.got = iv'.want
    BY <1>1, <1>2, <1>5, <2>3, Zenon DEF ChainInv
  <2>11. \A i \in RespPart' : opState' = resp'[i].req.at
    BY <1>3, <2>3
  <2> QED BY <2>3, <2>7, <2>8, <2>9, <2>10, <2>11, Zenon DEF ChainInv
<1> QED BY <1>7, <1>8, Zenon

\* The state the callback returns is still that of the packet it answers.
LEMMA CallbackChain ==
  ASSUME IInv, Callback
  PROVE  ChainInv'
<1>1. TypeOK /\ AloneInv /\ ChainInv
  BY Zenon DEF IInv
<1>2. UNCHANGED <<pc, req, queue, torn, partialState, strm, ring, opState, chained>> /\ resp # <<>>
  BY Zenon DEF Callback, thrVars, queueVars, clientVars
<1>3. /\ \A i \in RespPart' : i + 1 \in RespPart /\ resp'[i] = resp[i + 1]
      /\ Partial(Head(resp).req) => 1 \in RespPart
  BY CallbackAlone, Zenon
<1>4. Head(resp) = resp[1]
  BY <1>1, <1>2, HeadOfResp, Zenon
<1>5. cb'.pc # "put"
  BY <1>1, CallbackType, Zenon
<1>6. RingPart' = RingPart
  BY <1>2, Zenon DEF RingPart
<1>7. \A x \in {"put", "accepted"} : (Streams(x)' <=> Streams(x)) /\ req'[Streamer] = req[Streamer]
  BY <1>2, Zenon DEF Streams
<1>8. ~torn => iv'.got = iv'.want
  <2>1. iv' = IF Head(resp).req.kind \in {"start", "mid"}
              THEN [got |-> opState, want |-> Head(resp).req.at] ELSE iv
    BY Zenon DEF Callback
  <2>2. CASE Head(resp).req.kind \in {"start", "mid"}
    <3>1. 1 \in RespPart
      BY <1>3, <2>2, Zenon DEF Partial
    <3>2. ~torn => opState = resp[1].req.at
      BY <1>1, <3>1, Zenon DEF ChainInv
    <3> QED BY <1>4, <2>1, <2>2, <3>2, Zenon
  <2>3. CASE Head(resp).req.kind \notin {"start", "mid"}
    BY <1>1, <2>1, <2>3, Zenon DEF ChainInv
  <2> QED BY <2>2, <2>3, Zenon
<1>9. QueueChain => QueueChain'
  BY <1>2, <1>6, Zenon DEF QueueChain
<1>10. ClientChain => ClientChain'
  BY <1>2, <1>6, <1>7, Zenon DEF ClientChain
<1>11. ~torn => \A i \in RespPart' : opState = resp'[i].req.at
  BY <1>1, <1>3, Zenon DEF ChainInv
<1> QED BY <1>1, <1>2, <1>5, <1>6, <1>7, <1>8, <1>9, <1>10, <1>11, Zenon DEF ChainInv

\* The head of the queue finds the state it needs.
LEMMA HeadChain ==
  ASSUME IInv, DequeueHead
  PROVE  ChainInv'
<1>1. TypeOK /\ AloneInv /\ ChainInv
  BY Zenon DEF IInv
<1>2. /\ UNCHANGED <<pc, req, queue, torn, partialState, strm, ring, resp, chained, iv>>
      /\ queue # <<>> /\ nonBlockingOpsInProgress /\ opState' = StateOnSend(Head(queue))
  BY Zenon DEF DequeueHead, thrVars, queueVars, clientVars, devVars
<1>3. RingPart' = RingPart /\ RespPart' = RespPart
  BY <1>2, Zenon DEF RingPart, RespPart
<1>4. \A x \in {"put", "accepted"} : (Streams(x)' <=> Streams(x)) /\ req'[Streamer] = req[Streamer]
  BY <1>2, Zenon DEF Streams
<1>5. Head(queue) = queue[1] /\ Head(queue) \in Good /\ Len(queue) > 0 /\ Len(queue) \in Nat /\ 1 \in 1..Len(queue)
  BY <1>1, <1>2, HeadOfQueue
<1> SUFFICES ASSUME ~torn PROVE ChainInv'
  BY <1>2, Zenon DEF ChainInv
<1>6. RingPart = {} /\ RespPart = {} /\ ~Streams("put")'
  BY <1>1, <1>2, <1>4, Zenon DEF AloneInv, Free, Sender
<1>7. QueueChain /\ ClientChain
  BY <1>1, Zenon DEF ChainInv
<1>8. CASE queue[1].kind = "start"
  <2>1. Partial(queue[1]) /\ opState' = Before(queue[1])
    <3>1. queue[1].at \in Nat \X Nat /\ queue[1].at[2] = 1
      BY <1>5, <1>8, Zenon DEF Good, Request, Numbered
    <3> QED BY <1>2, <1>5, <1>8, <3>1 DEF StateOnSend, Before, Partial
  <2>2. \A k \in Nat \ {0} : \A a : Leaves(queue, RingPart, opState, k, a) => Leaves(queue, RingPart, opState', k, a)
    BY <2>1, LeavesFirst
  <2>3. QueueChain'
    <3> SUFFICES ASSUME NEW j \in 1..Len(queue), queue[j].kind \in {"mid", "end"}
                 PROVE  Leaves(queue, RingPart, opState', j - 1, Before(queue[j]))
      BY <1>2, <1>3, Zenon DEF QueueChain
    <3>1. j # 1
      BY <1>8, Zenon
    <3>2. j - 1 \in Nat \ {0} /\ Leaves(queue, RingPart, opState, j - 1, Before(queue[j]))
      BY <1>5, <1>7, <3>1 DEF QueueChain
    <3> QED BY <2>2, <3>2, Zenon
  <2>4. ClientChain'
    <3>1. \A a : Leaves(queue, RingPart, opState, Len(queue), a) => Leaves(queue', RingPart', opState', Len(queue'), a)
      BY <1>2, <1>3, <1>5, <2>2
    <3> QED BY <1>2, <1>4, <1>7, <3>1, Zenon DEF ClientChain
  <2> QED BY <1>1, <1>2, <1>3, <1>5, <1>6, <2>1, <2>3, <2>4, Zenon DEF ChainInv
<1>9. CASE queue[1].kind # "start"
  <2>1. opState' = opState
    BY <1>2, <1>5, <1>9, Zenon DEF StateOnSend
  <2>2. QueueChain' /\ ClientChain'
    BY <1>2, <1>3, <1>4, <1>7, <2>1, Zenon DEF QueueChain, ClientChain
  <2>3. Partial(queue[1]) => opState = Before(queue[1])
    <3> SUFFICES ASSUME Partial(queue[1]) PROVE opState = Before(queue[1])
      BY Zenon
    <3>1. queue[1].kind \in {"mid", "end"}
      BY <1>5, <1>9, Zenon DEF Partial, Good, Request, Kinds
    <3>2. Leaves(queue, RingPart, opState, 1 - 1, Before(queue[1]))
      BY <1>5, <1>7, <3>1, Zenon DEF QueueChain
    <3>3. 1 - 1 \in Nat /\ 1..(1 - 1) = {}
      OBVIOUS
    <3>4. Ahead(RingPart, opState, Before(queue[1]))
      BY <3>2, <3>3, LeavesNone
    <3> QED BY <1>6, <3>4, Zenon DEF Ahead
  <2> QED BY <1>1, <1>2, <1>3, <1>5, <1>6, <2>1, <2>2, <2>3, Zenon DEF ChainInv
<1> QED BY <1>8, <1>9, Zenon

LEMMA DequeuePutChain ==
  ASSUME IInv, DequeuePut
  PROVE  ChainInv'
<1>1. TypeOK /\ QueueInv /\ AloneInv /\ ChainInv
  BY Zenon DEF IInv
<1>2. /\ UNCHANGED <<pc, req, torn, partialState, strm, resp, chained, iv, opState>>
      /\ cb.pc = "put" /\ queue # <<>>
      /\ \/ ring' = ring \cup {Head(queue)} /\ queue' = Tail(queue)
         \/ ring' = ring /\ queue' = queue
  BY <1>1, Zenon DEF DequeuePut, thrVars, clientVars, QueueInv
<1>3. cb'.pc # "put"
  BY <1>1, Zenon DEF DequeuePut, TypeOK
<1>4. RespPart' = RespPart
  BY <1>2, Zenon DEF RespPart
<1>5. \A x \in {"put", "accepted"} : (Streams(x)' <=> Streams(x)) /\ req'[Streamer] = req[Streamer]
  BY <1>2, Zenon DEF Streams
<1>6. CASE ring' = ring /\ queue' = queue
  <2>1. RingPart' = RingPart
    BY <1>6, Zenon DEF RingPart
  <2>2. \A i \in RespPart' : \E j \in RespPart : resp'[i].req = resp[j].req
    BY <1>2, <1>4, Zenon
  <2> QED BY <1>2, <1>3, <1>5, <1>6, <2>1, <2>2, ChainStay, Zenon
<1>7. CASE ring' = ring \cup {Head(queue)} /\ queue' = Tail(queue)
  <2> SUFFICES ASSUME ~torn PROVE ChainInv'
    BY <1>2, Zenon DEF ChainInv
  <2> DEFINE h == queue[1]
  <2>1. /\ Head(queue) = h /\ h \in Good /\ Len(queue) > 0 /\ Len(queue) \in Nat
        /\ Len(queue') = Len(queue) - 1 /\ \A i \in 1..Len(queue') : queue'[i] = queue[i + 1]
    BY <1>1, <1>2, <1>7, HeadOfQueue, Zenon
  <2>2. RingPart' = IF Partial(h) THEN RingPart \cup {h} ELSE RingPart
    BY <1>7, <2>1, Zenon DEF RingPart
  <2>3. Partial(h) => RingPart = {} /\ RespPart = {} /\ ~Sender /\ opState = Before(h)
    BY <1>1, <1>2, <2>1, Zenon DEF AloneInv, ChainInv, Drainer
  <2>4. /\ Partial(h) => Ahead(RingPart', opState, h.at)
        /\ \A a : ~Partial(h) /\ Ahead(RingPart, opState, a) => Ahead(RingPart', opState, a)
    <3>1. Partial(h) => RingPart' = {h}
      BY <2>2, <2>3, Zenon
    <3>2. ~Partial(h) => RingPart' = RingPart
      BY <2>2, Zenon
    <3>3. Ahead({h}, opState, h.at)
      BY Zenon DEF Ahead
    <3> QED BY <3>1, <3>2, <3>3, Zenon
  <2>5. \A k, m \in Nat : m = k + 1 /\ k <= Len(queue') =>
          \A a : Leaves(queue, RingPart, opState, m, a) => Leaves(queue', RingPart', opState, k, a)
    <3> SUFFICES ASSUME NEW k \in Nat, NEW m \in Nat, m = k + 1, k <= Len(queue'), NEW a,
                        Leaves(queue, RingPart, opState, m, a)
                 PROVE  Leaves(queue', RingPart', opState, k, a)
      BY Zenon
    <3>1. \A i \in 1..k : queue'[i] = queue[i + 1]
      BY <2>1
    <3> HIDE DEF h
    <3>2. PICK rp, rq : rp = RingPart /\ rq = RingPart'
      BY Zenon
    <3>3. /\ Partial(queue[1]) => Ahead(rq, opState, queue[1].at)
          /\ ~Partial(queue[1]) /\ Ahead(rp, opState, a) => Ahead(rq, opState, a)
          /\ Leaves(queue, rp, opState, m, a)
      BY <2>4, <3>2, Zenon DEF h
    <3>4. Leaves(queue', rq, opState, k, a)
      BY <3>1, <3>3, LeavesTail
    <3> QED BY <3>2, <3>4, Zenon
  <2>6. QueueChain'
    <3> SUFFICES ASSUME NEW j \in 1..Len(queue'), queue'[j].kind \in {"mid", "end"}
                 PROVE  Leaves(queue', RingPart', opState, j - 1, Before(queue'[j]))
      BY <1>2, Zenon DEF QueueChain
    <3>1. j + 1 \in 1..Len(queue) /\ queue'[j] = queue[j + 1] /\ j + 1 - 1 = j
      BY <2>1
    <3>2. Leaves(queue, RingPart, opState, j, Before(queue'[j]))
      BY <1>1, <3>1 DEF ChainInv, QueueChain
    <3>3. j \in Nat /\ j - 1 \in Nat /\ j = (j - 1) + 1 /\ j - 1 <= Len(queue')
      BY <2>1
    <3> QED BY <2>5, <3>2, <3>3, Zenon
  <2>7. ClientChain'
    <3>1. \A a : Leaves(queue, RingPart, opState, Len(queue), a) => Leaves(queue', RingPart', opState', Len(queue'), a)
      <4>1. Len(queue') \in Nat /\ Len(queue) = Len(queue') + 1
        BY <2>1
      <4> QED BY <1>2, <2>1, <2>5, <4>1
    <3>2. ClientChain
      BY <1>1, Zenon DEF ChainInv
    <3> QED BY <1>2, <1>5, <3>1, <3>2, Zenon DEF ClientChain
  <2>8. \A r \in RingPart' : opState = Before(r)
    BY <1>1, <2>2, <2>3, Zenon DEF ChainInv
  <2>9. \A i \in RespPart : opState = resp[i].req.at
    BY <1>1 DEF ChainInv
  <2> QED BY <1>1, <1>2, <1>3, <1>4, <1>5, <2>6, <2>7, <2>8, <2>9, Zenon DEF ChainInv
<1> QED BY <1>2, <1>6, <1>7, Zenon

LEMMA OtherChain ==
  ASSUME IInv, \/ DequeueLock \/ DequeueEnd \/ UserCallback \/ CallbackReturn \/ RemoveSession
               \/ \E t \in Threads : Call(t)
  PROVE  ChainInv'
<1>1. TypeOK
  BY Zenon DEF IInv
<1>2. UNCHANGED <<ring, resp, queue, torn, opState, chained, iv, partialState, strm>>
  <2>1. CASE DequeueLock \/ DequeueEnd \/ UserCallback \/ CallbackReturn \/ RemoveSession
    BY <2>1, Zenon DEF DequeueLock, DequeueEnd, UserCallback, CallbackReturn, RemoveSession, devVars, queueVars,
      clientVars
  <2>2. CASE \E t \in Threads : Call(t)
    BY <2>2, Zenon DEF Call, Perform, LockSessionWriter, devVars, queueVars, clientVars
  <2> QED BY <2>1, <2>2, Zenon
<1>3. RingPart' = RingPart /\ RespPart' = RespPart
  BY <1>2, Zenon DEF RingPart, RespPart
<1>4. cb'.pc = "put" => cb.pc = "put"
  <2>1. CASE DequeueLock
    BY <1>1, <2>1, Zenon DEF DequeueLock, TypeOK
  <2>2. CASE DequeueEnd
    BY <1>1, <2>2, Zenon DEF DequeueEnd, TypeOK
  <2>3. CASE UserCallback
    BY <1>1, <2>3, Zenon DEF UserCallback, TypeOK
  <2>4. CASE CallbackReturn
    BY <2>4, Zenon DEF CallbackReturn, Idle
  <2>5. CASE RemoveSession \/ \E t \in Threads : Call(t)
    BY <2>5, Zenon DEF RemoveSession, Call, Perform, LockSessionWriter
  <2> QED BY <2>1, <2>2, <2>3, <2>4, <2>5, Zenon
<1>5. /\ \A x \in {"put", "accepted"} : Streams(x)' <=> Streams(x)
      /\ \A x \in {"put", "accepted"} : Streams(x) => req'[Streamer] = req[Streamer]
  <2> DEFINE G == /\ \A x \in {"put", "accepted"} : Streams(x)' <=> Streams(x)
                  /\ \A x \in {"put", "accepted"} : Streams(x) => req'[Streamer] = req[Streamer]
  <2>1. ASSUME DequeueLock \/ DequeueEnd \/ UserCallback \/ CallbackReturn \/ RemoveSession PROVE G
    BY <2>1, Zenon DEF DequeueLock, DequeueEnd, UserCallback, CallbackReturn, RemoveSession, Streams, thrVars
  <2>2. ASSUME NEW t \in Threads, NEW kind \in Kinds, Perform(t, kind) PROVE G
    BY <1>1, <2>2, PerformType, ThreadsAssumption, Zenon DEF Streams
  <2>3. ASSUME NEW t \in Threads, LockSessionWriter(t) PROVE G
    <3>1. req' = req /\ \A u \in Threads : pc'[u] = pc[u] \/ (pc'[u] = "update" /\ pc[u] = "idle")
      BY <1>1, <2>3, Zenon DEF LockSessionWriter, TypeOK
    <3> QED BY <3>1, ThreadsAssumption, Zenon DEF Streams
  <2> QED BY <2>1, <2>2, <2>3, Zenon DEF Call
<1>6. \A i \in RespPart' : \E j \in RespPart : resp'[i].req = resp[j].req
  BY <1>2, <1>3, Zenon
<1> QED BY <1>2, <1>3, <1>4, <1>5, <1>6, ChainStay, Zenon
-----------------------------------------------------------------------------
(* The invariant, and what it says.                                          *)

LEMMA InvNext ==
  ASSUME IInv, [Next]_vars
  PROVE  IInv'
<1>1. CASE UNCHANGED vars
  <2>1. UNCHANGED <<pc, req, done, pendingCbCount, queue, tail, ring, resp, cb, opState, strm, gen, partialState,
                    alive, torn, broken, nonBlockingOpsInProgress, chained, iv>>
    BY <1>1, Zenon DEF vars, thrVars, queueVars, clientVars, devVars
  <2>2. UNCHANGED <<requestQueueLock, accessLock, accessReaders>>
    BY <1>1, Zenon DEF vars, lockVars, queueVars
  <2>3. TypeOK' /\ QueueInv'
    BY <2>1, <2>2 DEF IInv, TypeOK, QueueInv
  <2>4. PlaceInv'
    BY <2>1, Zenon DEF IInv, PlaceInv, Known
  <2>6. /\ RingPart' = RingPart /\ RespPart' = RespPart
        /\ Sender' <=> Sender
        /\ Drainer' <=> Drainer
        /\ NoneQueued' <=> NoneQueued
        /\ \A x : Streams(x)' <=> Streams(x)
    BY <2>1, Zenon DEF RingPart, RespPart, Sender, Drainer, NoneQueued, Streams
  <2>7. AloneInv'
    BY <2>1, <2>6, AloneStay, Zenon DEF IInv, AloneInv
  <2>8. PacketInv'
    BY <2>1, Zenon DEF IInv, PacketInv
  <2>9. ChainInv'
    BY <2>1, <2>6, ChainStay, Zenon
  <2> QED BY <2>3, <2>4, <2>7, <2>8, <2>9, Zenon DEF IInv
<1>2. CASE Next
  <2>1. TypeOK /\ QueueInv
    BY Zenon DEF IInv
  <2>2. TypeOK'
    <3>1. ASSUME NEW t \in Threads, InCall(t) PROVE TypeOK'
      BY <2>1, <3>1, InCallType, Zenon
    <3>2. ASSUME NEW t \in Threads, NEW kind \in Kinds, Perform(t, kind) PROVE TypeOK'
      BY <2>1, <3>2, PerformType, Zenon
    <3>3. CASE Poll
      BY <2>1, <3>3, CallbackType, PollType, Zenon DEF Poll
    <3>4. CASE Answer
      BY <2>1, <3>4, DeviceType, Zenon DEF Answer
    <3>5. CASE RemoveSession \/ \E t \in Threads : LockSessionWriter(t)
      BY <2>1, <3>5, OtherType, Zenon
    <3> QED BY <1>2, <3>1, <3>2, <3>3, <3>4, <3>5 DEF Next, Call
  <2>3. QueueInv' /\ PlaceInv' /\ PacketInv'
    BY <1>2, <2>2, QueueNext, PlaceNext, PacketNext, Zenon
  <2>4. AloneInv' /\ ChainInv'
    <3>1. ASSUME NEW t \in Threads, InCall(t) PROVE AloneInv' /\ ChainInv'
      BY <3>1, LocalAlone, SendAlone, LocalChain, EnqueueChain, BlockChain, PutChain, Zenon DEF InCall
    <3>2. ASSUME NEW t \in Threads, Call(t) PROVE AloneInv' /\ ChainInv'
      BY <3>2, OtherAlone, OtherChain, Zenon
    <3>3. CASE Poll
      BY Zenon, <3>3, CallbackAlone, DrainAlone, OtherAlone, CallbackChain, HeadChain, DequeuePutChain, OtherChain
      DEF Poll
    <3>4. CASE Answer
      BY <3>4, DeviceAlone, DeviceChain, Zenon DEF Answer
    <3>5. CASE RemoveSession
      BY <3>5, OtherAlone, OtherChain
    <3> QED BY <1>2, <3>1, <3>2, <3>3, <3>4, <3>5, Zenon DEF Next
  <2> QED BY <2>2, <2>3, <2>4 DEF IInv
<1> QED BY <1>1, <1>2, Zenon

\* The invariant of a session holds in every state that calls, the polling
\* thread and the device can bring it to.
THEOREM SymInvariant == Spec => []IInv
<1>1. Init => IInv
  BY InitOK, Zenon
<1>2. IInv /\ [Next]_vars => IInv'
  BY InvNext, Zenon
<1> QED BY <1>1, <1>2, PTL DEF Spec

\* The device finds in the state buffer what the packet before left there,
\* through queueing, refusals, retries and streams that follow each other.
THEOREM StreamsAreChained == Spec => []StreamsChain
<1>1. IInv => StreamsChain
  BY Zenon DEF IInv, ChainInv, StreamsChain
<1> QED BY <1>1, SymInvariant, PTL

\* The callback returns to the client the state its own packet left.
THEOREM IvIsReturned == Spec => []IvReturned
<1>1. IInv => IvReturned
  BY Zenon DEF IInv, ChainInv, IvReturned
<1> QED BY <1>1, SymInvariant, PTL
===============================================================================
