----------------------------- MODULE SymSession -----------------------------
(***************************************************************************)
(* A symmetric session of the traditional API and its requests             *)
(* (lac_sym_api.c, lac_sym_alg_chain.c, lac_sym_queue.c, lac_sym_cb.c).    *)
(* Application threads perform, update and remove; one thread polls the    *)
(* response ring and runs the callbacks.  A stream of partial packets goes *)
(* through the session's state buffer one packet at a time: requests that  *)
(* come while a partial is in flight wait in the session's queue.          *)
(***************************************************************************)
EXTENDS Integers, Sequences, FiniteSets

CONSTANTS Threads,   \* application threads
          Streamer,  \* the one thread that issues partial packets
          None,      \* no thread, no request
          Scenarios  \* bounds and faults of a behaviour: see Scenario

\* How many partial, full and update calls are made (per thread), how many
\* requests the ring and the cookie pool hold, and whether the device may
\* answer that a digest does not verify.
Scenario == [partials : Nat, fulls : Nat, updates : Nat, ring : Nat,
             cookies : Nat, verifyFails : BOOLEAN]

ASSUME ThreadsAssumption ==
  /\ IsFiniteSet(Threads) /\ Streamer \in Threads
  /\ None # "poll" /\ {None, "poll"} \cap Threads = {}
ASSUME ScenarioAssumption == Scenarios \subseteq Scenario

VARIABLES
  scn,            \* the scenario
  pc, req,        \* each thread: its place in the call, its request
  done,           \* calls made: [Threads -> [partials, fulls, updates]]
  cookies,        \* free cookies of lac_sym_cookie_pool
  accessReaders, accessLock,
  pendingCbCount,
  nonBlockingOpsInProgress,
  queue, tail,    \* requests from pRequestQueueHead; pRequestQueueTail # NULL
  requestQueueLock,
  partialState,   \* "full" or "partial"
  opState,        \* the state buffer: <<stream, packets it went through>>
  strm,           \* the client: <<stream, packets>> it got accepted
  gen,            \* generation of the content descriptor
  ring,           \* requests with the device
  resp,           \* responses not yet polled: [req, ok]
  cb,             \* the polling thread: its place and request
  alive,          \* the session has not been removed
  iv,             \* IV last returned to the client, and the one it should be
  chained, torn, broken  \* auxiliary, see below

thrVars == <<pc, req, done>>
lockVars == <<accessReaders, accessLock>>
queueVars == <<queue, tail, requestQueueLock>>
devVars == <<ring, resp, chained>>
clientVars == <<partialState, strm>>
vars == <<scn, thrVars, cookies, lockVars, pendingCbCount,
          nonBlockingOpsInProgress, queueVars, clientVars, opState, gen,
          devVars, cb, alive, iv, torn, broken>>

Kinds == {"full", "start", "mid", "end"}
Partial(r) == r.kind # "full"
Idle == [pc |-> "idle", req |-> None]

\* Slots of the ring pair in use: given back when the callback has returned.
InUse == Cardinality(ring) + Len(resp) + (IF cb.pc = "idle" THEN 0 ELSE 1)

Init ==
  /\ scn \in Scenarios
  /\ pc = [t \in Threads |-> "idle"] /\ req = [t \in Threads |-> None]
  /\ done = [t \in Threads |-> [partials |-> 0, fulls |-> 0, updates |-> 0]]
  /\ cookies = scn.cookies
  /\ accessReaders = 0 /\ accessLock = None /\ pendingCbCount = 0
  /\ nonBlockingOpsInProgress = TRUE
  /\ queue = <<>> /\ tail = FALSE /\ requestQueueLock = None
  /\ partialState = "full" /\ opState = <<0, 0>> /\ strm = <<0, 0>>
  /\ gen = 0
  /\ ring = {} /\ resp = <<>> /\ cb = Idle
  /\ alive = TRUE
  /\ iv = [got |-> <<0, 0>>, want |-> <<0, 0>>]
  /\ chained = TRUE /\ torn = FALSE /\ broken = FALSE

----------------------------------------------------------------------------
(* LacSym_Perform and LacAlgChain_Perform                                  *)

\* LacSym_PartialPacketStateCheck and LacSymQat_packetTypeGet: the kinds of
\* packet the session accepts now.
PartialPacketStateCheck(kind) ==
  CASE kind = "start"        -> partialState = "full"
    [] kind \in {"mid", "end"} -> partialState = "partial"
    [] OTHER                 -> TRUE

\* The parameter check, and LacAlgChain_LockSessionReader.  Partials are
\* issued by one thread, in order.
Perform(t, kind) ==
  LET which == IF kind = "full" THEN "fulls" ELSE "partials"
      at == CASE kind = "full"  -> <<0, done[t].fulls + 1>>
              [] kind = "start" -> <<strm[1] + 1, 1>>
              [] OTHER          -> <<strm[1], strm[2] + 1>>
  IN /\ alive /\ pc[t] = "idle"
     /\ done[t][which] < scn[which]
     /\ kind # "full" => t = Streamer
     /\ PartialPacketStateCheck(kind)
     /\ accessLock = None
     /\ accessReaders' = accessReaders + 1
     /\ done' = [done EXCEPT ![t][which] = @ + 1]
     /\ req' = [req EXCEPT ![t] = [th |-> t, kind |-> kind, at |-> at,
                                   gen |-> gen]]
     /\ pc' = [pc EXCEPT ![t] = "cookie"]
     /\ UNCHANGED <<scn, cookies, accessLock, pendingCbCount,
                    nonBlockingOpsInProgress, queueVars, clientVars, opState,
                    gen, devVars, cb, alive, iv, torn, broken>>

\* The loop that waits for a cookie.
TakeCookie(t) ==
  /\ pc[t] = "cookie"
  /\ cookies > 0
  /\ cookies' = cookies - 1
  /\ pc' = [pc EXCEPT ![t] = "format"]
  /\ UNCHANGED <<scn, req, done, lockVars, pendingCbCount,
                 nonBlockingOpsInProgress, queueVars, clientVars, opState, gen,
                 devVars, cb, alive, iv, torn, broken>>

\* The request cannot be formatted: reader unlocked, cookie freed.
FormatFails(t) ==
  /\ pc[t] = "format"
  /\ accessLock = None
  /\ accessReaders' = accessReaders - 1
  /\ cookies' = cookies + 1
  /\ pc' = [pc EXCEPT ![t] = "idle"] /\ req' = [req EXCEPT ![t] = None]
  /\ UNCHANGED <<scn, done, accessLock, pendingCbCount,
                 nonBlockingOpsInProgress, queueVars, clientVars, opState, gen,
                 devVars, cb, alive, iv, torn, broken>>

\* The request is written; it counts as pending before the reader unlocks.
CountPending(t) ==
  /\ pc[t] = "format"
  /\ pendingCbCount' = pendingCbCount + 1
  /\ pc' = [pc EXCEPT ![t] = "unlock"]
  /\ UNCHANGED <<scn, req, done, cookies, lockVars, nonBlockingOpsInProgress,
                 queueVars, clientVars, opState, gen, devVars, cb, alive, iv,
                 torn, broken>>

UnlockSessionReader(t) ==
  /\ pc[t] = "unlock"
  /\ accessLock = None
  /\ accessReaders' = accessReaders - 1
  /\ pc' = [pc EXCEPT ![t] = "flag"]
  /\ UNCHANGED <<scn, req, done, cookies, accessLock, pendingCbCount,
                 nonBlockingOpsInProgress, queueVars, clientVars, opState, gen,
                 devVars, cb, alive, iv, torn, broken>>

----------------------------------------------------------------------------
(* LacSymQueue_RequestSend                                                 *)

\* The unlocked test reads the flag and then, if it is set, the tail pointer.
ReadFlag(t) ==
  /\ pc[t] = "flag"
  /\ pc' = [pc EXCEPT ![t] = IF nonBlockingOpsInProgress THEN "tail"
                                                         ELSE "lock"]
  /\ UNCHANGED <<scn, req, done, cookies, lockVars, pendingCbCount,
                 nonBlockingOpsInProgress, queueVars, clientVars, opState, gen,
                 devVars, cb, alive, iv, torn, broken>>

\* torn: a partial goes on to be sent although the flag it read as set has
\* been cleared since, for another partial taken from the queue.
ReadTail(t) ==
  /\ pc[t] = "tail"
  /\ pc' = [pc EXCEPT ![t] = IF tail THEN "lock" ELSE "send"]
  /\ torn' = (torn \/ (~tail /\ ~nonBlockingOpsInProgress /\ Partial(req[t])))
  /\ UNCHANGED <<scn, req, done, cookies, lockVars, pendingCbCount,
                 nonBlockingOpsInProgress, queueVars, clientVars, opState, gen,
                 devVars, cb, alive, iv, broken>>

\* The test under requestQueueLock, which is kept only to enqueue.
Recheck(t) ==
  /\ pc[t] = "lock"
  /\ requestQueueLock = None
  /\ IF ~nonBlockingOpsInProgress \/ tail
     THEN requestQueueLock' = t /\ pc' = [pc EXCEPT ![t] = "enqueue"]
     ELSE UNCHANGED requestQueueLock /\ pc' = [pc EXCEPT ![t] = "send"]
  /\ UNCHANGED <<scn, req, done, cookies, lockVars, pendingCbCount,
                 nonBlockingOpsInProgress, queue, tail, clientVars, opState,
                 gen, devVars, cb, alive, iv, torn, broken>>

\* Mutant: the IV of a new stream goes to the state buffer when it is queued.
Enqueue_CopiesIv(t) ==
  /\ pc[t] = "enqueue"
  /\ queue' = Append(queue, req[t]) /\ tail' = TRUE
  /\ opState' = IF req[t].kind = "start" THEN <<req[t].at[1], 0>> ELSE opState
  /\ requestQueueLock' = None
  /\ pc' = [pc EXCEPT ![t] = "accepted"]
  /\ UNCHANGED <<scn, req, done, cookies, lockVars, pendingCbCount,
                 nonBlockingOpsInProgress, clientVars, gen, devVars, cb, alive,
                 iv, torn, broken>>

Enqueue(t) ==
  /\ pc[t] = "enqueue"
  /\ queue' = Append(queue, req[t]) /\ tail' = TRUE
  /\ requestQueueLock' = None
  /\ pc' = [pc EXCEPT ![t] = "accepted"]
  /\ UNCHANGED <<scn, req, done, cookies, lockVars, pendingCbCount,
                 nonBlockingOpsInProgress, clientVars, opState, gen, devVars,
                 cb, alive, iv, torn, broken>>

\* The state buffer that a request starts from: the first packet of a stream
\* brings the client's IV (updateSessionIvOnSend).
StateOnSend(r) == IF r.kind = "start" THEN <<r.at[1], 0>> ELSE opState

\* Clear to send: a partial blocks the session, outside any lock.
Block(t) ==
  /\ pc[t] = "send"
  /\ nonBlockingOpsInProgress' = (nonBlockingOpsInProgress /\ ~Partial(req[t]))
  /\ opState' = StateOnSend(req[t])
  /\ pc' = [pc EXCEPT ![t] = "put"]
  /\ UNCHANGED <<scn, req, done, cookies, lockVars, pendingCbCount, queueVars,
                 clientVars, gen, devVars, cb, alive, iv, torn, broken>>

\* The transport refuses a message when the ring is full.
Put(t) ==
  /\ pc[t] = "put"
  /\ IF InUse < scn.ring
     THEN /\ ring' = ring \cup {req[t]}
          /\ pc' = [pc EXCEPT ![t] = "accepted"]
     ELSE /\ UNCHANGED ring
          /\ pc' = [pc EXCEPT ![t] = "refused"]
  /\ UNCHANGED <<scn, req, done, cookies, lockVars, pendingCbCount,
                 nonBlockingOpsInProgress, queueVars, clientVars, opState, gen,
                 resp, chained, cb, alive, iv, torn, broken>>

\* Mutant: the session stays blocked.
Unblock_Not(t) ==
  /\ pc[t] = "refused"
  /\ pc' = [pc EXCEPT ![t] = "undo"]
  /\ UNCHANGED <<scn, req, done, cookies, lockVars, pendingCbCount,
                 nonBlockingOpsInProgress, queueVars, clientVars, opState, gen,
                 devVars, cb, alive, iv, torn, broken>>

\* A refused partial unblocks the session again.  broken: requests that were
\* queued behind it, or are about to be, have nobody who sends them.
Unblock(t) ==
  /\ pc[t] = "refused"
  /\ nonBlockingOpsInProgress' = (nonBlockingOpsInProgress \/ Partial(req[t]))
  /\ broken' = (broken \/ /\ Partial(req[t])
                          /\ tail \/ \E u \in Threads : pc[u] = "enqueue")
  /\ pc' = [pc EXCEPT ![t] = "undo"]
  /\ UNCHANGED <<scn, req, done, cookies, lockVars, pendingCbCount, queueVars,
                 clientVars, opState, gen, devVars, cb, alive, iv, torn>>

\* Mutant: a refused request still counts as pending.
Undo_KeepsCount(t) ==
  /\ pc[t] = "undo"
  /\ cookies' = cookies + 1
  /\ pc' = [pc EXCEPT ![t] = "idle"] /\ req' = [req EXCEPT ![t] = None]
  /\ UNCHANGED <<scn, done, lockVars, pendingCbCount, nonBlockingOpsInProgress,
                 queueVars, clientVars, opState, gen, devVars, cb, alive, iv,
                 torn, broken>>

\* Back in LacAlgChain_Perform: the request no longer counts.
Undo(t) ==
  /\ pc[t] = "undo"
  /\ pendingCbCount' = pendingCbCount - 1
  /\ cookies' = cookies + 1
  /\ pc' = [pc EXCEPT ![t] = "idle"] /\ req' = [req EXCEPT ![t] = None]
  /\ UNCHANGED <<scn, done, lockVars, nonBlockingOpsInProgress, queueVars,
                 clientVars, opState, gen, devVars, cb, alive, iv, torn, broken>>

\* LacSym_PartialPacketStateUpdate, after the request was sent or queued.
Accepted(t) ==
  /\ pc[t] = "accepted"
  /\ IF Partial(req[t])
     THEN /\ partialState' = IF req[t].kind = "end" THEN "full" ELSE "partial"
          /\ strm' = req[t].at
     ELSE UNCHANGED clientVars
  /\ pc' = [pc EXCEPT ![t] = "idle"] /\ req' = [req EXCEPT ![t] = None]
  /\ UNCHANGED <<scn, done, cookies, lockVars, pendingCbCount,
                 nonBlockingOpsInProgress, queueVars, opState, gen, devVars, cb,
                 alive, iv, torn, broken>>

----------------------------------------------------------------------------
(* The device, and LacSymCb_ProcessCallbackInternal on the polling thread  *)

\* The device works on its requests in any order.  It takes a partial from the
\* state buffer and leaves its own state there.  Only a digest that does not
\* verify, of a full packet or of the last of a stream, makes it answer no.
Device(r, ok) ==
  /\ r \in ring
  /\ ok \/ (scn.verifyFails /\ r.kind \in {"full", "end"})
  /\ ring' = ring \ {r}
  /\ resp' = Append(resp, [req |-> r, ok |-> ok])
  /\ opState' = IF Partial(r) THEN r.at ELSE opState
  /\ chained' = (chained /\ (Partial(r) => opState = <<r.at[1], r.at[2] - 1>>))
  /\ UNCHANGED <<scn, thrVars, cookies, lockVars, pendingCbCount,
                 nonBlockingOpsInProgress, queueVars, clientVars, gen, cb,
                 alive, iv, torn, broken>>

\* A response is polled.  All but the last partial of a stream return the state
\* to the client's IV.  A good partial goes on to drain the queue; after a bad
\* one nobody does (broken).
Callback ==
  /\ cb.pc = "idle" /\ resp # <<>>
  /\ LET r == Head(resp)
         drain == Partial(r.req) /\ r.ok
     IN /\ cb' = [pc |-> IF drain THEN "lock" ELSE "user", req |-> r.req]
        /\ iv' = IF r.req.kind \in {"start", "mid"}
                 THEN [got |-> opState, want |-> r.req.at] ELSE iv
        /\ broken' = (broken \/ (Partial(r.req) /\ ~r.ok))
  /\ resp' = Tail(resp)
  /\ UNCHANGED <<scn, thrVars, cookies, lockVars, pendingCbCount,
                 nonBlockingOpsInProgress, queueVars, clientVars, opState, gen,
                 ring, chained, alive, torn>>

\* LacSymCb_PendingReqsDequeue: the lock is held until the queue is drained.
DequeueLock ==
  /\ cb.pc = "lock"
  /\ requestQueueLock = None
  /\ requestQueueLock' = "poll"
  /\ nonBlockingOpsInProgress' = TRUE
  /\ cb' = [cb EXCEPT !.pc = "loop"]
  /\ UNCHANGED <<scn, thrVars, cookies, lockVars, pendingCbCount, queue, tail,
                 clientVars, opState, gen, devVars, alive, iv, torn, broken>>

\* Mutant: a partial taken from the queue does not block the session.
DequeueHead_NoBlock ==
  /\ cb.pc = "loop"
  /\ queue # <<>> /\ nonBlockingOpsInProgress
  /\ opState' = StateOnSend(Head(queue))
  /\ cb' = [cb EXCEPT !.pc = "put"]
  /\ UNCHANGED <<scn, thrVars, cookies, lockVars, pendingCbCount,
                 nonBlockingOpsInProgress, queueVars, clientVars, gen, devVars,
                 alive, iv, torn, broken>>

\* The oldest request is made ready; a partial blocks the session again.
DequeueHead ==
  /\ cb.pc = "loop"
  /\ queue # <<>> /\ nonBlockingOpsInProgress
  /\ nonBlockingOpsInProgress' = ~Partial(Head(queue))
  /\ opState' = StateOnSend(Head(queue))
  /\ cb' = [cb EXCEPT !.pc = "put"]
  /\ UNCHANGED <<scn, thrVars, cookies, lockVars, pendingCbCount, queueVars,
                 clientVars, gen, devVars, alive, iv, torn, broken>>

\* The retry loop.  The slots are given back by this very thread, so a full
\* ring is still full after DEQUEUE_MSGPUT_MAX_RETRIES: the request stays at
\* the head, the flag as it is (broken).
DequeuePut ==
  /\ cb.pc = "put"
  /\ IF InUse < scn.ring
     THEN /\ ring' = ring \cup {Head(queue)}
          /\ queue' = Tail(queue)
          /\ cb' = [cb EXCEPT !.pc = "loop"]
          /\ UNCHANGED <<requestQueueLock, broken>>
     ELSE /\ requestQueueLock' = None
          /\ cb' = [cb EXCEPT !.pc = "user"]
          /\ broken' = TRUE
          /\ UNCHANGED <<ring, queue>>
  /\ UNCHANGED <<scn, thrVars, cookies, lockVars, pendingCbCount, tail,
                 nonBlockingOpsInProgress, clientVars, opState, gen, resp,
                 chained, alive, iv, torn>>

\* Mutant: the tail keeps pointing to a request that was sent.
DequeueEnd_KeepsTail ==
  /\ cb.pc = "loop"
  /\ queue = <<>> \/ ~nonBlockingOpsInProgress
  /\ requestQueueLock' = None
  /\ cb' = [cb EXCEPT !.pc = "user"]
  /\ UNCHANGED <<scn, thrVars, cookies, lockVars, pendingCbCount, queue, tail,
                 nonBlockingOpsInProgress, clientVars, opState, gen, devVars,
                 alive, iv, torn, broken>>

DequeueEnd ==
  /\ cb.pc = "loop"
  /\ queue = <<>> \/ ~nonBlockingOpsInProgress
  /\ tail' = (tail /\ queue # <<>>)
  /\ requestQueueLock' = None
  /\ cb' = [cb EXCEPT !.pc = "user"]
  /\ UNCHANGED <<scn, thrVars, cookies, lockVars, pendingCbCount, queue,
                 nonBlockingOpsInProgress, clientVars, opState, gen, devVars,
                 alive, iv, torn, broken>>

\* The cookie is freed and the client called back, while the request still
\* counts as pending.
UserCallback ==
  /\ cb.pc = "user"
  /\ cookies' = cookies + 1
  /\ cb' = [cb EXCEPT !.pc = "return"]
  /\ UNCHANGED <<scn, thrVars, lockVars, pendingCbCount,
                 nonBlockingOpsInProgress, queueVars, clientVars, opState, gen,
                 devVars, alive, iv, torn, broken>>

CallbackReturn ==
  /\ cb.pc = "return"
  /\ pendingCbCount' = pendingCbCount - 1
  /\ cb' = Idle
  /\ UNCHANGED <<scn, thrVars, cookies, lockVars, nonBlockingOpsInProgress,
                 queueVars, clientVars, opState, gen, devVars, alive, iv, torn,
                 broken>>

----------------------------------------------------------------------------
(* cpaCySymUpdateSession and cpaCySymRemoveSession                         *)

\* Mutant: requests in flight do not keep the writer out.
LockSessionWriter_Readers(t) ==
  /\ alive /\ pc[t] = "idle"
  /\ done[t].updates < scn.updates
  /\ partialState = "full"
  /\ accessLock = None
  /\ done' = [done EXCEPT ![t].updates = @ + 1]
  /\ IF accessReaders > 0 THEN UNCHANGED <<accessLock, pc>>
     ELSE accessLock' = t /\ pc' = [pc EXCEPT ![t] = "update"]
  /\ UNCHANGED <<scn, req, cookies, accessReaders, pendingCbCount,
                 nonBlockingOpsInProgress, queueVars, clientVars, opState, gen,
                 devVars, cb, alive, iv, torn, broken>>

\* Readers and pending requests make the writer give up with a retry.
LockSessionWriter(t) ==
  /\ alive /\ pc[t] = "idle"
  /\ done[t].updates < scn.updates
  /\ partialState = "full"
  /\ accessLock = None
  /\ done' = [done EXCEPT ![t].updates = @ + 1]
  /\ IF accessReaders > 0 \/ pendingCbCount > 0 THEN UNCHANGED <<accessLock, pc>>
     ELSE accessLock' = t /\ pc' = [pc EXCEPT ![t] = "update"]
  /\ UNCHANGED <<scn, req, cookies, accessReaders, pendingCbCount,
                 nonBlockingOpsInProgress, queueVars, clientVars, opState, gen,
                 devVars, cb, alive, iv, torn, broken>>

\* The content descriptor is rewritten under the lock.
SessionUpdate(t) ==
  /\ pc[t] = "update"
  /\ gen' = gen + 1
  /\ accessLock' = None
  /\ pc' = [pc EXCEPT ![t] = "idle"]
  /\ UNCHANGED <<scn, req, done, cookies, accessReaders, pendingCbCount,
                 nonBlockingOpsInProgress, queueVars, clientVars, opState,
                 devVars, cb, alive, iv, torn, broken>>

\* The client removes a session it makes no call on; requests that are pending
\* make it try again.
RemoveSession ==
  /\ alive
  /\ \A t \in Threads : pc[t] = "idle"
  /\ pendingCbCount = 0
  /\ alive' = FALSE
  /\ UNCHANGED <<scn, thrVars, cookies, lockVars, pendingCbCount,
                 nonBlockingOpsInProgress, queueVars, clientVars, opState, gen,
                 devVars, cb, iv, torn, broken>>

----------------------------------------------------------------------------
InCall(t) ==
  \/ TakeCookie(t) \/ FormatFails(t) \/ CountPending(t)
  \/ UnlockSessionReader(t) \/ ReadFlag(t) \/ ReadTail(t) \/ Recheck(t)
  \/ Enqueue(t) \/ Block(t) \/ Put(t) \/ Unblock(t) \/ Undo(t) \/ Accepted(t)
  \/ SessionUpdate(t)
Call(t) == (\E kind \in Kinds : Perform(t, kind)) \/ LockSessionWriter(t)
Poll == Callback \/ DequeueLock \/ DequeueHead \/ DequeuePut \/ DequeueEnd
        \/ UserCallback \/ CallbackReturn
Answer == \E r \in ring, ok \in BOOLEAN : Device(r, ok)

Next == (\E t \in Threads : InCall(t) \/ Call(t)) \/ Poll \/ Answer
        \/ RemoveSession

Spec == Init /\ [][Next]_vars

\* A call that was begun goes on, the client polls, the device answers.
FairSpec == Spec /\ (\A t \in Threads : WF_vars(InCall(t)))
                 /\ WF_vars(Poll) /\ WF_vars(Answer)

----------------------------------------------------------------------------
Elements(s) == {s[i] : i \in 1 .. Len(s)}

\* Requests on their way: in the ring pair or in a callback.
OnTheWay == ring \cup {p.req : p \in Elements(resp)}
            \cup (IF cb.pc = "idle" THEN {} ELSE {cb.req})

\* Partials that hold the session: from the clearing of the flag until it is
\* set again, by the sender that was refused or by the callback.
Blocking ==
  {r \in ring \cup {p.req : p \in Elements(resp)} : Partial(r)}
  \cup {req[t] : t \in {u \in Threads : pc[u] \in {"put", "refused"}
                                        /\ Partial(req[u])}}
  \cup (IF cb.pc = "lock" THEN {cb.req} ELSE {})
  \cup (IF cb.pc = "put" /\ Partial(Head(queue)) THEN {Head(queue)} ELSE {})

\* lac_session.h: "Only one blocking condition per session can exist at any
\* time": at most one partial holds the session.
OneBlocking == Cardinality(Blocking) <= 1

\* As long as no thread was caught between its reads of flag and tail, at most
\* one partial holds the session, and none while the flag is set; and the flag
\* is cleared only while one does, unless the queue lost the one who drains it.
BlockedByOne ==
  ~torn => /\ OneBlocking
           /\ nonBlockingOpsInProgress => Blocking = {}
           /\ broken \/ nonBlockingOpsInProgress \/ Blocking # {}

\* A stream goes through the state buffer packet by packet: the device finds
\* there what the packet before left, streams that follow each other and full
\* packets in between included.
StreamsChain == ~torn => chained

\* The IV returned to the client is the one its own packet left, although the
\* callback also sends the next packet, which overwrites the state buffer.
IvReturned == ~torn => iv.got = iv.want

\* The reference count: pendingCbCount counts every request queued, on its way
\* or in a callback that has not returned, and those about to be sent or being
\* taken back; so a removed session has none of them.
ReferenceCount ==
  /\ pendingCbCount = Len(queue) + InUse + Cardinality(
       {t \in Threads : pc[t] \in {"unlock", "flag", "tail", "lock", "enqueue",
                                   "send", "put", "refused", "undo"}})
  /\ ~alive => queue = <<>> /\ OnTheWay = {}

\* A writer has the session to itself: no thread formats a request, and every
\* request is worked on with the content descriptor it was formatted with.
UpdateExclusive ==
  /\ (\E t \in Threads : pc[t] = "update") =>
       /\ \A t \in Threads : pc[t] \in {"idle", "accepted", "update"}
       /\ queue = <<>> /\ OnTheWay = {}
  /\ \A r \in OnTheWay \cup Elements(queue) : r.gen = gen

\* Every request is answered, unless the queue lost the one who drains it.
AllAnswered == pendingCbCount > 0 ~> pendingCbCount = 0 \/ broken \/ torn

\* lac_sym_queue.h: a queued message "will be sent later to the QAT once the
\* blocking condition is cleared".
QueuedIsSent == queue # <<>> ~> queue = <<>>
=============================================================================
