------------------------------ MODULE DcSession ------------------------------
(* A compression session of the traditional API (dc_session.c,               *)
(* dc_datapath.c): threads that submit requests, the handler of responses,   *)
(* and the client that resets and removes the session.  A request of zero    *)
(* length that dcZeroLengthRequests answers changes none of this state.      *)
EXTENDS Integers, FiniteSets

CONSTANTS Callers,      \* threads that submit requests
          Sessions,     \* what the client sets up and asks for:
                        \* [stateful, sync, dirs, flushes]
          MaxRequests,  \* bound: requests submitted in one behaviour
          MaxDcResets,  \* bound: resets in one behaviour
          MaxDcFaults   \* bound: refusals, failures and unsupported responses

Dirs == {"comp", "decomp"}
Flushes == {"none", "full", "final"}  \* SYNC is as NONE

ASSUME DcSessionAssumption ==
  /\ IsFiniteSet(Callers)
  /\ Sessions \subseteq [stateful : BOOLEAN, sync : BOOLEAN, dirs : SUBSET Dirs,
                          flushes : SUBSET Flushes]

NoReq == [id |-> 0]

VARIABLES
  dc,       \* the session's setup, a member of Sessions
  open,     \* the session is initialised and not removed
  requestType, previousRequestType,
  isSopProcessed,  \* isSopForCompressionProcessed, isSopForDecompressionProcessed
  pending,  \* pendingStatefulCbCount or pendingStatelessCbCount, by the session's state
  caller,   \* per thread: [pc, req]
  flying,   \* requests on the ring or in the device
  done,     \* the response dcCompression_ProcessCallback is at, or NoReq
  resetter, \* "idle", or cpaDcResetSession has read the counts
  mid,      \* ghost: a stream has begun and has not ended
  submitted, resets, dcFaults,
  dcFlaws   \* ghost: the known weak spots this behaviour has met

dcVars == <<dc, open, requestType, previousRequestType, isSopProcessed, pending, caller,
            flying, done, resetter, mid, submitted, resets, dcFaults, dcFlaws>>
desc == <<requestType, previousRequestType, isSopProcessed>>

Idle == [pc |-> "idle", req |-> NoReq]
InCall == {t \in Callers : caller[t].pc # "idle"}
Outstanding == flying \cup ({done} \ {NoReq})

DcInit ==
  /\ dc \in Sessions
  /\ open = TRUE
  /\ requestType = "first" /\ previousRequestType = "first"
  /\ isSopProcessed = [d \in Dirs |-> FALSE]
  /\ pending = 0
  /\ caller = [t \in Callers |-> Idle]
  /\ flying = {} /\ done = NoReq /\ resetter = "idle"
  /\ mid = FALSE /\ submitted = 0 /\ resets = 0 /\ dcFaults = 0 /\ dcFlaws = {}

Fault == dcFaults < MaxDcFaults /\ dcFaults' = dcFaults + 1
-----------------------------------------------------------------------------
(* cpaDcCompressData2 and cpaDcDecompressData, then dcCompDecompData. *)

\* The direction is one of the session's.  Under sessionLock a stateful session
\* takes its only place, or the call is refused (which changes nothing).
DcCall(t) ==
  /\ open /\ caller[t].pc = "idle" /\ submitted < MaxRequests
  /\ dc.stateful => pending = 0
  /\ \E d \in dc.dirs, f \in dc.flushes :
       caller' = [caller EXCEPT ![t] =
         [pc |-> "alloc", req |-> [id |-> submitted + 1, dir |-> d, flush |-> f]]]
  /\ pending' = IF dc.stateful THEN pending + 1 ELSE pending
  /\ submitted' = submitted + 1
  /\ UNCHANGED <<dc, open, desc, flying, done, resetter, resets, mid, dcFaults, dcFlaws>>

\* LacSync_CreateSyncCookie fails: the call returns with the place taken.
SyncCookieFails(t) ==
  /\ dc.sync /\ caller[t].pc = "alloc" /\ Fault
  /\ caller' = [caller EXCEPT ![t] = Idle]
  /\ dcFlaws' = IF dc.stateful THEN dcFlaws \cup {"leaked"} ELSE dcFlaws
  /\ UNCHANGED <<dc, open, desc, pending, flying, done, resetter, resets, mid, submitted>>

\* No cookie, or a buffer list dcCreateRequest cannot translate: the failure path
\* gives back a count that only a stateful request has taken by now.
CreateFails(t) ==
  /\ caller[t].pc = "alloc" /\ Fault
  /\ caller' = [caller EXCEPT ![t].pc = "failed"]
  /\ dcFlaws' = IF dc.stateful THEN dcFlaws ELSE dcFlaws \cup {"uncounted"}
  /\ UNCHANGED <<dc, open, desc, pending, flying, done, resetter, resets, mid, submitted>>

\* dcCreateRequest's SOP flag: FIRST starts a packet, and so does the first
\* request of its direction.
Sop(d) == ~dc.stateful \/ requestType = "first" \/ ~isSopProcessed[d]

\* The type left for the next request of a stateful session.
NextType(f) == IF f \in {"final", "full"} THEN "first" ELSE "subsequent"

CreateRequest(t) ==
  LET r == caller[t].req IN
  /\ caller[t].pc = "alloc"
  /\ caller' = [caller EXCEPT ![t] =
       [pc |-> "put", req |-> [id |-> r.id, dir |-> r.dir, flush |-> r.flush,
                               sop |-> Sop(r.dir), start |-> ~mid]]]
  /\ IF dc.stateful
     THEN /\ previousRequestType' = requestType
          /\ requestType' = NextType(r.flush)
          /\ isSopProcessed' = [isSopProcessed EXCEPT ![r.dir] = TRUE]
          /\ UNCHANGED pending
     ELSE pending' = pending + 1 /\ UNCHANGED desc
  /\ UNCHANGED <<dc, open, flying, done, resetter, resets, mid, submitted, dcFaults, dcFlaws>>

\* SalQatMsg_transPutMsg takes the request.
SendRequest(t) ==
  /\ caller[t].pc = "put"
  /\ caller' = [caller EXCEPT ![t].pc = "sent"]
  /\ flying' = flying \cup {caller[t].req}
  /\ mid' = TRUE
  /\ UNCHANGED <<dc, open, desc, pending, done, resetter, resets, submitted, dcFaults, dcFlaws>>

\* Mutant: the type is not put back after a refusal.
SendRefused_NoRestore(t) ==
  /\ caller[t].pc = "put" /\ Fault
  /\ caller' = [caller EXCEPT ![t].pc = "failed"]
  /\ UNCHANGED <<dc, open, desc, pending, flying, done, resetter, resets, mid, submitted,
                 dcFlaws>>

\* The ring is full: dcSendRequest puts a stateful session's type back.
SendRefused(t) ==
  /\ caller[t].pc = "put" /\ Fault
  /\ caller' = [caller EXCEPT ![t].pc = "failed"]
  /\ requestType' = IF dc.stateful THEN previousRequestType ELSE requestType
  /\ UNCHANGED <<dc, open, previousRequestType, isSopProcessed, pending, flying, done,
                 resetter, resets, mid, submitted, dcFlaws>>

\* dcSendRequest reads sessState once more, and the call returns: a synchronous
\* one after its callback, or when DC_SYNC_CALLBACK_TIMEOUT has passed.
CallReturns(t) ==
  /\ caller[t].pc = "sent"
  /\ caller' = [caller EXCEPT ![t] = Idle]
  /\ UNCHANGED <<dc, open, desc, pending, flying, done, resetter, resets, mid, submitted,
                 dcFaults, dcFlaws>>

\* Mutant: a failed call keeps its place.
CallFails_NoDec(t) ==
  /\ caller[t].pc = "failed"
  /\ caller' = [caller EXCEPT ![t] = Idle]
  /\ UNCHANGED <<dc, open, desc, pending, flying, done, resetter, resets, mid, submitted,
                 dcFaults, dcFlaws>>

\* The failure path of dcCompDecompData.
CallFails(t) ==
  /\ caller[t].pc = "failed"
  /\ caller' = [caller EXCEPT ![t] = Idle]
  /\ pending' = pending - 1
  /\ UNCHANGED <<dc, open, desc, flying, done, resetter, resets, mid, submitted, dcFaults, dcFlaws>>
-----------------------------------------------------------------------------
(* dcCompression_ProcessCallback. *)

\* A response is read and the type of the next request decided, whatever
\* dcCreateRequest had left: FIRST only after a FINAL that passed.
ProcessResponse(r, pass) ==
  /\ r \in flying /\ done = NoReq
  /\ flying' = flying \ {r} /\ done' = r
  /\ requestType' = IF r.flush = "final" /\ pass THEN "first" ELSE "subsequent"
  /\ mid' = ~(r.flush = "final" /\ pass)
  /\ dcFlaws' = IF r.flush = "full" THEN dcFlaws \cup {"full"} ELSE dcFlaws
  /\ UNCHANGED <<dc, open, previousRequestType, isSopProcessed, pending, caller, resetter, resets,
                 submitted, dcFaults>>

\* The request leaves the count, its cookie goes back and the client is called.
\* A stateful count of zero, which only a reset leaves, stays zero.
ResponseDone ==
  /\ done # NoReq
  /\ pending' = IF dc.stateful /\ pending = 0 THEN 0 ELSE pending - 1
  /\ done' = NoReq
  /\ UNCHANGED <<dc, open, desc, caller, flying, resetter, resets, mid, submitted, dcFaults,
                 dcFlaws>>

\* The firmware does not support the request: the client is called, the count
\* is not given back.
UnsupportedResponse(r) ==
  /\ r \in flying /\ done = NoReq /\ Fault
  /\ flying' = flying \ {r}
  /\ dcFlaws' = dcFlaws \cup {"unsupported"}
  /\ UNCHANGED <<dc, open, desc, pending, caller, done, resetter, resets, mid, submitted>>
-----------------------------------------------------------------------------
(* cpaDcResetSession and cpaDcRemoveSession. *)

\* The counts are read for the status the reset will return.
ResetCheck ==
  /\ open /\ resetter = "idle" /\ resets < MaxDcResets
  /\ resets' = resets + 1
  /\ resetter' = IF pending # 0 THEN "retry" ELSE "success"
  /\ UNCHANGED <<dc, open, desc, pending, caller, flying, done, mid, submitted,
                 dcFaults, dcFlaws>>

\* Whatever that status is, the session is put back and the counts are zeroed.
ResetWrite ==
  /\ resetter # "idle"
  /\ resetter' = "idle"
  /\ requestType' = "first" /\ pending' = 0 /\ mid' = FALSE
  /\ dcFlaws' = IF InCall # {} \/ Outstanding # {}
                THEN dcFlaws \cup {IF resetter = "retry" THEN "reset" ELSE "raced"}
                ELSE dcFlaws
  /\ UNCHANGED <<dc, open, previousRequestType, isSopProcessed, caller, flying, done,
                 submitted, resets, dcFaults>>

\* The client has seen the end of t's call: it returned, or its callback ran.
CallSeenOver(t) ==
  \/ caller[t].pc = "idle"
  \/ caller[t].pc = "sent" /\ ~dc.sync /\ caller[t].req \notin Outstanding

\* Mutant: the counts are not looked at.
RemoveSession_NoTest ==
  /\ open /\ resetter = "idle" /\ \A t \in Callers : CallSeenOver(t)
  /\ open' = FALSE
  /\ UNCHANGED <<dc, desc, pending, caller, flying, done, resetter, resets, mid, submitted,
                 dcFaults, dcFlaws>>

\* The session's memory is the client's again when nothing is counted.
RemoveSession ==
  /\ open /\ resetter = "idle" /\ \A t \in Callers : CallSeenOver(t)
  /\ pending = 0
  /\ open' = FALSE
  /\ UNCHANGED <<dc, desc, pending, caller, flying, done, resetter, resets, mid, submitted,
                 dcFaults, dcFlaws>>

DcNext ==
  \/ \E t \in Callers : \/ DcCall(t) \/ SyncCookieFails(t) \/ CreateFails(t)
                        \/ CreateRequest(t) \/ SendRequest(t) \/ SendRefused(t)
                        \/ CallReturns(t) \/ CallFails(t)
  \/ \E r \in flying : \/ \E pass \in BOOLEAN : ProcessResponse(r, pass)
                       \/ UnsupportedResponse(r)
  \/ ResponseDone
  \/ ResetCheck \/ ResetWrite \/ RemoveSession

DcSpec == DcInit /\ [][DcNext]_dcVars
-----------------------------------------------------------------------------
\* Calls that hold a place: a stateful one from the test under sessionLock, a
\* stateless one from dcCompDecompData's increment.
Holding == {t \in Callers : caller[t].pc \in {"put", "failed"} \cup
                              (IF dc.stateful THEN {"alloc"} ELSE {})}

\* The pending count is exactly the calls that hold a place and the requests not
\* yet completed, on every path: refusals by a full ring and failures included.
\* Lost by a reset with requests outstanding, by a stateless failure before the
\* increment, by an unsupported response and by a failed synchronous cookie.
DcCountExact ==
  dcFlaws \cap {"leaked", "uncounted", "unsupported", "reset", "raced"} = {}
    => pending = Cardinality(Holding) + Cardinality(Outstanding)

\* Once cpaDcRemoveSession succeeded no request of the session is outstanding, so
\* no response is applied to memory the client has taken back.  A reset or a
\* stateless failure that upset the count can let it through.
RemovedQuiet == ~open /\ dcFlaws \cap {"uncounted", "reset", "raced"} = {} => Outstanding = {}

\* In a stateful session of one direction a request is sent as the start of a
\* packet exactly when it begins a stream: after a refusal by a full ring the
\* retried request is still the first, after a failed FINAL it is not.  What
\* follows a full flush is left open: dcCreateRequest and the callback disagree.
StreamFramed ==
  dc.stateful /\ Cardinality(dc.dirs) = 1 /\ dcFlaws \cap {"full", "reset", "raced"} = {}
    => \A r \in Outstanding : r.sop = r.start

\* cpa_dc.h: "Stateful sessions are limited to have only one in-flight message
\* per session", and cpaDcResetSession "will fail if outstanding calls still
\* exist".  Resets that found the count zero and met a call begun since are left out.
OneInFlight == dc.stateful /\ "raced" \notin dcFlaws => Cardinality(Outstanding) <= 1
=============================================================================
