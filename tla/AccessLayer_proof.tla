-------------------------- MODULE AccessLayer_proof ---------------------------
(* Proofs about the access layer: DcSession, for any number of threads and of *)
(* requests, sessions of either state, called either way; and SalEvents, for  *)
(* any number of resets, starts and failed calls.                             *)
EXTENDS DcSession, SalEvents, FiniteSetTheorems, TLAPS

-----------------------------------------------------------------------------
(* Sessions of data compression.                                             *)

Types == {"first", "subsequent"}
Places == {"idle", "alloc", "put", "failed", "sent"}

\* A request the client asked for, and one dcCreateRequest has built.
Asked == [id : Nat \ {0}, dir : Dirs, flush : Flushes]
Built == [id : Nat \ {0}, dir : Dirs, flush : Flushes, sop : BOOLEAN, start : BOOLEAN]

DcTypeOK ==
  /\ dc \in Sessions /\ open \in BOOLEAN /\ mid \in BOOLEAN
  /\ resetter \in {"idle", "retry", "success"}
  /\ requestType \in Types /\ previousRequestType \in Types
  /\ isSopProcessed \in [Dirs -> BOOLEAN]
  /\ pending \in Int /\ submitted \in Nat
  /\ caller \in [Callers -> [pc : Places, req : {NoReq} \cup Asked \cup Built]]
  /\ \A t \in Callers : /\ caller[t].pc = "alloc" => caller[t].req \in Asked
                        /\ caller[t].pc = "put" => caller[t].req \in Built
  /\ flying \subseteq Built /\ IsFiniteSet(flying)
  /\ done \in {NoReq} \cup Built

\* A request that is not sent yet is none of those that are, nor another call's.
Unsent == {t \in Callers : caller[t].pc \in {"alloc", "put"}}
Fresh ==
  /\ done \notin flying
  /\ \A r \in Outstanding : r.id <= submitted
  /\ \A t \in Unsent : /\ caller[t].req.id <= submitted
                       /\ \A r \in Outstanding : r.id # caller[t].req.id
                       /\ \A u \in Unsent : caller[u].req.id = caller[t].req.id => u = t

\* What the count should be; flaws can make it larger, or lose it.
Held == Cardinality(Holding) + Cardinality(Outstanding)
Counted ==
  /\ dcFlaws \cap {"uncounted", "reset", "raced"} = {} => pending >= Held
  /\ DcCountExact

\* Once the session is removed no call and no reset runs in it.
Closed ==
  /\ ~open => resetter = "idle" /\ \A t \in Callers : caller[t].pc \in {"idle", "sent"}
  /\ RemovedQuiet

\* A stateful session has one call or one request at a time, and while it has
\* one the count says so.
Single ==
  dc.stateful /\ dcFlaws \cap {"reset", "raced"} = {} =>
    /\ \A t, u \in Holding : t = u
    /\ \A r, s \in Outstanding : r = s
    /\ Holding # {} => Outstanding = {}
    /\ Holding # {} \/ Outstanding # {} => pending > 0

\* Where a request may be created, the type agrees with the stream; where one was
\* created and may still be refused, the type to be put back does.
OneWay ==
  dc.stateful /\ (\E d \in Dirs : dc.dirs = {d}) /\ dcFlaws \cap {"full", "reset", "raced"} = {}
Agree == requestType = "first" <=> ~mid
FirstDone == \A d \in dc.dirs : isSopProcessed[d]
Framed ==
  OneWay =>
    /\ \A r \in Outstanding : r.sop <=> r.start
    /\ \A t \in Callers : caller[t].pc = "alloc" => caller[t].req.dir \in dc.dirs
    /\ \A t \in Callers : caller[t].pc = "put" =>
         /\ previousRequestType = "first" <=> ~mid
         /\ (caller[t].req.sop <=> ~mid) /\ (caller[t].req.start <=> ~mid)
    /\ (pending = 0 \/ done # NoReq \/ \E t \in Callers : caller[t].pc \in {"alloc", "failed"})
         => Agree
    /\ FirstDone \/ (requestType = "first" /\ flying = {})
    /\ FirstDone \/ \A t \in Callers : caller[t].pc # "put"

DcInv == DcTypeOK /\ Fresh /\ Counted /\ Closed /\ Single /\ Framed
-----------------------------------------------------------------------------
\* The setup of the session has its fields.
LEMMA SessionFields ==
  ASSUME DcTypeOK
  PROVE  /\ dc.stateful \in BOOLEAN /\ dc.sync \in BOOLEAN
         /\ dc.dirs \subseteq Dirs /\ dc.flushes \subseteq Flushes
  BY DcSessionAssumption, Zenon DEF DcTypeOK

\* A request has a number that is not that of NoReq.
LEMMA NotNoReq ==
  /\ \A r \in Asked : r.id \in Nat \ {0} /\ r.dir \in Dirs /\ r.flush \in Flushes
  /\ \A r \in Built : /\ r.id \in Nat \ {0} /\ r.dir \in Dirs /\ r.flush \in Flushes
                     /\ r.sop \in BOOLEAN /\ r.start \in BOOLEAN
  /\ NoReq.id = 0 /\ NoReq \notin Built
<1>1. NoReq.id = 0
  BY Zenon DEF NoReq
<1>2. \A r \in Built : r.id \in Nat \ {0}
  BY Zenon DEF Built
<1> QED BY <1>1, <1>2, Zenon DEF Asked, Built

LEMMA DcInitType ==
  ASSUME DcInit
  PROVE  DcTypeOK
<1>1. IsFiniteSet({})
  BY FS_EmptySet, Zenon
<1>2. \A t \in Callers : caller[t] = Idle
  BY Zenon DEF DcInit
<1>3. Idle \in [pc : Places, req : {NoReq} \cup Asked \cup Built] /\ Idle.pc = "idle"
  BY Zenon DEF Idle, Places
<1>4. caller \in [Callers -> [pc : Places, req : {NoReq} \cup Asked \cup Built]]
  BY <1>3 DEF DcInit
<1>5. \A t \in Callers : caller[t].pc \notin {"alloc", "put"}
  BY <1>2, <1>3, Zenon
<1>6. isSopProcessed \in [Dirs -> BOOLEAN]
  BY Zenon DEF DcInit
<1>7. open \in BOOLEAN /\ mid \in BOOLEAN
  BY Zenon DEF DcInit
<1>8. flying \subseteq Built /\ IsFiniteSet(flying) /\ done \in {NoReq} \cup Built
  BY <1>1, Zenon DEF DcInit
<1>9. /\ dc \in Sessions /\ resetter \in {"idle", "retry", "success"}
      /\ requestType \in Types /\ previousRequestType \in Types
      /\ pending \in Int /\ submitted \in Nat
  BY DEF DcInit, Types
<1> QED BY <1>4, <1>5, <1>6, <1>7, <1>8, <1>9, Zenon DEF DcTypeOK

\* What a step of the call of t leaves the thread with.
Moved(t, c) ==
  /\ caller' = [caller EXCEPT ![t] = c]
  /\ c \in [pc : Places, req : {NoReq} \cup Asked \cup Built]
  /\ c.pc = "alloc" => c.req \in Asked /\ c.req.dir \in dc.dirs
  /\ c.pc = "put" => c.req \in Built

LEMMA CallerMoves ==
  ASSUME DcTypeOK, NEW t \in Callers, NEW c, Moved(t, c)
  PROVE  /\ caller' \in [Callers -> [pc : Places, req : {NoReq} \cup Asked \cup Built]]
         /\ caller'[t] = c /\ \A u \in Callers \ {t} : caller'[u] = caller[u]
         /\ \A u \in Callers : /\ caller'[u].pc = "alloc" => caller'[u].req \in Asked
                               /\ caller'[u].pc = "put" => caller'[u].req \in Built
  BY Zenon DEF DcTypeOK, Moved

LEMMA DcCallMoves ==
  ASSUME DcTypeOK, NEW t \in Callers, DcCall(t)
  PROVE  \E d \in dc.dirs, f \in dc.flushes :
           Moved(t, [pc |-> "alloc", req |-> [id |-> submitted + 1, dir |-> d, flush |-> f]])
<1>1. PICK d \in dc.dirs, f \in dc.flushes :
        caller' = [caller EXCEPT ![t] =
          [pc |-> "alloc", req |-> [id |-> submitted + 1, dir |-> d, flush |-> f]]]
  BY Zenon DEF DcCall
<1>2. d \in Dirs /\ f \in Flushes /\ submitted + 1 \in Nat \ {0}
  BY SessionFields DEF DcTypeOK
<1>3. [id |-> submitted + 1, dir |-> d, flush |-> f] \in Asked
  BY <1>2 DEF Asked
<1> QED BY <1>1, <1>3, Zenon DEF Moved, Places

LEMMA CreateRequestMoves ==
  ASSUME DcTypeOK, NEW t \in Callers, CreateRequest(t)
  PROVE  LET r == caller[t].req
         IN  Moved(t, [pc |-> "put",
                       req |-> [id |-> r.id, dir |-> r.dir, flush |-> r.flush,
                                sop |-> Sop(r.dir), start |-> ~mid]])
<1> DEFINE r == caller[t].req
<1>1. r \in Asked
  BY Zenon DEF DcTypeOK, CreateRequest
<1>2. Sop(r.dir) \in BOOLEAN /\ (~mid) \in BOOLEAN
  BY Zenon DEF Sop
<1>3. r.id \in Nat \ {0} /\ r.dir \in Dirs /\ r.flush \in Flushes
  BY <1>1, NotNoReq, Zenon
<1>4. [id |-> r.id, dir |-> r.dir, flush |-> r.flush, sop |-> Sop(r.dir), start |-> ~mid] \in Built
  BY <1>2, <1>3, Zenon DEF Built
<1> QED BY <1>4, Zenon DEF Moved, Places, CreateRequest

LEMMA EndMoves ==
  ASSUME DcTypeOK, NEW t \in Callers, SyncCookieFails(t) \/ CallReturns(t) \/ CallFails(t)
  PROVE  Moved(t, Idle)
  BY Zenon DEF Moved, Idle, Places, SyncCookieFails, CallReturns, CallFails

LEMMA OnMoves ==
  ASSUME DcTypeOK, NEW t \in Callers
  PROVE  /\ CreateFails(t) \/ SendRefused(t) => Moved(t, [pc |-> "failed", req |-> caller[t].req])
         /\ SendRequest(t) => Moved(t, [pc |-> "sent", req |-> caller[t].req])
<1>1. caller[t] \in [pc : Places, req : {NoReq} \cup Asked \cup Built]
  BY Zenon DEF DcTypeOK
<1>2. \A l : [caller[t] EXCEPT !.pc = l] = [pc |-> l, req |-> caller[t].req]
  BY <1>1
<1>3. \A l : [caller EXCEPT ![t].pc = l] = [caller EXCEPT ![t] = [pc |-> l, req |-> caller[t].req]]
  BY <1>2, Zenon DEF DcTypeOK
<1> QED BY <1>1, <1>3, Zenon DEF Moved, Places, CreateFails, SendRefused, SendRequest

LEMMA MovesTo ==
  ASSUME DcTypeOK, NEW t \in Callers
  PROVE  /\ DcCall(t) => \E c : Moved(t, c) /\ c.pc = "alloc"
         /\ CreateRequest(t) => \E c : Moved(t, c) /\ c.pc = "put"
         /\ CreateFails(t) \/ SendRefused(t) => \E c : Moved(t, c) /\ c.pc = "failed"
         /\ SendRequest(t) => \E c : Moved(t, c) /\ c.pc = "sent"
<1>1. ASSUME NEW l, NEW r, Moved(t, [pc |-> l, req |-> r])
      PROVE  \E c : Moved(t, c) /\ c.pc = l
  <2> DEFINE c == [pc |-> l, req |-> r]
  <2>1. Moved(t, c) /\ c.pc = l
    BY <1>1, Zenon
  <2> HIDE DEF c
  <2> QED BY <2>1, Zenon
<1>2. DcCall(t) => \E c : Moved(t, c) /\ c.pc = "alloc"
  BY <1>1, DcCallMoves, Zenon
<1>3. CreateRequest(t) => \E c : Moved(t, c) /\ c.pc = "put"
  BY <1>1, CreateRequestMoves, Zenon
<1> QED BY <1>1, <1>2, <1>3, OnMoves, Zenon

CallStep(t) ==
  \/ DcCall(t) \/ SyncCookieFails(t) \/ CreateFails(t) \/ CreateRequest(t)
  \/ SendRequest(t) \/ SendRefused(t) \/ CallReturns(t) \/ CallFails(t)

LEMMA CallMoves ==
  ASSUME DcTypeOK, NEW t \in Callers, CallStep(t)
  PROVE  \E c : Moved(t, c)
<1>1. CASE DcCall(t)
  BY <1>1, DcCallMoves, Zenon
<1>2. CASE CreateRequest(t)
  BY <1>2, CreateRequestMoves, Zenon
<1>3. CASE SyncCookieFails(t) \/ CallReturns(t) \/ CallFails(t)
  BY <1>3, EndMoves, Zenon
<1>4. CASE CreateFails(t) \/ SendRefused(t) \/ SendRequest(t)
  BY <1>4, OnMoves, Zenon
<1> QED BY <1>1, <1>2, <1>3, <1>4 DEF CallStep

LEMMA CallStepType ==
  ASSUME DcTypeOK, NEW t \in Callers, CallStep(t)
  PROVE  DcTypeOK'
<1>1. /\ caller' \in [Callers -> [pc : Places, req : {NoReq} \cup Asked \cup Built]]
      /\ \A u \in Callers : /\ caller'[u].pc = "alloc" => caller'[u].req \in Asked
                            /\ caller'[u].pc = "put" => caller'[u].req \in Built
  BY CallMoves, CallerMoves, Zenon
<1>2. dc' = dc /\ open' = open /\ resetter' = resetter /\ done' = done
  BY Zenon DEF CallStep, DcCall, SyncCookieFails, CreateFails, CreateRequest, SendRequest, SendRefused,
         CallReturns, CallFails
<1>3. pending' \in {pending, pending + 1, pending - 1} /\ submitted' \in {submitted, submitted + 1}
  BY Zenon DEF CallStep, DcCall, SyncCookieFails, CreateFails, CreateRequest, SendRequest, SendRefused,
         CallReturns, CallFails
<1>4. requestType' \in Types /\ previousRequestType' \in Types
  BY Zenon DEF CallStep, DcCall, SyncCookieFails, CreateFails, CreateRequest, SendRequest, SendRefused,
         CallReturns, CallFails, desc, DcTypeOK, NextType, Types
<1>5. isSopProcessed' = isSopProcessed
        \/ \E d : isSopProcessed' = [isSopProcessed EXCEPT ![d] = TRUE]
  BY Zenon DEF CallStep, DcCall, SyncCookieFails, CreateFails, CreateRequest, SendRequest, SendRefused,
         CallReturns, CallFails, desc
<1>6. mid' = mid \/ mid' = TRUE
  BY Zenon DEF CallStep, DcCall, SyncCookieFails, CreateFails, CreateRequest, SendRequest, SendRefused,
         CallReturns, CallFails
<1>7. flying' = flying \/ (caller[t].req \in Built /\ flying' = flying \cup {caller[t].req})
  BY Zenon DEF CallStep, DcCall, SyncCookieFails, CreateFails, CreateRequest, SendRequest, SendRefused,
         CallReturns, CallFails, DcTypeOK
<1>8. flying' \subseteq Built /\ IsFiniteSet(flying')
  BY <1>7, FS_AddElement DEF DcTypeOK
<1>9. isSopProcessed' \in [Dirs -> BOOLEAN] /\ mid' \in BOOLEAN
  BY <1>5, <1>6, Zenon DEF DcTypeOK
<1> QED BY <1>1, <1>2, <1>3, <1>4, <1>8, <1>9 DEF DcTypeOK

\* The steps that are no step of a call.
OtherStep ==
  \/ \E r \in flying : (\E pass \in BOOLEAN : ProcessResponse(r, pass)) \/ UnsupportedResponse(r)
  \/ ResponseDone \/ ResetCheck \/ ResetWrite \/ RemoveSession

LEMMA OtherStepType ==
  ASSUME DcTypeOK,
         OtherStep
  PROVE  DcTypeOK'
<1>1. CASE \E r \in flying : (\E pass \in BOOLEAN : ProcessResponse(r, pass)) \/ UnsupportedResponse(r)
  <2>1. PICK r \in flying : (\E pass \in BOOLEAN : ProcessResponse(r, pass)) \/ UnsupportedResponse(r)
    BY <1>1, Zenon
  <2>2. flying' = flying \ {r} /\ r \in Built /\ done' \in {done, r}
    BY <2>1, Zenon DEF ProcessResponse, UnsupportedResponse, DcTypeOK
  <2>3. flying' \subseteq Built /\ IsFiniteSet(flying') /\ done' \in {NoReq} \cup Built
    BY <2>2, FS_RemoveElement, Zenon DEF DcTypeOK
  <2>4. /\ dc' = dc /\ open' = open /\ resetter' = resetter /\ caller' = caller /\ pending' = pending
        /\ submitted' = submitted /\ isSopProcessed' = isSopProcessed
        /\ previousRequestType' = previousRequestType
    BY <2>1, Zenon DEF ProcessResponse, UnsupportedResponse, desc
  <2>5. requestType' \in Types
    BY <2>1, Zenon DEF ProcessResponse, UnsupportedResponse, desc, DcTypeOK, Types
  <2>6. mid' \in BOOLEAN
    BY <2>1, Zenon DEF ProcessResponse, UnsupportedResponse, DcTypeOK
  <2> QED BY <2>3, <2>4, <2>5, <2>6, Zenon DEF DcTypeOK
<1>2. CASE ResponseDone
  BY <1>2 DEF ResponseDone, DcTypeOK, desc
<1>3. CASE ResetCheck
  BY <1>3, Zenon DEF ResetCheck, DcTypeOK, desc
<1>4. CASE ResetWrite
  <2>1. mid' \in BOOLEAN
    BY <1>4, Zenon DEF ResetWrite
  <2> QED BY <1>4, <2>1 DEF ResetWrite, DcTypeOK, Types
<1>5. CASE RemoveSession
  BY <1>5, Zenon DEF RemoveSession, DcTypeOK, desc
<1> QED BY <1>1, <1>2, <1>3, <1>4, <1>5, Zenon DEF OtherStep
-----------------------------------------------------------------------------
\* A call that moves outside "alloc" and "put", or stays there with its request.
LEMMA FreshKept ==
  ASSUME DcTypeOK, Fresh, NEW t \in Callers, NEW c, Moved(t, c),
         c.pc \in {"alloc", "put"} => t \in Unsent /\ c.req.id = caller[t].req.id,
         flying' = flying, done' = done, submitted' = submitted
  PROVE  Fresh'
<1>1. caller'[t] = c /\ \A u \in Callers \ {t} : caller'[u] = caller[u]
  BY CallerMoves, Zenon
<1>2. Outstanding' = Outstanding
  BY Zenon DEF Outstanding
<1>3. \A u \in Unsent' : u \in Unsent /\ caller'[u].req.id = caller[u].req.id
  BY <1>1 DEF Unsent
<1> QED BY <1>2, <1>3 DEF Fresh

LEMMA CallStepFresh ==
  ASSUME DcTypeOK, Fresh, NEW t \in Callers, CallStep(t)
  PROVE  Fresh'
<1>1. CASE DcCall(t)
  <2>1. PICK d \in dc.dirs, f \in dc.flushes :
          Moved(t, [pc |-> "alloc", req |-> [id |-> submitted + 1, dir |-> d, flush |-> f]])
    BY <1>1, DcCallMoves, Zenon
  <2>2. /\ caller'[t].pc = "alloc" /\ caller'[t].req.id = submitted + 1
        /\ \A u \in Callers \ {t} : caller'[u] = caller[u]
    BY <2>1, CallerMoves
  <2>3. Outstanding' = Outstanding /\ flying' = flying /\ done' = done /\ submitted' = submitted + 1
    BY <1>1, Zenon DEF DcCall, Outstanding
  <2>4. \A r \in Outstanding : r.id \in Nat
    BY NotNoReq DEF Outstanding, DcTypeOK
  <2>5. \A u \in Unsent : caller[u].req.id \in Nat
    BY NotNoReq, Zenon DEF Unsent, DcTypeOK
  <2>6. \A u \in Unsent' : u = t \/ (u \in Unsent /\ caller'[u] = caller[u])
    BY <2>2, Zenon DEF Unsent
  <2>7. submitted \in Nat
    BY Zenon DEF DcTypeOK
  <2>8. \A u \in Unsent' : caller'[u].req.id <= submitted + 1
    BY <2>2, <2>5, <2>6, <2>7 DEF Fresh
  <2>9. \A u \in Unsent' : \A r \in Outstanding : r.id # caller'[u].req.id
    BY <2>2, <2>4, <2>6, <2>7 DEF Fresh
  <2>10. ASSUME NEW u \in Unsent', NEW v \in Unsent', caller'[u].req.id = caller'[v].req.id
         PROVE  u = v
    BY <2>2, <2>5, <2>6, <2>7, <2>10 DEF Fresh
  <2> QED BY <2>3, <2>4, <2>7, <2>8, <2>9, <2>10 DEF Fresh
<1>2. CASE CreateRequest(t)
  <2> DEFINE r == caller[t].req
             c == [pc |-> "put", req |-> [id |-> r.id, dir |-> r.dir, flush |-> r.flush,
                                          sop |-> Sop(r.dir), start |-> ~mid]]
  <2>1. Moved(t, c)
    BY <1>2, CreateRequestMoves, Zenon
  <2>2. c.req.id = caller[t].req.id /\ t \in Unsent
    BY <1>2, Zenon DEF Unsent, CreateRequest
  <2>3. flying' = flying /\ done' = done /\ submitted' = submitted
    BY <1>2, Zenon DEF CreateRequest
  <2> HIDE DEF c
  <2> QED BY <2>1, <2>2, <2>3, FreshKept, Zenon
<1>3. CASE SyncCookieFails(t) \/ CallReturns(t) \/ CallFails(t)
  <2>1. Moved(t, Idle) /\ Idle.pc = "idle"
    BY <1>3, EndMoves, Zenon DEF Idle
  <2>2. flying' = flying /\ done' = done /\ submitted' = submitted
    BY <1>3, Zenon DEF SyncCookieFails, CallReturns, CallFails
  <2> QED BY <2>1, <2>2, FreshKept, Zenon
<1>4. CASE CreateFails(t) \/ SendRefused(t)
  <2> DEFINE c == [pc |-> "failed", req |-> caller[t].req]
  <2>1. Moved(t, c) /\ c.pc = "failed"
    BY <1>4, OnMoves, Zenon
  <2>2. flying' = flying /\ done' = done /\ submitted' = submitted
    BY <1>4, Zenon DEF CreateFails, SendRefused
  <2> HIDE DEF c
  <2> QED BY <2>1, <2>2, FreshKept, Zenon
<1>5. CASE SendRequest(t)
  <2> DEFINE r == caller[t].req
  <2>1. caller'[t] = [pc |-> "sent", req |-> r] /\ \A u \in Callers \ {t} : caller'[u] = caller[u]
    BY <1>5, OnMoves, CallerMoves, Zenon
  <2>2. /\ t \in Unsent /\ r \in Built /\ flying' = flying \cup {r} /\ done' = done
        /\ submitted' = submitted
    BY <1>5, Zenon DEF SendRequest, Unsent, DcTypeOK
  <2>3. r # done /\ Outstanding' = Outstanding \cup {r}
    BY <2>2, NotNoReq, Zenon DEF Outstanding, Fresh, DcTypeOK
  <2>4. \A u \in Unsent' : u \in Unsent /\ u # t /\ caller'[u] = caller[u]
    BY <2>1 DEF Unsent
  <2> HIDE DEF r
  <2>5. r = caller[t].req
    BY DEF r
  <2> QED BY <2>2, <2>3, <2>4, <2>5, ZenonT(60) DEF Fresh
<1> QED BY <1>1, <1>2, <1>3, <1>4, <1>5, Zenon DEF CallStep

LEMMA OtherStepFresh ==
  ASSUME DcTypeOK, Fresh,
         OtherStep
  PROVE  Fresh'
<1>1. caller' = caller /\ submitted' = submitted
  BY Zenon DEF OtherStep, ProcessResponse, UnsupportedResponse, ResponseDone, ResetCheck, ResetWrite, RemoveSession
<1>2. Outstanding' \subseteq Outstanding /\ done' \notin flying'
  BY NotNoReq DEF OtherStep, ProcessResponse, UnsupportedResponse, ResponseDone, ResetCheck, ResetWrite, RemoveSession,
         Outstanding, Fresh, DcTypeOK
<1>3. Unsent' = Unsent
  BY <1>1 DEF Unsent
<1> QED BY <1>1, <1>2, <1>3, Zenon DEF Fresh
-----------------------------------------------------------------------------
(* The count. *)

LEMMA Finite ==
  ASSUME DcTypeOK
  PROVE  /\ IsFiniteSet(Holding) /\ Cardinality(Holding) \in Nat
         /\ IsFiniteSet(Outstanding) /\ Cardinality(Outstanding) \in Nat
         /\ Held \in Nat
<1>1. IsFiniteSet(Holding)
  BY FS_Subset, DcSessionAssumption, Zenon DEF Holding
<1>2. IsFiniteSet(flying \cup {done}) /\ Outstanding \subseteq flying \cup {done}
  BY FS_AddElement DEF DcTypeOK, Outstanding
<1>3. IsFiniteSet(Outstanding)
  BY <1>2, FS_Subset, Zenon
<1> QED BY <1>1, <1>3, FS_CardinalityType DEF Held

LEMMA HeldNat == DcTypeOK => Held \in Nat
  BY Finite, Zenon

\* Nothing counted means nothing there.
LEMMA HeldZero ==
  ASSUME DcTypeOK, Held <= 0
  PROVE  Holding = {} /\ Outstanding = {}
  BY Finite, FS_EmptySet DEF Held

LEMMA HeldEmpty ==
  ASSUME Holding = {}, Outstanding = {}
  PROVE  Held = 0
  BY FS_EmptySet DEF Held

\* A call takes its place, keeps it or leaves it.
LEMMA HoldingCount ==
  ASSUME DcTypeOK, NEW t \in Callers, NEW c, Moved(t, c), dc' = dc
  PROVE  LET holds == c.pc \in {"put", "failed"} \/ (dc.stateful /\ c.pc = "alloc")
         IN  /\ Holding' = IF holds THEN Holding \cup {t} ELSE Holding \ {t}
             /\ Cardinality(Holding') = Cardinality(Holding)
                  + (IF holds THEN 1 ELSE 0) - (IF t \in Holding THEN 1 ELSE 0)
<1> DEFINE holds == c.pc \in {"put", "failed"} \/ (dc.stateful /\ c.pc = "alloc")
<1>1. caller'[t] = c /\ \A u \in Callers \ {t} : caller'[u] = caller[u]
  BY CallerMoves, Zenon
<1>2. Holding' = IF holds THEN Holding \cup {t} ELSE Holding \ {t}
  BY <1>1, Zenon DEF Holding
<1>3. IsFiniteSet(Holding) /\ Cardinality(Holding) \in Nat
  BY Finite, Zenon
<1> HIDE DEF holds
<1>4. CASE holds
  <2>1. Cardinality(Holding \cup {t})
          = IF t \in Holding THEN Cardinality(Holding) ELSE Cardinality(Holding) + 1
    BY <1>3, FS_AddElement, Zenon
  <2> QED BY <1>2, <1>3, <1>4, <2>1 DEF holds
<1>5. CASE ~holds
  <2>1. Cardinality(Holding \ {t})
          = IF t \in Holding THEN Cardinality(Holding) - 1 ELSE Cardinality(Holding)
    BY <1>3, FS_RemoveElement, Zenon
  <2> QED BY <1>2, <1>3, <1>5, <2>1 DEF holds
<1> QED BY <1>2, <1>4, <1>5, Zenon DEF holds

\* A step keeps the count and what it counts in step, or notes why it does not.
Balanced ==
  \/ Held' - pending' = Held - pending
  \/ Held' = pending'
  \/ dcFlaws' \cap {"leaked", "unsupported"} # {} /\ Held' - pending' <= Held - pending
  \/ dcFlaws' \cap {"uncounted", "reset", "raced"} # {}

LEMMA CountedStep ==
  ASSUME DcTypeOK, DcTypeOK', Counted, Balanced, dcFlaws \subseteq dcFlaws'
  PROVE  Counted'
<1>0. PICK h, k, w, q : h = Held /\ k = Held' /\ w = pending /\ q = pending'
  BY Zenon
<1>1. h \in Nat /\ k \in Nat /\ w \in Int /\ q \in Int
  <2>1. (Held \in Nat)'
    BY HeldNat, PTL
  <2>2. pending \in Int /\ pending' \in Int
    BY Zenon DEF DcTypeOK
  <2> QED BY <1>0, <2>1, <2>2, HeldNat, Zenon
<1>2. \/ k - q = h - w \/ k = q
      \/ dcFlaws' \cap {"leaked", "unsupported"} # {} /\ k - q <= h - w
      \/ dcFlaws' \cap {"uncounted", "reset", "raced"} # {}
  BY <1>0, Zenon DEF Balanced
<1>3. ASSUME dcFlaws' \cap {"uncounted", "reset", "raced"} = {}
      PROVE  pending' >= Held'
  <2>1. w >= h
    BY <1>0, <1>3, Zenon DEF Counted
  <2>2. q >= k
    BY <1>1, <1>2, <1>3, <2>1
  <2> QED BY <1>0, <2>2, Zenon
<1>4. ASSUME dcFlaws' \cap {"leaked", "uncounted", "unsupported", "reset", "raced"} = {}
      PROVE  pending' = Held'
  <2>1. w = h
    BY <1>0, <1>4, Zenon DEF Counted, DcCountExact, Held
  <2>2. q = k
    BY <1>1, <1>2, <1>4, <2>1
  <2> QED BY <1>0, <2>2, Zenon
<1> QED BY <1>3, <1>4, Zenon DEF Counted, DcCountExact, Held

\* The calls whose request stays where it is.
LEMMA HeldMoves ==
  ASSUME DcTypeOK, NEW t \in Callers, NEW c, Moved(t, c), dc' = dc, Outstanding' = Outstanding
  PROVE  LET holds == c.pc \in {"put", "failed"} \/ (dc.stateful /\ c.pc = "alloc")
         IN  Held' = Held + (IF holds THEN 1 ELSE 0) - (IF t \in Holding THEN 1 ELSE 0)
<1> DEFINE n == (IF c.pc \in {"put", "failed"} \/ (dc.stateful /\ c.pc = "alloc") THEN 1 ELSE 0)
           m == (IF t \in Holding THEN 1 ELSE 0)
<1>1. Cardinality(Holding') = Cardinality(Holding) + n - m
  BY HoldingCount, Zenon
<1>2. Cardinality(Outstanding') = Cardinality(Outstanding)
  BY Zenon
<1>3. n \in Nat /\ m \in Nat /\ Cardinality(Holding) \in Nat /\ Cardinality(Outstanding) \in Nat
  BY Finite, Zenon
<1> HIDE DEF n, m
<1>4. Held' = Held + n - m
  BY <1>1, <1>2, <1>3 DEF Held
<1> QED BY <1>4, Zenon DEF n, m

LEMMA CallStepBalanced ==
  ASSUME DcTypeOK, Fresh, NEW t \in Callers, CallStep(t)
  PROVE  Balanced /\ dcFlaws \subseteq dcFlaws'
<1>0. Held \in Nat /\ pending \in Int /\ dc.stateful \in BOOLEAN
  BY Finite, SessionFields, Zenon DEF DcTypeOK
<1>1. CASE DcCall(t)
  <2>1. PICK d \in dc.dirs, f \in dc.flushes :
          Moved(t, [pc |-> "alloc", req |-> [id |-> submitted + 1, dir |-> d, flush |-> f]])
    BY <1>1, DcCallMoves, Zenon
  <2>2. dc' = dc /\ Outstanding' = Outstanding /\ t \notin Holding
    BY <1>1, Zenon DEF DcCall, Outstanding, Holding
  <2>3. Held' = Held + (IF dc.stateful THEN 1 ELSE 0)
    <3> DEFINE c == [pc |-> "alloc", req |-> [id |-> submitted + 1, dir |-> d, flush |-> f]]
    <3>1. c.pc = "alloc" /\ Moved(t, c)
      BY <2>1, Zenon
    <3> HIDE DEF c
    <3> QED BY <1>0, <2>2, <3>1, HeldMoves
  <2>4. pending' = pending + (IF dc.stateful THEN 1 ELSE 0) /\ dcFlaws' = dcFlaws
    BY <1>0, <1>1 DEF DcCall
  <2> QED BY <1>0, <2>3, <2>4 DEF Balanced
<1>2. CASE CreateRequest(t)
  <2> DEFINE r == caller[t].req
             c == [pc |-> "put", req |-> [id |-> r.id, dir |-> r.dir, flush |-> r.flush,
                                          sop |-> Sop(r.dir), start |-> ~mid]]
  <2>1. Moved(t, c) /\ c.pc = "put"
    BY <1>2, CreateRequestMoves, Zenon
  <2>2. dc' = dc /\ Outstanding' = Outstanding /\ (t \in Holding <=> dc.stateful)
    BY <1>2 DEF CreateRequest, Outstanding, Holding
  <2> HIDE DEF c
  <2>3. Held' = Held + 1 - (IF dc.stateful THEN 1 ELSE 0)
    BY <1>0, <2>1, <2>2, HeldMoves, Zenon
  <2>4. pending' = (IF dc.stateful THEN pending ELSE pending + 1) /\ dcFlaws' = dcFlaws
    BY <1>2, Zenon DEF CreateRequest
  <2> QED BY <1>0, <2>3, <2>4 DEF Balanced
<1>3. CASE SyncCookieFails(t)
  <2>1. Moved(t, Idle) /\ Idle.pc = "idle"
    BY <1>3, EndMoves, Zenon DEF Idle
  <2>2. dc' = dc /\ Outstanding' = Outstanding /\ (t \in Holding <=> dc.stateful)
    BY <1>3, Zenon DEF SyncCookieFails, Outstanding, Holding
  <2>3. Held' = Held - (IF dc.stateful THEN 1 ELSE 0)
    BY <1>0, <2>1, <2>2, HeldMoves
  <2>4. /\ pending' = pending /\ dcFlaws \subseteq dcFlaws' 
        /\ dc.stateful => "leaked" \in dcFlaws'
    BY <1>3, Zenon DEF SyncCookieFails
  <2> QED BY <1>0, <2>3, <2>4 DEF Balanced
<1>4. CASE CallReturns(t)
  <2>1. Moved(t, Idle) /\ Idle.pc = "idle"
    BY <1>4, EndMoves, Zenon DEF Idle
  <2>2. dc' = dc /\ Outstanding' = Outstanding /\ t \notin Holding
    BY <1>4, Zenon DEF CallReturns, Outstanding, Holding
  <2>3. Held' = Held
    BY <1>0, <2>1, <2>2, HeldMoves
  <2> QED BY <1>0, <1>4, <2>3, Zenon DEF Balanced, CallReturns
<1>5. CASE CallFails(t)
  <2>1. Moved(t, Idle) /\ Idle.pc = "idle"
    BY <1>5, EndMoves, Zenon DEF Idle
  <2>2. dc' = dc /\ Outstanding' = Outstanding /\ t \in Holding
    BY <1>5, Zenon DEF CallFails, Outstanding, Holding
  <2>3. Held' = Held - 1
    BY <1>0, <2>1, <2>2, HeldMoves
  <2> QED BY <1>0, <1>5, <2>3 DEF Balanced, CallFails
<1>6. CASE CreateFails(t)
  <2> DEFINE c == [pc |-> "failed", req |-> caller[t].req]
  <2>1. Moved(t, c) /\ c.pc = "failed"
    BY <1>6, OnMoves, Zenon
  <2>2. dc' = dc /\ Outstanding' = Outstanding /\ (t \in Holding <=> dc.stateful)
    BY <1>6, Zenon DEF CreateFails, Outstanding, Holding
  <2> HIDE DEF c
  <2>3. Held' = Held + 1 - (IF dc.stateful THEN 1 ELSE 0)
    BY <1>0, <2>1, <2>2, HeldMoves, Zenon
  <2>4. /\ pending' = pending /\ dcFlaws \subseteq dcFlaws' 
        /\ dc.stateful \/ "uncounted" \in dcFlaws'
    BY <1>6, Zenon DEF CreateFails
  <2> QED BY <1>0, <2>3, <2>4 DEF Balanced
<1>7. CASE SendRefused(t)
  <2> DEFINE c == [pc |-> "failed", req |-> caller[t].req]
  <2>1. Moved(t, c) /\ c.pc = "failed"
    BY <1>7, OnMoves, Zenon
  <2>2. dc' = dc /\ Outstanding' = Outstanding /\ t \in Holding
    BY <1>7, Zenon DEF SendRefused, Outstanding, Holding
  <2> HIDE DEF c
  <2>3. Held' = Held
    BY <1>0, <2>1, <2>2, HeldMoves
  <2> QED BY <1>0, <1>7, <2>3, Zenon DEF Balanced, SendRefused
<1>8. CASE SendRequest(t)
  <2> DEFINE c == [pc |-> "sent", req |-> caller[t].req]
             r == caller[t].req
  <2>1. Moved(t, c) /\ c.pc = "sent"
    BY <1>8, OnMoves, Zenon
  <2>2. dc' = dc /\ t \in Holding /\ t \in Unsent /\ r \in Built
    BY <1>8, Zenon DEF SendRequest, Holding, Unsent, DcTypeOK
  <2> HIDE DEF c
  <2>3. Cardinality(Holding') = Cardinality(Holding) - 1
    BY <2>1, <2>2, Finite, HoldingCount
  <2>4. Outstanding' = Outstanding \cup {r} /\ r \notin Outstanding
    BY <1>8, <2>2, NotNoReq, Zenon DEF SendRequest, Outstanding, Fresh
  <2>5. Cardinality(Outstanding') = Cardinality(Outstanding) + 1
    BY <2>4, Finite, FS_AddElement, Zenon
  <2>6. Held' = Held
    BY <2>3, <2>5, Finite DEF Held
  <2> QED BY <1>0, <1>8, <2>6, Zenon DEF Balanced, SendRequest
<1> QED BY <1>1, <1>2, <1>3, <1>4, <1>5, <1>6, <1>7, <1>8, Zenon DEF CallStep

LEMMA OtherHolding ==
  ASSUME OtherStep
  PROVE  caller' = caller /\ dc' = dc /\ submitted' = submitted /\ Holding' = Holding
<1>1. caller' = caller /\ dc' = dc /\ submitted' = submitted
  BY DEF OtherStep, ProcessResponse, UnsupportedResponse, ResponseDone, ResetCheck, ResetWrite,
         RemoveSession
<1> QED BY <1>1, Zenon DEF Holding

LEMMA OtherStepBalanced ==
  ASSUME DcTypeOK, Fresh, Counted, OtherStep
  PROVE  Balanced /\ dcFlaws \subseteq dcFlaws'
<1>0. /\ Cardinality(Holding) \in Nat /\ Cardinality(Outstanding) \in Nat /\ pending \in Int
      /\ Holding' = Holding /\ IsFiniteSet(Outstanding)
  BY Finite, OtherHolding, Zenon DEF DcTypeOK
<1>1. ASSUME NEW x \in Outstanding, Outstanding' = Outstanding \ {x}
      PROVE  Held' = Held - 1 /\ Held >= 1
  <2>1. Cardinality(Outstanding') = Cardinality(Outstanding) - 1
    BY <1>0, <1>1, FS_RemoveElement, Zenon
  <2>2. Cardinality(Outstanding) # 0
    BY <1>0, <1>1, FS_EmptySet, Zenon
  <2> QED BY <1>0, <2>1, <2>2 DEF Held
<1>2. ASSUME Outstanding' = Outstanding
      PROVE  Held' = Held
  BY <1>0, <1>2, Zenon DEF Held
<1>3. ASSUME NEW r \in flying, NEW pass \in BOOLEAN, ProcessResponse(r, pass)
      PROVE  Balanced /\ dcFlaws \subseteq dcFlaws'
  <2>1. Outstanding' = Outstanding
    BY <1>3, NotNoReq, Zenon DEF ProcessResponse, Outstanding, DcTypeOK
  <2> QED BY <1>0, <1>2, <1>3, <2>1, Zenon DEF ProcessResponse, Balanced
<1>4. ASSUME NEW r \in flying, UnsupportedResponse(r)
      PROVE  Balanced /\ dcFlaws \subseteq dcFlaws'
  <2>1. Outstanding' = Outstanding \ {r} /\ r \in Outstanding
    BY <1>4, Zenon DEF UnsupportedResponse, Outstanding
  <2>2. Held' = Held - 1 /\ pending' = pending /\ dcFlaws' = dcFlaws \cup {"unsupported"}
    BY <1>1, <1>4, <2>1, Zenon DEF UnsupportedResponse
  <2>3. Held \in Nat
    BY Finite, Zenon
  <2> QED BY <1>0, <2>2, <2>3 DEF Balanced
<1>5. CASE ResponseDone
  <2>1. Outstanding' = Outstanding \ {done} /\ done \in Outstanding
    BY <1>5, Zenon DEF ResponseDone, Outstanding, Fresh
  <2>2. Held' = Held - 1 /\ Held >= 1 /\ Held \in Nat
    BY <1>1, <2>1, Finite, Zenon
  <2>3. dcFlaws' = dcFlaws
    BY <1>5, Zenon DEF ResponseDone
  <2>4. CASE dcFlaws \cap {"uncounted", "reset", "raced"} # {}
    BY <2>3, <2>4, Zenon DEF Balanced
  <2>5. CASE dcFlaws \cap {"uncounted", "reset", "raced"} = {}
    <3>1. pending >= 1
      BY <1>0, <2>2, <2>5 DEF Counted
    <3>2. pending' = pending - 1
      BY <1>0, <1>5, <3>1 DEF ResponseDone
    <3> QED BY <1>0, <2>2, <2>3, <3>2 DEF Balanced
  <2> QED BY <2>4, <2>5, Zenon
<1>6. CASE ResetCheck
  <2>1. Outstanding' = Outstanding /\ pending' = pending /\ dcFlaws' = dcFlaws
    BY <1>6, Zenon DEF ResetCheck, Outstanding
  <2> QED BY <1>0, <1>2, <2>1, Zenon DEF Balanced
<1>7. CASE ResetWrite
  <2>1. CASE InCall # {} \/ Outstanding # {}
    BY <1>7, <2>1, Zenon DEF ResetWrite, Balanced
  <2>2. CASE InCall = {} /\ Outstanding = {}
    <3>1. Holding' = {} /\ Outstanding' = {}
      BY <1>0, <1>7, <2>2, Zenon DEF ResetWrite, Outstanding, Holding, InCall
    <3>2. Held' = 0
      BY <3>1, FS_EmptySet DEF Held
    <3> QED BY <1>7, <2>2, <3>2, Zenon DEF ResetWrite, Balanced
  <2> QED BY <2>1, <2>2, Zenon
<1>8. CASE RemoveSession
  <2>1. Outstanding' = Outstanding /\ pending' = pending /\ dcFlaws' = dcFlaws
    BY <1>8 DEF RemoveSession, Outstanding
  <2> QED BY <1>0, <1>2, <2>1, Zenon DEF Balanced
<1> QED BY <1>3, <1>4, <1>5, <1>6, <1>7, <1>8, Zenon DEF OtherStep
-----------------------------------------------------------------------------
(* The removed session. *)

LEMMA CallStepClosed ==
  ASSUME DcTypeOK, Closed, NEW t \in Callers, CallStep(t)
  PROVE  Closed'
<1>1. open' = open /\ resetter' = resetter /\ dc' = dc /\ dcFlaws \subseteq dcFlaws'
  BY Zenon DEF CallStep, DcCall, SyncCookieFails, CreateFails, CreateRequest, SendRequest, SendRefused,
         CallReturns, CallFails
<1>2. SUFFICES ASSUME ~open
               PROVE  Closed'
  BY <1>1, Zenon DEF Closed, RemovedQuiet
<1>3. CallReturns(t)
  BY <1>2, Zenon DEF Closed, CallStep, DcCall, SyncCookieFails, CreateFails, CreateRequest, SendRequest,
              SendRefused, CallFails
<1>4. caller'[t].pc = "idle" /\ \A u \in Callers \ {t} : caller'[u] = caller[u]
  BY <1>3, EndMoves, CallerMoves DEF Idle
<1>5. Outstanding' = Outstanding
  BY <1>3 DEF CallReturns, Outstanding
<1> QED BY <1>1, <1>2, <1>4, <1>5, Zenon DEF Closed, RemovedQuiet

LEMMA OtherStepClosed ==
  ASSUME DcTypeOK, Counted, Closed, OtherStep
  PROVE  Closed'
<1>1. caller' = caller /\ dcFlaws \subseteq dcFlaws'
  BY OtherHolding, Zenon DEF OtherStep, ProcessResponse, UnsupportedResponse, ResponseDone, ResetCheck, ResetWrite,
                      RemoveSession
<1>2. CASE ~open
  <2>1. open' = open /\ resetter' = resetter /\ Outstanding' \subseteq Outstanding
    BY <1>2, NotNoReq, Zenon DEF OtherStep, ProcessResponse, UnsupportedResponse, ResponseDone, ResetCheck, ResetWrite,
                RemoveSession, Closed, Outstanding, DcTypeOK
  <2> QED BY <1>1, <1>2, <2>1, Zenon DEF Closed, RemovedQuiet
<1>3. CASE open /\ ~RemoveSession
  <2>1. open' = open
    BY <1>3, Zenon DEF OtherStep, ProcessResponse, UnsupportedResponse, ResponseDone, ResetCheck, ResetWrite
  <2> QED BY <1>3, <2>1, Zenon DEF Closed, RemovedQuiet
<1>4. CASE RemoveSession
  <2>1. resetter' = "idle" /\ \A t \in Callers : caller'[t].pc \in {"idle", "sent"}
    BY <1>4, Zenon DEF RemoveSession, CallSeenOver
  <2>2. Outstanding' = Outstanding /\ dcFlaws' = dcFlaws
    BY <1>4, Zenon DEF RemoveSession, Outstanding
  <2>3. dcFlaws \cap {"uncounted", "reset", "raced"} = {} => Outstanding = {}
    <3>1. SUFFICES ASSUME dcFlaws \cap {"uncounted", "reset", "raced"} = {} PROVE Outstanding = {}
      BY Zenon
    <3>2. 0 >= Held /\ Held \in Nat
      BY <1>4, <3>1, Finite, Zenon DEF Counted, RemoveSession
    <3> QED BY <3>2, HeldZero, Zenon
  <2> QED BY <2>1, <2>2, <2>3, Zenon DEF Closed, RemovedQuiet
<1> QED BY <1>2, <1>3, <1>4, Zenon DEF DcTypeOK
-----------------------------------------------------------------------------
(* A stateful session has one request at a time. *)

LEMMA CallStepSingle ==
  ASSUME DcTypeOK, Fresh, Single, NEW t \in Callers, CallStep(t)
  PROVE  Single'
<1>0. dc' = dc /\ dcFlaws \subseteq dcFlaws' /\ done' = done
  BY Zenon DEF CallStep, DcCall, SyncCookieFails, CreateFails, CreateRequest, SendRequest, SendRefused,
         CallReturns, CallFails
<1> SUFFICES ASSUME dc.stateful, dcFlaws' \cap {"reset", "raced"} = {}
             PROVE  /\ \A u, v \in Holding' : u = v
                    /\ \A r, s \in Outstanding' : r = s
                    /\ Holding' # {} => Outstanding' = {}
                    /\ Holding' # {} \/ Outstanding' # {} => pending' > 0
  BY <1>0, Zenon DEF Single
<1>1. /\ \A u, v \in Holding : u = v
      /\ \A r, s \in Outstanding : r = s
      /\ Holding # {} => Outstanding = {}
      /\ Holding # {} \/ Outstanding # {} => pending > 0
  BY <1>0, Zenon DEF Single
<1>2. CASE DcCall(t)
  <2>1. pending = 0 /\ pending' = pending + 1 /\ Outstanding' = Outstanding
    BY <1>2, Zenon DEF DcCall, Outstanding
  <2>2. Holding = {} /\ Outstanding = {}
    BY <1>1, <2>1
  <2>3. \E c : Moved(t, c) /\ c.pc = "alloc"
    BY <1>2, MovesTo, Zenon
  <2>4. Holding' = {t}
    BY <1>0, <2>2, <2>3, HoldingCount, Zenon
  <2> QED BY <2>1, <2>2, <2>4
<1>3. CASE CreateRequest(t) \/ CreateFails(t) \/ SendRefused(t)
  <2>1. \E c : Moved(t, c) /\ c.pc \in {"put", "failed"}
    BY <1>3, MovesTo, Zenon
  <2>2. t \in Holding /\ Outstanding' = Outstanding /\ pending' = pending
    BY <1>3, Zenon DEF CreateRequest, CreateFails, SendRefused, Outstanding, Holding
  <2>3. Holding' = Holding
    BY <1>0, <2>1, <2>2, HoldingCount, Zenon
  <2> QED BY <1>1, <2>2, <2>3, Zenon
<1>4. CASE SyncCookieFails(t) \/ CallFails(t)
  <2>1. Moved(t, Idle) /\ Idle.pc = "idle"
    BY <1>4, EndMoves, Zenon DEF Idle
  <2>2. t \in Holding /\ Outstanding' = Outstanding
    BY <1>4, Zenon DEF SyncCookieFails, CallFails, Outstanding, Holding
  <2>3. Holding' = {} /\ Outstanding' = {}
    BY <1>0, <1>1, <2>1, <2>2, HoldingCount, Zenon
  <2> QED BY <2>3, Zenon
<1>5. CASE CallReturns(t)
  <2>1. Moved(t, Idle) /\ Idle.pc = "idle"
    BY <1>5, EndMoves, Zenon DEF Idle
  <2>2. t \notin Holding /\ Outstanding' = Outstanding /\ pending' = pending
    BY <1>5, Zenon DEF CallReturns, Outstanding, Holding
  <2>3. Holding' = Holding
    BY <1>0, <2>1, <2>2, HoldingCount, Zenon
  <2> QED BY <1>1, <2>2, <2>3, Zenon
<1>6. CASE SendRequest(t)
  <2>1. \E c : Moved(t, c) /\ c.pc = "sent"
    BY <1>6, MovesTo, Zenon
  <2>2. t \in Holding /\ flying' = flying \cup {caller[t].req} /\ pending' = pending
    BY <1>6, Zenon DEF SendRequest, Holding
  <2>3. Outstanding = {} /\ pending > 0
    BY <1>1, <2>2, Zenon
  <2>4. Holding' = {} /\ Outstanding' \subseteq {caller[t].req}
    BY <1>0, <1>1, <2>1, <2>2, <2>3, HoldingCount DEF Outstanding
  <2> QED BY <2>2, <2>3, <2>4, Zenon
<1> QED BY <1>2, <1>3, <1>4, <1>5, <1>6, Zenon DEF CallStep

LEMMA OtherStepSingle ==
  ASSUME DcTypeOK, Fresh, Single, OtherStep
  PROVE  Single'
<1>0. dc' = dc /\ dcFlaws \subseteq dcFlaws' /\ Holding' = Holding
  BY OtherHolding, Zenon DEF OtherStep, ProcessResponse, UnsupportedResponse, ResponseDone, ResetCheck,
                      ResetWrite, RemoveSession
<1> SUFFICES ASSUME dc.stateful, dcFlaws' \cap {"reset", "raced"} = {}
             PROVE  /\ \A u, v \in Holding' : u = v
                    /\ \A r, s \in Outstanding' : r = s
                    /\ Holding' # {} => Outstanding' = {}
                    /\ Holding' # {} \/ Outstanding' # {} => pending' > 0
  BY <1>0, Zenon DEF Single
<1>1. /\ \A u, v \in Holding : u = v
      /\ \A r, s \in Outstanding : r = s
      /\ Holding # {} => Outstanding = {}
      /\ Holding # {} \/ Outstanding # {} => pending > 0
  BY <1>0, Zenon DEF Single
<1>2. Outstanding' \subseteq Outstanding
  BY NotNoReq, Zenon DEF OtherStep, ProcessResponse, UnsupportedResponse, ResponseDone, ResetCheck, ResetWrite,
                  RemoveSession, Outstanding, DcTypeOK
<1>3. CASE ResponseDone
  <2>1. Outstanding' = Outstanding \ {done} /\ done \in Outstanding
    BY <1>3, Zenon DEF ResponseDone, Outstanding, Fresh
  <2>2. Holding = {} /\ Outstanding' = {}
    BY <1>1, <2>1, Zenon
  <2> QED BY <1>0, <2>2, Zenon
<1>4. CASE ResetWrite
  <2>1. InCall = {} /\ Outstanding = {}
    BY <1>4, Zenon DEF ResetWrite
  <2>2. Holding = {}
    BY <2>1, Zenon DEF Holding, InCall
  <2> QED BY <1>0, <1>2, <2>1, <2>2, Zenon
<1>5. CASE pending' = pending
  BY <1>0, <1>1, <1>2, <1>5, Zenon
<1> QED BY <1>3, <1>4, <1>5, Zenon DEF OtherStep, ProcessResponse, UnsupportedResponse, ResetCheck, RemoveSession
-----------------------------------------------------------------------------
(* The framing of a stream. *)

\* What Single says of a stateful session, thread by thread.
LEMMA Alone ==
  ASSUME DcTypeOK, Single, dc.stateful, dcFlaws \cap {"reset", "raced"} = {}
  PROVE  /\ \A t \in Callers : caller[t].pc \in {"alloc", "put", "failed"} =>
              /\ Outstanding = {} /\ flying = {} /\ done = NoReq /\ pending > 0
              /\ \A u \in Callers \ {t} : caller[u].pc \notin {"alloc", "put", "failed"}
         /\ Outstanding # {} =>
              /\ \A u \in Callers : caller[u].pc \notin {"alloc", "put", "failed"}
              /\ pending > 0 /\ \A r, s \in Outstanding : r = s
         /\ pending = 0 => /\ Outstanding = {} /\ flying = {} /\ done = NoReq
                           /\ \A u \in Callers : caller[u].pc \notin {"alloc", "put", "failed"}
<1>1. Holding = {t \in Callers : caller[t].pc \in {"alloc", "put", "failed"}}
  BY DEF Holding
<1>2. Outstanding = {} => flying = {} /\ done = NoReq
  BY DEF Outstanding
<1> QED BY <1>1, <1>2 DEF Single, DcTypeOK

LEMMA CallStepFramed ==
  ASSUME DcTypeOK, Fresh, Single, Framed, NEW t \in Callers, CallStep(t)
  PROVE  Framed'
<1>0. dc' = dc /\ dcFlaws \subseteq dcFlaws' /\ done' = done
  BY Zenon DEF CallStep, DcCall, SyncCookieFails, CreateFails, CreateRequest, SendRequest, SendRefused,
         CallReturns, CallFails
<1>1. SUFFICES ASSUME OneWay, OneWay'
               PROVE  Framed'
  BY <1>0, Zenon DEF Framed, OneWay
<1>2. /\ \A r \in Outstanding : r.sop <=> r.start
      /\ \A u \in Callers : caller[u].pc = "alloc" => caller[u].req.dir \in dc.dirs
      /\ \A u \in Callers : caller[u].pc = "put" =>
           /\ previousRequestType = "first" <=> ~mid
           /\ (caller[u].req.sop <=> ~mid) /\ (caller[u].req.start <=> ~mid)
      /\ (pending = 0 \/ done # NoReq \/ \E u \in Callers : caller[u].pc \in {"alloc", "failed"})
           => Agree
      /\ FirstDone \/ (requestType = "first" /\ flying = {})
      /\ FirstDone \/ \A u \in Callers : caller[u].pc # "put"
  BY <1>1, Zenon DEF Framed
<1>3. dc.stateful /\ dcFlaws \cap {"reset", "raced"} = {}
  BY <1>1, Zenon DEF OneWay
<1>4. CASE DcCall(t)
  <2>1. pending = 0 /\ Outstanding = {} /\ flying = {} /\ done = NoReq
        /\ \A u \in Callers : caller[u].pc \notin {"alloc", "put", "failed"}
    BY <1>3, <1>4, Alone, Zenon DEF DcCall
  <2>2. \E c : Moved(t, c) /\ c.pc = "alloc"
    BY <1>4, MovesTo, Zenon
  <2>3. /\ caller'[t].pc = "alloc" /\ caller'[t].req.dir \in dc.dirs
        /\ \A u \in Callers \ {t} : caller'[u] = caller[u]
    BY <2>2, CallerMoves, Zenon DEF Moved
  <2>4. Outstanding' = Outstanding /\ FirstDone' = FirstDone /\ Agree' = Agree
    BY <1>4, Zenon DEF DcCall, Outstanding, FirstDone, Agree, desc
  <2>5. requestType' = requestType /\ flying' = flying
    BY <1>4, Zenon DEF DcCall, desc
  <2> QED BY <1>0, <1>2, <2>1, <2>3, <2>4, <2>5, Zenon DEF Framed
<1>5. CASE CreateRequest(t)
  <2> DEFINE r == caller[t].req
             c == [pc |-> "put", req |-> [id |-> r.id, dir |-> r.dir, flush |-> r.flush,
                                          sop |-> Sop(r.dir), start |-> ~mid]]
  <2>1. caller[t].pc = "alloc" /\ Agree /\ r.dir \in dc.dirs
    BY <1>2, <1>5, Zenon DEF CreateRequest
  <2>2. Outstanding = {} /\ flying = {} /\ done = NoReq /\ pending > 0
        /\ \A u \in Callers \ {t} : caller[u].pc \notin {"alloc", "put", "failed"}
    BY <1>3, <2>1, Alone, Zenon
  <2>3. Moved(t, c) /\ c.pc = "put" /\ c.req.sop = Sop(r.dir) /\ c.req.start = ~mid
    BY <1>5, CreateRequestMoves, Zenon
  <2> HIDE DEF c
  <2>4. /\ caller'[t] = c
        /\ \A u \in Callers \ {t} : caller'[u].pc \notin {"alloc", "put", "failed"}
    BY <2>2, <2>3, CallerMoves, Zenon
  <2>5. /\ previousRequestType' = requestType /\ mid' = mid /\ flying' = {} /\ pending' = pending
        /\ isSopProcessed' = [isSopProcessed EXCEPT ![r.dir] = TRUE] /\ Outstanding' = {}
    BY <1>3, <1>5, <2>2, Zenon DEF CreateRequest, Outstanding
  <2>6. dc.dirs = {r.dir} /\ r.dir \in Dirs
    BY <1>1, <2>1, SessionFields, Zenon DEF OneWay
  <2>7. FirstDone'
    BY <1>0, <2>5, <2>6, Zenon DEF FirstDone, DcTypeOK
  <2>8. Sop(r.dir) <=> requestType = "first"
    BY <1>2, <1>3, <2>6, Zenon DEF Sop, FirstDone
  <2>9. (c.req.sop <=> ~mid) /\ (c.req.start <=> ~mid)
    BY <2>1, <2>3, <2>8, Zenon DEF Agree
  <2>10. previousRequestType' = "first" <=> ~mid'
    BY <2>1, <2>5, Zenon DEF Agree
  <2>11. \A u \in Callers : caller'[u].pc = "put" =>
           (caller'[u].req.sop <=> ~mid') /\ (caller'[u].req.start <=> ~mid')
    BY <2>4, <2>5, <2>9, Zenon
  <2>12. ~(pending' = 0 \/ done' # NoReq \/ \E u \in Callers : caller'[u].pc \in {"alloc", "failed"})
    BY <1>0, <2>2, <2>3, <2>4, <2>5
  <2>13. \A u \in Callers : caller'[u].pc # "alloc"
    BY <2>3, <2>4, Zenon
  <2> QED BY <2>5, <2>7, <2>10, <2>11, <2>12, <2>13, Zenon DEF Framed
<1>6. CASE SendRequest(t)
  <2> DEFINE r == caller[t].req
  <2>1. Outstanding = {} /\ flying = {} /\ done = NoReq /\ pending > 0 /\ caller[t].pc = "put"
        /\ \A u \in Callers \ {t} : caller[u].pc \notin {"alloc", "put", "failed"}
    BY <1>3, <1>6, Alone, Zenon DEF SendRequest
  <2>2. \E c : Moved(t, c) /\ c.pc = "sent"
    BY <1>6, MovesTo, Zenon
  <2>3. \A u \in Callers : caller'[u].pc \notin {"alloc", "put", "failed"}
    BY <2>1, <2>2, CallerMoves, Zenon
  <2>4. /\ Outstanding' \subseteq {r} /\ pending' = pending
        /\ isSopProcessed' = isSopProcessed
    BY <1>6, <2>1, Zenon DEF SendRequest, Outstanding, desc
  <2>5. FirstDone' /\ (r.sop <=> r.start)
    BY <1>0, <1>2, <2>1, <2>4, Zenon DEF FirstDone
  <2>6. \A x \in Outstanding' : x.sop <=> x.start
    BY <2>4, <2>5, Zenon
  <2>7. ~(pending' = 0 \/ done' # NoReq \/ \E u \in Callers : caller'[u].pc \in {"alloc", "failed"})
    BY <1>0, <2>1, <2>3, <2>4
  <2> QED BY <2>3, <2>5, <2>6, <2>7, Zenon DEF Framed
<1>7. CASE SendRefused(t)
  <2>1. Outstanding = {} /\ flying = {} /\ done = NoReq /\ pending > 0 /\ caller[t].pc = "put"
        /\ \A u \in Callers \ {t} : caller[u].pc \notin {"alloc", "put", "failed"}
    BY <1>3, <1>7, Alone, Zenon DEF SendRefused
  <2>2. \E c : Moved(t, c) /\ c.pc = "failed"
    BY <1>7, MovesTo, Zenon
  <2>3. \A u \in Callers : caller'[u].pc \notin {"alloc", "put"}
    BY <2>1, <2>2, CallerMoves, ZenonT(60)
  <2>4. /\ Outstanding' = {} /\ isSopProcessed' = isSopProcessed
        /\ requestType' = previousRequestType /\ mid' = mid
    BY <1>3, <1>7, <2>1, Zenon DEF SendRefused, Outstanding, desc
  <2>5. FirstDone' /\ Agree'
    BY <1>0, <1>2, <2>1, <2>4, Zenon DEF FirstDone, Agree
  <2> QED BY <2>3, <2>4, <2>5, Zenon DEF Framed
<1>8. CASE CreateFails(t)
  <2>1. \E c : Moved(t, c) /\ c.pc = "failed"
    BY <1>8, MovesTo, Zenon
  <2>2. caller'[t].pc = "failed" /\ \A u \in Callers \ {t} : caller'[u] = caller[u]
    BY <2>1, CallerMoves, Zenon
  <2>3. Outstanding' = Outstanding /\ FirstDone' = FirstDone /\ requestType' = requestType
        /\ flying' = flying /\ mid' = mid /\ previousRequestType' = previousRequestType
    BY <1>8, Zenon DEF CreateFails, Outstanding, FirstDone, desc
  <2>4. Agree /\ Agree'
    BY <1>2, <1>8, <2>3 DEF CreateFails, Agree
  <2> QED BY <1>0, <1>2, <2>2, <2>3, <2>4, Zenon DEF Framed
<1>9. CASE SyncCookieFails(t) \/ CallReturns(t) \/ CallFails(t)
  <2>1. Moved(t, Idle) /\ Idle.pc = "idle"
    BY <1>9, EndMoves, Zenon DEF Idle
  <2>2. caller'[t].pc = "idle" /\ \A u \in Callers \ {t} : caller'[u] = caller[u]
    BY <2>1, CallerMoves, Zenon
  <2>3. Outstanding' = Outstanding /\ FirstDone' = FirstDone /\ requestType' = requestType
        /\ flying' = flying /\ mid' = mid /\ previousRequestType' = previousRequestType
    BY <1>9, Zenon DEF SyncCookieFails, CallReturns, CallFails, Outstanding, FirstDone, desc
  <2>4. pending' = pending \/ Agree
    BY <1>2, <1>9, Zenon DEF SyncCookieFails, CallReturns, CallFails
  <2>5. Agree' = Agree
    BY <2>3, Zenon DEF Agree
  <2> QED BY <1>0, <1>2, <2>2, <2>3, <2>4, <2>5, Zenon DEF Framed
<1> QED BY <1>4, <1>5, <1>6, <1>7, <1>8, <1>9, Zenon DEF CallStep

LEMMA OtherStepFramed ==
  ASSUME DcTypeOK, Fresh, Single, Framed, OtherStep
  PROVE  Framed'
<1>0. dc' = dc /\ dcFlaws \subseteq dcFlaws' /\ caller' = caller
  BY OtherHolding, Zenon DEF OtherStep, ProcessResponse, UnsupportedResponse, ResponseDone, ResetCheck,
                      ResetWrite, RemoveSession
<1>1. SUFFICES ASSUME OneWay, OneWay'
               PROVE  Framed'
  BY <1>0, Zenon DEF Framed, OneWay
<1>2. /\ \A r \in Outstanding : r.sop <=> r.start
      /\ \A u \in Callers : caller[u].pc = "alloc" => caller[u].req.dir \in dc.dirs
      /\ \A u \in Callers : caller[u].pc = "put" =>
           /\ previousRequestType = "first" <=> ~mid
           /\ (caller[u].req.sop <=> ~mid) /\ (caller[u].req.start <=> ~mid)
      /\ (pending = 0 \/ done # NoReq \/ \E u \in Callers : caller[u].pc \in {"alloc", "failed"})
           => Agree
      /\ FirstDone \/ (requestType = "first" /\ flying = {})
      /\ FirstDone \/ \A u \in Callers : caller[u].pc # "put"
  BY <1>1, Zenon DEF Framed
<1>3. dc.stateful /\ dcFlaws \cap {"reset", "raced"} = {}
  BY <1>1, Zenon DEF OneWay
<1>4. Outstanding' \subseteq Outstanding /\ flying' \subseteq flying
  BY NotNoReq, Zenon DEF OtherStep, ProcessResponse, UnsupportedResponse, ResponseDone, ResetCheck,
                  ResetWrite, RemoveSession, Outstanding, DcTypeOK
<1>5. FirstDone' = FirstDone
  BY <1>0, Zenon DEF OtherStep, ProcessResponse, UnsupportedResponse, ResponseDone, ResetCheck,
              ResetWrite, RemoveSession, FirstDone, desc
<1>6. ASSUME NEW r \in flying, NEW pass \in BOOLEAN, ProcessResponse(r, pass)
      PROVE  Framed'
  <2>1. \A u \in Callers : caller'[u].pc \notin {"alloc", "put", "failed"}
    BY <1>0, <1>3, <1>6, Alone, Zenon DEF Outstanding
  <2>2. FirstDone'
    BY <1>2, <1>5, <1>6, Zenon
  <2>3. Agree'
    <3>1. (r.flush = "final" /\ pass) \in BOOLEAN
      BY Zenon
    <3>2. CASE r.flush = "final" /\ pass
      <4>1. requestType' = "first" /\ ~mid'
        BY <1>6, <3>2, Zenon DEF ProcessResponse
      <4> QED BY <4>1, Zenon DEF Agree
    <3>3. CASE ~(r.flush = "final" /\ pass)
      <4>1. requestType' = "subsequent" /\ mid'
        BY <1>6, <3>3, Zenon DEF ProcessResponse
      <4> QED BY <4>1, Zenon DEF Agree
    <3> QED BY <3>2, <3>3, Zenon
  <2> QED BY <1>2, <1>4, <2>1, <2>2, <2>3, Zenon DEF Framed
<1>7. ASSUME NEW r \in flying, UnsupportedResponse(r)
      PROVE  Framed'
  <2>1. pending > 0 /\ \A u \in Callers : caller'[u].pc \notin {"alloc", "put", "failed"}
    BY <1>0, <1>3, <1>7, Alone, Zenon DEF Outstanding
  <2>2. FirstDone'
    BY <1>2, <1>5, <1>7, Zenon
  <2>3. pending' = pending /\ done' = NoReq
    BY <1>7, Zenon DEF UnsupportedResponse
  <2> QED BY <1>2, <1>4, <2>1, <2>2, <2>3 DEF Framed
<1>8. CASE ResponseDone
  <2>1. Agree /\ requestType' = requestType /\ mid' = mid /\ flying' = flying
        /\ previousRequestType' = previousRequestType
    BY <1>2, <1>8, Zenon DEF ResponseDone, desc
  <2>2. Agree'
    BY <2>1, Zenon DEF Agree
  <2> QED BY <1>0, <1>2, <1>4, <1>5, <2>1, <2>2, Zenon DEF Framed
<1>9. CASE ResetCheck \/ RemoveSession
  <2>1. requestType' = requestType /\ mid' = mid /\ flying' = flying /\ done' = done
        /\ previousRequestType' = previousRequestType /\ pending' = pending
    BY <1>9, Zenon DEF ResetCheck, RemoveSession, desc
  <2>2. Agree' = Agree
    BY <2>1, Zenon DEF Agree
  <2> QED BY <1>0, <1>2, <1>4, <1>5, <2>1, <2>2, Zenon DEF Framed
<1>10. CASE ResetWrite
  <2>1. InCall = {} /\ Outstanding = {}
    BY <1>1, <1>10, Zenon DEF ResetWrite, OneWay
  <2>2. \A u \in Callers : caller'[u].pc = "idle"
    BY <1>0, <2>1, Zenon DEF InCall
  <2>3. requestType' = "first" /\ ~mid' /\ flying' = {}
    BY <1>10, <2>1, Zenon DEF ResetWrite, Outstanding
  <2>4. Agree'
    BY <2>3 DEF Agree
  <2> QED BY <1>4, <2>1, <2>2, <2>3, <2>4, Zenon DEF Framed
<1> QED BY <1>6, <1>7, <1>8, <1>9, <1>10, Zenon DEF OtherStep
-----------------------------------------------------------------------------
LEMMA DcInitInv ==
  ASSUME DcInit
  PROVE  DcInv
<1>1. DcTypeOK
  BY DcInitType, Zenon
<1>2. \A t \in Callers : caller[t].pc = "idle"
  BY Zenon DEF DcInit, Idle
<1>3. Outstanding = {} /\ Holding = {} /\ Unsent = {}
  BY <1>2, Zenon DEF DcInit, Outstanding, Holding, Unsent
<1>4. Fresh
  BY <1>3, Zenon DEF DcInit, Fresh
<1>5. Held = 0 /\ pending = 0
  BY <1>3, HeldEmpty, Zenon DEF DcInit
<1>6. Counted
  BY <1>5 DEF Counted, DcCountExact, Held
<1>7. Closed
  BY <1>3, Zenon DEF DcInit, Closed, RemovedQuiet
<1>8. Single
  BY <1>3, Zenon DEF Single
<1>9. Agree
  BY Zenon DEF DcInit, Agree
<1>10. Framed
  BY <1>2, <1>3, <1>9, Zenon DEF Framed, DcInit
<1> QED BY <1>1, <1>4, <1>6, <1>7, <1>8, <1>10, Zenon DEF DcInv

LEMMA DcStepInv ==
  ASSUME DcInv, [DcNext]_dcVars
  PROVE  DcInv'
<1>1. ASSUME NEW t \in Callers, CallStep(t)
      PROVE  DcInv'
  <2>1. DcTypeOK' /\ Fresh' /\ Closed' /\ Single' /\ Framed'
    BY <1>1, CallStepType, CallStepFresh, CallStepClosed, CallStepSingle, CallStepFramed, Zenon DEF DcInv
  <2>2. Counted'
    BY <1>1, <2>1, CallStepBalanced, CountedStep, Zenon DEF DcInv
  <2> QED BY <2>1, <2>2, Zenon DEF DcInv
<1>2. ASSUME OtherStep
      PROVE  DcInv'
  <2>1. DcTypeOK' /\ Fresh' /\ Closed' /\ Single' /\ Framed'
    BY <1>2, OtherStepType, OtherStepFresh, OtherStepClosed, OtherStepSingle, OtherStepFramed, Zenon DEF DcInv
  <2>2. Counted'
    BY <1>2, <2>1, OtherStepBalanced, CountedStep, Zenon DEF DcInv
  <2> QED BY <2>1, <2>2, Zenon DEF DcInv
<1>3. ASSUME UNCHANGED dcVars
      PROVE  DcInv'
  BY <1>3, ZenonT(120) DEF DcInv, dcVars, DcTypeOK, Fresh, Counted, Closed, Single, Framed, OneWay, Agree, FirstDone,
              Held, Holding, Outstanding, Unsent, DcCountExact, RemovedQuiet
<1> QED BY <1>1, <1>2, <1>3, Zenon DEF DcNext, CallStep, OtherStep

\* The inductive invariant: the requests of a session are told apart, counted,
\* one at a time when it is stateful, and the type of the next one agrees with
\* the stream wherever a request may be created or refused.
THEOREM DcInvariant == DcSpec => []DcInv
  BY DcInitInv, DcStepInv, PTL DEF DcSpec

\* The pending count of cpaDcCompressData2 and dcCompression_ProcessCallback is
\* exact on every path but the named ones, for any number of threads and requests.
THEOREM DcCountIsExact == DcSpec => []DcCountExact
<1>1. DcInv => DcCountExact
  BY Zenon DEF DcInv, Counted
<1> QED BY <1>1, DcInvariant, PTL

\* After cpaDcRemoveSession returned success no response is due to the session.
THEOREM RemovedIsQuiet == DcSpec => []RemovedQuiet
<1>1. DcInv => RemovedQuiet
  BY Zenon DEF DcInv, Closed
<1> QED BY <1>1, DcInvariant, PTL

\* A stateful session of one direction flags the start of a packet exactly where
\* a stream begins.
THEOREM StreamIsFramed == DcSpec => []StreamFramed
<1>1. DcInv => StreamFramed
  <2>1. SUFFICES ASSUME DcInv, dc.stateful, Cardinality(dc.dirs) = 1,
                        dcFlaws \cap {"full", "reset", "raced"} = {}, NEW r \in Outstanding
                 PROVE  r.sop = r.start
    BY Zenon DEF StreamFramed
  <2>2. dc.dirs \subseteq Dirs
    BY <2>1, SessionFields, Zenon DEF DcInv
  <2>3. IsFiniteSet(dc.dirs)
    <3>1. IsFiniteSet({"comp"} \cup {"decomp"})
      BY FS_Singleton, FS_AddElement, Zenon
    <3>2. Dirs = {"comp"} \cup {"decomp"}
      BY Zenon DEF Dirs
    <3> QED BY <2>2, <3>1, <3>2, FS_Subset, Zenon
  <2>4. \E d : dc.dirs = {d}
    BY <2>1, <2>3, FS_Singleton, Zenon
  <2>5. OneWay
    BY <2>1, <2>2, <2>4, Zenon DEF OneWay
  <2>6. r.sop <=> r.start
    BY <2>1, <2>5, Zenon DEF DcInv, Framed
  <2>7. r.sop \in BOOLEAN /\ r.start \in BOOLEAN
    BY <2>1, NotNoReq, Zenon DEF DcInv, DcTypeOK, Outstanding
  <2>8. CASE r.sop = TRUE
    BY <2>6, <2>7, <2>8, Zenon
  <2>9. CASE r.sop = FALSE
    BY <2>6, <2>7, <2>9, Zenon
  <2> QED BY <2>7, <2>8, <2>9, Zenon
<1> QED BY <1>1, DcInvariant, PTL
-----------------------------------------------------------------------------
(* The events of a device and the process that uses it.                      *)

States == {"uninit", "initialized", "running", "shutting", "restarting", "freed"}
Container == [live : BOOLEAN, cy : States, dc : States]
Table == [sal : Int, mapped : BOOLEAN, sys : BOOLEAN]
Bits == [init : BOOLEAN, start : BOOLEAN, failed : BOOLEAN]
Proc == [run : {"off", "on", "failed", "crashed"}, tbl : Table, reset : BOOLEAN,
         saved : Nat, bits : Bits, cont : Seq(Container)]

\* The one container that is allocated, Null if there is none.
Only(q, o) == \A c \in DOMAIN q.cont : q.cont[c].live <=> c = o

\* The process does not know the device.  A container that was handed on waits.
Away(q) ==
  /\ q.tbl = NoDev
  /\ q.reset <=> q.saved # Null
  /\ q.reset => q.saved \in DOMAIN q.cont
                /\ q.cont[q.saved].cy = "restarting" /\ q.cont[q.saved].dc = "restarting"
  /\ Only(q, q.saved)

\* It knows the device, and its services run or were stopped.
Here(q) ==
  /\ q.tbl.sal \in DOMAIN q.cont /\ q.tbl.mapped /\ q.bits.init
  /\ q.saved = IF q.reset THEN q.tbl.sal ELSE Null
  /\ q.bits.start <=> q.tbl.sys
  /\ IF q.tbl.sys THEN Cont(q).cy = "running" /\ Cont(q).dc = "running"
     ELSE Cont(q).cy = "shutting" /\ Cont(q).dc \in {"shutting", "restarting"}
  /\ Only(q, q.tbl.sal)

Freed(q) == \A c \in DOMAIN q.cont : ~q.cont[c].live => q.cont[c].cy = "freed" /\ q.cont[c].dc = "freed"

\* What is allocated stays allocated.
Keeps(q, r) == \A c \in DOMAIN q.cont : q.cont[c].live => c \in DOMAIN r.cont /\ r.cont[c].live

\* The instances of the device's container change their states.
Set(q, x, y) == Put(q, [Cont(q) EXCEPT !.cy = x, !.dc = y])
-----------------------------------------------------------------------------
(* What the operations return when nothing fails.                            *)

LEMMA Puts ==
  ASSUME NEW q \in Proc, q.tbl.sal \in DOMAIN q.cont, NEW c \in Container,
         NEW r, r = Put(q, c)
  PROVE  /\ r \in Proc /\ DOMAIN r.cont = DOMAIN q.cont /\ Cont(r) = c
         /\ r.run = q.run /\ r.tbl = q.tbl /\ r.reset = q.reset /\ r.saved = q.saved /\ r.bits = q.bits
         /\ \A d \in DOMAIN q.cont : r.cont[d] = IF d = q.tbl.sal THEN c ELSE q.cont[d]
<1>1. q.cont \in Seq(Container) /\ q.tbl \in Table
  BY DEF Proc
<1>2. r = [q EXCEPT !.cont = [q.cont EXCEPT ![q.tbl.sal] = c]]
  BY DEF Put
<1>3. [q.cont EXCEPT ![q.tbl.sal] = c] \in Seq(Container)
  BY <1>1
<1>4. /\ r \in Proc /\ r.cont = [q.cont EXCEPT ![q.tbl.sal] = c]
      /\ r.run = q.run /\ r.tbl = q.tbl /\ r.reset = q.reset /\ r.saved = q.saved /\ r.bits = q.bits
  BY <1>2, <1>3, ZenonT(30) DEF Proc
<1>5. DOMAIN r.cont = DOMAIN q.cont /\ Cont(r) = c
      /\ \A d \in DOMAIN q.cont : r.cont[d] = IF d = q.tbl.sal THEN c ELSE q.cont[d]
  BY <1>1, <1>4 DEF Cont
<1> QED BY <1>4, <1>5, Zenon

LEMMA PutStates ==
  ASSUME NEW q \in Proc, q.tbl.sal \in DOMAIN q.cont, NEW x \in States, NEW y \in States,
         NEW r, r = Set(q, x, y)
  PROVE  /\ r \in Proc /\ DOMAIN r.cont = DOMAIN q.cont
         /\ Cont(r).live = Cont(q).live /\ Cont(r).cy = x /\ Cont(r).dc = y
         /\ r.run = q.run /\ r.tbl = q.tbl /\ r.reset = q.reset /\ r.saved = q.saved /\ r.bits = q.bits
         /\ \A d \in DOMAIN q.cont \ {q.tbl.sal} : r.cont[d] = q.cont[d]
<1> DEFINE c == [Cont(q) EXCEPT !.cy = x, !.dc = y]
<1>1. Cont(q) \in Container
  BY DEF Cont, Proc
<1>2. c \in Container /\ c.live = Cont(q).live /\ c.cy = x /\ c.dc = y
  BY <1>1, Zenon DEF Container
<1>3. r = Put(q, c)
  BY Zenon DEF Set
<1> HIDE DEF c
<1>4. /\ r \in Proc /\ DOMAIN r.cont = DOMAIN q.cont /\ Cont(r) = c
      /\ r.run = q.run /\ r.tbl = q.tbl /\ r.reset = q.reset /\ r.saved = q.saved /\ r.bits = q.bits
      /\ \A d \in DOMAIN q.cont : r.cont[d] = IF d = q.tbl.sal THEN c ELSE q.cont[d]
  BY <1>2, <1>3, Puts
<1> QED BY <1>2, <1>4, Zenon

LEMMA Stops ==
  ASSUME NEW q \in Proc, q.tbl.sal \in DOMAIN q.cont, Cont(q).cy = "running", Cont(q).dc = "running"
  PROVE  /\ StopsOk(q)
         /\ EventStop(q) = Set(q, "shutting", IF q.reset THEN "restarting" ELSE "shutting")
  BY Zenon DEF StopsOk, EventStop, Set

LEMMA Inits ==
  ASSUME NEW q \in Proc, q.tbl.sal \in DOMAIN q.cont,
         Cont(q).cy \in {"uninit", "restarting"}, Cont(q).dc \in {"uninit", "restarting"}
  PROVE  InitAll(q, "none") = [ok |-> TRUE, q |-> Set(q, "initialized", "initialized")]
  BY ZenonT(60) DEF InitAll, InitKind, Set

LEMMA Starts ==
  ASSUME NEW q \in Proc, q.tbl.sal \in DOMAIN q.cont,
         Cont(q).cy = "initialized", Cont(q).dc = "initialized"
  PROVE  EventStart(q) = [ok |-> TRUE, q |-> Set(q, "running", "running")]
  BY ZenonT(60) DEF EventStart, Set

\* A device the process finds comes up, with the container that was handed on or
\* a new one.
LEMMA Found ==
  ASSUME NEW q \in Proc, Away(q), Freed(q), Exists, q.run = "on"
  PROVE  LET g == GetDevice(q, "none") IN
         /\ g \in Proc /\ Here(g) /\ Freed(g) /\ Keeps(q, g)
         /\ g.tbl.sys /\ ~g.reset /\ g.run = "on"
<1> DEFINE a == [q EXCEPT !.tbl = [sal |-> Null, mapped |-> FALSE, sys |-> FALSE]]
           b == [a EXCEPT !.tbl.sal = IF a.saved # Null THEN a.saved ELSE @, !.saved = Null,
                          !.bits.failed = FALSE]
           f == [b EXCEPT !.tbl.sal = Len(b.cont) + 1, !.cont = Append(@, NewContainer)]
           r == IF b.reset THEN b ELSE f
           i == Set(r, "initialized", "initialized")
           j == [i EXCEPT !.bits.init = TRUE, !.tbl.mapped = TRUE]
           k == Set(j, "running", "running")
           l == [k EXCEPT !.bits.start = TRUE]
           g == [l EXCEPT !.reset = FALSE, !.tbl.sys = TRUE]
<1>1. /\ q.cont \in Seq(Container) /\ q.saved \in Nat /\ q.bits \in Bits /\ q.reset \in BOOLEAN
      /\ q.tbl = NoDev
  BY DEF Proc, Away
<1>2. /\ b \in Proc /\ b.cont = q.cont /\ b.saved = Null /\ b.reset = q.reset /\ b.run = "on"
      /\ b.tbl.sal = q.saved /\ b.tbl \in Table
  <2>1. /\ a \in Proc /\ a.cont = q.cont /\ a.saved = q.saved /\ a.reset = q.reset /\ a.run = "on"
        /\ a.tbl = [sal |-> Null, mapped |-> FALSE, sys |-> FALSE] /\ a.bits = q.bits
    <3>1. [sal |-> Null, mapped |-> FALSE, sys |-> FALSE] \in Table
      BY DEF Table, Null
    <3> QED BY <3>1, Zenon DEF Proc
  <2> HIDE DEF a
  <2> DEFINE t == [a.tbl EXCEPT !.sal = q.saved]
             z == [a.bits EXCEPT !.failed = FALSE]
  <2>2. (IF a.saved # Null THEN a.saved ELSE a.tbl.sal) = q.saved
    BY <2>1 DEF Null
  <2>3. b = [a EXCEPT !.tbl = t, !.saved = Null, !.bits = z]
    BY <2>1, <2>2, ZenonT(30) DEF Proc, Table, Bits
  <2>4. t \in Table /\ t.sal = q.saved
    <3>1. q.saved \in Int
      BY <1>1
    <3>2. a.tbl \in Table
      BY <2>1, Zenon DEF Proc
    <3> QED BY <3>1, <3>2, Zenon DEF Table
  <2>5. z \in Bits
    BY <1>1, <2>1, ZenonT(30) DEF Bits
  <2> HIDE DEF t, z, b
  <2> QED BY <2>1, <2>3, <2>4, <2>5, ZenonT(30) DEF Proc, Null
<1> HIDE DEF b
<1>3. /\ r \in Proc /\ r.saved = Null /\ r.reset = q.reset /\ r.run = "on"
      /\ r.tbl.sal \in DOMAIN r.cont /\ r.tbl \in Table
      /\ Cont(r).live /\ Cont(r).cy \in {"uninit", "restarting"} /\ Cont(r).dc \in {"uninit", "restarting"}
      /\ DOMAIN q.cont \subseteq DOMAIN r.cont
      /\ \A c \in DOMAIN r.cont \ {r.tbl.sal} : c \in DOMAIN q.cont /\ r.cont[c] = q.cont[c]
      /\ \A c \in DOMAIN q.cont : q.cont[c].live => c = r.tbl.sal
  <2>1. CASE q.reset
    <3>1. r = b
      BY <1>2, <2>1, Zenon
    <3>2. q.saved \in DOMAIN q.cont /\ Only(q, q.saved)
          /\ q.cont[q.saved].cy = "restarting" /\ q.cont[q.saved].dc = "restarting"
      BY <2>1, Zenon DEF Away
    <3> QED BY <1>2, <3>1, <3>2, Zenon DEF Only, Cont
  <2>2. CASE ~q.reset
    <3> DEFINE n == Len(q.cont) + 1
               t == [b.tbl EXCEPT !.sal = n]
               s == Append(q.cont, NewContainer)
    <3>1. NewContainer \in Container /\ NewContainer.live /\ NewContainer.cy = "uninit" /\ NewContainer.dc = "uninit"
      BY Zenon DEF NewContainer, Container, States
    <3>2. /\ s \in Seq(Container) /\ n \in DOMAIN s /\ s[n] = NewContainer /\ DOMAIN q.cont \subseteq DOMAIN s
          /\ \A c \in DOMAIN s \ {n} : c \in DOMAIN q.cont /\ s[c] = q.cont[c]
      BY <1>1, <3>1
    <3>3. f = [b EXCEPT !.tbl = t, !.cont = s]
      BY <1>2 DEF Proc, Table
    <3>4. t \in Table /\ t.sal = n
      <4>1. n \in Int
        BY <1>1
      <4> HIDE DEF n
      <4> QED BY <1>2, <4>1, Zenon DEF Table, Proc
    <3>5. r = f
      BY <1>2, <2>2, Zenon
    <3> HIDE DEF t, s, n, r, f
    <3>6. /\ r \in Proc /\ r.saved = Null /\ r.reset = q.reset /\ r.run = "on" /\ r.tbl = t /\ r.cont = s
      BY <1>2, <3>2, <3>3, <3>4, <3>5, ZenonT(30) DEF Proc
    <3>7. \A c \in DOMAIN q.cont : ~q.cont[c].live
      BY <1>1, <2>2 DEF Away, Only, Null
    <3> QED BY <3>1, <3>2, <3>4, <3>6, <3>7 DEF Cont
  <2> QED BY <1>1, <2>1, <2>2, Zenon
<1> HIDE DEF r
<1>4. EventInit(b, "none") = [ok |-> TRUE, q |-> i]
  <2>1. EventInit(b, "none") = InitAll(r, "none")
    BY <1>1, <1>2, Zenon DEF EventInit, r, Away
  <2> QED BY <1>3, <2>1, Inits, Zenon
<1>6. /\ i \in Proc /\ DOMAIN i.cont = DOMAIN r.cont
      /\ Cont(i).live = Cont(r).live /\ Cont(i).cy = "initialized" /\ Cont(i).dc = "initialized"
      /\ i.run = r.run /\ i.tbl = r.tbl /\ i.reset = r.reset /\ i.saved = r.saved
      /\ \A d \in DOMAIN r.cont \ {r.tbl.sal} : i.cont[d] = r.cont[d]
  <2>1. "initialized" \in States
    BY Zenon DEF States
  <2>2. i = Set(r, "initialized", "initialized")
    BY Zenon
  <2>3. r \in Proc /\ r.tbl.sal \in DOMAIN r.cont
    BY <1>3, Zenon
  <2> HIDE DEF i
  <2> QED BY <2>1, <2>2, <2>3, PutStates
<1> HIDE DEF i
<1>7. /\ j \in Proc /\ j.cont = i.cont /\ Cont(j) = Cont(i) /\ j.run = "on" /\ j.bits.init
      /\ j.tbl.sal = r.tbl.sal /\ j.tbl.mapped /\ j.reset = q.reset /\ j.saved = Null
  <2> DEFINE t == [i.tbl EXCEPT !.mapped = TRUE]
             z == [i.bits EXCEPT !.init = TRUE]
  <2>1. t \in Table /\ t.sal = r.tbl.sal /\ t.mapped
    BY <1>3, <1>6, Zenon DEF Table
  <2>2. z \in Bits /\ z.init
    BY <1>6, Zenon DEF Bits, Proc
  <2>3. j = [i EXCEPT !.bits = z, !.tbl = t]
    BY <1>6, ZenonT(30) DEF Proc
  <2> HIDE DEF t, z, j
  <2>4. j \in Proc /\ j.cont = i.cont /\ j.run = i.run /\ j.bits = z /\ j.tbl = t
        /\ j.reset = i.reset /\ j.saved = i.saved
    BY <1>6, <2>1, <2>2, <2>3, Zenon DEF Proc
  <2> QED BY <1>3, <1>6, <2>1, <2>2, <2>4, ZenonT(60) DEF Cont
<1>8. SubsystemInit(a, "none") = j
  <2>1. EventInit(b, "none").ok /\ EventInit(b, "none").q = i
    BY <1>4
  <2> HIDE DEF i
  <2> QED BY <2>1, ZenonT(30) DEF SubsystemInit, b
<1> HIDE DEF j
<1>9. /\ k \in Proc /\ DOMAIN k.cont = DOMAIN j.cont
      /\ Cont(k).live = Cont(j).live /\ Cont(k).cy = "running" /\ Cont(k).dc = "running"
      /\ k.run = j.run /\ k.tbl = j.tbl /\ k.bits = j.bits /\ k.saved = j.saved
      /\ \A d \in DOMAIN j.cont \ {j.tbl.sal} : k.cont[d] = j.cont[d]
  <2>1. "running" \in States /\ j.tbl.sal \in DOMAIN j.cont
    BY <1>3, <1>6, <1>7 DEF States
  <2>2. k = Set(j, "running", "running")
    OBVIOUS
  <2>3. j \in Proc
    BY <1>7, Zenon
  <2> HIDE DEF k
  <2> QED BY <2>1, <2>2, <2>3, PutStates
<1>10. EventStart(j) = [ok |-> TRUE, q |-> k]
  <2>1. /\ j \in Proc /\ j.tbl.sal \in DOMAIN j.cont
        /\ Cont(j).cy = "initialized" /\ Cont(j).dc = "initialized"
    BY <1>3, <1>6, <1>7, ZenonT(60)
  <2> QED BY <2>1, Starts, ZenonT(60)
<1> HIDE DEF k
<1>11. /\ g \in Proc /\ g.cont = k.cont /\ g.run = "on" /\ g.bits.init /\ g.bits.start
       /\ g.tbl.sal = r.tbl.sal /\ g.tbl.mapped /\ g.tbl.sys /\ ~g.reset /\ g.saved = Null
  <2> DEFINE t == [k.tbl EXCEPT !.sys = TRUE]
             z == [k.bits EXCEPT !.start = TRUE]
  <2>1. t \in Table /\ t.sal = r.tbl.sal /\ t.mapped /\ t.sys
    BY <1>7, <1>9, Zenon DEF Table, Proc
  <2>2. z \in Bits /\ z.init /\ z.start
    BY <1>7, <1>9, Zenon DEF Bits, Proc
  <2>3. g = [k EXCEPT !.bits = z, !.tbl = t, !.reset = FALSE]
    BY <1>9, ZenonT(30) DEF Proc
  <2> HIDE DEF t, z, g
  <2>4. g \in Proc /\ g.cont = k.cont /\ g.run = k.run /\ g.bits = z /\ g.tbl = t
        /\ g.reset = FALSE /\ g.saved = k.saved
    BY <1>9, <2>1, <2>2, <2>3, Zenon DEF Proc
  <2> QED BY <1>7, <1>9, <2>1, <2>2, <2>4, Zenon
<1>12. GetDevice(q, "none") = g
  <2>1. j.tbl.sal # Null /\ Cont(j).live /\ j.run # "crashed"
    <3>1. r.tbl.sal # Null
      <4>1. r.cont \in Seq(Container)
        BY <1>3, Zenon DEF Proc
      <4> QED BY <1>3, <4>1 DEF Null
    <3> QED BY <1>3, <1>6, <1>7, <3>1, Zenon
  <2>2. SubsystemStart(j, "none") = g
    BY <1>10, <2>1 DEF SubsystemStart
  <2> QED BY <1>1, <1>8, <2>1, <2>2 DEF GetDevice
<1> HIDE DEF g
<1>13. /\ g.tbl.sal \in DOMAIN g.cont /\ Cont(g) = Cont(k) /\ Cont(k) = k.cont[g.tbl.sal]
       /\ DOMAIN g.cont = DOMAIN r.cont
       /\ \A c \in DOMAIN g.cont \ {g.tbl.sal} : c \in DOMAIN q.cont /\ g.cont[c] = q.cont[c] /\ ~q.cont[c].live
  <2>1. g.tbl.sal = j.tbl.sal /\ k.tbl.sal = j.tbl.sal /\ j.tbl.sal = r.tbl.sal /\ DOMAIN g.cont = DOMAIN r.cont
    BY <1>6, <1>7, <1>9, <1>11, Zenon
  <2>2. \A c \in DOMAIN r.cont \ {r.tbl.sal} : g.cont[c] = r.cont[c]
    <3> SUFFICES ASSUME NEW c \in DOMAIN r.cont \ {r.tbl.sal} PROVE g.cont[c] = r.cont[c]
      BY Zenon
    <3>1. i.cont[c] = r.cont[c]
      BY <1>6, Zenon
    <3>2. k.cont[c] = j.cont[c]
      BY <1>6, <1>7, <1>9, <2>1, Zenon
    <3> QED BY <1>7, <1>11, <3>1, <3>2, Zenon
  <2> QED BY <1>3, <1>11, <2>1, <2>2, ZenonT(60) DEF Cont
<1>14. Only(g, g.tbl.sal) /\ Freed(g)
  <2>1. g.cont[g.tbl.sal].live
    BY <1>3, <1>6, <1>7, <1>9, <1>13, Zenon DEF Cont
  <2>2. \A c \in DOMAIN g.cont \ {g.tbl.sal} : ~g.cont[c].live
    BY <1>13, Zenon
  <2>3. Only(g, g.tbl.sal)
    BY <2>1, <2>2, Zenon DEF Only
  <2>4. \A c \in DOMAIN g.cont \ {g.tbl.sal} : g.cont[c].cy = "freed" /\ g.cont[c].dc = "freed"
    BY <1>13, Zenon DEF Freed
  <2> QED BY <2>1, <2>3, <2>4, Zenon DEF Freed
<1>15. Here(g)
  BY <1>9, <1>11, <1>13, <1>14, Zenon DEF Here
<1>16. Keeps(q, g)
  BY <1>3, <1>13, <1>14, Zenon DEF Keeps, Only
<1> QED BY <1>11, <1>12, <1>14, <1>15, <1>16, Zenon

LEMMA Stopped ==
  ASSUME NEW q \in Proc, Here(q), Freed(q), NEW s, s = SubsystemStop(q, "none")
  PROVE  /\ s \in Proc /\ Freed(s) /\ Only(s, q.tbl.sal) /\ DOMAIN s.cont = DOMAIN q.cont
         /\ s.tbl = q.tbl /\ s.reset = q.reset /\ s.saved = q.saved /\ s.run = q.run
         /\ ~s.bits.start /\ s.bits.init
         /\ Cont(s).cy = "shutting" /\ Cont(s).dc \in {"shutting", "restarting"}
<1>1. q.tbl.sal # Null /\ q.tbl.sal \in DOMAIN q.cont
  BY DEF Here, Proc, Null
<1>2. CASE ~q.tbl.sys
  <2>1. s = q
    BY <1>2 DEF SubsystemStop, Here
  <2> QED BY <1>2, <2>1, Zenon DEF Here
<1>3. CASE q.tbl.sys
  <2> DEFINE y == IF q.reset THEN "restarting" ELSE "shutting"
             e == Set(q, "shutting", y)
             z == [e.bits EXCEPT !.start = FALSE]
  <2>1. Cont(q).cy = "running" /\ Cont(q).dc = "running" /\ q.bits.start /\ q.bits.init
    BY <1>3, Zenon DEF Here
  <2>2. StopsOk(q) /\ EventStop(q) = e
    BY <1>1, <2>1, Stops
  <2>3. "shutting" \in States /\ y \in States /\ y \in {"shutting", "restarting"}
    BY Zenon DEF States
  <2> HIDE DEF y
  <2>4. /\ e \in Proc /\ DOMAIN e.cont = DOMAIN q.cont
        /\ Cont(e).live = Cont(q).live /\ Cont(e).cy = "shutting" /\ Cont(e).dc = y
        /\ e.run = q.run /\ e.tbl = q.tbl /\ e.reset = q.reset /\ e.saved = q.saved /\ e.bits = q.bits
        /\ \A d \in DOMAIN q.cont \ {q.tbl.sal} : e.cont[d] = q.cont[d]
    <3> HIDE DEF e
    <3> QED BY <1>1, <2>3, PutStates DEF e
  <2> HIDE DEF e
  <2>5. z \in Bits /\ z.init /\ ~z.start
    BY <2>1, <2>4, Zenon DEF Bits, Proc
  <2>6. s = [e EXCEPT !.bits = z]
    BY <1>1, <2>1, <2>2, ZenonT(30) DEF SubsystemStop
  <2> HIDE DEF z
  <2>7. /\ s \in Proc /\ s.cont = e.cont /\ s.run = e.run /\ s.tbl = e.tbl /\ s.reset = e.reset
        /\ s.saved = e.saved /\ s.bits = z
    BY <2>4, <2>5, <2>6, Zenon DEF Proc
  <2>8. \A d \in DOMAIN q.cont \ {q.tbl.sal} : s.cont[d] = q.cont[d]
    BY <2>4, <2>7, Zenon
  <2>9. q.cont[q.tbl.sal].live /\ s.cont[q.tbl.sal].live
    BY <1>1, <2>4, <2>7, Zenon DEF Here, Only, Cont
  <2>10. Only(s, q.tbl.sal) /\ Freed(s)
    <3>1. Only(q, q.tbl.sal)
      BY Zenon DEF Here
    <3>2. DOMAIN s.cont = DOMAIN q.cont
      BY <2>4, <2>7, Zenon
    <3>3. \A d \in DOMAIN q.cont \ {q.tbl.sal} : ~s.cont[d].live /\ s.cont[d].cy = "freed" /\ s.cont[d].dc = "freed"
      BY <2>8, <3>1, Zenon DEF Only, Freed
    <3>4. Only(s, q.tbl.sal)
      BY <2>9, <3>2, <3>3, Zenon DEF Only
    <3> QED BY <2>9, <3>2, <3>3, <3>4, Zenon DEF Freed
  <2> QED BY <2>3, <2>4, <2>5, <2>7, <2>10, Zenon DEF Cont
<1> QED BY <1>2, <1>3, Zenon

\* The event "stop".
LEMMA StopNoted ==
  ASSUME NEW q \in Proc, Here(q), Freed(q), NEW r, r = [SubsystemStop(q, "none") EXCEPT !.tbl.sys = FALSE]
  PROVE  /\ r \in Proc /\ Here(r) /\ Freed(r) /\ Keeps(q, r)
         /\ r.run = q.run /\ r.reset = q.reset /\ ~r.tbl.sys
<1> DEFINE s == SubsystemStop(q, "none")
           t == [s.tbl EXCEPT !.sys = FALSE]
<1>1. /\ s \in Proc /\ Freed(s) /\ Only(s, q.tbl.sal) /\ DOMAIN s.cont = DOMAIN q.cont
      /\ s.tbl = q.tbl /\ s.reset = q.reset /\ s.saved = q.saved /\ s.run = q.run
      /\ ~s.bits.start /\ s.bits.init
      /\ Cont(s).cy = "shutting" /\ Cont(s).dc \in {"shutting", "restarting"}
  <2> HIDE DEF s
  <2> QED BY Stopped DEF s
<1> HIDE DEF s
<1>2. t \in Table /\ t.sal = q.tbl.sal /\ t.mapped = q.tbl.mapped /\ t.sys = FALSE
  BY <1>1, Zenon DEF Table, Proc
<1>3. r = [s EXCEPT !.tbl = t]
  BY DEF s
<1> HIDE DEF t
<1>4. /\ r \in Proc /\ r.cont = s.cont /\ r.run = s.run /\ r.tbl = t /\ r.reset = s.reset
      /\ r.saved = s.saved /\ r.bits = s.bits
  BY <1>1, <1>2, <1>3, Zenon DEF Proc
<1>5. Cont(r) = Cont(s)
  BY <1>1, <1>2, <1>4, Zenon DEF Cont
<1>6. Freed(r) /\ Only(r, r.tbl.sal) /\ Only(q, q.tbl.sal)
  <2>1. Only(q, q.tbl.sal) /\ r.tbl.sal = q.tbl.sal
    BY <1>2, <1>4, Zenon DEF Here
  <2>2. Freed(r)
    BY <1>1, <1>4, ZenonT(60) DEF Freed
  <2> QED BY <1>1, <1>4, <2>1, <2>2, Zenon DEF Only
<1>7. Keeps(q, r)
  BY <1>1, <1>2, <1>4, <1>6, Zenon DEF Keeps, Only
<1>8. Here(r)
  BY <1>1, <1>2, <1>4, <1>5, <1>6, ZenonT(60) DEF Here
<1> QED BY <1>1, <1>2, <1>4, <1>6, <1>7, <1>8, Zenon

\* The device goes, after its services stopped or not: during a reset the
\* container waits, otherwise it is freed.
LEMMA Shut ==
  ASSUME NEW q \in Proc, q.tbl.sal \in DOMAIN q.cont, q.bits.init, Only(q, q.tbl.sal), Freed(q),
         q.saved = (IF q.reset THEN q.tbl.sal ELSE Null),
         Cont(q).cy # "freed", Cont(q).dc # "freed",
         NEW r, r = [SubsystemShutdown(q, "none") EXCEPT !.tbl = NoDev]
  PROVE  /\ r \in Proc /\ Away(r) /\ Freed(r) /\ r.run = q.run /\ r.reset = q.reset
         /\ DOMAIN r.cont = DOMAIN q.cont /\ (q.reset => Keeps(q, r))
<1> DEFINE x == IF q.reset THEN "restarting" ELSE "freed"
           c == [live |-> q.reset, cy |-> x, dc |-> x]
           d == Put(q, c)
           e == IF q.reset THEN d ELSE [d EXCEPT !.tbl.sal = Null]
           z == [e.bits EXCEPT !.init = ~(CyEnds(Cont(q).cy) /\ DcEnds(Cont(q).dc))]
<1>1. q.tbl.sal # Null /\ q.reset \in BOOLEAN /\ NoDev \in Table
  BY DEF Proc, Null, NoDev, Table
<1>2. c \in Container /\ c.live = q.reset /\ c.cy = x /\ c.dc = x
  BY <1>1, Zenon DEF Container, States
<1>3. EventShutdown(q) = e
  <2>1. Ended(q, Cont(q).cy) = x /\ Ended(q, Cont(q).dc) = x
    BY Zenon DEF Ended
  <2> HIDE DEF x
  <2> QED BY <2>1 DEF EventShutdown
<1> HIDE DEF c
<1>4. /\ d \in Proc /\ DOMAIN d.cont = DOMAIN q.cont /\ Cont(d) = c
      /\ d.run = q.run /\ d.tbl = q.tbl /\ d.reset = q.reset /\ d.saved = q.saved /\ d.bits = q.bits
      /\ \A a \in DOMAIN q.cont : d.cont[a] = IF a = q.tbl.sal THEN c ELSE q.cont[a]
  <2> HIDE DEF d
  <2> QED BY <1>2, Puts DEF d
<1> HIDE DEF d
<1>5. /\ e \in Proc /\ e.cont = d.cont /\ e.run = q.run /\ e.reset = q.reset /\ e.saved = q.saved
      /\ e.bits = q.bits
  <2>1. CASE q.reset
    BY <1>4, <2>1, Zenon
  <2>2. CASE ~q.reset
    <3> DEFINE t == [d.tbl EXCEPT !.sal = Null]
    <3>1. Null \in Int
      BY DEF Null
    <3>2. t \in Table
      BY <1>4, <3>1, ZenonT(60) DEF Table, Proc
    <3>3. e = [d EXCEPT !.tbl = t]
      BY <2>2, Zenon
    <3> HIDE DEF t, e
    <3> QED BY <1>4, <3>2, <3>3, Zenon DEF Proc
  <2> QED BY <2>1, <2>2, Zenon
<1> HIDE DEF e
<1>6. r = [e EXCEPT !.bits = z, !.tbl = NoDev]
  BY <1>1, <1>3, <1>5, Zenon DEF SubsystemShutdown
<1>7. z \in Bits
  BY <1>5, Zenon DEF Bits, Proc, CyEnds, DcEnds
<1> HIDE DEF z
<1>8. /\ r \in Proc /\ r.cont = e.cont /\ r.run = e.run /\ r.tbl = NoDev /\ r.reset = e.reset
      /\ r.saved = e.saved
  BY <1>1, <1>5, <1>6, <1>7, Zenon DEF Proc
<1>9. /\ DOMAIN r.cont = DOMAIN q.cont /\ r.cont[q.tbl.sal] = c
      /\ \A a \in DOMAIN q.cont \ {q.tbl.sal} : r.cont[a] = q.cont[a] /\ ~q.cont[a].live
  <2>1. \A a \in DOMAIN q.cont \ {q.tbl.sal} : ~q.cont[a].live
    BY Zenon DEF Only
  <2>2. r.cont = d.cont
    BY <1>5, <1>8, Zenon
  <2> QED BY <1>4, <2>1, <2>2, Zenon
<1>10. CASE q.reset
  <2>1. r.reset /\ r.saved = q.tbl.sal /\ r.saved # Null
    BY <1>1, <1>5, <1>8, <1>10, Zenon
  <2>2. r.cont[r.saved].live /\ r.cont[r.saved].cy = "restarting" /\ r.cont[r.saved].dc = "restarting"
    BY <1>2, <1>9, <1>10, <2>1, Zenon
  <2>3. Only(r, r.saved)
    BY <1>9, <2>1, <2>2, Zenon DEF Only
  <2>4. Freed(r)
    <3>1. \A a \in DOMAIN q.cont \ {q.tbl.sal} : r.cont[a].cy = "freed" /\ r.cont[a].dc = "freed"
      BY <1>9, Zenon DEF Freed
    <3> QED BY <1>9, <2>1, <2>2, <3>1, Zenon DEF Freed
  <2>5. Keeps(q, r)
    BY <1>9, <2>1, <2>2, Zenon DEF Keeps
  <2> QED BY <1>5, <1>8, <1>9, <2>1, <2>2, <2>3, <2>4, <2>5, Zenon DEF Away
<1>11. CASE ~q.reset
  <2>1. ~r.reset /\ r.saved = Null
    BY <1>5, <1>8, <1>11, Zenon
  <2>2. ~c.live /\ c.cy = "freed" /\ c.dc = "freed"
    BY <1>1, <1>2, <1>11, Zenon
  <2>3. \A a \in DOMAIN r.cont : ~r.cont[a].live /\ a # Null
    BY <1>8, <1>9, <2>2, SMTT(30) DEF Null, Proc
  <2>4. Freed(r)
    BY <1>9, <2>2, ZenonT(60) DEF Freed
  <2>5. Only(r, r.saved)
    BY <2>1, <2>3, Zenon DEF Only
  <2> QED BY <1>5, <1>8, <1>9, <1>11, <2>1, <2>4, <2>5, Zenon DEF Away
<1> QED BY <1>10, <1>11, Zenon

LEMMA StopNotedHere ==
  ASSUME NEW q \in Proc, Here(q), Freed(q), NEW r, r = [Unregister(q) EXCEPT !.tbl = NoDev]
  PROVE  r \in Proc /\ Away(r) /\ Freed(r) /\ r.run = q.run
<1> DEFINE s == SubsystemStop(q, "none")
<1>1. /\ s \in Proc /\ Freed(s) /\ Only(s, q.tbl.sal) /\ DOMAIN s.cont = DOMAIN q.cont
      /\ s.tbl = q.tbl /\ s.reset = q.reset /\ s.saved = q.saved /\ s.run = q.run
      /\ ~s.bits.start /\ s.bits.init
      /\ Cont(s).cy = "shutting" /\ Cont(s).dc \in {"shutting", "restarting"}
  <2> HIDE DEF s
  <2> QED BY Stopped DEF s
<1>2. q.tbl # NoDev
  BY DEF Here, NoDev, Proc
<1>3. r = [SubsystemShutdown(s, "none") EXCEPT !.tbl = NoDev]
  BY <1>2, Zenon DEF Unregister
<1> HIDE DEF s
<1>4. /\ s.tbl.sal \in DOMAIN s.cont /\ Only(s, s.tbl.sal) /\ Cont(s).cy # "freed" /\ Cont(s).dc # "freed"
      /\ s.saved = (IF s.reset THEN s.tbl.sal ELSE Null)
  BY <1>1, ZenonT(60) DEF Here
<1>5. /\ r \in Proc /\ Away(r) /\ Freed(r) /\ r.run = s.run
  BY <1>1, <1>3, <1>4, Shut, ZenonT(30)
<1> QED BY <1>1, <1>5, Zenon
-----------------------------------------------------------------------------
(* The events.                                                               *)

Events == {"restarting", "stop", "shutdown", "restarted"}
Kernels == {"up", "failing", "announced", "stopping", "down", "dead"}

\* The event that follows an event, and the one the kernel sends next.
Succ(e) == CASE e = "restarting" -> "stop"
             [] e = "stop" -> "shutdown"
             [] e = "shutdown" -> "restarted"
             [] OTHER -> "restarting"
Due(k) == CASE k \in {"up", "failing"} -> "restarting"
            [] k = "announced" -> "stop"
            [] k \in {"stopping", "down"} -> "restarted"
            [] OTHER -> "none"

\* The queue es has the events in their order, up to the kernel's place k.
Ordered(k, es) ==
  /\ \A i \in 1..(Len(es) - 1) : es[i + 1] = Succ(es[i])
  /\ es # <<>> /\ k # "dead" => Due(k) = Succ(es[Len(es)])

\* The event the process polls next.
Expected(k, es) == IF es = <<>> THEN Due(k) ELSE es[1]

LEMMA OneSent ==
  ASSUME NEW k \in Kernels \ {"dead"}, NEW es \in Seq(Events), Ordered(k, es),
         NEW l \in Kernels \ {"dead"}, NEW e \in Events, e = Due(k), Due(l) = Succ(e)
  PROVE  /\ es \o <<e>> \in Seq(Events) /\ Ordered(l, es \o <<e>>)
         /\ Expected(l, es \o <<e>>) = Expected(k, es)
  BY DEF Ordered, Expected

LEMMA TwoSent ==
  ASSUME NEW es \in Seq(Events), Ordered("announced", es)
  PROVE  /\ es \o <<"stop", "shutdown">> \in Seq(Events)
         /\ Ordered("stopping", es \o <<"stop", "shutdown">>)
         /\ Expected("stopping", es \o <<"stop", "shutdown">>) = Expected("announced", es)
<1> DEFINE n == Len(es)
           t == es \o <<"stop", "shutdown">>
<1>1. /\ t \in Seq(Events) /\ n \in Nat /\ Len(t) = n + 2 /\ t # <<>>
      /\ \A i \in 1..n : t[i] = es[i]
      /\ t[n + 1] = "stop" /\ t[n + 2] = "shutdown" /\ (n = 0 <=> es = <<>>)
  BY DEF Events
<1> HIDE DEF t, n
<1>2. /\ Due("announced") = "stop" /\ Due("stopping") = "restarted"
      /\ Succ("stop") = "shutdown" /\ Succ("shutdown") = "restarted"
  BY Zenon DEF Succ, Due
<1>3. /\ \A i \in 1..(n - 1) : es[i + 1] = Succ(es[i])
      /\ n # 0 => Succ(es[n]) = "stop"
  BY <1>1, <1>2, Zenon DEF Ordered, n
<1>4. ASSUME NEW i \in 1..(n + 1) PROVE t[i + 1] = Succ(t[i])
  <2>1. CASE i < n
    <3>1. i \in 1..n /\ i + 1 \in 1..n /\ i \in 1..(n - 1)
      BY <1>1, <2>1
    <3> QED BY <1>1, <1>3, <3>1, Zenon
  <2>2. CASE i = n
    <3>1. n # 0 /\ n \in 1..n
      BY <1>1, <2>2
    <3> QED BY <1>1, <1>3, <2>2, <3>1, Zenon
  <2>3. CASE i = n + 1
    <3>1. i + 1 = n + 2
      BY <1>1, <2>3
    <3> QED BY <1>1, <1>2, <2>3, <3>1, Zenon
  <2> QED BY <1>1, <2>1, <2>2, <2>3
<1>5. Len(t) - 1 = n + 1
  BY <1>1
<1>6. Ordered("stopping", t)
  BY <1>1, <1>2, <1>4, <1>5, Zenon DEF Ordered
<1>7. t[1] = IF es = <<>> THEN "stop" ELSE es[1]
  <2>1. CASE n = 0
    BY <1>1, <2>1
  <2>2. CASE n # 0
    <3>1. 1 \in 1..n
      BY <1>1, <2>2
    <3> QED BY <1>1, <2>2, <3>1, Zenon
  <2> QED BY <2>1, <2>2, Zenon
<1>8. Expected("stopping", t) = Expected("announced", es)
  BY <1>1, <1>2, <1>7, Zenon DEF Expected
<1> QED BY <1>1, <1>6, <1>8, Zenon DEF t

LEMMA OnePolled ==
  ASSUME NEW k \in Kernels, NEW es \in Seq(Events), es # <<>>, Ordered(k, es)
  PROVE  /\ Tail(es) \in Seq(Events) /\ Ordered(k, Tail(es)) /\ Head(es) = es[1] /\ es[1] \in Events
         /\ Expected(k, Tail(es)) \in {Succ(es[1]), "none"}
         /\ Tail(es) = <<>> /\ k # "dead" => Due(k) = Succ(es[1])
<1> DEFINE t == Tail(es)
<1>1. /\ t \in Seq(Events) /\ Len(t) = Len(es) - 1 /\ Len(es) \in Nat \ {0}
      /\ \A i \in 1..Len(t) : t[i] = es[i + 1]
      /\ Head(es) = es[1] /\ es[1] \in Events
  OBVIOUS
<1> HIDE DEF t
<1>2. t = <<>> <=> Len(t) = 0
  BY <1>1
<1>3. t = <<>> /\ k # "dead" => Due(k) = Succ(es[1])
  <2>1. t = <<>> => Len(es) = 1
    BY <1>1, <1>2
  <2> QED BY <2>1, ZenonT(30) DEF Ordered
<1>4. t # <<>> => t[1] = Succ(es[1])
  BY <1>1, <1>2 DEF Ordered
<1>5. Ordered(k, t)
  <2>1. \A i \in 1..(Len(t) - 1) : t[i + 1] = Succ(t[i])
    BY <1>1, SMTT(30) DEF Ordered
  <2>2. t # <<>> => t[Len(t)] = es[Len(es)]
    BY <1>1, <1>2
  <2> QED BY <2>1, <2>2, Zenon DEF Ordered
<1>6. Due("dead") = "none"
  BY Zenon DEF Due
<1> QED BY <1>1, <1>3, <1>4, <1>5, <1>6, Zenon DEF t, Expected

-----------------------------------------------------------------------------
(* The inductive invariant.                                                  *)

\* What the process's services are when the next event it polls is x.
InPhase(q, x) ==
  q.tbl # NoDev => /\ x \in {"restarting", "restarted"} => q.tbl.sys /\ ~q.reset
                   /\ x = "stop" => q.tbl.sys /\ q.reset
                   /\ x = "shutdown" => ~q.tbl.sys /\ q.reset

KernelInv == kern \in Kernels /\ evq \in Seq(Events)

OwnInv ==
  "failed" \notin sflaws =>
    /\ p \in Proc /\ Freed(p) /\ p.run # "crashed"
    /\ p.tbl = NoDev => Away(p)
    /\ p.tbl # NoDev => Here(p) /\ p.run = "on"
    /\ p.run # "on" => held = {} /\ evq = <<>>

OrderInv == sflaws \cap {"lost", "failed"} = {} => Ordered(kern, evq)

PhaseInv ==
  sflaws \subseteq {"inuse"} =>
    /\ InPhase(p, Expected(kern, evq))
    /\ \A c \in held : c \in DOMAIN p.cont /\ p.cont[c].live

\* A process without its device has the end of a reset still to poll.
ComesInv ==
  sflaws = {} /\ p.run = "on" /\ p.tbl = NoDev =>
    (\E i \in 1..Len(evq) : evq[i] = "restarted") \/ kern \in {"stopping", "down", "dead"}

SalInv == KernelInv /\ OwnInv /\ OrderInv /\ PhaseInv /\ ComesInv

LEMMA SalBegins == SalInit => SalInv
<1> SUFFICES ASSUME SalInit PROVE SalInv
  BY Zenon
<1>1. /\ kern = "up" /\ evq = <<>> /\ held = {} /\ sflaws = {} /\ p.run = "off" /\ p.tbl = NoDev
      /\ p.cont = <<>> /\ ~p.reset /\ p.saved = Null
  BY Zenon DEF SalInit
<1>2. p \in Proc
  BY DEF SalInit, Proc, Table, Bits, NoDev, Null
<1>3. Freed(p) /\ Away(p)
  BY <1>1 DEF Freed, Away, Only
<1>4. KernelInv /\ OwnInv
  BY <1>1, <1>2, <1>3 DEF KernelInv, OwnInv, Kernels
<1>5. OrderInv
  BY <1>1 DEF OrderInv, Ordered
<1>6. PhaseInv /\ ComesInv
  BY <1>1 DEF PhaseInv, ComesInv, InPhase
<1> QED BY <1>4, <1>5, <1>6, Zenon DEF SalInv


\* A failed call and the end of the process's services leave only the kernel.
LEMMA Failing ==
  ASSUME KernelInv', "failed" \in sflaws'
  PROVE  SalInv'
  BY Zenon DEF SalInv, OwnInv, OrderInv, PhaseInv, ComesInv

\* The kernel goes on and sends nothing.
LEMMA KernelMoves ==
  ASSUME SalInv, kern' \in Kernels, kern' = "dead" \/ (kern # "dead" /\ Due(kern') = Due(kern)),
         kern \in {"stopping", "down"} => kern' \in {"stopping", "down", "dead"}, kern # "dead",
         evq' = evq, p' = p, held' = held, sflaws \subseteq sflaws'
  PROVE  SalInv'
<1>1. KernelInv' /\ OwnInv'
  BY Zenon DEF SalInv, KernelInv, OwnInv
<1>2. OrderInv'
  BY Zenon DEF SalInv, OrderInv, Ordered
<1>3. PhaseInv'
  <2>1. Expected(kern', evq) \in {Expected(kern, evq), "none"}
    BY Zenon DEF Expected, Due
  <2>2. SUFFICES ASSUME sflaws' \subseteq {"inuse"} PROVE InPhase(p, Expected(kern', evq))
    BY Zenon DEF SalInv, PhaseInv
  <2>3. InPhase(p, Expected(kern, evq)) /\ InPhase(p, "none")
    BY <2>2, Zenon DEF SalInv, PhaseInv, InPhase
  <2> QED BY <2>1, <2>3, Zenon
<1>4. ComesInv'
  BY Zenon DEF SalInv, ComesInv
<1> QED BY <1>1, <1>2, <1>3, <1>4, Zenon DEF SalInv

\* The kernel goes on and sends its next events.
LEMMA KernelSends ==
  ASSUME SalInv, NEW es \in Seq(Events), kern' \in Kernels, Send(es), p' = p, held' = held,
         Ordered(kern, evq) => /\ Ordered(kern', evq \o es)
                               /\ Expected(kern', evq \o es) = Expected(kern, evq),
         kern \in {"up", "failing", "announced"} \/ es = <<"restarted">>, kern # "dead"
  PROVE  SalInv'
<1>1. evq \in Seq(Events)
  BY Zenon DEF SalInv, KernelInv
<1>2. CASE p.run # "on"
  <2>1. evq' = evq /\ sflaws' = sflaws
    BY <1>2, Zenon DEF Send
  <2>2. KernelInv'
    BY <1>1, <2>1, Zenon DEF KernelInv
  <2>3. CASE "failed" \in sflaws
    BY <2>1, <2>2, <2>3, Failing, Zenon
  <2>4. CASE "failed" \notin sflaws
    <3>1. p.tbl = NoDev /\ held = {} /\ evq = <<>>
      BY <1>2, <2>4, Zenon DEF SalInv, OwnInv
    <3>2. OwnInv'
      BY <2>1, Zenon DEF SalInv, OwnInv
    <3>3. OrderInv' /\ PhaseInv' /\ ComesInv'
      BY <1>2, <2>1, <3>1 DEF OrderInv, Ordered, PhaseInv, InPhase, ComesInv
    <3> QED BY <2>2, <3>2, <3>3, Zenon DEF SalInv
  <2> QED BY <2>3, <2>4, Zenon
<1>3. CASE p.run = "on" /\ evq' = evq \o es /\ sflaws' = sflaws
  <2>1. KernelInv' /\ OwnInv'
    BY <1>1, <1>3 DEF SalInv, KernelInv, OwnInv
  <2>2. OrderInv'
    BY <1>3, Zenon DEF SalInv, OrderInv
  <2>3. PhaseInv'
    BY <1>3, Zenon DEF SalInv, OrderInv, PhaseInv
  <2>4. ComesInv'
    <3>1. SUFFICES ASSUME sflaws = {}, p.tbl = NoDev
                   PROVE  (\E i \in 1..Len(evq') : evq'[i] = "restarted") \/ kern' \in {"stopping", "down", "dead"}
      BY <1>3, Zenon DEF ComesInv
    <3>2. CASE es = <<"restarted">>
      <4>1. Len(evq) + 1 \in 1..Len(evq') /\ evq'[Len(evq) + 1] = "restarted"
        BY <1>1, <1>3, <3>2
      <4> QED BY <4>1, Zenon
    <3>3. CASE kern \in {"up", "failing", "announced"}
      <4>1. PICK i \in 1..Len(evq) : evq[i] = "restarted"
        BY <1>3, <3>1, <3>3, Zenon DEF SalInv, ComesInv
      <4>2. i \in 1..Len(evq') /\ evq'[i] = "restarted"
        BY <1>1, <1>3, <4>1
      <4> QED BY <4>2, Zenon
    <3> QED BY <3>2, <3>3, Zenon
  <2> QED BY <2>1, <2>2, <2>3, <2>4, Zenon DEF SalInv
<1>4. CASE /\ p.run = "on" /\ sflaws' = sflaws \cup {"lost"}
           /\ \E n \in 0..(Len(es) - 1) : evq' = evq \o SubSeq(es, 1, n)
  <2>1. KernelInv'
    BY <1>1, <1>4 DEF KernelInv
  <2>2. OwnInv'
    BY <1>4, Zenon DEF SalInv, OwnInv
  <2>3. OrderInv' /\ PhaseInv' /\ ComesInv'
    BY <1>4, ZenonT(30) DEF OrderInv, PhaseInv, ComesInv
  <2> QED BY <2>1, <2>2, <2>3, Zenon DEF SalInv
<1> QED BY <1>2, <1>3, <1>4, Zenon DEF Send

LEMMA KernelKeeps ==
  ASSUME SalInv, ErrorFound \/ Worker \/ WaitEnds
  PROVE  SalInv'
<1>1. CASE ErrorFound
  BY <1>1, KernelMoves, Zenon DEF ErrorFound, Kernels, Due
<1>2. CASE RemoveDevice
  BY <1>2, KernelMoves, Zenon DEF RemoveDevice, Kernels, Due
<1>3. CASE WaitEnds
  BY <1>3, KernelMoves DEF WaitEnds, Kernels, Due
<1>4. CASE Restarting
  <2>1. /\ kern = "failing" /\ kern' = "announced" /\ Send(<<"restarting">>) /\ p' = p /\ held' = held
    BY <1>4, Zenon DEF Restarting
  <2>2. /\ "restarting" \in Events /\ "announced" \in Kernels \ {"dead"} /\ "failing" \in Kernels \ {"dead"}
        /\ "restarting" = Due("failing") /\ Due("announced") = Succ("restarting")
    BY Zenon DEF Events, Kernels, Due, Succ
  <2>3. evq \in Seq(Events)
    BY Zenon DEF SalInv, KernelInv
  <2>4. Ordered(kern, evq) => /\ Ordered(kern', evq \o <<"restarting">>)
                              /\ Expected(kern', evq \o <<"restarting">>) = Expected(kern, evq)
    BY <2>1, <2>2, <2>3, OneSent, Zenon
  <2>5. <<"restarting">> \in Seq(Events)
    BY <2>2
  <2> QED BY <2>1, <2>2, <2>4, <2>5, KernelSends, ZenonT(30)
<1>5. CASE StopDevice
  <2>1. /\ kern = "announced" /\ kern' = "stopping" /\ Send(<<"stop", "shutdown">>) /\ p' = p /\ held' = held
    BY <1>5, Zenon DEF StopDevice
  <2>2. evq \in Seq(Events)
    BY Zenon DEF SalInv, KernelInv
  <2>3. Ordered(kern, evq) => /\ Ordered(kern', evq \o <<"stop", "shutdown">>)
                              /\ Expected(kern', evq \o <<"stop", "shutdown">>) = Expected(kern, evq)
    BY <2>1, <2>2, TwoSent, Zenon
  <2>4. <<"stop", "shutdown">> \in Seq(Events) /\ "stopping" \in Kernels
    BY DEF Events, Kernels
  <2> QED BY <2>1, <2>3, <2>4, KernelSends, ZenonT(30)
<1>6. CASE RestartDevice
  <2>1. CASE kern' = "dead" /\ evq' = evq /\ sflaws' = sflaws
    BY <1>6, <2>1, KernelMoves, Zenon DEF RestartDevice, Kernels
  <2>2. CASE kern' = "up" /\ Send(<<"restarted">>)
    <3>1. kern = "down" /\ p' = p /\ held' = held
      BY <1>6, Zenon DEF RestartDevice
    <3>2. /\ "restarted" \in Events /\ "up" \in Kernels \ {"dead"} /\ "down" \in Kernels \ {"dead"}
          /\ "restarted" = Due("down") /\ Due("up") = Succ("restarted")
      BY Zenon DEF Events, Kernels, Due, Succ
    <3>3. evq \in Seq(Events)
      BY Zenon DEF SalInv, KernelInv
    <3>4. Ordered(kern, evq) => /\ Ordered(kern', evq \o <<"restarted">>)
                                /\ Expected(kern', evq \o <<"restarted">>) = Expected(kern, evq)
      BY <2>2, <3>1, <3>2, <3>3, OneSent, Zenon
    <3>5. <<"restarted">> \in Seq(Events)
      BY <3>2
    <3> QED BY <2>2, <3>1, <3>2, <3>4, <3>5, KernelSends, ZenonT(30)
  <2> QED BY <1>6, <2>1, <2>2, Zenon DEF RestartDevice
<1> QED BY <1>1, <1>2, <1>3, <1>4, <1>5, <1>6, Zenon DEF Worker


\* What Found says, in the form the actions use.
LEMMA FoundDevice ==
  ASSUME NEW q \in Proc, Away(q), Freed(q), Exists, q.run = "on", NEW g, g = GetDevice(q, "none")
  PROVE  /\ g \in Proc /\ Here(g) /\ Freed(g) /\ Keeps(q, g)
         /\ g.tbl # NoDev /\ g.tbl.sys /\ ~g.reset /\ g.run = "on"
<1>1. /\ g \in Proc /\ Here(g) /\ Freed(g) /\ Keeps(q, g) /\ g.tbl.sys /\ ~g.reset /\ g.run = "on"
  BY Found, Zenon
<1>2. g.tbl # NoDev
  BY <1>1 DEF NoDev
<1> QED BY <1>1, <1>2, Zenon

LEMMA StartKeeps ==
  ASSUME SalInv, StartProcess
  PROVE  SalInv'
<1> DEFINE none == [init |-> FALSE, start |-> FALSE, failed |-> FALSE]
           q == [p EXCEPT !.bits = none, !.run = "on"]
           g == GetDevice(q, "none")
           r == IF g.run = "crashed" \/ Started(g) THEN g ELSE [Unregister(g) EXCEPT !.run = "failed"]
<1>1. /\ p.run = "off" /\ evq' = <<>> /\ kern' = kern /\ held' = held
      /\ \/ p' = r /\ sflaws' = sflaws \cup JoinNote(p, <<>>)
         \/ "failed" \in sflaws'
  <2> HIDE DEF r
  <2> QED BY Zenon DEF StartProcess, r
<1>2. KernelInv'
  BY <1>1 DEF SalInv, KernelInv
<1>3. CASE "failed" \in sflaws'
  BY <1>2, <1>3, Failing, Zenon
<1>4. CASE "failed" \notin sflaws' /\ p' = r /\ sflaws' = sflaws \cup JoinNote(p, <<>>)
  <2>1. "failed" \notin sflaws
    BY <1>4, Zenon
  <2>2. p \in Proc /\ Freed(p) /\ Away(p) /\ held = {} /\ p.tbl = NoDev
    BY <1>1, <2>1, Zenon DEF SalInv, OwnInv
  <2>3. q \in Proc /\ q.run = "on" /\ q.cont = p.cont /\ q.tbl = p.tbl /\ q.reset = p.reset /\ q.saved = p.saved
    <3>1. none \in Bits
      BY Zenon DEF Bits
    <3> HIDE DEF none
    <3> QED BY <2>2, <3>1, Zenon DEF Proc
  <2>4. Freed(q) /\ Away(q)
    BY <2>2, <2>3, ZenonT(60) DEF Freed, Away, Only
  <2>5. OrderInv'
    BY <1>1 DEF OrderInv, Ordered
  <2> HIDE DEF q
  <2>6. CASE Exists
    <3>1. g \in Proc /\ Here(g) /\ Freed(g) /\ g.tbl # NoDev /\ g.tbl.sys /\ ~g.reset /\ g.run = "on"
      <4> HIDE DEF g
      <4> QED BY <2>3, <2>4, <2>6, FoundDevice, Zenon DEF g
    <3> HIDE DEF g
    <3>2. p' = g
      BY <1>4, <3>1, Zenon DEF Started, Here
    <3>3. OwnInv'
      BY <3>1, <3>2, Zenon DEF OwnInv
    <3>4. PhaseInv'
      <4>1. SUFFICES ASSUME sflaws' \subseteq {"inuse"} PROVE InPhase(g, Due(kern))
        BY <1>1, <2>2, <3>2, Zenon DEF PhaseInv, Expected
      <4>2. kern \in {"up", "failing"}
        BY <1>4, <2>2, <2>6, <4>1 DEF JoinNote, Exists
      <4> QED BY <3>1, <4>2, Zenon DEF InPhase, Due
    <3>5. ComesInv'
      BY <3>1, <3>2, Zenon DEF ComesInv
    <3> QED BY <1>2, <2>5, <3>3, <3>4, <3>5, Zenon DEF SalInv
  <2>7. CASE ~Exists
    <3>1. g = q
      BY <2>7, Zenon DEF GetDevice
    <3>2. p' = [q EXCEPT !.run = "failed"]
      BY <1>4, <2>2, <2>3, <3>1, Zenon DEF Started, Unregister
    <3>3. /\ p' \in Proc /\ p'.run = "failed" /\ p'.cont = q.cont /\ p'.tbl = NoDev
          /\ p'.reset = q.reset /\ p'.saved = q.saved
      BY <2>2, <2>3, <3>2, Zenon DEF Proc
    <3>4. Freed(p') /\ Away(p')
      BY <2>4, <3>3, ZenonT(60) DEF Freed, Away, Only
    <3>5. OwnInv'
      BY <1>1, <2>2, <3>3, <3>4, Zenon DEF OwnInv
    <3>6. PhaseInv' /\ ComesInv'
      BY <1>1, <2>2, <3>3 DEF PhaseInv, InPhase, ComesInv
    <3> QED BY <1>2, <2>5, <3>5, <3>6 DEF SalInv
  <2> QED BY <2>6, <2>7, Zenon
<1> QED BY <1>1, <1>3, <1>4

LEMMA StopKeeps ==
  ASSUME SalInv, StopProcess
  PROVE  SalInv'
<1> DEFINE u == [Unregister(p) EXCEPT !.tbl = NoDev]
<1>1. /\ p.run = "on" /\ p' = [Unregister(p) EXCEPT !.tbl = NoDev, !.run = "off"]
      /\ evq' = <<>> /\ held' = {} /\ kern' = kern /\ sflaws' = sflaws
  BY DEF StopProcess
<1>2. KernelInv'
  BY <1>1 DEF SalInv, KernelInv
<1>3. CASE "failed" \in sflaws
  BY <1>1, <1>2, <1>3, Failing, Zenon
<1>4. CASE "failed" \notin sflaws
  <2>1. u \in Proc /\ Away(u) /\ Freed(u)
    <3>1. p \in Proc /\ Freed(p) /\ (p.tbl = NoDev => Away(p)) /\ (p.tbl # NoDev => Here(p))
      BY <1>4 DEF SalInv, OwnInv
    <3>2. CASE p.tbl = NoDev
      <4>1. u = p
        BY <3>1, <3>2, Zenon DEF Unregister, Proc
      <4> QED BY <3>1, <3>2, <4>1
    <3>3. CASE p.tbl # NoDev
      <4> HIDE DEF u
      <4> QED BY <3>1, <3>3, StopNotedHere, Zenon DEF u
    <3> QED BY <3>2, <3>3, Zenon
  <2>2. p' = [u EXCEPT !.run = "off"]
    BY <1>1, Zenon
  <2> HIDE DEF u
  <2>3. /\ p' \in Proc /\ p'.run = "off" /\ p'.cont = u.cont /\ p'.tbl = u.tbl
        /\ p'.reset = u.reset /\ p'.saved = u.saved
    BY <2>1, <2>2, ZenonT(60) DEF Proc
  <2>4. Freed(p') /\ Away(p')
    BY <2>1, <2>3, ZenonT(60) DEF Freed, Away, Only
  <2>5. p'.tbl = NoDev
    BY <2>4, Zenon DEF Away
  <2>6. OwnInv'
    BY <1>1, <2>3, <2>4, <2>5, Zenon DEF OwnInv
  <2>7. OrderInv' /\ PhaseInv' /\ ComesInv'
    BY <1>1, <2>3, <2>5 DEF OrderInv, Ordered, PhaseInv, InPhase, ComesInv
  <2> QED BY <1>2, <2>6, <2>7 DEF SalInv
<1> QED BY <1>3, <1>4, Zenon

LEMMA FindKeeps ==
  ASSUME SalInv, FindNewDevices
  PROVE  SalInv'
<1> DEFINE g == GetDevice(p, "none")
<1>1. /\ p.run = "on" /\ p.tbl = NoDev /\ Exists /\ evq' = evq /\ kern' = kern /\ held' = held
      /\ \/ p' = g /\ sflaws' = sflaws \cup JoinNote(p, evq)
         \/ "failed" \in sflaws'
  <2> HIDE DEF g
  <2> QED BY Zenon DEF FindNewDevices, Call, g
<1>2. KernelInv'
  BY <1>1, Zenon DEF SalInv, KernelInv
<1>3. CASE "failed" \in sflaws'
  BY <1>2, <1>3, Failing, Zenon
<1>4. CASE "failed" \notin sflaws' /\ p' = g /\ sflaws' = sflaws \cup JoinNote(p, evq)
  <2>1. p \in Proc /\ Freed(p) /\ Away(p)
    BY <1>1, <1>4, Zenon DEF SalInv, OwnInv
  <2>2. /\ g \in Proc /\ Here(g) /\ Freed(g) /\ Keeps(p, g)
        /\ g.tbl # NoDev /\ g.tbl.sys /\ ~g.reset /\ g.run = "on"
    <3> HIDE DEF g
    <3> QED BY <1>1, <2>1, FoundDevice DEF g
  <2> HIDE DEF g
  <2>3. OwnInv'
    BY <1>4, <2>2, Zenon DEF OwnInv
  <2>4. OrderInv'
    BY <1>1, <1>4, Zenon DEF SalInv, OrderInv
  <2>5. PhaseInv'
    <3>1. SUFFICES ASSUME sflaws' \subseteq {"inuse"}
                   PROVE  /\ InPhase(g, Expected(kern, evq))
                          /\ \A c \in held : c \in DOMAIN g.cont /\ g.cont[c].live
      BY <1>1, <1>4, Zenon DEF PhaseInv
    <3>2. Expected(kern, evq) \in {"restarting", "restarted"}
      <4>1. evq \in Seq(Events) /\ kern \in Kernels
        BY Zenon DEF SalInv, KernelInv
      <4>2. CASE evq = <<>>
        <5>1. kern \in {"up", "failing"}
          BY <1>1, <1>4, <3>1, <4>1, <4>2 DEF JoinNote, Exists
        <5> QED BY <4>2, <5>1, Zenon DEF Expected, Due
      <4>3. CASE evq # <<>>
        <5>1. Head(evq) = evq[1] /\ evq[1] \in Events
          BY <4>1, <4>3
        <5>2. Head(evq) \notin {"stop", "shutdown"}
          BY <1>1, <1>4, <3>1, <4>3, Zenon DEF JoinNote
        <5> QED BY <4>3, <5>1, <5>2 DEF Expected, Events
      <4> QED BY <4>2, <4>3, Zenon
    <3>3. \A c \in held : c \in DOMAIN p.cont /\ p.cont[c].live
      BY <1>4, <3>1 DEF SalInv, PhaseInv
    <3>4. \A c \in held : c \in DOMAIN g.cont /\ g.cont[c].live
      BY <2>2, <3>3, Zenon DEF Keeps
    <3> QED BY <2>2, <3>2, <3>4, Zenon DEF InPhase
  <2>6. ComesInv'
    BY <1>4, <2>2 DEF ComesInv
  <2> QED BY <1>2, <2>3, <2>4, <2>5, <2>6, Zenon DEF SalInv
<1> QED BY <1>1, <1>3, <1>4, Zenon

LEMMA HoldKeeps ==
  ASSUME SalInv, GetInstances
  PROVE  SalInv'
<1>1. /\ p.run = "on" /\ p.tbl.sys /\ held' = held \cup {p.tbl.sal}
      /\ kern' = kern /\ evq' = evq /\ p' = p /\ sflaws' = sflaws
  BY Zenon DEF GetInstances
<1>2. KernelInv' /\ OwnInv' /\ OrderInv' /\ ComesInv'
  BY <1>1 DEF SalInv, KernelInv, OwnInv, OrderInv, ComesInv
<1>3. PhaseInv'
  <2>1. SUFFICES ASSUME sflaws \subseteq {"inuse"} PROVE p.tbl.sal \in DOMAIN p.cont /\ p.cont[p.tbl.sal].live
    BY <1>1, Zenon DEF SalInv, PhaseInv
  <2>2. p.tbl # NoDev
    BY <1>1 DEF NoDev
  <2>3. Here(p)
    BY <2>1, <2>2 DEF SalInv, OwnInv
  <2> QED BY <2>3, Zenon DEF Here, Only
<1> QED BY <1>2, <1>3, Zenon DEF SalInv


\* The announcement of a reset: the container is handed on.
LEMMA Announced ==
  ASSUME NEW q \in Proc, Here(q), Freed(q), NEW r, r = [q EXCEPT !.reset = TRUE, !.saved = q.tbl.sal]
  PROVE  /\ r \in Proc /\ Here(r) /\ Freed(r) /\ Keeps(q, r)
         /\ r.run = q.run /\ r.tbl = q.tbl /\ r.reset
<1>1. q.tbl.sal \in Nat
  BY DEF Here, Proc
<1>2. /\ r \in Proc /\ r.run = q.run /\ r.tbl = q.tbl /\ r.reset /\ r.saved = q.tbl.sal
      /\ r.bits = q.bits /\ r.cont = q.cont
  BY <1>1, Zenon DEF Proc
<1>3. Freed(r) /\ Keeps(q, r)
  BY <1>2, Zenon DEF Freed, Keeps
<1>4. Only(r, r.tbl.sal)
  BY <1>2, Zenon DEF Only, Here
<1> QED BY <1>2, <1>3, <1>4, ZenonT(30) DEF Here, Cont

LEMMA Present ==
  ASSUME NEW r \in Proc, Here(r)
  PROVE  r.tbl # NoDev
<1>1. r.tbl.sal \in DOMAIN r.cont /\ r.cont \in Seq(Container)
  BY Zenon DEF Here, Proc
<1>2. r.tbl.sal # -1
  BY <1>1
<1>3. NoDev.sal = -1
  BY DEF NoDev
<1> QED BY <1>2, <1>3, Zenon

\* An event polled without a fault: what it does to the process, and which
\* state of the services it leaves for the event after it.
LEMMA Noted ==
  ASSUME NEW q \in Proc, q.run = "on", Freed(q), q.tbl = NoDev => Away(q), q.tbl # NoDev => Here(q),
         NEW e \in Events, NEW r, r = Notify(q, e, "none")
  PROVE  /\ r \in Proc /\ r.run = "on" /\ Freed(r)
         /\ r.tbl = NoDev => Away(r)
         /\ r.tbl # NoDev => Here(r)
         /\ InPhase(q, e) => Keeps(q, r) /\ InPhase(r, Succ(e)) /\ InPhase(r, "none")
         /\ e = "restarted" /\ Exists => r.tbl # NoDev
         /\ e \in {"restarting", "stop"} /\ q.tbl # NoDev => r.tbl # NoDev
<1>1. Keeps(q, q)
  BY Zenon DEF Keeps
<1>2. InPhase(r, "none")
  BY Zenon DEF InPhase
<1>3. CASE e = "restarted"
  <2>1. r = GetDevice(q, "none") /\ Succ(e) = "restarting"
    <3>1. Succ(e) = "restarting"
      BY <1>3, Zenon DEF Succ
    <3>2. r = GetDevice(q, "none")
      BY <1>3, Zenon DEF Notify
    <3> QED BY <3>1, <3>2, Zenon
  <2>2. CASE q.tbl = NoDev /\ Exists
    <3>1. /\ r \in Proc /\ Here(r) /\ Freed(r) /\ Keeps(q, r)
          /\ r.tbl # NoDev /\ r.tbl.sys /\ ~r.reset /\ r.run = "on"
      BY <2>1, <2>2, FoundDevice, Zenon
    <3> QED BY <1>2, <1>3, <2>1, <3>1, Zenon DEF InPhase
  <2>3. CASE q.tbl # NoDev \/ ~Exists
    <3>1. r = q
      BY <2>1, <2>3, Zenon DEF GetDevice
    <3> QED BY <1>1, <1>2, <1>3, <2>1, <2>3, <3>1 DEF InPhase
  <2> QED BY <2>2, <2>3, Zenon
<1>4. CASE e # "restarted" /\ q.tbl = NoDev
  <2>1. r = q
    BY <1>4, Zenon DEF Notify
  <2> QED BY <1>1, <1>2, <1>4, <2>1, Zenon DEF InPhase
<1>5. CASE e = "restarting" /\ q.tbl # NoDev
  <2>1. r = [q EXCEPT !.reset = TRUE, !.saved = q.tbl.sal] /\ Succ(e) = "stop"
    BY <1>5, Zenon DEF Notify, Succ
  <2>2. /\ r \in Proc /\ Here(r) /\ Freed(r) /\ Keeps(q, r) /\ r.run = q.run /\ r.tbl = q.tbl /\ r.reset
    BY <1>5, <2>1, Announced, ZenonT(30)
  <2> QED BY <1>2, <1>5, <2>1, <2>2, Zenon DEF InPhase
<1>6. CASE e = "stop" /\ q.tbl # NoDev
  <2>1. r = [SubsystemStop(q, "none") EXCEPT !.tbl.sys = FALSE] /\ Succ(e) = "shutdown"
    BY <1>6, Zenon DEF Notify, Succ
  <2>2. /\ r \in Proc /\ Here(r) /\ Freed(r) /\ Keeps(q, r) /\ r.run = q.run /\ r.reset = q.reset /\ ~r.tbl.sys
    BY <1>6, <2>1, StopNoted, Zenon
  <2>3. r.tbl # NoDev
    BY <2>2, Present, Zenon
  <2> QED BY <1>2, <1>6, <2>1, <2>2, <2>3, Zenon DEF InPhase
<1>7. CASE e = "shutdown" /\ q.tbl # NoDev
  <2>1. r = [SubsystemShutdown(q, "none") EXCEPT !.tbl = NoDev] /\ Succ(e) = "restarted"
    BY <1>7, Zenon DEF Notify, Succ
  <2>2. /\ q.tbl.sal \in DOMAIN q.cont /\ q.bits.init /\ Only(q, q.tbl.sal)
        /\ q.saved = (IF q.reset THEN q.tbl.sal ELSE Null) /\ Cont(q).cy # "freed" /\ Cont(q).dc # "freed"
    BY <1>7, Zenon DEF Here
  <2>3. r \in Proc /\ Away(r) /\ Freed(r) /\ r.run = q.run /\ (q.reset => Keeps(q, r))
    BY <2>1, <2>2, Shut, Zenon
  <2>4. r.tbl = NoDev
    BY <2>3, ZenonT(60) DEF Away
  <2> QED BY <1>2, <1>7, <2>1, <2>3, <2>4, Zenon DEF InPhase
<1> QED BY <1>3, <1>4, <1>5, <1>6, <1>7, Zenon DEF Events

LEMMA PollKeeps ==
  ASSUME SalInv, Poll
  PROVE  SalInv'
<1> DEFINE e == Head(evq)
           r == Notify(p, e, "none")
           note == IF e = "restarted" THEN JoinNote(p, Tail(evq)) ELSE {}
<1>1. /\ p.run = "on" /\ evq # <<>> /\ evq' = Tail(evq) /\ kern' = kern /\ held' = held
      /\ \/ p' = r /\ sflaws' = sflaws \cup note
         \/ "failed" \in sflaws'
  <2> HIDE DEF r, note
  <2> QED BY Zenon DEF Poll, Call, r, note
<1>2. evq \in Seq(Events) /\ kern \in Kernels
  BY Zenon DEF SalInv, KernelInv
<1>3. KernelInv' /\ e = evq[1] /\ e \in Events
  BY <1>1, <1>2 DEF KernelInv
<1>4. CASE "failed" \in sflaws'
  BY <1>3, <1>4, Failing, Zenon
<1>5. CASE "failed" \notin sflaws' /\ p' = r /\ sflaws' = sflaws \cup note
  <2>1. /\ p \in Proc /\ Freed(p) /\ (p.tbl = NoDev => Away(p)) /\ (p.tbl # NoDev => Here(p))
    BY <1>5, Zenon DEF SalInv, OwnInv
  <2>2. /\ r \in Proc /\ r.run = "on" /\ Freed(r)
        /\ r.tbl = NoDev => Away(r)
        /\ r.tbl # NoDev => Here(r)
        /\ InPhase(p, e) => Keeps(p, r) /\ InPhase(r, Succ(e)) /\ InPhase(r, "none")
        /\ e = "restarted" /\ Exists => r.tbl # NoDev
        /\ e \in {"restarting", "stop"} /\ p.tbl # NoDev => r.tbl # NoDev
    <3> HIDE DEF e, r
    <3> QED BY <1>1, <1>3, <2>1, Noted, Zenon DEF r
  <2> HIDE DEF r, e, note
  <2>3. OwnInv'
    BY <1>5, <2>2, Zenon DEF OwnInv
  <2>4. Ordered(kern, evq) =>
          /\ Ordered(kern, evq') /\ Expected(kern, evq') \in {Succ(e), "none"}
          /\ evq' = <<>> /\ kern # "dead" => Due(kern) = Succ(e)
    BY <1>1, <1>2, <1>3, OnePolled, Zenon
  <2>5. OrderInv'
    BY <1>1, <1>5, <2>4, Zenon DEF SalInv, OrderInv
  <2>6. PhaseInv'
    <3>1. SUFFICES ASSUME sflaws' \subseteq {"inuse"}
                   PROVE  /\ InPhase(r, Expected(kern, evq'))
                          /\ \A c \in held : c \in DOMAIN r.cont /\ r.cont[c].live
      BY <1>1, <1>5, Zenon DEF PhaseInv
    <3>2. Ordered(kern, evq)
      BY <1>5, <3>1, Zenon DEF SalInv, OrderInv
    <3>3. InPhase(p, e) /\ \A c \in held : c \in DOMAIN p.cont /\ p.cont[c].live
      BY <1>1, <1>3, <1>5, <3>1, Zenon DEF SalInv, PhaseInv, Expected
    <3>4. Keeps(p, r) /\ InPhase(r, Expected(kern, evq'))
      BY <2>2, <2>4, <3>2, <3>3, Zenon
    <3> QED BY <3>3, <3>4, Zenon DEF Keeps
  <2>7. ComesInv'
    <3>1. SUFFICES ASSUME sflaws' = {}, r.tbl = NoDev
                   PROVE  (\E i \in 1..Len(evq') : evq'[i] = "restarted") \/ kern \in {"stopping", "down", "dead"}
      BY <1>1, <1>5, Zenon DEF ComesInv
    <3>2. Ordered(kern, evq)
      BY <1>5, <3>1, Zenon DEF SalInv, OrderInv
    <3>3. CASE e = "restarted"
      BY <1>2, <2>2, <3>1, <3>3, Zenon DEF Exists, Kernels
    <3>4. CASE e # "restarted" /\ p.tbl = NoDev
      <4>1. CASE kern \in {"stopping", "down", "dead"}
        BY <4>1, Zenon
      <4>2. CASE \E i \in 1..Len(evq) : evq[i] = "restarted"
        <5>1. PICK i \in 1..Len(evq) : evq[i] = "restarted"
          BY <4>2, Zenon
        <5>2. i - 1 \in 1..Len(evq') /\ evq'[i - 1] = "restarted"
          BY <1>1, <1>2, <1>3, <3>4, <5>1
        <5> QED BY <5>2, Zenon
      <4> QED BY <1>1, <1>5, <3>1, <3>4, <4>1, <4>2, Zenon DEF SalInv, ComesInv
    <3>5. CASE e = "shutdown" /\ p.tbl # NoDev
      <4>1. Succ(e) = "restarted"
        BY <3>5, Zenon DEF Succ
      <4>2. CASE evq' = <<>>
        BY <1>2, <2>4, <3>2, <4>1, <4>2, Zenon DEF Due, Kernels
      <4>3. CASE evq' # <<>>
        <5>1. evq' \in Seq(Events) /\ 1 \in 1..Len(evq')
          BY <1>1, <1>2, <4>3
        <5>2. evq'[1] \in {"restarted", "none"}
          BY <2>4, <3>2, <4>1, <4>3, Zenon DEF Expected
        <5>3. evq'[1] # "none"
          BY <5>1 DEF Events
        <5> QED BY <5>1, <5>2, <5>3, Zenon
      <4> QED BY <4>2, <4>3, Zenon
    <3> QED BY <1>3, <2>2, <3>1, <3>3, <3>4, <3>5, Zenon DEF Events
  <2> QED BY <1>3, <2>3, <2>5, <2>6, <2>7, Zenon DEF SalInv
<1> HIDE DEF r, e, note
<1> QED BY <1>1, <1>4, <1>5, Zenon
-----------------------------------------------------------------------------
(* The theorems.                                                             *)

\* In every reachable state, with any number of resets, failed calls and starts,
\* the queue has the events in the kernel's order, the process's table matches
\* the next one, and every allocated container is pointed to.
THEOREM SalInvariant == SalSpec => []SalInv
<1>1. SalInv /\ [SalNext]_salVars => SalInv'
  <2> SUFFICES ASSUME SalInv, [SalNext]_salVars PROVE SalInv'
    OBVIOUS
  <2>1. CASE ErrorFound \/ Worker \/ WaitEnds
    BY <2>1, KernelKeeps, Zenon
  <2>2. CASE StartProcess
    BY <2>2, StartKeeps, Zenon
  <2>3. CASE StopProcess
    BY <2>3, StopKeeps, Zenon
  <2>4. CASE Poll
    BY <2>4, PollKeeps, Zenon
  <2>5. CASE FindNewDevices
    BY <2>5, FindKeeps, Zenon
  <2>6. CASE GetInstances
    BY <2>6, HoldKeeps, Zenon
  <2>7. CASE UNCHANGED salVars
    BY <2>7, Zenon DEF salVars, SalInv, KernelInv, OwnInv, OrderInv, PhaseInv, ComesInv
  <2> QED BY <2>1, <2>2, <2>3, <2>4, <2>5, <2>6, <2>7 DEF SalNext
<1> QED BY <1>1, SalBegins, PTL DEF SalSpec

\* Where a live container is, and what its instances are.
LEMMA Live ==
  ASSUME NEW q \in Proc, (q.tbl = NoDev => Away(q)), (q.tbl # NoDev => Here(q)),
         NEW c \in DOMAIN q.cont, q.cont[c].live
  PROVE  /\ c \in Nat \ {0} /\ c \in {q.tbl.sal, q.saved}
         /\ q.cont[c].cy # "freed" /\ q.cont[c].dc # "freed"
         /\ "running" \in {q.cont[c].cy, q.cont[c].dc} => q.tbl.sal = c /\ q.tbl.mapped
<1>1. c \in Nat \ {0}
  BY DEF Proc
<1>2. CASE q.tbl = NoDev
  <2>1. c = q.saved
    BY <1>2, Zenon DEF Away, Only
  <2>2. q.cont[c].cy = "restarting" /\ q.cont[c].dc = "restarting"
    BY <1>1, <1>2, <2>1, Zenon DEF Away, Null
  <2> QED BY <1>1, <2>1, <2>2
<1>3. CASE q.tbl # NoDev
  <2>1. c = q.tbl.sal /\ q.tbl.mapped
    BY <1>3, Zenon DEF Here, Only
  <2>2. q.cont[c].cy # "freed" /\ q.cont[c].dc # "freed"
    <3>1. Cont(q).cy # "freed" /\ Cont(q).dc # "freed"
      <4>1. CASE q.tbl.sys
        BY <1>3, <4>1, Zenon DEF Here
      <4>2. CASE ~q.tbl.sys
        BY <1>3, <4>2, Zenon DEF Here
      <4> QED BY <4>1, <4>2, Zenon
    <3> QED BY <2>1, <3>1, Zenon DEF Cont
  <2> QED BY <1>1, <2>1, <2>2, Zenon
<1> QED BY <1>2, <1>3, Zenon

\* The instances an application holds pointers to stay allocated through any
\* number of resets, however late it polls the events.
THEOREM InstancesAreKept == SalSpec => []InstancesKept
<1>1. SalInv => InstancesKept
  <2> SUFFICES ASSUME SalInv, sflaws \subseteq {"inuse"}, NEW c \in held
               PROVE  p.cont[c].live /\ "freed" \notin {p.cont[c].cy, p.cont[c].dc}
    BY Zenon DEF InstancesKept
  <2>1. c \in DOMAIN p.cont /\ p.cont[c].live
    BY Zenon DEF SalInv, PhaseInv
  <2>2. p \in Proc /\ (p.tbl = NoDev => Away(p)) /\ (p.tbl # NoDev => Here(p))
    BY Zenon DEF SalInv, OwnInv
  <2> QED BY <2>1, <2>2, Live, Zenon
<1> QED BY <1>1, SalInvariant, PTL

\* The allocated containers are those the device structure or
\* accel_dev_sal_hdl_ptr points to, SalCtrl_ServiceEventInit never finds
\* pSalHandle NULL during a reset, and only a mapped device's instances run.
THEOREM ContainersAreOwned == SalSpec => []ContainersOwned
<1>1. SalInv => ContainersOwned
  <2> SUFFICES ASSUME SalInv, "failed" \notin sflaws
               PROVE  /\ {c \in DOMAIN p.cont : p.cont[c].live} = {p.tbl.sal, p.saved} \ {Null, -1}
                      /\ p.run # "crashed"
                      /\ \A c \in DOMAIN p.cont :
                           "running" \in {p.cont[c].cy, p.cont[c].dc} => p.tbl.sal = c /\ p.tbl.mapped
    BY Zenon DEF ContainersOwned
  <2>1. p \in Proc /\ Freed(p) /\ p.run # "crashed" /\ (p.tbl = NoDev => Away(p)) /\ (p.tbl # NoDev => Here(p))
    BY Zenon DEF SalInv, OwnInv
  <2>2. \A c \in DOMAIN p.cont : p.cont[c].live => c \in {p.tbl.sal, p.saved} \ {Null, -1}
    BY <2>1, Live DEF Null
  <2>3. \A c \in {p.tbl.sal, p.saved} \ {Null, -1} : c \in DOMAIN p.cont /\ p.cont[c].live
    <3>1. CASE p.tbl = NoDev
      BY <2>1, <3>1 DEF Away, Only, NoDev
    <3>2. CASE p.tbl # NoDev
      BY <2>1, <3>2, Zenon DEF Here, Only
    <3> QED BY <3>1, <3>2, Zenon
  <2>4. \A c \in DOMAIN p.cont :
          "running" \in {p.cont[c].cy, p.cont[c].dc} => p.tbl.sal = c /\ p.tbl.mapped
    <3> SUFFICES ASSUME NEW c \in DOMAIN p.cont, "running" \in {p.cont[c].cy, p.cont[c].dc}
                 PROVE  p.tbl.sal = c /\ p.tbl.mapped
      BY Zenon
    <3>1. p.cont[c].live
      BY <2>1, Zenon DEF Freed
    <3> QED BY <2>1, <3>1, Live, Zenon
  <2>5. {c \in DOMAIN p.cont : p.cont[c].live} = {p.tbl.sal, p.saved} \ {Null, -1}
    BY <2>2, <2>3, Zenon
  <2> QED BY <2>1, <2>4, <2>5, Zenon
<1> QED BY <1>1, SalInvariant, PTL

\* A process that polled all its events while the device is up has every
\* instance running and no reset pending, unless a weak spot was met.
THEOREM ProcessSettles == SalSpec => []Settles
<1>1. SalInv => Settles
  <2> SUFFICES ASSUME SalInv, p.run = "on", evq = <<>>, kern = "up", sflaws = {}
               PROVE  ~p.reset /\ AllRunning(p)
    BY DEF Settles
  <2>1. p.tbl # NoDev
    BY DEF SalInv, ComesInv
  <2>2. Here(p)
    BY <2>1, Zenon DEF SalInv, OwnInv
  <2>3. p.tbl.sys /\ ~p.reset
    BY <2>1 DEF SalInv, PhaseInv, InPhase, Expected, Due
  <2> QED BY <2>2, <2>3, Zenon DEF Here, AllRunning
<1> QED BY <1>1, SalInvariant, PTL
===============================================================================
