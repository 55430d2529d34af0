---------------------------- MODULE UserStart_proof ---------------------------
(* Proofs about UserStart: any number of processes, threads, devices and     *)
(* sections.                                                                 *)
EXTENDS UserStart, WellFoundedInduction, TLAPS

\* A set of numbers that is not empty has a least element.
LEMMA LeastExists ==
  ASSUME NEW S \in SUBSET Nat, S # {}
  PROVE  \E m \in S : \A k \in S : m <= k
<1>1. PICK m \in S : \A k \in S : ~(<<k, m>> \in OpToRel(<, Nat))
  BY NatLessThanWellFounded, WFMin, Zenon
<1>2. \A k \in S : ~(k < m)
  BY <1>1, Zenon DEF OpToRel
<1> QED BY <1>2

\* The name the search finds is not taken.
LEMMA SearchedNameFree ==
  ASSUME up \subseteq Devs, Candidates # {}
  PROVE  SearchedName \notin Taken
<1> DEFINE d == CHOOSE x \in Candidates : \A e \in Candidates : x <= e
           n == CHOOSE x \in Offered(d) : \A m \in Offered(d) : x <= m
<1>1. Candidates \in SUBSET Nat
  BY UserStartAssumption, Zenon DEF Candidates
<1>2. d \in Candidates
  <2>1. \E x \in Candidates : \A e \in Candidates : x <= e
    BY <1>1, LeastExists, Zenon
  <2> QED BY <2>1, Zenon
<1>3. Offered(d) # {}
  BY <1>2, Zenon DEF Candidates
<1>4. Offered(d) \in SUBSET Nat
  BY UserStartAssumption DEF Offered
<1> HIDE DEF d
<1>5. n \in Offered(d)
  <2>1. \E x \in Offered(d) : \A m \in Offered(d) : x <= m
    BY <1>3, <1>4, LeastExists, Zenon
  <2> QED BY <2>1, Zenon
<1>6. Section(d, n) \notin Taken
  BY <1>5, Zenon DEF Offered
<1> QED BY <1>6, Zenon DEF SearchedName, d
-----------------------------------------------------------------------------
(* The names.                                                                *)

\* An entry of the list has its four fields.
IsEntry(e) == e = [fd |-> e.fd, name |-> e.name, owner |-> e.owner, refs |-> e.refs]
NamesInv == up \subseteq Devs /\ (\A e \in list : IsEntry(e)) /\ NamesDistinct

LEMMA EntryShared ==
  ASSUME NEW e, IsEntry(e), NEW x, NEW f, f = [e EXCEPT !.refs = x]
  PROVE  IsEntry(f) /\ f.fd = e.fd /\ f.name = e.name /\ f.owner = e.owner /\ f.refs = x
  BY Zenon DEF IsEntry

\* Steps that change nothing about the names but, entry by entry, who shares
\* the file.
LEMMA SharedInv ==
  ASSUME NamesInv, up' \subseteq Devs, uflaws \subseteq uflaws', NEW F,
         \A f \in list' : \E e \in list : f = F[e],
         \A e \in list : F[e].name = e.name /\ IsEntry(F[e])
  PROVE  NamesInv'
<1>1. \A f \in list' : IsEntry(f)
  BY Zenon
<1>2. ASSUME "empty" \notin uflaws', NEW f \in list', NEW g \in list', f.name = g.name
      PROVE  f = g
  <2>1. PICK d \in list, e \in list : f = F[d] /\ g = F[e]
    BY Zenon
  <2>2. d.name = e.name
    BY <1>2, <2>1
  <2>3. d = e
    BY <1>2, <2>2 DEF NamesInv, NamesDistinct
  <2> QED BY <2>1, <2>3
<1> QED BY <1>1, <1>2 DEF NamesInv, NamesDistinct

\* The list is left alone.
LEMMA SameListInv ==
  ASSUME NamesInv, list' = list, up' \subseteq Devs, uflaws \subseteq uflaws'
  PROVE  NamesInv'
  BY Zenon DEF NamesInv, NamesDistinct

\* A name that is not taken is given out.
LEMMA GrantInv ==
  ASSUME NamesInv, NEW t \in Threads, NEW n, Grant(t, n), n \notin Taken \/ "empty" \in uflaws',
         up' = up, uflaws \subseteq uflaws'
  PROVE  NamesInv'
<1> DEFINE new == [fd |-> Me(t).file, name |-> n, owner |-> ProcOf[t], refs |-> {ProcOf[t]}]
<1>1. list' = list \cup {new} /\ new.name = n /\ IsEntry(new)
  BY Zenon DEF Grant, IsEntry
<1>2. n \notin Taken => \A e \in list : e.name # n
  BY Zenon DEF Taken
<1> HIDE DEF new
<1> QED BY <1>1, <1>2, Zenon DEF NamesInv, NamesDistinct

\* The first name is given out when no name is.
LEMMA WriteNameInv ==
  ASSUME NamesInv, NEW t \in Threads, WriteName(t)
  PROVE  NamesInv'
<1>1. up' = up /\ uflaws' = uflaws
  BY Zenon DEF WriteName
<1>2. CASE Grant(t, FirstName) /\ list = {}
  <2>1. FirstName \notin Taken
    BY <1>2, Zenon DEF Taken
  <2> QED BY <1>1, <1>2, <2>1, GrantInv, Zenon
<1>3. CASE list' = list
  BY <1>1, <1>3, SameListInv DEF NamesInv
<1> QED BY <1>2, <1>3, Zenon DEF WriteName, Refused

LEMMA SearchNameInv ==
  ASSUME NamesInv, NEW t \in Threads, SearchName(t)
  PROVE  NamesInv'
<1>1. up' = up /\ uflaws \subseteq uflaws'
  BY Zenon DEF SearchName, Note
<1>2. CASE up = {}
  BY <1>1, <1>2, GrantInv, Zenon DEF SearchName, Note
<1>3. CASE up # {} /\ Candidates = {}
  BY <1>1, <1>3, SameListInv, Zenon DEF SearchName, Refused, NamesInv
<1>4. CASE up # {} /\ Candidates # {}
  <2>1. SearchedName \notin Taken
    BY <1>4, SearchedNameFree DEF NamesInv
  <2> QED BY <1>1, <1>4, <2>1, GrantInv, Zenon DEF SearchName
<1> QED BY <1>2, <1>3, <1>4, Zenon

\* A process gives its name back or shares it.
LEMMA DropInv ==
  ASSUME NamesInv, NEW q, NEW fd, list' = Drop(list, q, fd), up' = up, uflaws \subseteq uflaws'
  PROVE  NamesInv'
<1> DEFINE F == [e \in list |-> [e EXCEPT !.refs = IF fd = e.fd THEN @ \ {q} ELSE @]]
<1>1. \A f \in list' : \E e \in list : f = F[e]
  BY Zenon DEF Drop
<1>2. \A e \in list : F[e].name = e.name /\ IsEntry(F[e])
  BY EntryShared DEF NamesInv
<1> HIDE DEF F
<1> QED BY <1>1, <1>2, SharedInv, Zenon DEF NamesInv

LEMMA ExitInv ==
  ASSUME NamesInv, NEW q \in Procs, Exit(q)
  PROVE  NamesInv'
<1> DEFINE F == [e \in list |-> [e EXCEPT !.refs = @ \ {q}]]
<1>1. \A f \in list' : \E e \in list : f = F[e]
  BY Zenon DEF Exit
<1>2. \A e \in list : F[e].name = e.name /\ IsEntry(F[e])
  BY DEF NamesInv, IsEntry
<1>3. up' = up /\ uflaws' = uflaws
  BY Zenon DEF Exit
<1> HIDE DEF F
<1> QED BY <1>1, <1>2, <1>3, SharedInv, Zenon DEF NamesInv

LEMMA ForkInv ==
  ASSUME NamesInv, NEW q \in Procs, NEW c \in Procs, Fork(q, c)
  PROVE  NamesInv'
<1> DEFINE F == [e \in list |-> [e EXCEPT !.refs = IF q \in @ THEN @ \cup {c} ELSE @]]
<1>1. \A f \in list' : \E e \in list : f = F[e]
  BY Zenon DEF Fork
<1>2. \A e \in list : F[e].name = e.name /\ IsEntry(F[e])
  BY DEF NamesInv, IsEntry
<1>3. up' = up /\ uflaws \subseteq uflaws'
  BY Zenon DEF Fork
<1> HIDE DEF F
<1> QED BY <1>1, <1>2, <1>3, SharedInv, Zenon DEF NamesInv

LEMMA NamesNext ==
  ASSUME NamesInv, [UsrNext]_usrVars
  PROVE  NamesInv'
<1> USE DEF Unchanged1
<1>1. CASE UNCHANGED usrVars
  BY <1>1, SameListInv, Zenon DEF usrVars, NamesInv
<1>2. ASSUME NEW t \in Threads, ThreadStep(t)
      PROVE  NamesInv'
  <2>1. CASE WriteName(t)
    BY <2>1, WriteNameInv, Zenon
  <2>2. CASE SearchName(t)
    BY <2>2, SearchNameInv, Zenon
  <2>3. CASE StopServices(t)
    <3>1. up' = up /\ uflaws \subseteq uflaws'
      BY <2>3, Zenon DEF StopServices, Note
    <3>2. list' = list \/ list' = Drop(list, ProcOf[t], Me(t).file)
      BY <2>3, Zenon DEF StopServices
    <3> QED BY <3>1, <3>2, SameListInv, DropInv, Zenon DEF NamesInv
  <2>4. CASE UserReset(t) \/ (\E at, next : Lock(t, at, next) \/ Unlock(t, at, next))
    <3>1. list' = list /\ up' = up /\ uflaws \subseteq uflaws'
      BY <2>4, Zenon DEF UserReset, Lock, Unlock, Note
    <3> QED BY <3>1, SameListInv, Zenon DEF NamesInv
  <2>5. CASE ToStart(t) \/ StartServices(t) \/ CountStart(t) \/ SetPid(t) \/ ReadCount(t)
    <3>1. list' = list /\ up' = up /\ uflaws \subseteq uflaws'
      BY <2>5, Zenon DEF ToStart, StartServices, CountStart, SetPid, ReadCount, Note
    <3> QED BY <3>1, SameListInv, Zenon DEF NamesInv
  <2>6. CASE \E at, r : Destroy(t, at, r)
    <3>1. list' = list /\ up' = up /\ uflaws \subseteq uflaws'
      BY <2>6 DEF Destroy, Note
    <3> QED BY <3>1, SameListInv, Zenon DEF NamesInv
  <2> QED BY <1>2, <2>1, <2>2, <2>3, <2>4, <2>5, <2>6 DEF ThreadStep, StartStep, StopStep
<1>3. ASSUME NEW t \in Threads, CallStart(t) \/ CallStop(t)
      PROVE  NamesInv'
  <2>1. list' = list /\ up' = up /\ uflaws' = uflaws
    BY <1>3, Zenon DEF CallStart, CallStop
  <2> QED BY <2>1, SameListInv, Zenon DEF NamesInv
<1>4. ASSUME NEW d \in Devs, ToggleDevice(d)
      PROVE  NamesInv'
  <2>1. list' = list /\ up' \subseteq Devs /\ uflaws' = uflaws
    BY <1>4, Zenon DEF ToggleDevice, NamesInv
  <2> QED BY <2>1, SameListInv, Zenon
<1>5. ASSUME NEW q \in Procs, Exit(q)
      PROVE  NamesInv'
  BY <1>5, ExitInv
<1>6. ASSUME NEW q \in Procs, NEW c \in Procs, Fork(q, c)
      PROVE  NamesInv'
  BY <1>6, ForkInv, Zenon
<1> QED BY <1>1, <1>2, <1>3, <1>4, <1>5, <1>6, Zenon DEF UsrNext

\* Two processes never get the same section (adf_processes_write), whatever the
\* interleaving of starts, stops, forks, deaths and devices, unless every device
\* stopped during a search.
THEOREM NamesAreDistinct == UsrSpec => []NamesDistinct
<1>1. UsrInit => NamesInv
  BY Zenon DEF UsrInit, NamesInv, NamesDistinct
<1>2. NamesInv /\ [UsrNext]_usrVars => NamesInv'
  BY NamesNext, Zenon
<1>3. NamesInv => NamesDistinct
  BY Zenon DEF NamesInv
<1> QED BY <1>1, <1>2, <1>3, PTL DEF UsrSpec
-----------------------------------------------------------------------------
(* The mutex of a process.                                                   *)

IsGlobals(r) == DOMAIN r = DOMAIN Fresh
\* The strengthening: only a thread of its own process holds a mutex, and the
\* threads of a process that is not there are idle.
MutexInv ==
  /\ DOMAIN pr = Procs /\ (\A q \in Procs : IsGlobals(pr[q])) /\ DOMAIN pc = Threads
  /\ LockOwned
  /\ uflaws \cap {"raced", "undefined"} = {} =>
       /\ \A q \in Procs, t \in Threads : pr[q].lock = t => ProcOf[t] = q
       /\ \A t \in Threads : Me(t).live \/ pc[t] = "idle"

\* A step of one thread: it leaves the mutex and its own place inside or outside
\* alone, or takes, releases, makes or destroys a mutex nobody else holds.
LEMMA ThreadInv ==
  ASSUME MutexInv, NEW t \in Threads, NEW r, NEW l, IsGlobals(r), r.live = Me(t).live,
         pr' = [pr EXCEPT ![ProcOf[t]] = r] \/ (pr' = pr /\ r = Me(t)), pc' = [pc EXCEPT ![t] = l],
         uflaws \subseteq uflaws', Me(t).live \/ pc[t] # "idle",
         uflaws' \cap {"raced", "undefined"} = {} =>
           \/ r.lock = Me(t).lock /\ (l \in Critical <=> pc[t] \in Critical)
           \/ /\ Me(t).lock \notin Threads \ {t} /\ r.lock \in {t, Free, NullLock}
              /\ r.lock = t <=> l \in Critical
  PROVE  MutexInv'
<1> DEFINE p == ProcOf[t]
<1>1. p \in Procs
  BY UserStartAssumption, Zenon
<1>2. DOMAIN pr' = Procs /\ pr'[p] = r /\ \A q \in Procs \ {p} : pr'[q] = pr[q]
  BY <1>1 DEF MutexInv, Me
<1>3. DOMAIN pc' = Threads /\ pc'[t] = l /\ \A u \in Threads \ {t} : pc'[u] = pc[u]
  BY Zenon DEF MutexInv
<1>4. Free \notin Threads /\ NullLock \notin Threads
  BY UserStartAssumption, Zenon DEF Free, NullLock
<1>5. ProcOf \in [Threads -> Procs]
  BY UserStartAssumption, Zenon
<1> HIDE DEF p
<1>6. SUFFICES ASSUME uflaws' \cap {"raced", "undefined"} = {}
               PROVE  /\ \A u \in Threads : Me(u)'.lock = u <=> pc'[u] \in Critical
                      /\ \A q \in Procs, u \in Threads : pr'[q].lock = u => ProcOf[u] = q
                      /\ \A u \in Threads : Me(u)'.live \/ pc'[u] = "idle"
  <2>1. \A q \in Procs : IsGlobals(pr'[q])
    BY <1>1, <1>2, Zenon DEF MutexInv
  <2> QED BY <1>2, <1>3, <2>1, Zenon DEF MutexInv, LockOwned, IsGlobals
<1>7. /\ \A u \in Threads : Me(u).lock = u <=> pc[u] \in Critical
      /\ \A q \in Procs, u \in Threads : pr[q].lock = u => ProcOf[u] = q
      /\ \A u \in Threads : Me(u).live \/ pc[u] = "idle"
  BY <1>6, Zenon DEF MutexInv, LockOwned
<1>8. Me(t) = pr[p] /\ p = ProcOf[t]
  BY Zenon DEF Me, p
<1>9. \/ r.lock = pr[p].lock /\ (l \in Critical <=> pc[t] \in Critical)
      \/ /\ pr[p].lock \notin Threads \ {t} /\ r.lock \in {t, Free, NullLock}
         /\ r.lock = t <=> l \in Critical
  BY <1>6, <1>8, Zenon
<1>10. ASSUME NEW u \in Threads
       PROVE  pr'[ProcOf[u]].lock = u <=> pc'[u] \in Critical
  BY <1>1, <1>2, <1>3, <1>4, <1>5, <1>7, <1>8, <1>9, <1>10 DEF Me
<1>11. ASSUME NEW q \in Procs, NEW u \in Threads, pr'[q].lock = u
       PROVE  ProcOf[u] = q
  BY <1>1, <1>2, <1>4, <1>5, <1>7, <1>8, <1>9, <1>11
<1>12. ASSUME NEW u \in Threads
       PROVE  pr'[ProcOf[u]].live \/ pc'[u] = "idle"
  BY <1>1, <1>2, <1>3, <1>5, <1>7, <1>8, <1>12 DEF Me
<1> QED BY <1>10, <1>11, <1>12, Zenon DEF Me

\* Nothing moves but the record of what was met.
LEMMA StayInv ==
  ASSUME MutexInv, pr' = pr, pc' = pc, uflaws \subseteq uflaws'
  PROVE  MutexInv'
<1>1. uflaws' \cap {"raced", "undefined"} = {} => uflaws \cap {"raced", "undefined"} = {}
  OBVIOUS
<1>2. \A t \in Threads : Me(t)' = Me(t)
  BY DEF Me
<1> QED BY <1>1, <1>2 DEF MutexInv, LockOwned, IsGlobals

\* A step of one thread that touches nothing of its process.
LEMMA GoInv ==
  ASSUME MutexInv, NEW t \in Threads, NEW l, pr' = pr, Go(t, l), uflaws \subseteq uflaws',
         Me(t).live \/ pc[t] # "idle", l \in Critical <=> pc[t] \in Critical
  PROVE  MutexInv'
<1>1. IsGlobals(Me(t))
  BY UserStartAssumption, Zenon DEF Me, MutexInv
<1>2. pc' = [pc EXCEPT ![t] = l]
  BY Zenon DEF Go
<1> DEFINE r == Me(t)
<1>3. r = Me(t) /\ IsGlobals(r)
  BY <1>1, Zenon
<1> HIDE DEF r
<1> QED BY <1>2, <1>3, ThreadInv, Zenon

\* A step of one thread that sets other globals than the mutex.
LEMMA SetInv ==
  ASSUME MutexInv, NEW t \in Threads, NEW r, NEW l, Set(t, r), Go(t, l), uflaws \subseteq uflaws',
         IsGlobals(r), r.live = Me(t).live, r.lock = Me(t).lock,
         pc[t] # "idle", l \in Critical <=> pc[t] \in Critical
  PROVE  MutexInv'
  BY ThreadInv, Zenon DEF Set, Go

LEMMA UserResetInv ==
  ASSUME MutexInv, NEW t \in Threads, UserReset(t)
  PROVE  MutexInv'
<1> DEFINE r == [Me(t) EXCEPT !.lock = Free, !.plock = TRUE, !.count = 0, !.file = Closed, !.init = FALSE]
<1>0. IsGlobals(Me(t))
  BY UserStartAssumption, Zenon DEF Me, MutexInv
<1>1. IsGlobals(r) /\ r.live = Me(t).live /\ r.lock = Free
  BY <1>0, Zenon DEF IsGlobals, Fresh
<1>2. pr' = [pr EXCEPT ![ProcOf[t]] = r] /\ pc' = [pc EXCEPT ![t] = "lock"] /\ pc[t] = "reset"
  BY Zenon DEF UserReset, Set, Go
<1>3. uflaws \subseteq uflaws' /\ (Me(t).lock \in Threads => "raced" \in uflaws')
  BY Zenon DEF UserReset, Note
<1>4. "lock" \notin Critical /\ Free # t
  BY UserStartAssumption, Zenon DEF Critical, Free
<1> HIDE DEF r
<1> QED BY <1>1, <1>2, <1>3, <1>4, ThreadInv, Zenon

LEMMA LockInv ==
  ASSUME MutexInv, NEW t \in Threads, NEW at, NEW next, Lock(t, at, next),
         at # "idle", at \notin Critical, next \in Critical
  PROVE  MutexInv'
<1> DEFINE r == [Me(t) EXCEPT !.lock = t]
<1>0. IsGlobals(Me(t))
  BY UserStartAssumption, Zenon DEF Me, MutexInv
<1>1. IsGlobals(r) /\ r.live = Me(t).live /\ r.lock = t
  BY <1>0, Zenon DEF IsGlobals, Fresh
<1>2. CASE pr' = pr /\ pc' = pc /\ uflaws \subseteq uflaws'
  BY <1>2, StayInv, Zenon
<1>3. CASE Me(t).lock = Free /\ Set(t, r) /\ Go(t, next) /\ uflaws' = uflaws
  <2>1. pr' = [pr EXCEPT ![ProcOf[t]] = r] /\ pc' = [pc EXCEPT ![t] = next] /\ pc[t] = at
    BY <1>3, Zenon DEF Lock, Set, Go
  <2>2. Me(t).lock \notin Threads
    BY <1>3, UserStartAssumption, Zenon DEF Free
  <2> HIDE DEF r
  <2> QED BY <1>1, <1>3, <2>1, <2>2, ThreadInv, Zenon
<1> QED BY <1>2, <1>3, Zenon DEF Lock, Note

LEMMA UnlockInv ==
  ASSUME MutexInv, NEW t \in Threads, NEW at, NEW next, Unlock(t, at, next),
         at \in Critical, at # "idle", next \notin Critical
  PROVE  MutexInv'
<1> DEFINE r == [Me(t) EXCEPT !.lock = Free]
<1>0. IsGlobals(Me(t))
  BY UserStartAssumption, Zenon DEF Me, MutexInv
<1>1. IsGlobals(r) /\ r.live = Me(t).live /\ r.lock = Free
  BY <1>0, Zenon DEF IsGlobals, Fresh
<1>2. pr' = [pr EXCEPT ![ProcOf[t]] = r] /\ pc' = [pc EXCEPT ![t] = next] /\ pc[t] = at /\ uflaws' = uflaws
  BY Zenon DEF Unlock, Set, Go
<1>3. uflaws' \cap {"raced", "undefined"} = {} => Me(t).lock = t
  BY <1>2, Zenon DEF MutexInv, LockOwned
<1>4. Free # t
  BY UserStartAssumption, Zenon DEF Free
<1> HIDE DEF r
<1> QED BY <1>1, <1>2, <1>3, <1>4, ThreadInv, Zenon

LEMMA DestroyInv ==
  ASSUME MutexInv, NEW t \in Threads, NEW at, NEW o, Destroy(t, at, o),
         IsGlobals(o), o.live = Me(t).live, at # "idle"
  PROVE  MutexInv'
<1> DEFINE r == [o EXCEPT !.lock = NullLock]
<1>1. IsGlobals(r) /\ r.live = Me(t).live /\ r.lock = NullLock
  BY Zenon DEF IsGlobals, Fresh
<1>2. CASE pr' = pr /\ pc' = pc /\ uflaws \subseteq uflaws'
  BY <1>2, StayInv, Zenon
<1>3. CASE Me(t).lock \notin Threads /\ Set(t, r) /\ Go(t, "idle") /\ uflaws \subseteq uflaws'
  <2>1. pr' = [pr EXCEPT ![ProcOf[t]] = r] /\ pc' = [pc EXCEPT ![t] = "idle"] /\ pc[t] = at
    BY <1>3 DEF Destroy, Set, Go
  <2>2. "idle" \notin Critical /\ NullLock # t
    BY UserStartAssumption, Zenon DEF Critical, NullLock
  <2> HIDE DEF r
  <2> QED BY <1>1, <1>3, <2>1, <2>2, ThreadInv, Zenon
<1> QED BY <1>2, <1>3, Zenon DEF Destroy, Note

\* The steps of the start and of the stop inside the mutex.
LEMMA InsideInv ==
  ASSUME MutexInv, NEW t \in Threads,
         \/ ToStart(t) \/ WriteName(t) \/ SearchName(t) \/ StartServices(t) \/ CountStart(t)
         \/ StopServices(t)
  PROVE  MutexInv'
<1>1. IsGlobals(Me(t))
  BY UserStartAssumption, Zenon DEF Me, MutexInv
<1>2. pc[t] \in Critical /\ pc[t] # "idle" /\ uflaws \subseteq uflaws'
  BY Zenon DEF ToStart, WriteName, SearchName, StartServices, CountStart, StopServices, Critical, Note
<1>3. CASE pr' = pr /\ pc' = pc
  BY <1>2, <1>3, StayInv, Zenon
<1>4. ASSUME NEW l \in Critical, pr' = pr, Go(t, l)
      PROVE  MutexInv'
  BY <1>2, <1>4, GoInv, Zenon
<1>5. ASSUME NEW l \in Critical, NEW r, IsGlobals(r), r.live = Me(t).live, r.lock = Me(t).lock,
             Set(t, r), Go(t, l)
      PROVE  MutexInv'
  BY <1>2, <1>5, SetInv
<1>6. {"write", "fail", "count", "services", "search", "unlock", "stopped"} \subseteq Critical
  BY Zenon DEF Critical
<1>7. \A x : LET r == [Me(t) EXCEPT !.file = x] IN IsGlobals(r) /\ r.live = Me(t).live /\ r.lock = Me(t).lock
  BY <1>1, Zenon DEF IsGlobals, Fresh
<1>8. \A x : LET r == [Me(t) EXCEPT !.count = x] IN IsGlobals(r) /\ r.live = Me(t).live /\ r.lock = Me(t).lock
  BY <1>1, Zenon DEF IsGlobals, Fresh
<1>9. CASE ToStart(t)
  BY <1>3, <1>4, <1>5, <1>6, <1>7, <1>9, Zenon DEF ToStart
<1>10. CASE WriteName(t)
  BY <1>4, <1>5, <1>6, <1>7, <1>10, Zenon DEF WriteName, Refused, Grant
<1>11. CASE SearchName(t)
  BY <1>4, <1>5, <1>6, <1>7, <1>11, Zenon DEF SearchName, Refused, Grant
<1>12. CASE StartServices(t)
  <2>1. \A x : LET r == [Me(t) EXCEPT !.init = TRUE, !.mapped = x]
               IN  IsGlobals(r) /\ r.live = Me(t).live /\ r.lock = Me(t).lock
    BY <1>1, Zenon DEF IsGlobals, Fresh
  <2>2. LET r == [Me(t) EXCEPT !.init = TRUE]
        IN  IsGlobals(r) /\ r.live = Me(t).live /\ r.lock = Me(t).lock
    BY <1>1, Zenon DEF IsGlobals, Fresh
  <2> QED BY <1>4, <1>5, <1>6, <1>12, <2>1, <2>2, Zenon DEF StartServices
<1>13. CASE CountStart(t)
  BY <1>4, <1>5, <1>6, <1>8, <1>13, Zenon DEF CountStart
<1>14. CASE StopServices(t)
  <2> DEFINE less == [Me(t) EXCEPT !.count = IF @ > 0 THEN @ - 1 ELSE @]
             last == [less EXCEPT !.mapped = @ - 1, !.init = FALSE, !.plock = FALSE, !.file = Closed]
  <2>1. IsGlobals(less) /\ less.live = Me(t).live /\ less.lock = Me(t).lock
    BY <1>1, Zenon DEF IsGlobals, Fresh
  <2>2. (Set(t, last) \/ Set(t, less)) /\ Go(t, "stopped")
    BY <1>14, Zenon DEF StopServices
  <2> HIDE DEF less
  <2>3. IsGlobals(last) /\ last.live = less.live /\ last.lock = less.lock
    BY <2>1, Zenon DEF IsGlobals, Fresh
  <2> HIDE DEF last
  <2> QED BY <1>5, <1>6, <2>1, <2>2, <2>3, Zenon
<1> QED BY <1>9, <1>10, <1>11, <1>12, <1>13, <1>14, Zenon

LEMMA ExitMutex ==
  ASSUME MutexInv, NEW q \in Procs, Exit(q)
  PROVE  MutexInv'
<1> DEFINE r == [Fresh EXCEPT !.live = FALSE]
<1>1. IsGlobals(r) /\ r.lock = NullLock
  BY Zenon DEF IsGlobals, Fresh
<1>2. /\ pr' = [pr EXCEPT ![q] = r] /\ uflaws' = uflaws
      /\ pc' = [t \in Threads |-> IF ProcOf[t] = q THEN "idle" ELSE pc[t]]
  BY Zenon DEF Exit
<1> HIDE DEF r
<1>3. DOMAIN pr' = Procs /\ pr'[q] = r /\ \A p \in Procs \ {q} : pr'[p] = pr[p]
  BY <1>2 DEF MutexInv
<1>4. NullLock \notin Threads /\ "idle" \notin Critical /\ ProcOf \in [Threads -> Procs]
  BY UserStartAssumption, Zenon DEF NullLock, Critical
<1>5. \A p \in Procs : IsGlobals(pr'[p])
  BY <1>1, <1>3 DEF MutexInv
<1>6. \A t \in Threads : pc'[t] = IF ProcOf[t] = q THEN "idle" ELSE pc[t]
  BY <1>2, Zenon
<1>7. SUFFICES ASSUME uflaws \cap {"raced", "undefined"} = {}
               PROVE  /\ \A t \in Threads : pr'[ProcOf[t]].lock = t <=> pc'[t] \in Critical
                      /\ \A p \in Procs, t \in Threads : pr'[p].lock = t => ProcOf[t] = p
                      /\ \A t \in Threads : pr'[ProcOf[t]].live \/ pc'[t] = "idle"
  BY <1>2, <1>3, <1>5, Zenon DEF MutexInv, LockOwned, IsGlobals, Me
<1>8. /\ \A t \in Threads : pr[ProcOf[t]].lock = t <=> pc[t] \in Critical
      /\ \A p \in Procs, t \in Threads : pr[p].lock = t => ProcOf[t] = p
      /\ \A t \in Threads : pr[ProcOf[t]].live \/ pc[t] = "idle"
  BY <1>7 DEF MutexInv, LockOwned, Me
<1> QED BY <1>1, <1>3, <1>4, <1>6, <1>8

LEMMA ForkMutex ==
  ASSUME MutexInv, NEW q \in Procs, NEW c \in Procs, Fork(q, c)
  PROVE  MutexInv'
<1> DEFINE r == [pr[q] EXCEPT !.pid = FALSE, !.mapped = 0]
<1>1. IsGlobals(r) /\ r.lock = pr[q].lock /\ r.live = pr[q].live
  BY DEF IsGlobals, Fresh, MutexInv
<1>2. /\ pr' = [pr EXCEPT ![c] = r] /\ uflaws \subseteq uflaws' /\ pc' = pc
      /\ pr[q].live /\ q # c /\ ~pr[c].live
      /\ \A t \in Threads : ProcOf[t] = q => pc[t] = "idle"
  BY Zenon DEF Fork, Fresh
<1> HIDE DEF r
<1>3. DOMAIN pr' = Procs /\ pr'[c] = r /\ \A p \in Procs \ {c} : pr'[p] = pr[p]
  BY <1>2, Zenon DEF MutexInv
<1>4. "idle" \notin Critical /\ ProcOf \in [Threads -> Procs]
  BY UserStartAssumption, Zenon DEF Critical
<1>5. \A p \in Procs : IsGlobals(pr'[p])
  BY <1>1, <1>3, Zenon DEF MutexInv
<1>6. SUFFICES ASSUME uflaws \cap {"raced", "undefined"} = {}
               PROVE  /\ \A t \in Threads : pr'[ProcOf[t]].lock = t <=> pc'[t] \in Critical
                      /\ \A p \in Procs, t \in Threads : pr'[p].lock = t => ProcOf[t] = p
                      /\ \A t \in Threads : pr'[ProcOf[t]].live \/ pc'[t] = "idle"
  <2>1. uflaws' \cap {"raced", "undefined"} = {} => uflaws \cap {"raced", "undefined"} = {}
    BY <1>2, Zenon
  <2> QED BY <1>2, <1>3, <1>5, <2>1, Zenon DEF MutexInv, LockOwned, IsGlobals, Me
<1>7. /\ \A t \in Threads : pr[ProcOf[t]].lock = t <=> pc[t] \in Critical
      /\ \A p \in Procs, t \in Threads : pr[p].lock = t => ProcOf[t] = p
      /\ \A t \in Threads : pr[ProcOf[t]].live \/ pc[t] = "idle"
  BY <1>6, Zenon DEF MutexInv, LockOwned, Me
<1>8. \A t \in Threads : pr[q].lock # t
  BY <1>2, <1>4, <1>7
<1> QED BY <1>1, <1>2, <1>3, <1>4, <1>7, <1>8

LEMMA MutexNext ==
  ASSUME MutexInv, [UsrNext]_usrVars
  PROVE  MutexInv'
<1> USE DEF Unchanged1
<1>1. CASE UNCHANGED usrVars
  BY <1>1, StayInv, Zenon DEF usrVars
<1>2. ASSUME NEW t \in Threads, ThreadStep(t)
      PROVE  MutexInv'
  <2>1. IsGlobals(Me(t))
    BY UserStartAssumption DEF Me, MutexInv
  <2>2. CASE UserReset(t)
    BY <2>2, UserResetInv
  <2>3. CASE Lock(t, "lock", "inside") \/ Lock(t, "stop", "stopping")
    BY <2>3, LockInv, Zenon DEF Critical
  <2>4. CASE \/ Unlock(t, "unlock", "pid") \/ Unlock(t, "fail", "destroy")
             \/ Unlock(t, "stopped", "read")
    BY <2>4, UnlockInv, Zenon DEF Critical
  <2>5. CASE SetPid(t)
    <3> DEFINE r == [Me(t) EXCEPT !.pid = TRUE]
    <3>1. IsGlobals(r) /\ r.live = Me(t).live /\ r.lock = Me(t).lock
      BY <2>1, Zenon DEF IsGlobals, Fresh
    <3>2. Set(t, r) /\ Go(t, "idle") /\ pc[t] = "pid" /\ uflaws' = uflaws
      BY <2>5, Zenon DEF SetPid
    <3> HIDE DEF r
    <3> QED BY <3>1, <3>2, SetInv, Zenon DEF Critical
  <2>6. CASE ReadCount(t)
    <3>1. PICK l \in {"drop", "idle"} : Go(t, l)
      BY <2>6, Zenon DEF ReadCount
    <3> QED BY <2>6, <3>1, GoInv, Zenon DEF ReadCount, Critical
  <2>7. CASE Destroy(t, "destroy", Me(t))
    <3> DEFINE o == Me(t)
    <3>1. IsGlobals(o) /\ o.live = Me(t).live /\ Destroy(t, "destroy", o)
      BY <2>1, <2>7, Zenon
    <3> HIDE DEF o
    <3> QED BY <3>1, DestroyInv, Zenon
  <2>8. CASE Destroy(t, "drop", [Me(t) EXCEPT !.pid = FALSE])
    <3> DEFINE o == [Me(t) EXCEPT !.pid = FALSE]
    <3>1. IsGlobals(o) /\ o.live = Me(t).live
      BY <2>1 DEF IsGlobals, Fresh
    <3>2. Destroy(t, "drop", o)
      BY <2>8, Zenon
    <3> HIDE DEF o
    <3> QED BY <3>1, <3>2, DestroyInv, Zenon
  <2> QED BY <1>2, <2>2, <2>3, <2>4, <2>5, <2>6, <2>7, <2>8, InsideInv, Zenon DEF ThreadStep, StartStep, StopStep
<1>3. ASSUME NEW t \in Threads, CallStart(t) \/ CallStop(t)
      PROVE  MutexInv'
  <2>1. PICK l \in {"lock", "reset", "stop"} : Go(t, l)
    BY <1>3, Zenon DEF CallStart, CallStop
  <2>2. pr' = pr /\ uflaws' = uflaws /\ Me(t).live /\ pc[t] = "idle"
    BY <1>3, Zenon DEF CallStart, CallStop
  <2> QED BY <2>1, <2>2, GoInv, Zenon DEF Critical
<1>4. ASSUME NEW d \in Devs, ToggleDevice(d)
      PROVE  MutexInv'
  BY <1>4, StayInv DEF ToggleDevice
<1> QED BY <1>1, <1>2, <1>3, <1>4, ExitMutex, ForkMutex, Zenon DEF UsrNext

LEMMA MutexInit == UsrInit => MutexInv
<1> SUFFICES ASSUME UsrInit PROVE MutexInv
  BY Zenon
<1>1. \A q \in Procs : IsGlobals(pr[q]) /\ pr[q].lock = NullLock
  BY Zenon DEF UsrInit, IsGlobals, Fresh
<1>2. \A t \in Threads : ProcOf[t] \in Procs /\ t # NullLock
  BY UserStartAssumption DEF NullLock
<1>3. DOMAIN pr = Procs /\ DOMAIN pc = Threads /\ \A t \in Threads : pc[t] = "idle"
  BY Zenon DEF UsrInit
<1> QED BY <1>1, <1>2, <1>3 DEF MutexInv, LockOwned, Me, Critical

\* The mutex of icp_sal_userStart and icp_sal_userStop is held exactly by the
\* thread between its lock and its unlock, for any number of processes and
\* threads, as long as no reset or destroy raced with a start.
THEOREM LockIsOwned == UsrSpec => []LockOwned
<1>1. UsrInit => MutexInv
  BY MutexInit
<1>2. MutexInv /\ [UsrNext]_usrVars => MutexInv'
  BY MutexNext, Zenon
<1>3. MutexInv => LockOwned
  BY Zenon DEF MutexInv
<1> QED BY <1>1, <1>2, <1>3, PTL DEF UsrSpec
-----------------------------------------------------------------------------
(* The instances of a process.                                               *)

Ths(q) == {t \in Threads : ProcOf[t] = q}
Busy(q) == pr[q].pid \/ \E t \in Ths(q) : pc[t] \in Starting
Naming == {"write", "search", "services"}
\* The strengthening: the instances of a process that has begun to start are
\* mapped from the moment do_userStart returns to the last stop.  The count of
\* the others, which a child inherits, is not looked at before the reset.
MapInv ==
  uflaws \cap {"failed", "raced"} = {} =>
    \A q \in Procs :
      /\ pr[q].count \in Nat
      /\ pr[q].mapped = IF Busy(q) /\ (pr[q].count > 0 \/ \E t \in Ths(q) : pc[t] = "count")
                        THEN 1 ELSE 0
      /\ \A t \in Ths(q) : pc[t] \in Naming => pr[q].count = 0
      /\ ~Busy(q) /\ pr[q].count > 0 => \A t \in Ths(q) : pc[t] \in {"idle", "reset"}

\* The same of the process of thread t, whose globals are r, when t is at l.
MapOf(t, r, l) ==
  LET busy == r.pid \/ l \in Starting \/ \E u \in Mates(t) : pc[u] \in Starting
  IN  /\ r.count \in Nat
      /\ r.mapped = IF busy /\ (r.count > 0 \/ l = "count" \/ \E u \in Mates(t) : pc[u] = "count")
                    THEN 1 ELSE 0
      /\ l \in Naming => r.count = 0
      /\ \A u \in Mates(t) : pc[u] \in Naming => r.count = 0
      /\ ~busy /\ r.count > 0 => /\ l \in {"idle", "reset"}
                                 /\ \A u \in Mates(t) : pc[u] \in {"idle", "reset"}

LEMMA MatesAre ==
  ASSUME NEW t \in Threads
  PROVE  Ths(ProcOf[t]) = Mates(t) \cup {t} /\ t \notin Mates(t) /\ Mates(t) \subseteq Threads
  BY Zenon DEF Ths, Mates

LEMMA MapHere ==
  ASSUME MapInv, NEW t \in Threads, uflaws \cap {"failed", "raced"} = {}
  PROVE  MapOf(t, Me(t), pc[t])
<1>1. ProcOf[t] \in Procs
  BY UserStartAssumption
<1>2. Me(t).pid = pr[ProcOf[t]].pid /\ Me(t) = pr[ProcOf[t]]
  BY DEF Me
<1> QED BY <1>1, <1>2, MatesAre DEF MapInv, MapOf, Busy

\* A step of one thread disturbs no other process.
LEMMA MapThread ==
  ASSUME MutexInv, MapInv, NEW t \in Threads, NEW r, NEW l,
         pr' = [pr EXCEPT ![ProcOf[t]] = r] \/ (pr' = pr /\ r = Me(t)), pc' = [pc EXCEPT ![t] = l],
         uflaws \subseteq uflaws', uflaws' \cap {"failed", "raced"} = {} => MapOf(t, r, l)
  PROVE  MapInv'
<1> DEFINE p == ProcOf[t]
<1>1. p \in Procs
  BY UserStartAssumption, Zenon
<1>2. pr'[p] = r /\ \A q \in Procs \ {p} : pr'[q] = pr[q]
  BY <1>1, Zenon DEF MutexInv, Me
<1>3. pc'[t] = l /\ \A u \in Threads \ {t} : pc'[u] = pc[u]
  BY Zenon DEF MutexInv
<1>4. SUFFICES ASSUME uflaws' \cap {"failed", "raced"} = {}, NEW q \in Procs
               PROVE  /\ pr'[q].count \in Nat
                      /\ pr'[q].mapped = IF Busy(q)' /\ (pr'[q].count > 0 \/ \E u \in Ths(q) : pc'[u] = "count")
                                         THEN 1 ELSE 0
                      /\ \A u \in Ths(q) : pc'[u] \in Naming => pr'[q].count = 0
                      /\ ~Busy(q)' /\ pr'[q].count > 0 => \A u \in Ths(q) : pc'[u] \in {"idle", "reset"}
  BY Zenon DEF MapInv, Ths
<1>5. CASE q # p
  <2>1. pr'[q] = pr[q] /\ \A u \in Ths(q) : u \in Threads \ {t}
    BY <1>2, <1>5 DEF Ths
  <2>2. \A u \in Ths(q) : pc'[u] = pc[u]
    BY <1>3, <2>1, Zenon
  <2>3. Busy(q)' <=> Busy(q)
    BY <2>1, <2>2 DEF Busy, Ths
  <2>4. uflaws \cap {"failed", "raced"} = {}
    BY <1>4, Zenon
  <2> QED BY <2>1, <2>2, <2>3, <2>4 DEF MapInv
<1>6. CASE q = p
  <2>1. Ths(q) = Mates(t) \cup {t} /\ t \notin Mates(t) /\ Mates(t) \subseteq Threads
    BY <1>6, MatesAre, Zenon
  <2>2. pr'[q] = r /\ \A u \in Mates(t) : pc'[u] = pc[u]
    BY <1>2, <1>3, <1>6, <2>1
  <2>3. Ths(q)' = Ths(q)
    BY Zenon DEF Ths
  <2>4. Busy(q)' <=> (r.pid \/ l \in Starting \/ \E u \in Mates(t) : pc[u] \in Starting)
    BY <1>3, <2>1, <2>2, <2>3, Zenon DEF Busy
  <2>5. MapOf(t, r, l)
    BY <1>4, Zenon
  <2> QED BY <1>3, <2>1, <2>2, <2>4, <2>5 DEF MapOf
<1> QED BY <1>5, <1>6, Zenon

LEMMA MapStay ==
  ASSUME MapInv, pr' = pr, pc' = pc, uflaws \subseteq uflaws'
  PROVE  MapInv'
<1>1. uflaws' \cap {"failed", "raced"} = {} => uflaws \cap {"failed", "raced"} = {}
  BY Zenon
<1>2. \A q \in Procs : Busy(q)' = Busy(q) /\ Ths(q)' = Ths(q)
  BY Zenon DEF Busy, Ths
<1> QED BY <1>1, <1>2 DEF MapInv

\* Only one thread of a process is inside.
LEMMA Alone ==
  ASSUME MutexInv, uflaws \cap {"raced", "undefined"} = {}, NEW t \in Threads,
         pc[t] \in Critical \/ Me(t).lock \notin Threads
  PROVE  \A u \in Mates(t) : pc[u] \notin Critical
  BY DEF MutexInv, LockOwned, Mates, Me

\* The steps that set neither the count nor the mapping, nor who has begun.
LEMMA MapMoves ==
  ASSUME MutexInv, MapInv, NEW t \in Threads, NEW r, NEW l,
         pr' = [pr EXCEPT ![ProcOf[t]] = r] \/ (pr' = pr /\ r = Me(t)), pc' = [pc EXCEPT ![t] = l],
         uflaws \subseteq uflaws', r.count = Me(t).count, r.mapped = Me(t).mapped,
         r.pid = Me(t).pid, pc[t] \notin {"idle", "reset"} \/ r.pid \/ l = "reset",
         l \in Starting <=> pc[t] \in Starting \/ (r.pid /\ l = "lock"),
         l = "count" => pc[t] = "count" \/ r.count > 0, pc[t] = "count" => r.count > 0,
         l \in Naming => r.count = 0
  PROVE  MapInv'
<1>1. SUFFICES ASSUME uflaws' \cap {"failed", "raced"} = {} PROVE MapOf(t, r, l)
  BY MapThread, Zenon
<1>2. MapOf(t, Me(t), pc[t])
  BY <1>1, MapHere, Zenon
<1>3. "count" \in Starting /\ "idle" \notin Starting /\ "reset" \notin Starting
  BY Zenon DEF Starting
<1> QED BY <1>2, <1>3, Zenon DEF MapOf

LEMMA UserResetMap ==
  ASSUME MutexInv, MapInv, "undefined" \notin uflaws, NEW t \in Threads, UserReset(t)
  PROVE  MapInv'
<1> DEFINE r == [Me(t) EXCEPT !.lock = Free, !.plock = TRUE, !.count = 0, !.file = Closed, !.init = FALSE]
<1>1. IsGlobals(Me(t))
  BY UserStartAssumption DEF Me, MutexInv
<1>2. r.count = 0 /\ r.mapped = Me(t).mapped /\ r.pid = Me(t).pid
  BY <1>1, Zenon DEF IsGlobals, Fresh
<1>3. pr' = [pr EXCEPT ![ProcOf[t]] = r] /\ pc' = [pc EXCEPT ![t] = "lock"] /\ pc[t] = "reset"
  BY DEF UserReset, Set, Go
<1>4. /\ uflaws \subseteq uflaws'
      /\ "raced" \notin uflaws' => ~Me(t).pid /\ \A u \in Mates(t) : pc[u] \notin Starting
  BY DEF UserReset, Note
<1> HIDE DEF r
<1>5. SUFFICES ASSUME uflaws' \cap {"failed", "raced"} = {} PROVE MapOf(t, r, "lock")
  BY <1>3, <1>4, MapThread, Zenon
<1>6. MapOf(t, Me(t), "reset")
  BY <1>3, <1>4, <1>5, MapHere, Zenon
<1>7. "count" \in Starting /\ "lock" \in Starting /\ "lock" \notin Naming /\ "reset" \notin Starting
  BY Zenon DEF Starting, Naming
<1> QED BY <1>2, <1>4, <1>5, <1>6, <1>7 DEF MapOf

LEMMA LockMap ==
  ASSUME MutexInv, MapInv, NEW t \in Threads,
         Lock(t, "lock", "inside") \/ Lock(t, "stop", "stopping")
  PROVE  MapInv'
<1> DEFINE r == [Me(t) EXCEPT !.lock = t]
<1>1. IsGlobals(Me(t))
  BY UserStartAssumption, Zenon DEF Me, MutexInv
<1>2. r.count = Me(t).count /\ r.mapped = Me(t).mapped /\ r.pid = Me(t).pid
  BY <1>1, Zenon DEF IsGlobals, Fresh
<1>3. CASE pr' = pr /\ pc' = pc
  BY <1>3, MapStay, Zenon DEF Lock, Note
<1>4. CASE Set(t, r) /\ ~(pr' = pr /\ pc' = pc)
  <2>1. uflaws' = uflaws
    BY <1>4, Zenon DEF Lock
  <2>2. pr' = [pr EXCEPT ![ProcOf[t]] = r]
    BY <1>4, Zenon DEF Set
  <2>3. \/ pc[t] = "lock" /\ pc' = [pc EXCEPT ![t] = "inside"]
        \/ pc[t] = "stop" /\ pc' = [pc EXCEPT ![t] = "stopping"]
    BY <1>4, Zenon DEF Lock, Go
  <2> HIDE DEF r
  <2> QED BY <1>2, <2>1, <2>2, <2>3, MapMoves, ZenonT(60) DEF Starting, Naming
<1> QED BY <1>3, <1>4 DEF Lock

LEMMA ToStartMap ==
  ASSUME MutexInv, MapInv, NEW t \in Threads, ToStart(t)
  PROVE  MapInv'
<1> DEFINE f == FreshFd
           r == [Me(t) EXCEPT !.file = f]
<1>1. IsGlobals(Me(t))
  BY UserStartAssumption, Zenon DEF Me, MutexInv
<1> HIDE DEF f
<1>2. r.count = Me(t).count /\ r.mapped = Me(t).mapped /\ r.pid = Me(t).pid
  BY <1>1, Zenon DEF IsGlobals, Fresh
<1>3. pc[t] = "inside"
  BY DEF ToStart
<1>4. CASE pr' = pr /\ pc' = pc
  BY <1>4, MapStay DEF ToStart, Note
<1>5. CASE Me(t).count > 0 /\ Go(t, "count") /\ pr' = pr /\ uflaws' = uflaws
  BY <1>3, <1>5, MapMoves, Zenon DEF Go, Starting, Naming
<1>6. CASE Go(t, "fail") /\ pr' = pr /\ uflaws' = uflaws
  BY <1>3, <1>6, MapMoves, Zenon DEF Go, Starting, Naming
<1>7. CASE ~(Me(t).count > 0) /\ Set(t, r) /\ Go(t, "write") /\ uflaws' = uflaws
  <2> HIDE DEF r
  <2>1. pr' = [pr EXCEPT ![ProcOf[t]] = r] /\ pc' = [pc EXCEPT ![t] = "write"]
    BY <1>7, Zenon DEF Set, Go
  <2>2. SUFFICES ASSUME uflaws' \cap {"failed", "raced"} = {} PROVE MapOf(t, r, "write")
    BY <1>7, <2>1, MapThread, Zenon
  <2>3. MapOf(t, Me(t), "inside")
    BY <1>3, <1>7, <2>2, MapHere, Zenon
  <2> QED BY <1>2, <1>7, <2>3 DEF MapOf, Starting, Naming
<1> QED BY <1>4, <1>5, <1>6, <1>7, Zenon DEF ToStart, f

\* The search for a name, which may close the file again.
LEMMA NameMap ==
  ASSUME MutexInv, MapInv, NEW t \in Threads, WriteName(t) \/ SearchName(t)
  PROVE  MapInv'
<1> DEFINE r == [Me(t) EXCEPT !.file = Closed]
<1>1. IsGlobals(Me(t))
  BY UserStartAssumption DEF Me, MutexInv
<1>2. r.count = Me(t).count /\ r.mapped = Me(t).mapped /\ r.pid = Me(t).pid
  BY <1>1, Zenon DEF IsGlobals, Fresh
<1>3. pc[t] \in {"write", "search"} /\ uflaws \subseteq uflaws'
  BY Zenon DEF WriteName, SearchName, Note
<1>4. CASE Refused(t)
  <2>1. pr' = [pr EXCEPT ![ProcOf[t]] = r] /\ pc' = [pc EXCEPT ![t] = "fail"]
    BY <1>4, Zenon DEF Refused, Set, Go
  <2> HIDE DEF r
  <2> QED BY <1>2, <1>3, <2>1, MapMoves, Zenon DEF Starting, Naming
<1>5. ASSUME NEW l \in {"search", "services"}, pr' = pr, Go(t, l)
      PROVE  MapInv'
  <2>1. SUFFICES ASSUME uflaws' \cap {"failed", "raced"} = {} PROVE MapOf(t, Me(t), l)
    BY <1>3, <1>5, MapThread, Zenon DEF Go
  <2>2. MapOf(t, Me(t), pc[t])
    BY <1>3, <2>1, MapHere, Zenon
  <2> QED BY <1>3, <1>5, <2>2, Zenon DEF MapOf, Starting, Naming
<1> QED BY <1>4, <1>5 DEF WriteName, SearchName, Grant

LEMMA StartServicesMap ==
  ASSUME MutexInv, MapInv, "undefined" \notin uflaws, NEW t \in Threads, StartServices(t)
  PROVE  MapInv'
<1> DEFINE r == [Me(t) EXCEPT !.init = TRUE, !.mapped = @ + 1]
<1>1. IsGlobals(Me(t))
  BY UserStartAssumption, Zenon DEF Me, MutexInv
<1>2. r.count = Me(t).count /\ r.mapped = Me(t).mapped + 1 /\ r.pid = Me(t).pid
  BY <1>1, Zenon DEF IsGlobals, Fresh
<1>3. pc[t] = "services"
  BY Zenon DEF StartServices
<1>4. CASE "failed" \in uflaws'
  BY <1>4, Zenon DEF MapInv
<1>5. CASE "failed" \notin uflaws'
  <2>1. pr' = [pr EXCEPT ![ProcOf[t]] = r] /\ pc' = [pc EXCEPT ![t] = "count"] /\ uflaws' = uflaws
    BY <1>5, Zenon DEF StartServices, Set, Go, Note
  <2> HIDE DEF r
  <2>2. SUFFICES ASSUME uflaws' \cap {"failed", "raced"} = {} PROVE MapOf(t, r, "count")
    BY <2>1, MapThread, Zenon
  <2>3. MapOf(t, Me(t), "services")
    BY <1>3, <2>1, <2>2, MapHere, Zenon
  <2>4. \A u \in Mates(t) : pc[u] \notin Critical
    BY <1>3, <2>1, <2>2, Alone, Zenon DEF Critical
  <2>5. \A u \in Mates(t) : pc[u] # "count"
    BY <2>4, Zenon DEF Critical
  <2> QED BY <1>2, <2>3, <2>5 DEF MapOf, Starting, Naming
<1> QED BY <1>4, <1>5, Zenon

LEMMA CountStartMap ==
  ASSUME MutexInv, MapInv, "undefined" \notin uflaws, NEW t \in Threads, CountStart(t)
  PROVE  MapInv'
<1> DEFINE r == [Me(t) EXCEPT !.count = @ + 1]
<1>1. IsGlobals(Me(t))
  BY UserStartAssumption, Zenon DEF Me, MutexInv
<1>2. r.count = Me(t).count + 1 /\ r.mapped = Me(t).mapped /\ r.pid = Me(t).pid
  BY <1>1, Zenon DEF IsGlobals, Fresh
<1>3. pc[t] = "count" /\ uflaws' = uflaws
  BY Zenon DEF CountStart
<1>4. CASE uflaws' \cap {"failed", "raced"} # {}
  BY <1>4, Zenon DEF MapInv
<1>5. CASE uflaws' \cap {"failed", "raced"} = {}
  <2>1. MapOf(t, Me(t), "count")
    BY <1>3, <1>5, MapHere, Zenon
  <2>2. \A u \in Mates(t) : pc[u] \notin Critical
    BY <1>3, <1>5, Alone, Zenon DEF Critical
  <2>3. \A u \in Mates(t) : pc[u] \notin Naming
    BY <2>2, Zenon DEF Critical, Naming
  <2>4. CASE Me(t).count >= StartRefCountMax
    <3>1. Me(t).count > 0
      BY <2>1, <2>4, UserStartAssumption DEF MapOf
    <3>2. Go(t, "fail") /\ pr' = pr
      BY <2>4, Zenon DEF CountStart
    <3> QED BY <1>3, <3>1, <3>2, MapMoves, Zenon DEF Go, Starting, Naming
  <2>5. CASE ~(Me(t).count >= StartRefCountMax)
    <3>1. pr' = [pr EXCEPT ![ProcOf[t]] = r] /\ pc' = [pc EXCEPT ![t] = "unlock"]
      BY <2>5 DEF CountStart, Set, Go
    <3> HIDE DEF r
    <3>2. MapOf(t, r, "unlock")
      BY <1>2, <2>1, <2>3 DEF MapOf, Starting, Naming
    <3> QED BY <1>3, <3>1, <3>2, MapThread, Zenon
  <2> QED BY <2>4, <2>5, Zenon
<1> QED BY <1>4, <1>5, Zenon

LEMMA UnlockMap ==
  ASSUME MutexInv, MapInv, NEW t \in Threads,
         Unlock(t, "unlock", "pid") \/ Unlock(t, "fail", "destroy") \/ Unlock(t, "stopped", "read")
  PROVE  MapInv'
<1> DEFINE r == [Me(t) EXCEPT !.lock = Free]
<1>1. IsGlobals(Me(t))
  BY UserStartAssumption, Zenon DEF Me, MutexInv
<1>2. r.count = Me(t).count /\ r.mapped = Me(t).mapped /\ r.pid = Me(t).pid
  BY <1>1, Zenon DEF IsGlobals, Fresh
<1>3. pr' = [pr EXCEPT ![ProcOf[t]] = r] /\ uflaws' = uflaws
  BY Zenon DEF Unlock, Set
<1>4. \/ pc[t] = "unlock" /\ pc' = [pc EXCEPT ![t] = "pid"]
      \/ pc[t] = "fail" /\ pc' = [pc EXCEPT ![t] = "destroy"]
      \/ pc[t] = "stopped" /\ pc' = [pc EXCEPT ![t] = "read"]
  BY Zenon DEF Unlock, Go
<1> HIDE DEF r
<1> QED BY <1>2, <1>3, <1>4, MapMoves, ZenonT(60) DEF Starting, Naming

LEMMA SetPidMap ==
  ASSUME MutexInv, MapInv, NEW t \in Threads, SetPid(t)
  PROVE  MapInv'
<1> DEFINE r == [Me(t) EXCEPT !.pid = TRUE]
<1>1. IsGlobals(Me(t))
  BY UserStartAssumption, Zenon DEF Me, MutexInv
<1>2. r.count = Me(t).count /\ r.mapped = Me(t).mapped /\ r.pid
  BY <1>1, Zenon DEF IsGlobals, Fresh
<1>3. /\ pr' = [pr EXCEPT ![ProcOf[t]] = r] /\ pc' = [pc EXCEPT ![t] = "idle"]
      /\ uflaws' = uflaws /\ pc[t] = "pid"
  BY Zenon DEF SetPid, Set, Go
<1> HIDE DEF r
<1>4. SUFFICES ASSUME uflaws' \cap {"failed", "raced"} = {} PROVE MapOf(t, r, "idle")
  BY <1>3, MapThread, Zenon
<1>5. MapOf(t, Me(t), "pid")
  BY <1>3, <1>4, MapHere, Zenon
<1> QED BY <1>2, <1>5, Zenon DEF MapOf, Starting, Naming

LEMMA DestroyMap ==
  ASSUME MutexInv, MapInv, "undefined" \notin uflaws, NEW t \in Threads, NEW at, NEW o,
         Destroy(t, at, o), at \in {"destroy", "drop"}, IsGlobals(o),
         o.count = Me(t).count, o.mapped = Me(t).mapped, o.pid => Me(t).pid
  PROVE  MapInv'
<1> DEFINE r == [o EXCEPT !.lock = NullLock]
<1>1. r.count = o.count /\ r.mapped = o.mapped /\ r.pid = o.pid
  BY Zenon DEF IsGlobals, Fresh
<1>2. CASE Me(t).lock \in Threads
  BY <1>2, MapStay, Zenon DEF Destroy, Note
<1>3. CASE Me(t).lock \notin Threads
  <2>1. pr' = [pr EXCEPT ![ProcOf[t]] = r] /\ pc' = [pc EXCEPT ![t] = "idle"] /\ pc[t] = at
    BY <1>3 DEF Destroy, Set, Go
  <2>2. /\ uflaws \subseteq uflaws'
        /\ "raced" \notin uflaws' =>
             o.pid \/ (~(o.count > 0) /\ \A u \in Mates(t) : pc[u] \notin Starting)
    BY <1>3, Zenon DEF Destroy, Note
  <2> HIDE DEF r
  <2>3. SUFFICES ASSUME uflaws' \cap {"failed", "raced"} = {} PROVE MapOf(t, r, "idle")
    BY <2>1, <2>2, MapThread, Zenon
  <2>4. MapOf(t, Me(t), at)
    BY <2>1, <2>2, <2>3, MapHere, Zenon
  <2>5. \A u \in Mates(t) : pc[u] \notin Critical
    BY <1>3, <2>2, <2>3, Alone, Zenon
  <2>6. \A u \in Mates(t) : pc[u] # "count" /\ pc[u] \notin Naming
    BY <2>5, Zenon DEF Critical, Naming
  <2> QED BY <1>1, <2>2, <2>3, <2>4, <2>6, Zenon DEF MapOf, Starting, Naming
<1> QED BY <1>2, <1>3, Zenon

LEMMA StopServicesMap ==
  ASSUME MutexInv, MapInv, "undefined" \notin uflaws, NEW t \in Threads, StopServices(t)
  PROVE  MapInv'
<1> DEFINE less == [Me(t) EXCEPT !.count = IF @ > 0 THEN @ - 1 ELSE @]
           last == [less EXCEPT !.mapped = @ - 1, !.init = FALSE, !.plock = FALSE, !.file = Closed]
<1>1. IsGlobals(Me(t))
  BY UserStartAssumption, ZenonT(60) DEF Me, MutexInv
<1>2. /\ IsGlobals(less) /\ less.mapped = Me(t).mapped /\ less.pid = Me(t).pid
      /\ less.count = IF Me(t).count > 0 THEN Me(t).count - 1 ELSE Me(t).count
  BY <1>1, Zenon DEF IsGlobals, Fresh
<1>3. pc[t] = "stopping" /\ pc' = [pc EXCEPT ![t] = "stopped"] /\ uflaws \subseteq uflaws'
  BY Zenon DEF StopServices, Go, Note
<1>4. \/ "failed" \in uflaws'
      \/ Me(t).count = 1 /\ pr' = [pr EXCEPT ![ProcOf[t]] = last]
      \/ Me(t).count # 1 /\ pr' = [pr EXCEPT ![ProcOf[t]] = less]
  BY Zenon DEF StopServices, Set, Note
<1> HIDE DEF less
<1>5. last.mapped = less.mapped - 1 /\ last.pid = less.pid /\ last.count = less.count
  BY <1>2, Zenon DEF IsGlobals, Fresh
<1> HIDE DEF last
<1>6. CASE uflaws' \cap {"failed", "raced"} # {}
  BY <1>6, Zenon DEF MapInv
<1>7. CASE uflaws' \cap {"failed", "raced"} = {}
  <2>1. MapOf(t, Me(t), "stopping")
    BY <1>3, <1>7, MapHere
  <2>2. \A u \in Mates(t) : pc[u] \notin Critical
    BY <1>3, <1>7, Alone, Zenon DEF Critical
  <2>3. \A u \in Mates(t) : pc[u] # "count" /\ pc[u] \notin Naming
    BY <2>2, Zenon DEF Critical, Naming
  <2>4. CASE Me(t).count = 1 /\ pr' = [pr EXCEPT ![ProcOf[t]] = last]
    <3>1. MapOf(t, last, "stopped")
      BY <1>2, <1>5, <2>1, <2>3, <2>4 DEF MapOf, Starting, Naming
    <3> QED BY <1>3, <2>4, <3>1, MapThread, Zenon
  <2>5. CASE Me(t).count # 1 /\ pr' = [pr EXCEPT ![ProcOf[t]] = less]
    <3>1. MapOf(t, less, "stopped")
      BY <1>2, <2>1, <2>3, <2>5, SMTT(30) DEF MapOf, Starting, Naming
    <3> QED BY <1>3, <2>5, <3>1, MapThread, Zenon
  <2> QED BY <1>4, <1>7, <2>4, <2>5, Zenon
<1> QED BY <1>6, <1>7, Zenon

LEMMA ExitMap ==
  ASSUME MutexInv, MapInv, NEW q \in Procs, Exit(q)
  PROVE  MapInv'
<1> DEFINE r == [Fresh EXCEPT !.live = FALSE]
<1>1. r.count = 0 /\ r.mapped = 0 /\ ~r.pid
  BY DEF Fresh
<1>2. pr' = [pr EXCEPT ![q] = r] /\ uflaws' = uflaws
  BY DEF Exit
<1>3. \A t \in Threads : pc'[t] = IF ProcOf[t] = q THEN "idle" ELSE pc[t]
  BY DEF Exit
<1> HIDE DEF r
<1>4. pr'[q] = r /\ \A p \in Procs \ {q} : pr'[p] = pr[p]
  BY <1>2 DEF MutexInv
<1>5. \A p \in Procs : Ths(p)' = Ths(p) /\ Ths(p) \subseteq Threads
  BY Zenon DEF Ths
<1>6. \A t \in Ths(q) : pc'[t] = "idle"
  BY <1>3, <1>5, Zenon DEF Ths
<1>7. \A p \in Procs \ {q} : \A t \in Ths(p) : pc'[t] = pc[t]
  BY <1>3, <1>5 DEF Ths
<1>8. ~Busy(q)' /\ \A p \in Procs \ {q} : Busy(p)' <=> Busy(p)
  BY <1>1, <1>4, <1>5, <1>6, <1>7 DEF Busy, Starting
<1> QED BY <1>1, <1>2, <1>4, <1>5, <1>6, <1>7, <1>8 DEF MapInv, Naming

LEMMA ForkMap ==
  ASSUME MutexInv, MapInv, "undefined" \notin uflaws, NEW q \in Procs, NEW c \in Procs, Fork(q, c)
  PROVE  MapInv'
<1> DEFINE r == [pr[q] EXCEPT !.pid = FALSE, !.mapped = 0]
<1>1. r.count = pr[q].count /\ r.mapped = 0 /\ ~r.pid
  BY DEF IsGlobals, Fresh, MutexInv
<1>2. /\ pr' = [pr EXCEPT ![c] = r] /\ uflaws \subseteq uflaws' /\ pc' = pc /\ ~pr[c].live
  BY Zenon DEF Fork, Fresh
<1> HIDE DEF r
<1>3. pr'[c] = r /\ \A p \in Procs \ {c} : pr'[p] = pr[p]
  BY <1>2, Zenon DEF MutexInv
<1>4. SUFFICES ASSUME uflaws' \cap {"failed", "raced"} = {} PROVE MapInv'
  BY Zenon DEF MapInv
<1>5. \A t \in Ths(c) : pc[t] = "idle"
  BY <1>2, <1>4, Zenon DEF MutexInv, Ths, Me
<1>6. \A p \in Procs : Ths(p)' = Ths(p)
  BY Zenon DEF Ths
<1>7. ~Busy(c)' /\ \A p \in Procs \ {c} : Busy(p)' <=> Busy(p)
  BY <1>1, <1>2, <1>3, <1>5, <1>6, Zenon DEF Busy, Starting
<1>8. uflaws \cap {"failed", "raced"} = {} /\ pr[q].count \in Nat
  BY <1>2, <1>4 DEF MapInv
<1> QED BY <1>1, <1>2, <1>3, <1>5, <1>6, <1>7, <1>8 DEF MapInv, Naming

LEMMA CallMap ==
  ASSUME MutexInv, MapInv, NEW t \in Threads, CallStart(t) \/ CallStop(t) \/ ReadCount(t)
  PROVE  MapInv'
<1>1. pr' = pr /\ uflaws' = uflaws
  BY Zenon DEF CallStart, CallStop, ReadCount
<1>2. PICK l : /\ pc' = [pc EXCEPT ![t] = l]
               /\ \/ pc[t] = "idle" /\ Me(t).pid /\ l \in {"lock", "stop"}
                  \/ pc[t] = "idle" /\ ~Me(t).pid /\ l = "reset"
                  \/ pc[t] = "read" /\ l \in {"drop", "idle"}
  BY Zenon DEF CallStart, CallStop, ReadCount, Go
<1> QED BY <1>1, <1>2, MapMoves, Zenon DEF Starting, Naming

LEMMA MapNext ==
  ASSUME MutexInv, MapInv, [UsrNext]_usrVars
  PROVE  MapInv'
<1>1. CASE UNCHANGED usrVars
  BY <1>1, MapStay, Zenon DEF usrVars
<1>2. ASSUME NEW t \in Threads, ThreadStep(t)
      PROVE  MapInv'
  <2>1. IsGlobals(Me(t)) /\ "undefined" \notin uflaws
    BY <1>2, UserStartAssumption, Zenon DEF Me, MutexInv, ThreadStep
  <2>2. CASE Destroy(t, "destroy", Me(t))
    <3> DEFINE o == Me(t)
    <3>1. /\ IsGlobals(o) /\ o.count = Me(t).count /\ o.mapped = Me(t).mapped /\ (o.pid => Me(t).pid)
          /\ Destroy(t, "destroy", o)
      BY <2>1, <2>2, Zenon
    <3> HIDE DEF o
    <3> QED BY <2>1, <3>1, DestroyMap, Zenon
  <2>3. CASE Destroy(t, "drop", [Me(t) EXCEPT !.pid = FALSE])
    <3> DEFINE o == [Me(t) EXCEPT !.pid = FALSE]
    <3>1. IsGlobals(o) /\ o.count = Me(t).count /\ o.mapped = Me(t).mapped /\ ~o.pid
      BY <2>1, Zenon DEF IsGlobals, Fresh
    <3>2. Destroy(t, "drop", o)
      BY <2>3, Zenon
    <3> HIDE DEF o
    <3> QED BY <2>1, <3>1, <3>2, DestroyMap
  <2> QED BY Zenon, <1>2, <2>1, <2>2, <2>3, UserResetMap, LockMap, ToStartMap, NameMap, StartServicesMap,
             CountStartMap, UnlockMap, SetPidMap, StopServicesMap, CallMap
          DEF ThreadStep, StartStep, StopStep
<1>3. ASSUME NEW d \in Devs, ToggleDevice(d)
      PROVE  MapInv'
  BY <1>3, MapStay DEF ToggleDevice
<1> QED BY <1>1, <1>2, <1>3, CallMap, ExitMap, ForkMap, Zenon DEF UsrNext

\* A mutex that is undefined moves nothing: what was is still so.
LEMMA UndefinedStays ==
  ASSUME [UsrNext]_usrVars, "undefined" \in uflaws', "raced" \notin uflaws'
  PROVE  pr' = pr /\ pc' = pc /\ list' = list /\ uflaws \subseteq uflaws'
<1>1. CASE UNCHANGED usrVars
  BY <1>1, Zenon DEF usrVars
<1>2. CASE "undefined" \notin uflaws
  <2>1. ASSUME NEW t \in Threads, StartStep(t)
        PROVE  pr' = pr /\ pc' = pc /\ list' = list /\ uflaws \subseteq uflaws'
    <3>1. ~UserReset(t) /\ ~WriteName(t) /\ ~SearchName(t) /\ ~StartServices(t) /\ ~CountStart(t)
      BY <1>2 DEF UserReset, WriteName, SearchName, StartServices, CountStart, Note
    <3>2. ~SetPid(t) /\ ~Unlock(t, "unlock", "pid") /\ ~Unlock(t, "fail", "destroy")
      BY <1>2, Zenon DEF SetPid, Unlock
    <3>3. CASE Lock(t, "lock", "inside")
      BY <1>2, <3>3, Zenon DEF Lock, Note, Unchanged1
    <3>4. CASE ToStart(t)
      BY <1>2, <3>4, Zenon DEF ToStart, Note, Unchanged1
    <3>5. CASE Destroy(t, "destroy", Me(t))
      BY <1>2, <3>5, Zenon DEF Destroy, Note, Unchanged1
    <3> QED BY <2>1, <3>1, <3>2, <3>3, <3>4, <3>5, Zenon DEF StartStep
  <2>2. ASSUME NEW t \in Threads, StopStep(t)
        PROVE  pr' = pr /\ pc' = pc /\ list' = list /\ uflaws \subseteq uflaws'
    <3>1. ~StopServices(t) /\ ~ReadCount(t) /\ ~Unlock(t, "stopped", "read")
      BY <1>2 DEF StopServices, ReadCount, Unlock, Note
    <3>2. CASE Lock(t, "stop", "stopping")
      BY <1>2, <3>2, Zenon DEF Lock, Note, Unchanged1
    <3>3. CASE Destroy(t, "drop", [Me(t) EXCEPT !.pid = FALSE])
      BY <1>2, <3>3, Zenon DEF Destroy, Note, Unchanged1
    <3> QED BY <2>2, <3>1, <3>2, <3>3, Zenon DEF StopStep
  <2>3. \A t \in Threads : ~CallStart(t) /\ ~CallStop(t)
    BY <1>2, Zenon DEF CallStart, CallStop
  <2>4. \A d \in Devs : ~ToggleDevice(d)
    BY <1>2, Zenon DEF ToggleDevice
  <2>5. \A q \in Procs : ~Exit(q) /\ \A c \in Procs : ~Fork(q, c)
    BY <1>2 DEF Exit, Fork
  <2> QED BY <1>1, <2>1, <2>2, <2>3, <2>4, <2>5, Zenon DEF UsrNext, ThreadStep
<1> QED BY <1>1, <1>2 DEF UsrNext, ThreadStep

LEMMA MapInit == UsrInit => MapInv
<1> SUFFICES ASSUME UsrInit PROVE MapInv
  OBVIOUS
<1>1. \A q \in Procs : pr[q].count = 0 /\ pr[q].mapped = 0 /\ ~pr[q].pid
  BY DEF UsrInit, Fresh
<1>2. \A q \in Procs : ~Busy(q)
  BY <1>1 DEF UsrInit, Busy, Ths, Starting
<1> QED BY <1>1, <1>2 DEF MapInv, UsrInit, Ths, Naming

LEMMA MapShows == MutexInv /\ MapInv /\ "undefined" \notin uflaws => MapsOnce
<1> SUFFICES ASSUME MutexInv, MapInv, "undefined" \notin uflaws,
                    uflaws \cap {"failed", "raced"} = {}, NEW q \in Procs,
                    pr[q].lock \notin Threads, pr[q].pid \/ pr[q].mapped > 0
             PROVE  pr[q].mapped = IF pr[q].count > 0 THEN 1 ELSE 0
  BY Zenon DEF MapsOnce, MappedOnce
<1>1. \A t \in Ths(q) : t \in Threads /\ Me(t).lock # t
  BY Zenon DEF Ths, Me
<1>2. \A t \in Ths(q) : pc[t] \notin Critical
  BY <1>1 DEF MutexInv, LockOwned
<1>3. \A t \in Ths(q) : pc[t] # "count"
  BY <1>2 DEF Critical
<1> QED BY <1>3 DEF MapInv, Busy

\* The first start of a process maps its instances, the last stop frees them,
\* and no start or stop in between does either: for any number of processes and
\* threads, unless a part of a start or stop failed or two starts raced.
THEOREM InstancesMappedOnce == UsrSpec => []MapsOnce
<1>1. UsrInit => MutexInv /\ MapInv /\ MapsOnce
  <2> SUFFICES ASSUME UsrInit PROVE MutexInv /\ MapInv /\ MapsOnce
    BY Zenon
  <2>1. \A q \in Procs : pr[q].count = 0 /\ pr[q].mapped = 0 /\ ~pr[q].pid
    BY Zenon DEF UsrInit, Fresh
  <2> QED BY <2>1, MutexInit, MapInit DEF MapsOnce, MappedOnce
<1>2. MutexInv /\ MapInv /\ MapsOnce /\ [UsrNext]_usrVars => (MutexInv /\ MapInv /\ MapsOnce)'
  <2> SUFFICES ASSUME MutexInv, MapInv, MapsOnce, [UsrNext]_usrVars
               PROVE  (MutexInv /\ MapInv /\ MapsOnce)'
    BY Zenon
  <2>1. MutexInv' /\ MapInv'
    BY MutexNext, MapNext, Zenon
  <2>2. (MutexInv /\ MapInv /\ "undefined" \notin uflaws => MapsOnce)'
    BY MapShows, PTL
  <2>3. CASE "undefined" \in uflaws'
    <3>1. SUFFICES ASSUME uflaws' \cap {"failed", "raced"} = {} PROVE MapsOnce'
      BY <2>1, Zenon DEF MapsOnce
    <3>2. pr' = pr /\ uflaws \cap {"failed", "raced"} = {}
      BY <2>3, <3>1, UndefinedStays
    <3> QED BY <3>2, Zenon DEF MapsOnce, MappedOnce
  <2> QED BY <2>1, <2>2, <2>3, Zenon
<1> QED BY <1>1, <1>2, PTL DEF UsrSpec
-----------------------------------------------------------------------------
(* The names of a process.                                                   *)

Given == {"services", "count"}
\* The strengthening: an entry has one process, and is in the list from the
\* moment the name is given out until the count is back at 0.
OwnInv ==
  uflaws \cap {"failed", "forked", "raced"} = {} =>
    /\ \A e \in list : IsEntry(e) /\ e.owner \in Procs /\ e.refs = {e.owner}
    /\ \A q \in Procs :
         /\ \A e \in list : e.owner = q => pr[q].live /\ pr[q].file = e.fd
         /\ (\E e \in list : e.owner = q) <=> (pr[q].count > 0 \/ \E t \in Ths(q) : pc[t] \in Given)
         /\ pr[q].count > 0 => Busy(q)

\* The same of the process of thread t, whose globals are r and entries es,
\* when t is at l.
OwnOf(t, r, l, es) ==
  /\ \A e \in es : r.live /\ r.file = e.fd
  /\ es # {} <=> (r.count > 0 \/ l \in Given \/ \E u \in Mates(t) : pc[u] \in Given)
  /\ r.count > 0 => r.pid \/ l \in Starting \/ \E u \in Mates(t) : pc[u] \in Starting
Entries(q) == {e \in list : e.owner = q}

LEMMA OwnHere ==
  ASSUME OwnInv, NEW t \in Threads, uflaws \cap {"failed", "forked", "raced"} = {}
  PROVE  OwnOf(t, Me(t), pc[t], Entries(ProcOf[t]))
<1>1. ProcOf[t] \in Procs
  BY UserStartAssumption
<1>2. Me(t).pid = pr[ProcOf[t]].pid /\ Me(t) = pr[ProcOf[t]]
  BY DEF Me
<1> QED BY <1>1, <1>2, MatesAre DEF OwnInv, OwnOf, Busy, Entries

\* A step of one thread disturbs no other process.
LEMMA OwnThread ==
  ASSUME MutexInv, OwnInv, NEW t \in Threads, NEW r, NEW l, NEW es,
         pr' = [pr EXCEPT ![ProcOf[t]] = r] \/ (pr' = pr /\ r = Me(t)), pc' = [pc EXCEPT ![t] = l],
         uflaws \subseteq uflaws',
         uflaws' \cap {"failed", "forked", "raced"} = {} =>
           /\ OwnOf(t, r, l, es)
           /\ list' = (list \ Entries(ProcOf[t])) \cup es
           /\ \A e \in es : IsEntry(e) /\ e.owner = ProcOf[t] /\ e.refs = {e.owner}
  PROVE  OwnInv'
<1> DEFINE p == ProcOf[t]
<1>1. p \in Procs
  BY UserStartAssumption, Zenon
<1>2. pr'[p] = r /\ \A q \in Procs \ {p} : pr'[q] = pr[q]
  BY <1>1, Zenon DEF MutexInv, Me
<1>3. pc'[t] = l /\ \A u \in Threads \ {t} : pc'[u] = pc[u]
  BY Zenon DEF MutexInv
<1>4. SUFFICES ASSUME uflaws' \cap {"failed", "forked", "raced"} = {}
               PROVE  /\ \A e \in list' : IsEntry(e) /\ e.owner \in Procs /\ e.refs = {e.owner}
                      /\ \A q \in Procs :
                           /\ \A e \in list' : e.owner = q => pr'[q].live /\ pr'[q].file = e.fd
                           /\ (\E e \in list' : e.owner = q)
                                <=> (pr'[q].count > 0 \/ \E u \in Ths(q) : pc'[u] \in Given)
                           /\ pr'[q].count > 0 => Busy(q)'
  BY Zenon DEF OwnInv, Ths, IsEntry
<1>5. uflaws \cap {"failed", "forked", "raced"} = {}
  BY <1>4, Zenon
<1>6. \A e \in list' : IsEntry(e) /\ e.owner \in Procs /\ e.refs = {e.owner}
  BY <1>1, <1>4, <1>5, Zenon DEF OwnInv
<1>7. ASSUME NEW q \in Procs, q # p
      PROVE  /\ \A e \in list' : e.owner = q => pr'[q].live /\ pr'[q].file = e.fd
             /\ (\E e \in list' : e.owner = q)
                  <=> (pr'[q].count > 0 \/ \E u \in Ths(q) : pc'[u] \in Given)
             /\ pr'[q].count > 0 => Busy(q)'
  <2>1. pr'[q] = pr[q] /\ \A u \in Ths(q) : u \in Threads \ {t}
    BY <1>2, <1>7, Zenon DEF Ths
  <2>2. \A u \in Ths(q) : pc'[u] = pc[u]
    BY <1>3, <2>1, Zenon
  <2>3. Busy(q)' <=> Busy(q)
    BY <2>1, <2>2, Zenon DEF Busy, Ths
  <2>4. \A e : e \in list' /\ e.owner = q <=> e \in list /\ e.owner = q
    BY <1>4, <1>7, Zenon DEF Entries
  <2> QED BY <1>5, <2>1, <2>2, <2>3, <2>4 DEF OwnInv
<1>8. /\ \A e \in list' : e.owner = p => pr'[p].live /\ pr'[p].file = e.fd
      /\ (\E e \in list' : e.owner = p)
           <=> (pr'[p].count > 0 \/ \E u \in Ths(p) : pc'[u] \in Given)
      /\ pr'[p].count > 0 => Busy(p)'
  <2>1. Ths(p) = Mates(t) \cup {t} /\ t \notin Mates(t) /\ Mates(t) \subseteq Threads
    BY MatesAre
  <2>2. pr'[p] = r /\ \A u \in Mates(t) : pc'[u] = pc[u]
    BY <1>2, <1>3, <2>1, Zenon
  <2>3. Ths(p)' = Ths(p)
    BY Zenon DEF Ths
  <2>4. Busy(p)' <=> (r.pid \/ l \in Starting \/ \E u \in Mates(t) : pc[u] \in Starting)
    BY <1>3, <2>1, <2>2, <2>3, Zenon DEF Busy
  <2>5. OwnOf(t, r, l, es) /\ \A e : e \in list' /\ e.owner = p <=> e \in es
    BY <1>4, Zenon DEF Entries
  <2> QED BY <1>3, <2>1, <2>2, <2>4, <2>5 DEF OwnOf
<1> QED BY <1>6, <1>7, <1>8, Zenon

LEMMA OwnStay ==
  ASSUME OwnInv, pr' = pr, pc' = pc, list' = list, uflaws \subseteq uflaws'
  PROVE  OwnInv'
<1>1. uflaws' \cap {"failed", "forked", "raced"} = {} => uflaws \cap {"failed", "forked", "raced"} = {}
  OBVIOUS
<1>2. \A q \in Procs : Busy(q)' = Busy(q) /\ Ths(q)' = Ths(q)
  BY DEF Busy, Ths
<1> QED BY <1>1, <1>2 DEF OwnInv, IsEntry

\* The steps that leave the list, the count and who has begun.  They may set the
\* file when the process has no entry.
LEMMA OwnMoves ==
  ASSUME MutexInv, OwnInv, NEW t \in Threads, NEW r, NEW l,
         pr' = [pr EXCEPT ![ProcOf[t]] = r] \/ (pr' = pr /\ r = Me(t)), pc' = [pc EXCEPT ![t] = l],
         uflaws \subseteq uflaws', list' = list, r.count = Me(t).count, r.live = Me(t).live,
         uflaws' \cap {"failed", "forked", "raced"} = {} =>
           /\ r.file = Me(t).file \/ Entries(ProcOf[t]) = {}
           /\ \/ r.pid \/ ~(r.count > 0)
              \/ r.pid = Me(t).pid /\ (pc[t] \in Starting => l \in Starting)
           /\ l \in Given => pc[t] \in Given \/ r.count > 0
           /\ pc[t] \in Given => l \in Given \/ r.count > 0
  PROVE  OwnInv'
<1>1. SUFFICES ASSUME uflaws' \cap {"failed", "forked", "raced"} = {}
               PROVE  OwnInv'
  BY Zenon DEF OwnInv
<1>2. OwnOf(t, Me(t), pc[t], Entries(ProcOf[t]))
  BY <1>1, OwnHere, Zenon
<1> DEFINE es == Entries(ProcOf[t])
<1>3. OwnOf(t, r, l, es)
  BY <1>1, <1>2, Zenon DEF OwnOf
<1>4. list' = (list \ Entries(ProcOf[t])) \cup es
  BY Zenon DEF Entries
<1>5. \A e \in es : IsEntry(e) /\ e.owner = ProcOf[t] /\ e.refs = {e.owner}
  BY <1>1, Zenon DEF Entries, OwnInv
<1> HIDE DEF es
<1> QED BY <1>3, <1>4, <1>5, OwnThread, Zenon

LEMMA UserResetOwn ==
  ASSUME MutexInv, OwnInv, NEW t \in Threads, UserReset(t)
  PROVE  OwnInv'
<1> DEFINE r == [Me(t) EXCEPT !.lock = Free, !.plock = TRUE, !.count = 0, !.file = Closed, !.init = FALSE]
<1>1. IsGlobals(Me(t))
  BY UserStartAssumption, Zenon DEF Me, MutexInv
<1>2. r.count = 0 /\ r.live = Me(t).live /\ r.pid = Me(t).pid
  BY <1>1, Zenon DEF IsGlobals, Fresh
<1>3. pr' = [pr EXCEPT ![ProcOf[t]] = r] /\ pc' = [pc EXCEPT ![t] = "lock"] /\ pc[t] = "reset"
  BY Zenon DEF UserReset, Set, Go
<1>4. /\ uflaws \subseteq uflaws' /\ list' = list
      /\ "raced" \notin uflaws' => ~Me(t).pid /\ \A u \in Mates(t) : pc[u] \notin Starting
  BY Zenon DEF UserReset, Note, Unchanged1
<1> HIDE DEF r
<1>5. ASSUME uflaws' \cap {"failed", "forked", "raced"} = {}
      PROVE  Entries(ProcOf[t]) = {} /\ ~(Me(t).count > 0) /\ \A u \in Mates(t) : pc[u] \notin Given
  <2>1. OwnOf(t, Me(t), "reset", Entries(ProcOf[t]))
    BY <1>3, <1>4, <1>5, OwnHere, Zenon
  <2>2. \A u \in Mates(t) : pc[u] \notin Given
    BY <1>4, <1>5 DEF Starting, Given
  <2> QED BY <1>4, <1>5, <2>1, <2>2 DEF OwnOf, Starting, Given
<1>6. ASSUME uflaws' \cap {"failed", "forked", "raced"} = {}
      PROVE  /\ OwnOf(t, r, "lock", {})
             /\ list' = (list \ Entries(ProcOf[t])) \cup {}
             /\ \A e \in {} : IsEntry(e) /\ e.owner = ProcOf[t] /\ e.refs = {e.owner}
  BY <1>2, <1>4, <1>5, <1>6 DEF OwnOf, Given
<1> QED BY <1>3, <1>4, <1>6, OwnThread, Zenon

LEMMA LockOwn ==
  ASSUME MutexInv, OwnInv, NEW t \in Threads,
         Lock(t, "lock", "inside") \/ Lock(t, "stop", "stopping")
  PROVE  OwnInv'
<1> DEFINE r == [Me(t) EXCEPT !.lock = t]
<1>1. IsGlobals(Me(t))
  BY UserStartAssumption, Zenon DEF Me, MutexInv
<1>2. r.count = Me(t).count /\ r.live = Me(t).live /\ r.pid = Me(t).pid /\ r.file = Me(t).file
  BY <1>1, Zenon DEF IsGlobals, Fresh
<1>3. list' = list /\ uflaws \subseteq uflaws'
  BY Zenon DEF Lock, Note, Unchanged1
<1>4. CASE pr' = pr /\ pc' = pc
  BY <1>3, <1>4, OwnStay, Zenon
<1>5. CASE Set(t, r) /\ ~(pr' = pr /\ pc' = pc)
  <2>1. pr' = [pr EXCEPT ![ProcOf[t]] = r]
    BY <1>5, Zenon DEF Set
  <2>2. \/ pc[t] = "lock" /\ pc' = [pc EXCEPT ![t] = "inside"]
        \/ pc[t] = "stop" /\ pc' = [pc EXCEPT ![t] = "stopping"]
    BY <1>5, Zenon DEF Lock, Go
  <2> HIDE DEF r
  <2> QED BY <1>2, <1>3, <2>1, <2>2, OwnMoves, ZenonT(60) DEF Starting, Given
<1> QED BY <1>4, <1>5, Zenon DEF Lock

\* A thread inside that has not been given a name has none.
LEMMA Nameless ==
  ASSUME MutexInv, OwnInv, "undefined" \notin uflaws, NEW t \in Threads,
         uflaws \cap {"failed", "forked", "raced"} = {},
         pc[t] \in Critical \ Given, ~(Me(t).count > 0)
  PROVE  Entries(ProcOf[t]) = {} /\ \A u \in Mates(t) : pc[u] \notin Given
<1>1. \A u \in Mates(t) : pc[u] \notin Critical
  BY Alone, Zenon
<1>2. \A u \in Mates(t) : pc[u] \notin Given
  BY <1>1, Zenon DEF Critical, Given
<1>3. OwnOf(t, Me(t), pc[t], Entries(ProcOf[t]))
  BY OwnHere, Zenon
<1> QED BY <1>2, <1>3, Zenon DEF OwnOf

LEMMA ToStartOwn ==
  ASSUME MutexInv, OwnInv, "undefined" \notin uflaws, NEW t \in Threads, ToStart(t)
  PROVE  OwnInv'
<1> DEFINE f == FreshFd
           r == [Me(t) EXCEPT !.file = f]
<1>1. IsGlobals(Me(t))
  BY UserStartAssumption, Zenon DEF Me, MutexInv
<1> HIDE DEF f
<1>2. r.count = Me(t).count /\ r.live = Me(t).live /\ r.pid = Me(t).pid
  BY <1>1, Zenon DEF IsGlobals, Fresh
<1>3. pc[t] = "inside" /\ list' = list
  BY Zenon DEF ToStart, Unchanged1
<1>4. CASE pr' = pr /\ pc' = pc
  BY <1>3, <1>4, OwnStay, Zenon DEF ToStart, Note
<1>5. CASE Me(t).count > 0 /\ Go(t, "count") /\ pr' = pr /\ uflaws' = uflaws
  BY <1>3, <1>5, OwnMoves, Zenon DEF Go, Starting, Given
<1>6. CASE Go(t, "fail") /\ pr' = pr /\ uflaws' = uflaws
  BY <1>3, <1>6, OwnMoves, Zenon DEF Go, Starting, Given
<1>7. CASE ~(Me(t).count > 0) /\ Set(t, r) /\ Go(t, "write") /\ uflaws' = uflaws
  <2> HIDE DEF r
  <2>1. pr' = [pr EXCEPT ![ProcOf[t]] = r] /\ pc' = [pc EXCEPT ![t] = "write"]
    BY <1>7, Zenon DEF Set, Go
  <2>2. uflaws' \cap {"failed", "forked", "raced"} = {} => Entries(ProcOf[t]) = {}
    BY <1>3, <1>7, Nameless, Zenon DEF Critical, Given
  <2> QED BY <1>2, <1>3, <1>7, <2>1, <2>2, OwnMoves, Zenon DEF Starting, Given
<1> QED BY <1>4, <1>5, <1>6, <1>7, Zenon DEF ToStart, f

LEMMA NameOwn ==
  ASSUME MutexInv, MapInv, OwnInv, "undefined" \notin uflaws, NEW t \in Threads,
         WriteName(t) \/ SearchName(t)
  PROVE  OwnInv'
<1> DEFINE r == [Me(t) EXCEPT !.file = Closed]
<1>1. IsGlobals(Me(t))
  BY UserStartAssumption, Zenon DEF Me, MutexInv
<1>2. r.count = Me(t).count /\ r.live = Me(t).live /\ r.pid = Me(t).pid
  BY <1>1 DEF IsGlobals, Fresh
<1>3. pc[t] \in {"write", "search"} /\ uflaws \subseteq uflaws'
  BY Zenon DEF WriteName, SearchName, Note
<1>4. ASSUME uflaws' \cap {"failed", "forked", "raced"} = {}
      PROVE  /\ Entries(ProcOf[t]) = {} /\ ~(Me(t).count > 0)
             /\ \A u \in Mates(t) : pc[u] \notin Given
  <2>1. uflaws \cap {"failed", "forked", "raced"} = {} /\ uflaws \cap {"failed", "raced"} = {}
    BY <1>3, <1>4, Zenon
  <2>2. MapOf(t, Me(t), pc[t])
    BY <2>1, MapHere
  <2>3. ~(Me(t).count > 0)
    BY <1>3, <2>2 DEF MapOf, Naming
  <2> QED BY <1>3, <2>1, <2>3, Nameless, Zenon DEF Critical, Given
<1>5. CASE Refused(t)
  <2>1. pr' = [pr EXCEPT ![ProcOf[t]] = r] /\ pc' = [pc EXCEPT ![t] = "fail"] /\ list' = list
    BY <1>5, Zenon DEF Refused, Set, Go
  <2> HIDE DEF r
  <2> QED BY <1>2, <1>3, <1>4, <2>1, OwnMoves, Zenon DEF Starting, Given
<1>6. CASE Go(t, "search") /\ pr' = pr /\ list' = list
  BY <1>3, <1>6, OwnMoves, Zenon DEF Go, Starting, Given
<1>7. ASSUME NEW n, Grant(t, n), pr' = pr
      PROVE  OwnInv'
  <2> DEFINE new == [fd |-> Me(t).file, name |-> n, owner |-> ProcOf[t], refs |-> {ProcOf[t]}]
             es == {new}
  <2>1. /\ list' = list \cup es /\ pc' = [pc EXCEPT ![t] = "services"]
        /\ IsEntry(new) /\ new.owner = ProcOf[t] /\ new.refs = {new.owner} /\ new.fd = Me(t).file
    BY <1>7, Zenon DEF Grant, Go, IsEntry
  <2> HIDE DEF new
  <2>2. ASSUME uflaws' \cap {"failed", "forked", "raced"} = {}
        PROVE  Me(t).live
    BY <1>3, <2>2, Zenon DEF MutexInv
  <2>3. ASSUME uflaws' \cap {"failed", "forked", "raced"} = {}
        PROVE  /\ OwnOf(t, Me(t), "services", es)
               /\ list' = (list \ Entries(ProcOf[t])) \cup es
               /\ \A e \in es : IsEntry(e) /\ e.owner = ProcOf[t] /\ e.refs = {e.owner}
    BY <1>4, <2>1, <2>2, <2>3, Zenon DEF OwnOf, Given, Starting
  <2> HIDE DEF es
  <2> QED BY <1>3, <1>7, <2>1, <2>3, OwnThread, Zenon
<1> QED BY <1>5, <1>6, <1>7 DEF WriteName, SearchName

LEMMA StartServicesOwn ==
  ASSUME MutexInv, OwnInv, NEW t \in Threads, StartServices(t)
  PROVE  OwnInv'
<1> DEFINE r == [Me(t) EXCEPT !.init = TRUE, !.mapped = @ + 1]
<1>1. IsGlobals(Me(t))
  BY UserStartAssumption DEF Me, MutexInv
<1>2. r.count = Me(t).count /\ r.live = Me(t).live /\ r.pid = Me(t).pid /\ r.file = Me(t).file
  BY <1>1, Zenon DEF IsGlobals, Fresh
<1>3. pc[t] = "services" /\ list' = list
  BY Zenon DEF StartServices, Unchanged1
<1>4. CASE "failed" \in uflaws'
  BY <1>4, Zenon DEF OwnInv
<1>5. CASE "failed" \notin uflaws'
  <2>1. pr' = [pr EXCEPT ![ProcOf[t]] = r] /\ pc' = [pc EXCEPT ![t] = "count"] /\ uflaws' = uflaws
    BY <1>5, Zenon DEF StartServices, Set, Go, Note
  <2> HIDE DEF r
  <2> QED BY <1>2, <1>3, <2>1, OwnMoves, Zenon DEF Given, Starting
<1> QED BY <1>4, <1>5, Zenon

LEMMA CountStartOwn ==
  ASSUME MutexInv, MapInv, OwnInv, NEW t \in Threads, CountStart(t)
  PROVE  OwnInv'
<1> DEFINE r == [Me(t) EXCEPT !.count = @ + 1]
<1>1. IsGlobals(Me(t))
  BY UserStartAssumption DEF Me, MutexInv
<1>2. r.count = Me(t).count + 1 /\ r.live = Me(t).live /\ r.pid = Me(t).pid /\ r.file = Me(t).file
  BY <1>1, Zenon DEF IsGlobals, Fresh
<1>3. pc[t] = "count" /\ uflaws' = uflaws /\ list' = list
  BY Zenon DEF CountStart, Unchanged1
<1>4. CASE uflaws' \cap {"failed", "forked", "raced"} # {}
  BY <1>4, Zenon DEF OwnInv
<1>5. CASE uflaws' \cap {"failed", "forked", "raced"} = {}
  <2>1. Me(t).count \in Nat
    BY <1>3, <1>5, MapHere, Zenon DEF MapOf
  <2>2. OwnOf(t, Me(t), "count", Entries(ProcOf[t]))
    BY <1>3, <1>5, OwnHere, Zenon
  <2>3. CASE Me(t).count >= StartRefCountMax
    <3>1. Me(t).count > 0
      BY <2>1, <2>3, UserStartAssumption
    <3>2. Go(t, "fail") /\ pr' = pr
      BY <2>3, Zenon DEF CountStart
    <3> QED BY <1>3, <3>1, <3>2, OwnMoves, Zenon DEF Go, Starting, Given
  <2>4. CASE ~(Me(t).count >= StartRefCountMax)
    <3> DEFINE es == Entries(ProcOf[t])
    <3>1. pr' = [pr EXCEPT ![ProcOf[t]] = r] /\ pc' = [pc EXCEPT ![t] = "unlock"]
      BY <2>4, Zenon DEF CountStart, Set, Go
    <3> HIDE DEF r
    <3>2. OwnOf(t, r, "unlock", es)
      BY <1>2, <2>1, <2>2 DEF OwnOf, Starting, Given
    <3>3. /\ list' = (list \ Entries(ProcOf[t])) \cup es
          /\ \A e \in es : IsEntry(e) /\ e.owner = ProcOf[t] /\ e.refs = {e.owner}
      BY <1>3, <1>5, Zenon DEF Entries, OwnInv
    <3> HIDE DEF es
    <3> QED BY <1>3, <3>1, <3>2, <3>3, OwnThread, Zenon
  <2> QED BY <2>3, <2>4, Zenon
<1> QED BY <1>4, <1>5, Zenon

LEMMA UnlockOwn ==
  ASSUME MutexInv, OwnInv, NEW t \in Threads,
         Unlock(t, "unlock", "pid") \/ Unlock(t, "fail", "destroy") \/ Unlock(t, "stopped", "read")
  PROVE  OwnInv'
<1> DEFINE r == [Me(t) EXCEPT !.lock = Free]
<1>1. IsGlobals(Me(t))
  BY UserStartAssumption, Zenon DEF Me, MutexInv
<1>2. r.count = Me(t).count /\ r.live = Me(t).live /\ r.pid = Me(t).pid /\ r.file = Me(t).file
  BY <1>1 DEF IsGlobals, Fresh
<1>3. pr' = [pr EXCEPT ![ProcOf[t]] = r] /\ uflaws' = uflaws /\ list' = list
  BY Zenon DEF Unlock, Set, Unchanged1
<1>4. PICK l \in {"pid", "destroy", "read"} :
        /\ pc' = [pc EXCEPT ![t] = l] /\ pc[t] \notin Given /\ (pc[t] \in Starting => l \in Starting)
  BY Zenon DEF Unlock, Go, Starting, Given
<1> HIDE DEF r
<1> QED BY <1>2, <1>3, <1>4, OwnMoves, Zenon DEF Given

LEMMA SetPidOwn ==
  ASSUME MutexInv, OwnInv, NEW t \in Threads, SetPid(t)
  PROVE  OwnInv'
<1> DEFINE r == [Me(t) EXCEPT !.pid = TRUE]
<1>1. IsGlobals(Me(t))
  BY UserStartAssumption, Zenon DEF Me, MutexInv
<1>2. r.count = Me(t).count /\ r.live = Me(t).live /\ r.pid /\ r.file = Me(t).file
  BY <1>1, Zenon DEF IsGlobals, Fresh
<1>3. /\ pr' = [pr EXCEPT ![ProcOf[t]] = r] /\ pc' = [pc EXCEPT ![t] = "idle"]
      /\ uflaws' = uflaws /\ pc[t] = "pid" /\ list' = list
  BY Zenon DEF SetPid, Set, Go, Unchanged1
<1> HIDE DEF r
<1> QED BY <1>2, <1>3, OwnMoves, Zenon DEF Given

LEMMA DestroyOwn ==
  ASSUME MutexInv, OwnInv, NEW t \in Threads, NEW at, NEW o,
         Destroy(t, at, o), at \in {"destroy", "drop"}, IsGlobals(o),
         o.count = Me(t).count, o.live = Me(t).live, o.file = Me(t).file
  PROVE  OwnInv'
<1> DEFINE r == [o EXCEPT !.lock = NullLock]
<1>1. r.count = o.count /\ r.live = o.live /\ r.pid = o.pid /\ r.file = o.file
  BY Zenon DEF IsGlobals, Fresh
<1>2. CASE Me(t).lock \in Threads
  BY <1>2, OwnStay, Zenon DEF Destroy, Note, Unchanged1
<1>3. CASE Me(t).lock \notin Threads
  <2>1. /\ pr' = [pr EXCEPT ![ProcOf[t]] = r] /\ pc' = [pc EXCEPT ![t] = "idle"] /\ pc[t] = at
        /\ list' = list
    BY <1>3, Zenon DEF Destroy, Set, Go, Unchanged1
  <2>2. /\ uflaws \subseteq uflaws'
        /\ "raced" \notin uflaws' => o.pid \/ ~(o.count > 0)
    BY <1>3, Zenon DEF Destroy, Note
  <2> HIDE DEF r
  <2> QED BY <1>1, <2>1, <2>2, OwnMoves, Zenon DEF Given
<1> QED BY <1>2, <1>3, Zenon

LEMMA CallOwn ==
  ASSUME MutexInv, OwnInv, NEW t \in Threads, CallStart(t) \/ CallStop(t) \/ ReadCount(t)
  PROVE  OwnInv'
<1>1. pr' = pr /\ uflaws' = uflaws /\ list' = list
  BY Zenon DEF CallStart, CallStop, ReadCount, Unchanged1
<1>2. PICK l : /\ pc' = [pc EXCEPT ![t] = l]
               /\ pc[t] \in {"idle", "read"} /\ l \in {"lock", "stop", "reset", "drop", "idle"}
  BY Zenon DEF CallStart, CallStop, ReadCount, Go
<1> QED BY <1>1, <1>2, OwnMoves, Zenon DEF Starting, Given

\* A process that closes its file leaves the entries of the others.
LEMMA DropLeaves ==
  ASSUME OwnInv, NEW p \in Procs, uflaws \cap {"failed", "forked", "raced"} = {}, NEW fd,
         fd = pr[p].file
  PROVE  Drop(list, p, fd) = list \ Entries(p)
<1> DEFINE F(e) == [e EXCEPT !.refs = IF fd = e.fd THEN @ \ {p} ELSE @]
<1>1. ASSUME NEW e \in list, e.owner = p
      PROVE  F(e).refs = {}
  BY <1>1 DEF OwnInv, IsEntry
<1>2. ASSUME NEW e \in list, e.owner # p
      PROVE  F(e) = e /\ e.refs # {}
  BY <1>2 DEF OwnInv, IsEntry
<1>3. Drop(list, p, fd) = {f \in {F(e) : e \in list} : f.refs # {}}
  BY DEF Drop
<1> HIDE DEF F
<1> QED BY <1>1, <1>2, <1>3 DEF Entries

LEMMA StopServicesOwn ==
  ASSUME MutexInv, MapInv, OwnInv, "undefined" \notin uflaws, NEW t \in Threads, StopServices(t)
  PROVE  OwnInv'
<1> DEFINE less == [Me(t) EXCEPT !.count = IF @ > 0 THEN @ - 1 ELSE @]
           last == [less EXCEPT !.mapped = @ - 1, !.init = FALSE, !.plock = FALSE, !.file = Closed]
<1>1. IsGlobals(Me(t)) /\ ProcOf[t] \in Procs
  BY UserStartAssumption, Zenon DEF Me, MutexInv
<1>2. /\ IsGlobals(less) /\ less.live = Me(t).live /\ less.pid = Me(t).pid /\ less.file = Me(t).file
      /\ less.count = IF Me(t).count > 0 THEN Me(t).count - 1 ELSE Me(t).count
  BY <1>1, Zenon DEF IsGlobals, Fresh
<1>3. pc[t] = "stopping" /\ pc' = [pc EXCEPT ![t] = "stopped"] /\ uflaws \subseteq uflaws'
  BY Zenon DEF StopServices, Go, Note
<1>4. \/ "failed" \in uflaws'
      \/ /\ Me(t).count = 1 /\ pr' = [pr EXCEPT ![ProcOf[t]] = last]
         /\ list' = Drop(list, ProcOf[t], Me(t).file)
      \/ Me(t).count # 1 /\ pr' = [pr EXCEPT ![ProcOf[t]] = less] /\ list' = list
  BY Zenon DEF StopServices, Set, Note
<1> HIDE DEF less
<1>5. last.live = less.live /\ last.pid = less.pid /\ last.count = less.count
  BY <1>2, Zenon DEF IsGlobals, Fresh
<1> HIDE DEF last
<1>6. CASE uflaws' \cap {"failed", "forked", "raced"} # {}
  BY <1>6, Zenon DEF OwnInv
<1>7. CASE uflaws' \cap {"failed", "forked", "raced"} = {}
  <2>0. uflaws \cap {"failed", "forked", "raced"} = {} /\ uflaws \cap {"failed", "raced"} = {}
    BY <1>3, <1>7, Zenon
  <2>1. Me(t).count \in Nat
    BY <2>0, MapHere, Zenon DEF MapOf
  <2>2. \A u \in Mates(t) : pc[u] \notin Critical
    BY <1>3, <2>0, Alone DEF Critical
  <2>3. \A u \in Mates(t) : pc[u] \notin Given
    BY <2>2, Zenon DEF Critical, Given
  <2>4. OwnOf(t, Me(t), "stopping", Entries(ProcOf[t]))
    BY <1>3, <2>0, OwnHere, Zenon
  <2>5. CASE /\ Me(t).count = 1 /\ pr' = [pr EXCEPT ![ProcOf[t]] = last]
             /\ list' = Drop(list, ProcOf[t], Me(t).file)
    <3>1. list' = (list \ Entries(ProcOf[t])) \cup {}
      BY <1>1, <2>0, <2>5, DropLeaves, Zenon DEF Me
    <3>2. OwnOf(t, last, "stopped", {})
      BY <1>2, <1>5, <2>3, <2>5 DEF OwnOf, Given
    <3> QED BY <1>3, <2>5, <3>1, <3>2, OwnThread, Zenon
  <2>6. CASE Me(t).count # 1 /\ pr' = [pr EXCEPT ![ProcOf[t]] = less] /\ list' = list
    <3> DEFINE es == Entries(ProcOf[t])
    <3>1. OwnOf(t, less, "stopped", es)
      BY <1>2, <2>1, <2>3, <2>4, <2>6 DEF OwnOf, Given, Starting
    <3>2. /\ list' = (list \ Entries(ProcOf[t])) \cup es
          /\ \A e \in es : IsEntry(e) /\ e.owner = ProcOf[t] /\ e.refs = {e.owner}
      BY <2>0, <2>6, Zenon DEF Entries, OwnInv
    <3> HIDE DEF es
    <3> QED BY <1>3, <2>6, <3>1, <3>2, OwnThread, Zenon
  <2> QED BY <1>4, <1>7, <2>5, <2>6, Zenon
<1> QED BY <1>6, <1>7, Zenon

LEMMA ExitOwn ==
  ASSUME MutexInv, OwnInv, NEW q \in Procs, Exit(q)
  PROVE  OwnInv'
<1> DEFINE r == [Fresh EXCEPT !.live = FALSE]
           F(e) == [e EXCEPT !.refs = @ \ {q}]
<1>1. SUFFICES ASSUME uflaws' \cap {"failed", "forked", "raced"} = {} PROVE OwnInv'
  BY DEF OwnInv
<1>2. r.count = 0
  BY DEF Fresh
<1>3. /\ pr' = [pr EXCEPT ![q] = r] /\ uflaws' = uflaws
      /\ list' = {f \in {F(e) : e \in list} : f.refs # {}}
  BY DEF Exit
<1>4. \A t \in Threads : pc'[t] = IF ProcOf[t] = q THEN "idle" ELSE pc[t]
  BY DEF Exit
<1>5. ASSUME NEW e \in list, e.owner = q
      PROVE  F(e).refs = {}
  BY <1>1, <1>3, <1>5 DEF OwnInv, IsEntry
<1>6. ASSUME NEW e \in list, e.owner # q
      PROVE  F(e) = e /\ e.refs # {}
  BY <1>1, <1>3, <1>6 DEF OwnInv, IsEntry
<1> HIDE DEF r, F
<1>7. list' = {e \in list : e.owner # q}
  BY <1>3, <1>5, <1>6
<1>8. pr'[q] = r /\ \A p \in Procs \ {q} : pr'[p] = pr[p]
  BY <1>3, Zenon DEF MutexInv
<1>9. \A p \in Procs : Ths(p)' = Ths(p) /\ Ths(p) \subseteq Threads
  BY Zenon DEF Ths
<1>10. \A t \in Ths(q) : pc'[t] \notin Given
  BY <1>4, <1>9, Zenon DEF Ths, Given
<1>11. \A p \in Procs \ {q} : \A t \in Ths(p) : pc'[t] = pc[t]
  BY <1>4, <1>9, Zenon DEF Ths
<1>12. \A p \in Procs \ {q} : Busy(p)' <=> Busy(p)
  BY <1>8, <1>9, <1>11, Zenon DEF Busy
<1>13. \A e \in list' : IsEntry(e)' <=> IsEntry(e)
  BY Zenon DEF IsEntry
<1> QED BY <1>1, <1>2, <1>3, <1>7, <1>8, <1>9, <1>10, <1>11, <1>12, <1>13 DEF OwnInv

LEMMA ForkOwn ==
  ASSUME MutexInv, OwnInv, "undefined" \notin uflaws, NEW q \in Procs, NEW c \in Procs, Fork(q, c)
  PROVE  OwnInv'
<1> DEFINE r == [pr[q] EXCEPT !.pid = FALSE, !.mapped = 0]
           F(e) == [e EXCEPT !.refs = IF q \in @ THEN @ \cup {c} ELSE @]
<1>1. SUFFICES ASSUME uflaws' \cap {"failed", "forked", "raced"} = {} PROVE OwnInv'
  BY DEF OwnInv
<1>2. r.count = pr[q].count
  BY Zenon DEF IsGlobals, Fresh, MutexInv
<1>3. /\ pr' = [pr EXCEPT ![c] = r] /\ uflaws' = uflaws /\ pc' = pc /\ ~pr[c].live
      /\ list' = {F(e) : e \in list} /\ \A e \in list : q \notin e.refs
  BY <1>1 DEF Fork, Fresh
<1>4. uflaws \cap {"failed", "forked", "raced"} = {}
  BY <1>1, <1>3, Zenon
<1>5. \A e \in list : F(e) = e
  BY <1>3, <1>4 DEF OwnInv, IsEntry
<1> HIDE DEF r, F
<1>6. list' = list
  BY <1>3, <1>5, Zenon
<1>7. pr'[c] = r /\ \A p \in Procs \ {c} : pr'[p] = pr[p]
  BY <1>3 DEF MutexInv
<1>8. \A t \in Ths(c) : pc[t] = "idle"
  BY <1>3, <1>4, Zenon DEF MutexInv, Ths, Me
<1>9. \A e \in list : e.owner # c /\ e.owner # q
  BY <1>3, <1>4 DEF OwnInv
<1>10. ~(pr[q].count > 0)
  BY <1>4, <1>9 DEF OwnInv
<1>11. \A p \in Procs : Ths(p)' = Ths(p)
  BY DEF Ths
<1>12. \A p \in Procs \ {c} : Busy(p)' <=> Busy(p)
  BY <1>3, <1>7, <1>11 DEF Busy
<1>13. \A e \in list : IsEntry(e)' <=> IsEntry(e)
  BY Zenon DEF IsEntry
<1>14. "idle" \notin Given
  BY Zenon DEF Given
<1> QED BY <1>2, <1>3, <1>4, <1>6, <1>7, <1>8, <1>9, <1>10, <1>11, <1>12, <1>13, <1>14 DEF OwnInv

LEMMA OwnNext ==
  ASSUME MutexInv, MapInv, OwnInv, [UsrNext]_usrVars
  PROVE  OwnInv'
<1>1. CASE UNCHANGED usrVars
  BY <1>1, OwnStay, Zenon DEF usrVars
<1>2. ASSUME NEW t \in Threads, ThreadStep(t)
      PROVE  OwnInv'
  <2>1. IsGlobals(Me(t)) /\ "undefined" \notin uflaws
    BY <1>2, UserStartAssumption, Zenon DEF Me, MutexInv, ThreadStep
  <2>2. CASE Destroy(t, "destroy", Me(t))
    <3> DEFINE o == Me(t)
    <3>1. /\ IsGlobals(o) /\ o.count = Me(t).count /\ o.live = Me(t).live /\ o.file = Me(t).file
          /\ Destroy(t, "destroy", o)
      BY <2>1, <2>2, Zenon
    <3> HIDE DEF o
    <3> QED BY <3>1, DestroyOwn, Zenon
  <2>3. CASE Destroy(t, "drop", [Me(t) EXCEPT !.pid = FALSE])
    <3> DEFINE o == [Me(t) EXCEPT !.pid = FALSE]
    <3>1. IsGlobals(o) /\ o.count = Me(t).count /\ o.live = Me(t).live /\ o.file = Me(t).file
      BY <2>1 DEF IsGlobals, Fresh
    <3>2. Destroy(t, "drop", o)
      BY <2>3, Zenon
    <3> HIDE DEF o
    <3> QED BY <3>1, <3>2, DestroyOwn, Zenon
  <2> QED BY Zenon, <1>2, <2>1, <2>2, <2>3, UserResetOwn, LockOwn, ToStartOwn, NameOwn, StartServicesOwn,
             CountStartOwn, UnlockOwn, SetPidOwn, StopServicesOwn, CallOwn
          DEF ThreadStep, StartStep, StopStep
<1>3. ASSUME NEW d \in Devs, ToggleDevice(d)
      PROVE  OwnInv'
  BY <1>3, OwnStay DEF ToggleDevice
<1> QED BY <1>1, <1>2, <1>3, CallOwn, ExitOwn, ForkOwn DEF UsrNext

\* A name is taken exactly as long as the process that got it lives and has its
\* file open: stops, failed starts and deaths give it back, for any number of
\* processes and threads, unless a part of a start or stop failed, the process
\* forked or two starts raced.
THEOREM FilesAreOwned == UsrSpec => []FilesOwned
<1>1. UsrInit => OwnInv
  <2> SUFFICES ASSUME UsrInit PROVE OwnInv
    BY Zenon
  <2>1. list = {} /\ \A q \in Procs : pr[q].count = 0
    BY Zenon DEF UsrInit, Fresh
  <2> QED BY <2>1 DEF UsrInit, OwnInv, Ths, Given
<1>2. MutexInv /\ MapInv /\ OwnInv /\ [UsrNext]_usrVars => (MutexInv /\ MapInv /\ OwnInv)'
  BY MutexNext, MapNext, OwnNext, Zenon
<1>3. OwnInv => FilesOwned
  BY DEF OwnInv, FilesOwned
<1> QED BY <1>1, <1>2, <1>3, MutexInit, MapInit, PTL DEF UsrSpec
-----------------------------------------------------------------------------
(* The wait for a name.                                                      *)

\* The search fails only when it has been through every section of every
\* device it reaches (adf_processes_write): for any number of devices and
\* sections, whatever starts, stops and dies meanwhile.
THEOREM WaitsAreForFull == UsrSpec => WaitsOnlyWhenFull
<1> DEFINE Full(d) == (limited /\ AccelId[d] # d) \/ Sections(d) \subseteq Taken
           Told(t) == pc[t] = "search" /\ pc'[t] = "fail"
<1>1. MutexInv /\ [UsrNext]_usrVars
        => [\A t \in Threads : Told(t) => \A d \in up : Full(d)]_usrVars
  <2> SUFFICES ASSUME MutexInv, UsrNext, NEW t \in Threads, pc[t] = "search", pc'[t] = "fail",
                      NEW d \in up
               PROVE  Full(d)
    BY Zenon DEF usrVars
  <2>1. \A u \in Threads : \A l : Go(u, l) => u = t /\ l = "fail"
    BY Zenon DEF Go, MutexInv
  <2>2. ~CallStart(t) /\ ~CallStop(t) /\ pc' # pc
    BY Zenon DEF CallStart, CallStop
  <2>3. SearchName(t) /\ Candidates = {}
    <3>1. ASSUME NEW u \in Threads, ThreadStep(u)
          PROVE  SearchName(t) /\ Candidates = {}
      <4>1. CASE StartStep(u)
        <5>1. u = t
          BY <2>1, <2>2, <4>1, Zenon DEF StartStep, UserReset, Lock, ToStart, WriteName, Refused, Grant,
                SearchName, StartServices, CountStart, Unlock, SetPid, Destroy
        <5>2. SearchName(t)
          BY <4>1, <5>1, Zenon DEF StartStep, UserReset, Lock, ToStart, WriteName,
                StartServices, CountStart, Unlock, SetPid, Destroy
        <5> QED BY <2>1, <5>2, SMTT(30) DEF SearchName, Grant
      <4>2. CASE StopStep(u)
        BY <2>1, <2>2, <4>2, Zenon DEF StopStep, Lock, StopServices, Unlock, ReadCount, Destroy
      <4> QED BY <3>1, <4>1, <4>2, Zenon DEF ThreadStep
    <3>2. \A u \in Threads : ~CallStart(u) /\ ~CallStop(u)
      BY <2>1, Zenon DEF CallStart, CallStop
    <3>3. \A e \in Devs : ~ToggleDevice(e)
      BY <2>2, Zenon DEF ToggleDevice
    <3>4. \A q \in Procs : ~Exit(q) /\ \A c \in Procs : ~Fork(q, c)
      BY <2>2, Zenon DEF Exit, Fork
    <3> QED BY <3>1, <3>2, <3>3, <3>4, Zenon DEF UsrNext
  <2>4. \A n \in 0..(NumProcesses - 1) : Section(d, n) \notin Sections(d) \ Taken
    BY <2>3, Zenon DEF Candidates, Offered
  <2>5. ASSUME ~(limited /\ AccelId[d] # d)
        PROVE  \A n \in 0..(NumProcesses - 1) : Section(AccelId[d], n) = Section(d, n)
    BY <2>5, Zenon DEF Section
  <2> QED BY <2>4, <2>5, Zenon DEF Sections
<1>2. MutexInv /\ [UsrNext]_usrVars => MutexInv'
  BY MutexNext
<1> QED BY <1>1, <1>2, MutexInit, PTL DEF UsrSpec, WaitsOnlyWhenFull
===============================================================================
