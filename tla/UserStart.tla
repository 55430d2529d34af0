------------------------------- MODULE UserStart ------------------------------
(***************************************************************************)
(* The start and the stop of the user-space services (sal_user.c,          *)
(* adf_process_proxy.c) and the kernel's table of process names            *)
(* (adf_dev_processes.c).  The threads of a process share a start count, a *)
(* mutex that is created and destroyed with it, and the file whose opening *)
(* gives the process the name of a configuration section.  Processes fork  *)
(* and die; devices stop and start while a name is searched.               *)
(***************************************************************************)
EXTENDS Integers, FiniteSets

CONSTANTS
  Procs, Threads, ProcOf, \* processes, their threads
  Children,               \* the processes that come from a fork
  Devs, AccelId,          \* device numbers, and the accel_id behind each
  NumProcesses,           \* NumProcesses of the section, on every device
  StartRefCountMax,       \* START_REF_COUNT_MAX
  StartBounds             \* bounds: the calls, toggles of a device and faults of a behaviour

ASSUME UserStartAssumption ==
  /\ ProcOf \in [Threads -> Procs] /\ Children \subseteq Procs
  /\ Devs \subseteq Nat /\ AccelId \in [Devs -> Nat]
  /\ NumProcesses \in Nat /\ StartRefCountMax \in Nat \ {0}
  /\ StartBounds \subseteq [calls : Nat, toggles : Nat, faults : Nat]
  /\ {"free", "null"} \cap Threads = {}

VARIABLES
  pr,      \* the globals of each process
  list,    \* processes_list: the names given out
  sema,    \* the thread that holds processes_list_sema, or Free
  pc,      \* where each thread is
  up,      \* the devices that are started
  hosts,   \* the physical functions that have virtual functions (pf.vf_info)
  limited, \* LimitDevAccess of the section; never changes
  limit,   \* bounds left
  uflaws   \* weak spots met

usrVars == <<pr, list, sema, pc, up, hosts, limited, limit, uflaws>>

Free == "free"
NullLock == "null"
Closed == 0
Fresh == [live |-> TRUE, pid |-> FALSE, lock |-> NullLock, plock |-> FALSE,
          count |-> 0, file |-> Closed, init |-> FALSE, mapped |-> 0]

Me(t) == pr[ProcOf[t]]
Set(t, r) == pr' = [pr EXCEPT ![ProcOf[t]] = r]
Go(t, l) == pc' = [pc EXCEPT ![t] = l]
Note(f) == uflaws' = uflaws \cup {f}
Use(k) == limit[k] > 0 /\ limit' = [limit EXCEPT ![k] = @ - 1]
Mates(t) == {u \in Threads \ {t} : ProcOf[u] = ProcOf[t]}

\* Threads between icp_sal_userStart's reset and its return.
Starting == {"lock", "inside", "write", "search", "services", "count", "unlock", "pid", "fail", "destroy"}
-----------------------------------------------------------------------------
(* The kernel's side: /dev/qat_dev_processes.                               *)

\* The sections adf_cfg_process_user_section derives for a device, whose names
\* carry its accel_id when the access is limited.  Enabling SR-IOV leaves a
\* physical function the sections of the kernel only.
Section(id, n) == IF limited THEN <<id, n>> ELSE <<-1, n>>
Sections(d) == {Section(AccelId[d], n) : n \in IF d \in hosts THEN {} ELSE 0..(NumProcesses - 1)}
Taken == {e.name : e \in list}

\* adf_get_first_started_dev: a physical function serves no process when it has
\* virtual functions.
Serving == up \ hosts
FirstStarted == CHOOSE d \in Serving : \A e \in Serving : d <= e

\* adf_processes_write, the name of the first process: not looked up.
FirstName == Section(AccelId[FirstStarted], 0)

\* Mutant: only the first number is tried.
Offered_First(d) == {n \in {0} : Section(d, n) \in Sections(d) \ Taken}

\* The search: the devices in order, the numbers up to the first that has no
\* section.  The name of a limited section is made from the device's number.
Offered(d) == {n \in 0..(NumProcesses - 1) : Section(d, n) \in Sections(d) \ Taken}
Candidates == {d \in up : Offered(d) # {}}
SearchedName ==
  LET d == CHOOSE d \in Candidates : \A e \in Candidates : d <= e
      n == CHOOSE n \in Offered(d) : \A m \in Offered(d) : n <= m
  IN  Section(d, n)
EmptyName == <<-2, 0>>

NewFd == 1 + Cardinality(list) + Cardinality({q \in Procs : pr[q].file # Closed})
FreshFd == CHOOSE n \in 1..(NewFd + 1) :
             n \notin ({e.fd : e \in list} \cup {pr[q].file : q \in Procs})

Grant(t, name) ==
  /\ list' = list \cup {[fd |-> Me(t).file, name |-> name, owner |-> ProcOf[t], refs |-> {ProcOf[t]}]}
  /\ Go(t, "services")

\* Mutant: the entry stays in the list.
Drop_Kept(l, q, fd) == l

\* adf_processes_release, when the last process that has the file closes it
Drop(l, q, fd) ==
  {e \in {[e EXCEPT !.refs = IF fd = e.fd THEN @ \ {q} ELSE @] : e \in l} : e.refs # {}}
-----------------------------------------------------------------------------
(* icp_sal_userStart                                                        *)

Unchanged1 == UNCHANGED <<list, sema, up>>

CallStart(t) ==
  /\ pc[t] = "idle" /\ Me(t).live /\ Use("calls")
  /\ Go(t, IF Me(t).pid THEN "lock" ELSE "reset")
  /\ Unchanged1 /\ UNCHANGED <<pr, uflaws>>

\* do_userReset, decided on before: it may meet threads that have begun since.
UserReset(t) ==
  /\ pc[t] = "reset"
  /\ Set(t, [Me(t) EXCEPT !.lock = Free, !.plock = TRUE, !.count = 0, !.file = Closed, !.init = FALSE])
  /\ Go(t, "lock")
  /\ IF Me(t).lock \in Threads THEN uflaws' = uflaws \cup {"raced", "undefined"}
     ELSE IF Me(t).pid \/ \E u \in Mates(t) : pc[u] \in Starting THEN Note("raced")
     ELSE UNCHANGED uflaws
  /\ Unchanged1 /\ UNCHANGED limit

\* osalMutexLock: undefined on a mutex that was destroyed.
Lock(t, at, next) ==
  /\ pc[t] = at
  /\ CASE Me(t).lock = NullLock -> Note("undefined") /\ UNCHANGED <<pr, pc>>
       [] Me(t).lock = Free -> Set(t, [Me(t) EXCEPT !.lock = t]) /\ Go(t, next) /\ UNCHANGED uflaws
       [] OTHER -> FALSE
  /\ Unchanged1 /\ UNCHANGED limit

\* icp_adf_userProcessToStart up to the open, which needs a started device.
ToStart(t) ==
  /\ pc[t] = "inside"
  /\ IF Me(t).count > 0 THEN Go(t, "count") /\ UNCHANGED <<pr, uflaws>>
     ELSE IF ~Me(t).plock THEN Note("undefined") /\ UNCHANGED <<pr, pc>>
     ELSE IF Me(t).file # Closed \/ up = {} THEN Go(t, "fail") /\ UNCHANGED <<pr, uflaws>>
     ELSE Set(t, [Me(t) EXCEPT !.file = FreshFd]) /\ Go(t, "write") /\ UNCHANGED uflaws
  /\ Unchanged1 /\ UNCHANGED limit

\* The write failed: the file is closed again.
Refused(t) == Set(t, [Me(t) EXCEPT !.file = Closed]) /\ Go(t, "fail") /\ UNCHANGED list

\* adf_processes_write up to the search, which keeps the semaphore.
WriteName(t) ==
  /\ pc[t] = "write" /\ sema = Free
  /\ IF Serving = {} THEN Refused(t) /\ UNCHANGED sema
     ELSE IF list = {} THEN Grant(t, FirstName) /\ UNCHANGED <<pr, sema>>
     ELSE sema' = t /\ Go(t, "search") /\ UNCHANGED <<pr, list>>
  /\ UNCHANGED <<up, limit, uflaws>>

\* The search.  pr_name_available is still set when every device is skipped.
SearchName(t) ==
  /\ pc[t] = "search" /\ sema' = Free
  /\ IF up = {} THEN Grant(t, EmptyName) /\ Note("empty") /\ UNCHANGED pr
     ELSE IF Candidates = {} THEN Refused(t) /\ UNCHANGED uflaws
     ELSE Grant(t, SearchedName) /\ UNCHANGED <<pr, uflaws>>
  /\ UNCHANGED <<up, limit>>

\* do_userStart, which an initialised proxy or a fault fails; the file stays.
StartServices(t) ==
  /\ pc[t] = "services"
  /\ \/ /\ ~Me(t).init /\ Set(t, [Me(t) EXCEPT !.init = TRUE, !.mapped = @ + 1])
        /\ Go(t, "count") /\ UNCHANGED <<limit, uflaws>>
     \/ /\ Me(t).init /\ Go(t, "unlock") /\ Note("failed") /\ UNCHANGED <<pr, limit>>
     \/ /\ ~Me(t).init /\ Use("faults")
        /\ Set(t, [Me(t) EXCEPT !.init = TRUE]) /\ Go(t, "unlock") /\ Note("failed")
  /\ Unchanged1

\* At the limit the call fails and takes the mutex with it.
CountStart(t) ==
  /\ pc[t] = "count"
  /\ IF Me(t).count >= StartRefCountMax THEN Go(t, "fail") /\ UNCHANGED pr
     ELSE Set(t, [Me(t) EXCEPT !.count = @ + 1]) /\ Go(t, "unlock")
  /\ Unchanged1 /\ UNCHANGED <<limit, uflaws>>

\* osalMutexUnlock
Unlock(t, at, next) ==
  /\ pc[t] = at
  /\ Set(t, [Me(t) EXCEPT !.lock = Free]) /\ Go(t, next)
  /\ Unchanged1 /\ UNCHANGED <<limit, uflaws>>

SetPid(t) ==
  /\ pc[t] = "pid"
  /\ Set(t, [Me(t) EXCEPT !.pid = TRUE]) /\ Go(t, "idle")
  /\ Unchanged1 /\ UNCHANGED <<limit, uflaws>>

\* osalMutexDestroy: undefined while another thread has the mutex.
Destroy(t, at, r) ==
  /\ pc[t] = at
  /\ IF Me(t).lock \in Threads THEN Note("undefined") /\ UNCHANGED <<pr, pc>>
     ELSE /\ Set(t, [r EXCEPT !.lock = NullLock]) /\ Go(t, "idle")
          /\ IF ~r.pid /\ (r.count > 0 \/ \E u \in Mates(t) : pc[u] \in Starting)
             THEN Note("raced") ELSE UNCHANGED uflaws
  /\ Unchanged1 /\ UNCHANGED limit
-----------------------------------------------------------------------------
(* icp_sal_userStop                                                         *)

CallStop(t) ==
  /\ pc[t] = "idle" /\ Me(t).live /\ Me(t).pid /\ Use("calls")
  /\ Go(t, "stop")
  /\ Unchanged1 /\ UNCHANGED <<pr, uflaws>>

\* Mutant: every stop stops the services.
StopServices_Always(t) ==
  /\ pc[t] = "stopping" /\ sema = Free
  /\ Me(t).count > 0
  /\ Set(t, [Me(t) EXCEPT !.count = @ - 1, !.mapped = @ - 1, !.init = FALSE, !.plock = FALSE,
                        !.file = Closed])
  /\ list' = Drop(list, ProcOf[t], Me(t).file)
  /\ Go(t, "stopped")
  /\ UNCHANGED <<sema, up, limit, uflaws>>

\* do_userStop for the last reference; a failed part leaves the file open.
StopServices(t) ==
  /\ pc[t] = "stopping" /\ sema = Free
  /\ LET less == [Me(t) EXCEPT !.count = IF @ > 0 THEN @ - 1 ELSE @]
     IN  \/ /\ Me(t).count = 1
            /\ Set(t, [less EXCEPT !.mapped = @ - 1, !.init = FALSE, !.plock = FALSE, !.file = Closed])
            /\ list' = Drop(list, ProcOf[t], Me(t).file)
            /\ UNCHANGED <<limit, uflaws>>
         \/ /\ Me(t).count = 1 /\ Use("faults") /\ Note("failed")
            /\ Set(t, less) /\ UNCHANGED list
         \/ Me(t).count # 1 /\ Set(t, less) /\ UNCHANGED <<list, limit, uflaws>>
  /\ Go(t, "stopped")
  /\ UNCHANGED <<sema, up>>

\* The count is read again after the unlock.
ReadCount(t) ==
  /\ pc[t] = "read"
  /\ Go(t, IF Me(t).count = 0 THEN "drop" ELSE "idle")
  /\ Unchanged1 /\ UNCHANGED <<pr, limit, uflaws>>
-----------------------------------------------------------------------------
(* The environment.                                                         *)

\* A device stops, or starts; SR-IOV is enabled or disabled while it is down.
ToggleDevice(d) ==
  /\ Use("toggles")
  /\ \/ d \in up /\ up' = up \ {d} /\ UNCHANGED hosts
     \/ d \notin up /\ up' = up \cup {d} /\ hosts' \in {hosts \cup {d}, hosts \ {d}}
  /\ UNCHANGED <<pr, list, sema, pc, uflaws>>

\* A process dies: its files are closed, a name nobody else has is free again.
Exit(q) ==
  /\ pr[q].live /\ sema = Free
  /\ \A t \in Threads : ProcOf[t] = q => pc[t] # "search"
  /\ pr' = [pr EXCEPT ![q] = [Fresh EXCEPT !.live = FALSE]]
  /\ list' = {e \in {[e EXCEPT !.refs = @ \ {q}] : e \in list} : e.refs # {}}
  /\ pc' = [t \in Threads |-> IF ProcOf[t] = q THEN "idle" ELSE pc[t]]
  /\ UNCHANGED <<sema, up, limit, uflaws>>

\* A fork: the child has the parent's memory and shares its open file.
Fork(q, c) ==
  /\ pr[q].live /\ q # c /\ c \in Children /\ pr[c] = [Fresh EXCEPT !.live = FALSE]
  /\ \A t \in Threads : ProcOf[t] = q => pc[t] = "idle"
  /\ pr' = [pr EXCEPT ![c] = [pr[q] EXCEPT !.pid = FALSE, !.mapped = 0]]
  /\ list' = {[e EXCEPT !.refs = IF q \in @ THEN @ \cup {c} ELSE @] : e \in list}
  /\ uflaws' = IF \E e \in list : q \in e.refs THEN uflaws \cup {"forked"} ELSE uflaws
  /\ UNCHANGED <<sema, pc, up, limit>>
-----------------------------------------------------------------------------
UsrInit ==
  /\ pr = [q \in Procs |-> [Fresh EXCEPT !.live = (q \notin Children)]]
  /\ list = {} /\ sema = Free /\ uflaws = {}
  /\ pc = [t \in Threads |-> "idle"]
  /\ up \in SUBSET Devs \ {{}} /\ hosts \in SUBSET Devs /\ limited \in BOOLEAN
  /\ limit \in StartBounds

StartStep(t) ==
  \/ UserReset(t) \/ Lock(t, "lock", "inside") \/ ToStart(t)
  \/ WriteName(t) \/ SearchName(t) \/ StartServices(t) \/ CountStart(t)
  \/ Unlock(t, "unlock", "pid") \/ SetPid(t)
  \/ Unlock(t, "fail", "destroy") \/ Destroy(t, "destroy", Me(t))
StopStep(t) ==
  \/ Lock(t, "stop", "stopping") \/ StopServices(t) \/ Unlock(t, "stopped", "read")
  \/ ReadCount(t) \/ Destroy(t, "drop", [Me(t) EXCEPT !.pid = FALSE])
ThreadStep(t) == "undefined" \notin uflaws /\ (StartStep(t) \/ StopStep(t))

UsrNext ==
  \/ \E t \in Threads : ThreadStep(t) /\ UNCHANGED <<limited, hosts>>
  \/ /\ "undefined" \notin uflaws /\ UNCHANGED limited
     /\ \/ \E t \in Threads : (CallStart(t) \/ CallStop(t)) /\ UNCHANGED hosts
        \/ \E d \in Devs : ToggleDevice(d)
        \/ \E q \in Procs : (Exit(q) \/ \E c \in Procs : Fork(q, c)) /\ UNCHANGED hosts

UsrSpec == UsrInit /\ [][UsrNext]_usrVars
-----------------------------------------------------------------------------
Critical == {"inside", "write", "search", "services", "count", "unlock", "fail", "stopping", "stopped"}

\* Two processes never get the same section, unless every device stopped while
\* adf_processes_write searched, which gives out the empty name.
NamesDistinct ==
  "empty" \notin uflaws => \A e, f \in list : e.name = f.name => e = f

\* A name is taken for as long as the process that got it has its file open and
\* no longer: stops, failed starts and deaths give it back.  Not so when the
\* process forked or two starts raced.
FilesOwned ==
  uflaws \cap {"failed", "forked", "raced"} = {} =>
    \A e \in list : pr[e.owner].live /\ pr[e.owner].file = e.fd

\* The first start maps the instances, the last stop frees them, and no call in
\* between does either, unless a part of one failed.
MappedOnce(r) ==
  pr[r].lock \notin Threads /\ (pr[r].pid \/ pr[r].mapped > 0) =>
    pr[r].mapped = (IF pr[r].count > 0 THEN 1 ELSE 0)
MapsOnce ==
  uflaws \cap {"failed", "raced"} = {} => \A r \in Procs : MappedOnce(r)

\* The same without the exception for two threads that start at the same time.
StartsThreadSafe ==
  uflaws \cap {"failed", "undefined"} = {} => \A r \in Procs : MappedOnce(r)

\* The mutex is held exactly by the thread that is between its lock and its
\* unlock: no exit leaves it held, no two threads are inside.
LockOwned ==
  uflaws \cap {"raced", "undefined"} = {} =>
    \A t \in Threads : Me(t).lock = t <=> pc[t] \in Critical

\* A process is told to wait only when each started device's sections are all
\* taken; not so when access is limited and the device's number is not its id.
WaitsOnlyWhenFull ==
  [][\A t \in Threads : pc[t] = "search" /\ pc'[t] = "fail" =>
       \A d \in up : (limited /\ AccelId[d] # d) \/ Sections(d) \subseteq Taken]_usrVars
===============================================================================
