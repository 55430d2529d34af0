------------------------------- MODULE SalEvents ------------------------------
(***************************************************************************)
(* The services of a user process while its device is reset               *)
(* (uio_user_device.c, adf_user_init.c, sal_ctrl_services.c, sal_crypto.c, *)
(* sal_compression.c).  The kernel announces a reset, a stop, a shutdown   *)
(* and the end of the reset as events the process polls.  The process lets *)
(* its device go and finds it again; its service instances, which the     *)
(* application holds pointers to, have to survive in a container that is   *)
(* handed from the old device structure to the new one.  One device, one   *)
(* process; the instances of a kind always move together.                  *)
(***************************************************************************)
EXTENDS Integers, Sequences

CONSTANTS
  MaxResets,    \* bound: resets of the device
  MaxSalFaults, \* bound: failed allocations, reads and events
  MaxStarts     \* bound: starts of the process's services

ASSUME SalAssumption == {MaxResets, MaxSalFaults, MaxStarts} \subseteq Nat

VARIABLES
  kern,    \* the device in the kernel
  evq,     \* events the process has not polled
  p,       \* the process: accel_tbl, what outlives it (accel_dev_reset_stat,
           \* accel_dev_sal_hdl_ptr, the subsystem's status bits), the containers
  held,    \* containers the application holds instances of
  spare,   \* bounds left
  sflaws   \* weak spots met

salVars == <<kern, evq, p, held, spare, sflaws>>

NoDev == [sal |-> -1, mapped |-> FALSE, sys |-> FALSE]   \* accel_tbl[id] == NULL
Null == 0                                 \* a NULL container
NewContainer == [live |-> TRUE, cy |-> "uninit", dc |-> "uninit"]
InitFaults == {"config", "container", "verfile", "crypto", "compression", "cy_dir", "dc_dir",
               "start", "create"}

Cont(q) == q.cont[q.tbl.sal]
Put(q, c) == [q EXCEPT !.cont[q.tbl.sal] = c]
-----------------------------------------------------------------------------
(* The event handler of the services, on the container of the device.      *)

\* SalCtrl_CryptoShutdown and SalCtrl_CompressionShutdown accept these states.
CyEnds(s) == s \in {"initialized", "shutting", "freed"}
DcEnds(s) == s \in {"initialized", "shutting", "restarting", "freed"}

\* Mutant: the instances are freed even during a reset.
Ended_Frees(q, s) == "freed"
\* SalCtrl_ServiceShutdown: during a reset the instances stay.
Ended(q, s) ==
  IF s = "freed" THEN "freed" ELSE IF q.reset THEN "restarting" ELSE "freed"

\* SalCtrl_ServiceEventShutdown
EventShutdown(q) ==
  LET c == Cont(q)
      d == Put(q, [live |-> q.reset, cy |-> Ended(q, c.cy), dc |-> Ended(q, c.dc)])
  IN  IF q.reset THEN d ELSE [d EXCEPT !.tbl.sal = Null]

\* SalCtrl_CryptoStop does not look at the state, SalCtrl_CompressionStop does.
StopsOk(q) == Cont(q).dc \in {"running", "freed"}
EventStop(q) ==
  LET c == Cont(q)
      dc == IF c.dc # "running" THEN c.dc ELSE IF q.reset THEN "restarting" ELSE "shutting"
  IN  Put(q, [c EXCEPT !.cy = IF @ = "freed" THEN @ ELSE "shutting", !.dc = dc])

\* SalCtrl_ServiceEventStart: crypto, then compression; all stop when one fails.
EventStart(q) ==
  LET c == Cont(q)
      ok(s) == s \in {"initialized", "freed"}
      up(s) == IF s = "freed" THEN s ELSE "running"
      cyUp == Put(q, [c EXCEPT !.cy = up(@)])
  IN  CASE ok(c.cy) /\ ok(c.dc) -> [ok |-> TRUE, q |-> Put(q, [c EXCEPT !.cy = up(@), !.dc = up(@)])]
        [] ok(c.cy) /\ ~ok(c.dc) -> [ok |-> FALSE, q |-> EventStop(cyUp)]
        [] OTHER -> [ok |-> FALSE, q |-> EventStop(q)]

\* SalCtrl_ServiceInit for one kind.  A failed instance frees the whole list,
\* and an instance in any other state fails.  Without memory for the debug
\* directory, which comes first, the list is left as it is: that of a new
\* container is still empty.
InitKind(s, broken, dir) ==
  CASE dir -> [ok |-> FALSE, s |-> IF s = "uninit" THEN "freed" ELSE s]
    [] ~dir /\ ~broken /\ s = "freed" -> [ok |-> TRUE, s |-> "freed"]
    [] ~dir /\ ~broken /\ s \in {"uninit", "restarting"} -> [ok |-> TRUE, s |-> "initialized"]
    [] OTHER -> [ok |-> FALSE, s |-> "freed"]

\* The instances: crypto first, the shutdown of all when one kind fails.
InitAll(q, fault) ==
  LET c == Cont(q)
      cy == InitKind(c.cy, fault = "crypto", fault = "cy_dir")
      dc == InitKind(c.dc, fault = "compression", fault = "dc_dir")
  IN  IF ~cy.ok THEN [ok |-> FALSE, q |-> EventShutdown(Put(q, [c EXCEPT !.cy = cy.s]))]
      ELSE IF ~dc.ok
      THEN [ok |-> FALSE, q |-> EventShutdown(Put(q, [c EXCEPT !.cy = cy.s, !.dc = dc.s]))]
      ELSE [ok |-> TRUE, q |-> Put(q, [c EXCEPT !.cy = cy.s, !.dc = dc.s])]

\* Mutant: a new container even during a reset.
EventInit_Fresh(q, fault) ==
  IF fault = "container" THEN [ok |-> FALSE, q |-> q]
  ELSE InitAll([q EXCEPT !.tbl.sal = Len(q.cont) + 1, !.cont = Append(@, NewContainer)], fault)

\* SalCtrl_ServiceEventInit: a new container, or during a reset the one the
\* device structure was given.  The file for the version fails after it.
EventInit(q, fault) ==
  LET fresh == [q EXCEPT !.tbl.sal = Len(q.cont) + 1, !.cont = Append(@, NewContainer)]
      r == IF q.reset THEN q ELSE fresh
  IN  CASE ~q.reset /\ fault = "container" -> [ok |-> FALSE, q |-> q]
        [] q.reset /\ q.tbl.sal = Null -> [ok |-> FALSE, q |-> [q EXCEPT !.run = "crashed"]]
        [] fault = "verfile" /\ ~(q.reset /\ q.tbl.sal = Null) -> [ok |-> FALSE, q |-> [r EXCEPT !.cont[r.tbl.sal].live = FALSE]]
        [] OTHER -> InitAll(r, fault)
-----------------------------------------------------------------------------
(* The process's table of devices.                                          *)

\* adf_user_subsystemInit, after subsystem_notify gave the container back.
SubsystemInit(q, fault) ==
  LET r == [q EXCEPT !.tbl.sal = IF q.saved # Null THEN q.saved ELSE @, !.saved = Null,
                     !.bits.failed = FALSE]
      e == IF fault = "config" THEN [ok |-> FALSE, q |-> r] ELSE EventInit(r, fault)
  IN  IF e.ok THEN [e.q EXCEPT !.bits.init = TRUE, !.tbl.mapped = TRUE]
      ELSE [e.q EXCEPT !.bits.failed = TRUE, !.tbl.mapped = (fault \in {"compression", "dc_dir"})]

\* adf_user_subsystemStart; the reset is over whatever it returned.
SubsystemStart(q, fault) ==
  LET e == IF fault = "start" \/ q.tbl.sal = Null \/ ~Cont(q).live
           THEN [ok |-> FALSE, q |-> q] ELSE EventStart(q)
      r == IF e.ok THEN [e.q EXCEPT !.bits.start = TRUE]
           ELSE [e.q EXCEPT !.bits.failed = TRUE]
  IN  [r EXCEPT !.reset = FALSE, !.tbl.sys = TRUE]

\* uio_acces_dev_exist: the stop removes the UIO devices at its end.
Exists == kern \in {"up", "failing", "announced", "stopping"}

\* adf_proxy_get_device: only a device that is there and not known.  It sends
\* both events to the services, whatever the first returned.
GetDevice(q, fault) ==
  IF q.tbl # NoDev \/ ~Exists \/ fault = "create" THEN q
  ELSE LET i == SubsystemInit([q EXCEPT !.tbl = [sal |-> Null, mapped |-> FALSE, sys |-> FALSE]], fault)
       IN  IF i.run = "crashed" THEN i ELSE SubsystemStart(i, fault)

\* adf_user_subsystemStop
SubsystemStop(q, fault) ==
  IF ~q.bits.start \/ fault = "config" \/ q.tbl.sal = Null THEN q
  ELSE [EventStop(q) EXCEPT !.bits.start = ~StopsOk(q)]

\* adf_user_subsystemShutdown
SubsystemShutdown(q, fault) ==
  IF ~q.bits.init \/ fault = "config" \/ q.tbl.sal = Null THEN q
  ELSE [EventShutdown(q) EXCEPT
          !.bits.init = ~(CyEnds(Cont(q).cy) /\ DcEnds(Cont(q).dc))]

\* Mutant: the return of the device is not followed.
Notify_NotFound(q, e, fault) ==
  CASE q.tbl = NoDev \/ e = "restarted" -> q
    [] e = "restarting" /\ q.tbl # NoDev -> [q EXCEPT !.reset = TRUE, !.saved = q.tbl.sal]
    [] e = "stop" /\ q.tbl # NoDev -> [SubsystemStop(q, fault) EXCEPT !.tbl.sys = FALSE]
    [] e = "shutdown" /\ q.tbl # NoDev -> [SubsystemShutdown(q, fault) EXCEPT !.tbl = NoDev]

\* subsystem_notify.  A device that is not known gets no event.
Notify(q, e, fault) ==
  CASE e = "restarted" -> GetDevice(q, fault)
    [] e # "restarted" /\ q.tbl = NoDev -> q
    [] e = "restarting" /\ q.tbl # NoDev -> [q EXCEPT !.reset = TRUE, !.saved = q.tbl.sal]
    [] e = "stop" /\ q.tbl # NoDev -> [SubsystemStop(q, fault) EXCEPT !.tbl.sys = FALSE]
    [] e = "shutdown" /\ q.tbl # NoDev -> [SubsystemShutdown(q, fault) EXCEPT !.tbl = NoDev]

\* icp_adf_subsystemUnregister, then adf_cleanup_devices
Unregister(q) ==
  IF q.tbl = NoDev THEN q
  ELSE SubsystemShutdown(SubsystemStop(q, "none"), "none")
-----------------------------------------------------------------------------
(* The kernel: adf_device_reset_worker and the events it sends.             *)

Spend(k) == spare[k] > 0 /\ spare' = [spare EXCEPT ![k] = @ - 1]

\* adf_uio_event_handler: the events sent for one event of the device.  Only
\* a running process listens; an allocation or a uevent may fail.
Send(es) ==
  IF p.run # "on" THEN UNCHANGED <<evq, spare, sflaws>>
  ELSE \/ evq' = evq \o es /\ UNCHANGED <<spare, sflaws>>
       \/ /\ Spend("faults")
          /\ \E n \in 0..(Len(es) - 1) : evq' = evq \o SubSeq(es, 1, n)
          /\ sflaws' = sflaws \cup {"lost"}

\* The error interrupt schedules the worker.
ErrorFound == kern = "up" /\ Spend("resets") /\ kern' = "failing" /\ UNCHANGED <<evq, p, held, sflaws>>

\* adf_dev_restarting_notify
Restarting == kern = "failing" /\ kern' = "announced" /\ Send(<<"restarting">>) /\ UNCHANGED <<p, held>>

\* adf_dev_stop: the event, then the wait for the users.
StopDevice == kern = "announced" /\ kern' = "stopping" /\ Send(<<"stop", "shutdown">>) /\ UNCHANGED <<p, held>>

\* The wait ends when nobody uses the device, and the UIO devices go.
RemoveDevice ==
  /\ kern = "stopping" /\ ~p.tbl.mapped
  /\ kern' = "down"
  /\ UNCHANGED <<evq, p, held, spare, sflaws>>

\* ADF_STOP_RETRY ran out: the worker finds the device in use and gives up.
WaitEnds ==
  /\ kern = "stopping" /\ p.tbl.mapped
  /\ kern' = "dead" /\ sflaws' = sflaws \cup {"inuse"}
  /\ UNCHANGED <<evq, p, held, spare>>

\* adf_dev_init, adf_dev_start, adf_dev_restarted_notify; or the first two fail.
RestartDevice ==
  /\ kern = "down"
  /\ \/ kern' = "up" /\ Send(<<"restarted">>)
     \/ kern' = "dead" /\ Spend("faults") /\ UNCHANGED <<evq, sflaws>>
  /\ UNCHANGED <<p, held>>
-----------------------------------------------------------------------------
(* The process.                                                             *)

\* One call that may meet a fault: what it leaves, and what went wrong.
Call(Op(_), faults, note) ==
  \/ p' = Op("none") /\ UNCHANGED spare /\ sflaws' = sflaws \cup note
  \/ \E f \in faults : /\ Op(f) # Op("none") /\ p' = Op(f) /\ Spend("faults")
                       /\ sflaws' = sflaws \cup note \cup {"failed"}

\* A device taken up after its reset was announced, or with a stop still to be
\* polled that nothing announces.
JoinNote(q, es) ==
  LET announced == \E i \in DOMAIN es : es[i] = "restarting"
  IN  IF q.tbl # NoDev \/ ~Exists THEN {}
      ELSE (IF kern \in {"announced", "stopping"} /\ ~announced THEN {"joined"} ELSE {})
           \cup (IF es # <<>> /\ Head(es) \in {"stop", "shutdown"} THEN {"behind"} ELSE {})

\* The services are up on every device the process found, and on one at least.
Started(q) == q.tbl # NoDev /\ q.bits.start

\* do_userStart: register, which clears the bits, connect, take the devices
\* up; when the services did not start they are unregistered, no more.
StartProcess ==
  /\ p.run = "off" /\ spare.starts > 0
  /\ LET q == [p EXCEPT !.bits = [init |-> FALSE, start |-> FALSE, failed |-> FALSE], !.run = "on"]
         Op(f) == LET g == GetDevice(q, f)
                  IN  IF g.run = "crashed" \/ Started(g) THEN g
                      ELSE [Unregister(g) EXCEPT !.run = "failed"]
     IN  \/ p' = Op("none") /\ spare' = [spare EXCEPT !.starts = @ - 1] /\ sflaws' = sflaws \cup JoinNote(p, <<>>)
         \/ \E f \in InitFaults :
              /\ spare.faults > 0 /\ Op(f) # Op("none") /\ p' = Op(f)
              /\ spare' = [spare EXCEPT !.starts = @ - 1, !.faults = @ - 1]
              /\ sflaws' = sflaws \cup {"failed"} \cup JoinNote(p, <<>>)
  /\ evq' = <<>> /\ UNCHANGED <<kern, held>>

\* do_userStop; the application gives its instances up.
StopProcess ==
  /\ p.run = "on"
  /\ p' = [Unregister(p) EXCEPT !.tbl = NoDev, !.run = "off"]
  /\ evq' = <<>> /\ held' = {}
  /\ UNCHANGED <<kern, spare, sflaws>>

\* icp_adf_poll_device_events, one event
Poll ==
  /\ p.run = "on" /\ evq # <<>>
  /\ evq' = Tail(evq)
  /\ LET Op(f) == Notify(p, Head(evq), f)
     IN  Call(Op, IF Head(evq) = "restarted" THEN InitFaults
                  ELSE IF Head(evq) = "restarting" THEN {} ELSE {"config"},
              IF Head(evq) = "restarted" THEN JoinNote(p, Tail(evq)) ELSE {})
  /\ UNCHANGED <<kern, held>>

\* icp_adf_find_new_devices, when the application calls it
FindNewDevices ==
  /\ p.run = "on" /\ p.tbl = NoDev /\ Exists
  /\ LET Op(f) == GetDevice(p, f) IN Call(Op, InitFaults, JoinNote(p, evq))
  /\ UNCHANGED <<kern, evq, held>>

\* cpaCyGetInstances, cpaDcGetInstances: pointers into the lists
GetInstances ==
  /\ p.run = "on" /\ p.tbl.sys /\ p.tbl.sal # Null /\ p.tbl.sal \notin held
  /\ held' = held \cup {p.tbl.sal}
  /\ UNCHANGED <<kern, evq, p, spare, sflaws>>
-----------------------------------------------------------------------------
SalInit ==
  /\ kern = "up" /\ evq = <<>> /\ held = {} /\ sflaws = {}
  /\ spare = [resets |-> MaxResets, faults |-> MaxSalFaults, starts |-> MaxStarts]
  /\ p = [run |-> "off", tbl |-> NoDev, reset |-> FALSE, saved |-> Null,
          bits |-> [init |-> FALSE, start |-> FALSE, failed |-> FALSE],
          cont |-> <<>>]

Worker == Restarting \/ StopDevice \/ RemoveDevice \/ RestartDevice
SalNext ==
  \/ ErrorFound \/ Worker \/ WaitEnds
  \/ StartProcess \/ StopProcess \/ Poll \/ FindNewDevices \/ GetInstances

SalSpec == SalInit /\ [][SalNext]_salVars
-----------------------------------------------------------------------------
AllRunning(q) == q.tbl.sal \in DOMAIN q.cont /\ Cont(q).cy = "running" /\ Cont(q).dc = "running"

\* The instances an application holds pointers to stay allocated through any
\* number of resets (SalCtrl_ServiceShutdown keeps the list, subsystem_notify
\* hands the container on), however late the events are polled.  Excepted: an
\* event that was lost, a device taken up when its reset was already announced
\* or with an older stop still to be polled, a failed call.
InstancesKept ==
  sflaws \subseteq {"inuse"} =>
    \A c \in held : p.cont[c].live /\ "freed" \notin {p.cont[c].cy, p.cont[c].dc}

\* Whatever order starts, stops and resets come in, the allocated containers
\* are exactly those the device structure or accel_dev_sal_hdl_ptr points to:
\* none leaks, no pointer dangles, and SalCtrl_ServiceEventInit, which trusts
\* pSalHandle during a reset, never finds it NULL.  An instance that accepts
\* requests (Sal_ServiceIsRunning) is the device structure's, and its rings are
\* mapped.  All unless a call failed.
ContainersOwned ==
  "failed" \notin sflaws =>
    /\ {c \in DOMAIN p.cont : p.cont[c].live} = {p.tbl.sal, p.saved} \ {Null, -1}
    /\ p.run # "crashed"
    /\ \A c \in DOMAIN p.cont :
         "running" \in {p.cont[c].cy, p.cont[c].dc} => p.tbl.sal = c /\ p.tbl.mapped

\* A process that has polled all its events while the device is up has every
\* instance running and no reset pending, whatever order the reset, its own
\* calls and the polls came in, unless one of the weak spots was met.
Settles ==
  p.run = "on" /\ evq = <<>> /\ kern = "up" /\ sflaws = {} => ~p.reset /\ AllRunning(p)
===============================================================================
