-------------------------------- MODULE Device --------------------------------
(***************************************************************************)
(* Life of one physical function: adf_dev_init, adf_dev_start,             *)
(* adf_dev_stop and adf_dev_shutdown (adf_init.c), called by the probe,    *)
(* by the ioctls of adf_ctl (adf_ctl_drv.c), by adf_sriov_configure        *)
(* (adf_sriov.c) and by the reset worker (adf_aer.c).                      *)
(*                                                                         *)
(* A thread is the sequence of steps it still has to take.  A call of one  *)
(* of the four routines puts the routine's steps in front; a step that     *)
(* fails replaces them by what the caller does about the failure (catch).  *)
(* No lock is common to the four callers: the ioctls share adf_ctl_lock,   *)
(* the probe, SR-IOV and PCI error recovery share the device lock of the   *)
(* kernel, a reset worker holds neither.                                   *)
(*                                                                         *)
(* flaws records by which of the known weak spots a behaviour has gone, so *)
(* that a property can name exactly the ones that spoil it.  A behaviour   *)
(* ends where two threads are inside the routines at once (Overlap): what  *)
(* happens then needs finer steps than these.                              *)
(***************************************************************************)
EXTENDS Integers, Sequences, FiniteSets

CONSTANTS
  Services,   \* how many services are registered (service_table): 1..Services
  Workers,    \* reset workers that can be busy at once
  Scenarios   \* which calls are made, how often, what can fail and how often

VARIABLES
  scen,    \* the scenario of this behaviour
  left,    \* calls each thread can still make
  dev,     \* the fields of accel_dev that the routines use
  ref,     \* accel_dev->ref_count, and the user of the UIO device
  wq,      \* pf2vf_resp_wq and pf2vf_resp_wq_reference, shared by all PFs
  todo,    \* the steps a thread still has to take
  catch,   \* the steps it takes instead when a call fails
  rec,     \* reset_data of each worker: its memory and its mode
  faults,  \* calls that have failed
  flaws,   \* weak spots met
  misuse   \* memory used after it was freed, or overwritten while in use

vars == <<scen, left, dev, ref, wq, todo, catch, rec, faults, flaws, misuse>>

Callers == {"ctl", "pci", "err"}
Threads == Callers \cup Workers
NoThread == "none"

InitSteps == <<"etr", "admin", "ae", "fw", "irq", "params", "svcinit">>
StartSteps == <<"starting", "aestart", "svcstart", "uio", "ext", "algs">>
StopSteps == <<"stop", "drain", "aestop", "uiodel">>
ShutdownSteps == <<"fwrelease", "aeshutdown", "svcshutdown", "iovoff", "irqfree",
                   "cfgdel", "etrfree", "adminexit">>

\* Steps of a thread that is not, or not yet, inside the routines.
Outside == {"rtest", "rset", "rwait", "sstart", "scheck", "sstop", "oncheck", "offcheck",
            "notify", "wcomplete"}
Busy(t) == todo[t] # <<>> /\ Head(todo[t]) \notin Outside
Idle == \A t \in Threads : ~Busy(t)
Overlap == \E t, u \in Threads : t # u /\ Busy(t) /\ Busy(u)

At(t, s) == todo[t] # <<>> /\ Head(todo[t]) = s
Has(b) == b \in dev.bits
Set(b) == [dev EXCEPT !.bits = @ \cup b]
Clear(b) == [dev EXCEPT !.bits = @ \ b]
Goto(t, steps) == todo' = [todo EXCEPT ![t] = steps]
Proceed(t) == Goto(t, Tail(todo[t]))
\* A call can fail in this scenario, and has not failed too often.
CanFail(s) == s \in scen.faults /\ Cardinality(faults) < scen.maxFaults
\* The step fails: the thread does what its caller does about it.
Throw(t, s) == CanFail(s) /\ faults' = faults \cup {s} /\ Goto(t, catch[t])

\* What most steps leave alone.
Rest == <<scen, left, ref, wq, catch, rec>>
Quiet == UNCHANGED <<scen, left, ref, wq, catch, rec, faults, flaws, misuse>>

\* adf_cfg_del_all
CfgDelAll(d) == [d EXCEPT !.cfg = {}, !.bits = @ \ {"CONFIGURED"}]

-----------------------------------------------------------------------------
(* adf_dev_init.  It undoes nothing when a call of it fails. *)

\* adf_init_etr_data, after the test of CONFIGURED.  It stores its table
\* without looking whether there is one.
InitEtr(t) ==
  /\ At(t, "etr")
  /\ \/ /\ ~Has("CONFIGURED")
        /\ Goto(t, catch[t])
        /\ UNCHANGED <<dev, faults, misuse>>
     \/ /\ Has("CONFIGURED")
        /\ Throw(t, "etr")
        /\ dev' = [dev EXCEPT !.etr = FALSE]
        /\ UNCHANGED misuse
     \/ /\ Has("CONFIGURED")
        /\ Proceed(t)
        /\ dev' = [dev EXCEPT !.etr = TRUE]
        /\ misuse' = IF dev.etr THEN misuse \cup {"leak"} ELSE misuse
        /\ UNCHANGED faults
  /\ UNCHANGED <<Rest, flaws>>

\* init_admin_comms, an allocation that replaces accel_dev->admin, and init_arb.
InitAdmin(t) ==
  /\ At(t, "admin")
  /\ \/ Throw(t, "admin") /\ UNCHANGED <<dev, misuse>>
     \/ /\ dev' = [dev EXCEPT !.admin = TRUE]
        /\ misuse' = IF dev.admin THEN misuse \cup {"leak"} ELSE misuse
        /\ \/ Throw(t, "arb")
           \/ Proceed(t) /\ UNCHANGED faults
  /\ UNCHANGED <<Rest, flaws>>

\* adf_ae_init, adf_ae_fw_load and alloc_irq: each sets its bit when it is done.
InitBit == [ae |-> "AE_INITIALISED", fw |-> "AE_UCODE_LOADED", irq |-> "IRQ_ALLOCATED"]
InitHw(t) ==
  /\ \E s \in DOMAIN InitBit :
       /\ At(t, s)
       /\ \/ Throw(t, s) /\ UNCHANGED dev
          \/ Proceed(t) /\ dev' = Set({InitBit[s]}) /\ UNCHANGED faults
  /\ UNCHANGED <<Rest, flaws, misuse>>

\* The parameters the driver adds to the GENERAL section itself; not while
\* the device restarts, when they are still there.
InitParams(t) ==
  LET skip == Has("RESTARTING") \/ Has("SRIOV_RESTARTING") IN
  /\ At(t, "params")
  /\ \/ Throw(t, "params") /\ UNCHANGED dev
     \/ /\ Proceed(t)
        /\ dev' = IF skip THEN dev ELSE [dev EXCEPT !.cfg = @ \cup {"general", "params"}]
        /\ UNCHANGED faults
  /\ UNCHANGED <<Rest, flaws, misuse>>

\* The services are told ADF_EVENT_INIT in the order of the table; the first
\* that fails ends the loop.
InitServices(t) ==
  /\ At(t, "svcinit")
  /\ \/ \E k \in 0..(Services - 1) :
          Throw(t, "svcinit") /\ dev' = [dev EXCEPT !.svcInit = @ \cup 1..k]
     \/ /\ Proceed(t)
        /\ dev' = [dev EXCEPT !.svcInit = 1..Services]
        /\ UNCHANGED faults
  /\ UNCHANGED <<Rest, flaws, misuse>>

-----------------------------------------------------------------------------
(* adf_dev_start *)

\* Mutant: a start that fails is not stopped first.
Starting_KeepCatch(t) ==
  /\ At(t, "starting")
  /\ dev' = Set({"STARTING"})
  /\ Proceed(t)
  /\ Quiet

\* From here a failure of a caller's reinit is followed by adf_dev_stop too
\* (adf_dev_reinit and the probe); the others call it in any case.
Starting(t) ==
  /\ At(t, "starting")
  /\ dev' = Set({"STARTING"})
  /\ Proceed(t)
  /\ catch' = [catch EXCEPT ![t] = IF @ # <<>> /\ Head(@) = ShutdownSteps[1]
                                   THEN StopSteps \o @ ELSE @]
  /\ UNCHANGED <<scen, left, ref, wq, rec, faults, flaws, misuse>>

StartEngines(t) ==
  /\ At(t, "aestart")
  /\ \/ Throw(t, "aestart") /\ UNCHANGED dev /\ flaws' = flaws \cup {"early"}
     \/ Proceed(t) /\ dev' = Set({"AE_STARTED"}) /\ UNCHANGED <<faults, flaws>>
  /\ UNCHANGED <<Rest, misuse>>

\* send_admin_init, and ADF_EVENT_START to the services.
StartServices(t) ==
  /\ At(t, "svcstart")
  /\ \/ \E k \in 0..(Services - 1) :
          /\ Throw(t, "svcstart")
          /\ dev' = [dev EXCEPT !.svcStart = @ \cup 1..k]
          /\ flaws' = flaws \cup {"early"}
     \/ /\ Proceed(t)
        /\ dev' = [dev EXCEPT !.svcStart = 1..Services]
        /\ UNCHANGED <<faults, flaws>>
  /\ UNCHANGED <<Rest, misuse>>

\* Mutant: the rings go to user space with virtual functions too.
StartUio_Always(t) ==
  /\ At(t, "uio")
  /\ Proceed(t)
  /\ dev' = [dev EXCEPT !.accel = "live", !.uio = TRUE]
  /\ Quiet

\* A device without virtual functions offers its rings to user space (no
\* IOMMU is present): adf_uio_sysfs_create, which leaves the old pointer when
\* it has no memory and clears it when sysfs refuses the object, and
\* adf_uio_register, whose devices are removed again when it fails.
StartUio(t) ==
  /\ At(t, "uio")
  /\ \/ dev.vf /\ Proceed(t) /\ UNCHANGED <<dev, faults, flaws, misuse>>
     \/ /\ ~dev.vf
        /\ Throw(t, "sysfs")
        /\ \/ flaws' = flaws \cup {"early"} /\ UNCHANGED dev
           \/ dev' = [dev EXCEPT !.accel = "none"] /\ UNCHANGED flaws
        /\ UNCHANGED misuse
     \/ /\ ~dev.vf
        /\ misuse' = IF dev.accel = "live" THEN misuse \cup {"leak"} ELSE misuse
        /\ \/ Throw(t, "uio") /\ dev' = [dev EXCEPT !.accel = "live"]
           \/ /\ Proceed(t)
              /\ dev' = [dev EXCEPT !.accel = "live", !.uio = TRUE]
              /\ UNCHANGED faults
        /\ UNCHANGED flaws
  /\ UNCHANGED Rest

\* adf_cfg_add_ext_params (not while the device restarts), and the device
\* is started.
StartDone(t) ==
  LET skip == Has("RESTARTING") \/ Has("SRIOV_RESTARTING") IN
  /\ At(t, "ext")
  /\ \/ ~skip /\ Throw(t, "ext") /\ UNCHANGED dev
     \/ /\ Proceed(t)
        /\ dev' = [dev EXCEPT !.bits = (@ \ {"STARTING"}) \cup {"STARTED"}]
        /\ UNCHANGED faults
  /\ UNCHANGED <<Rest, flaws, misuse>>

\* qat_algs_register and qat_asym_algs_register: the device was up already.
RegisterAlgs(t) ==
  /\ At(t, "algs")
  /\ \/ /\ Throw(t, "algs")
        /\ dev' = [dev EXCEPT !.bits = (@ \ {"STARTED"}) \cup {"STARTING"}]
     \/ Proceed(t) /\ UNCHANGED <<dev, faults>>
  /\ UNCHANGED <<Rest, flaws, misuse>>

-----------------------------------------------------------------------------
(* adf_dev_stop *)

\* Nothing to do when the device neither started nor starts; otherwise both
\* bits go and the services that were started are told to stop.  A service
\* that refuses keeps its bit.
Stop(t) ==
  LET n == Len(StopSteps)
      down == [dev EXCEPT !.bits = @ \ {"STARTING", "STARTED"}] IN
  /\ At(t, "stop")
  /\ \/ /\ ~Has("STARTED") /\ ~Has("STARTING")
        /\ Goto(t, SubSeq(todo[t], n + 1, Len(todo[t])))
        /\ UNCHANGED <<dev, faults>>
     \/ /\ Has("STARTED") \/ Has("STARTING")
        /\ Proceed(t)
        /\ \/ dev' = [down EXCEPT !.svcStart = {}] /\ UNCHANGED faults
           \/ /\ CanFail("svcstop")
              /\ faults' = faults \cup {"svcstop"}
              /\ \E k \in dev.svcStart : dev' = [down EXCEPT !.svcStart = {k}]
  /\ UNCHANGED <<Rest, flaws, misuse>>

\* ADF_STOP_RETRY times 100 ms for the users to let go, then on regardless.
Drain(t) ==
  /\ At(t, "drain")
  /\ Proceed(t)
  /\ Quiet
  /\ UNCHANGED dev

\* adf_ae_stop does not fail.
StopEngines(t) ==
  /\ At(t, "aestop")
  /\ dev' = Clear({"AE_STARTED"})
  /\ Proceed(t)
  /\ Quiet

\* adf_uio_remove and adf_uio_sysfs_delete, which drops a reference of
\* accel_dev->accel, clears accel->accel_dev and leaves the pointer.
RemoveUio(t) ==
  /\ At(t, "uiodel")
  /\ Proceed(t)
  /\ \/ dev.vf /\ UNCHANGED <<dev, ref, flaws, misuse>>
     \/ /\ ~dev.vf
        /\ dev' = [dev EXCEPT !.uio = FALSE,
                              !.accel = IF @ = "none" THEN @ ELSE "stale"]
        /\ misuse' = IF dev.accel = "stale" THEN misuse \cup {"accel"} ELSE misuse
        /\ IF ref.user = "open"
           THEN ref' = [ref EXCEPT !.user = "cut"] /\ flaws' = flaws \cup {"cut"}
           ELSE UNCHANGED <<ref, flaws>>
  /\ UNCHANGED <<scen, left, wq, catch, rec, faults>>

-----------------------------------------------------------------------------
(* adf_dev_shutdown *)

\* adf_ae_fw_release, adf_ae_shutdown and free_irq, each under its bit.
ShutdownBit == [fwrelease |-> "AE_UCODE_LOADED", aeshutdown |-> "AE_INITIALISED",
                irqfree |-> "IRQ_ALLOCATED"]
ShutdownHw(t) ==
  /\ \E s \in DOMAIN ShutdownBit : At(t, s) /\ dev' = Clear({ShutdownBit[s]})
  /\ Proceed(t)
  /\ Quiet

ShutdownServices(t) ==
  /\ At(t, "svcshutdown")
  /\ Proceed(t)
  /\ \/ dev' = [dev EXCEPT !.svcInit = {}] /\ UNCHANGED faults
     \/ /\ CanFail("svcshutdown")
        /\ faults' = faults \cup {"svcshutdown"}
        /\ \E k \in dev.svcInit : dev' = [dev EXCEPT !.svcInit = {k}]
  /\ UNCHANGED <<Rest, flaws, misuse>>

\* adf_exit_pf_wq
ExitPfWq == [refs |-> wq.refs - 1, alive |-> wq.alive /\ wq.refs - 1 # 0]

\* Mutant: vf_info is not tested.
DisableSriov_NoTest(t) ==
  /\ At(t, "iovoff")
  /\ Proceed(t)
  /\ dev' = [dev EXCEPT !.vf = FALSE, !.iov = FALSE]
  /\ wq' = ExitPfWq
  /\ UNCHANGED <<scen, left, ref, catch, rec, faults, flaws, misuse>>

\* disable_iov = adf_disable_sriov: a test of vf_info, and everything that
\* adf_enable_sriov does is undone, whether it had been done or not.
DisableSriov(t) ==
  /\ At(t, "iovoff")
  /\ Proceed(t)
  /\ \/ ~dev.vf /\ UNCHANGED <<dev, wq, flaws>>
     \/ /\ dev.vf
        /\ dev' = [dev EXCEPT !.vf = FALSE, !.iov = FALSE]
        /\ wq' = ExitPfWq
        /\ flaws' = IF dev.iov THEN flaws ELSE flaws \cup {"unpaired"}
  /\ UNCHANGED <<scen, left, ref, catch, rec, faults, misuse>>

\* Mutant: the configuration goes during a restart too.
DeleteConfig_Always(t) ==
  /\ At(t, "cfgdel")
  /\ dev' = CfgDelAll(dev)
  /\ Proceed(t)
  /\ Quiet

\* The configuration goes, unless the device restarts.
DeleteConfig(t) ==
  /\ At(t, "cfgdel")
  /\ dev' = IF Has("RESTARTING") THEN dev ELSE CfgDelAll(dev)
  /\ Proceed(t)
  /\ Quiet

\* exit_arb, adf_cleanup_etr_data, adf_dev_restore, exit_admin_comms.
ReleaseEtr(t) ==
  /\ At(t, "etrfree")
  /\ dev' = [dev EXCEPT !.etr = FALSE]
  /\ Proceed(t)
  /\ Quiet

ReleaseAdmin(t) ==
  /\ At(t, "adminexit")
  /\ dev' = [dev EXCEPT !.admin = FALSE]
  /\ Proceed(t)
  /\ Quiet

Routine(t) ==
  \/ InitEtr(t) \/ InitAdmin(t) \/ InitHw(t) \/ InitParams(t) \/ InitServices(t)
  \/ Starting(t) \/ StartEngines(t) \/ StartServices(t) \/ StartUio(t)
  \/ StartDone(t) \/ RegisterAlgs(t)
  \/ Stop(t) \/ Drain(t) \/ StopEngines(t) \/ RemoveUio(t)
  \/ ShutdownHw(t) \/ ShutdownServices(t) \/ DisableSriov(t) \/ DeleteConfig(t)
  \/ ReleaseEtr(t) \/ ReleaseAdmin(t)

-----------------------------------------------------------------------------
(* adf_dev_aer_schedule_reset and the worker *)

\* Another caller has made the test below and not set the bit yet.
InWindow(t) == \E c \in Callers \ {t} : At(c, "rset")

\* Not started, or in a reset already: nothing to do, and no error.
ResetTest(t) ==
  /\ At(t, "rtest")
  /\ \/ /\ ~Has("STARTED") \/ Has("RESTARTING")
        /\ Goto(t, <<>>)
        /\ UNCHANGED flaws
     \/ /\ Has("STARTED") /\ ~Has("RESTARTING")
        /\ Goto(t, <<"rset">>)
        /\ flaws' = IF InWindow(t) THEN flaws \cup {"torn"} ELSE flaws
  /\ UNCHANGED <<Rest, dev, faults, misuse>>

WorkerSteps == <<"notify">> \o StopSteps \o ShutdownSteps \o <<"check">>

\* The work queue runs an item on a worker of its own.
FreeWorkers == {w \in Workers : /\ todo[w] = <<>>
                                /\ rec[w].mem \in {"none", "freed"}
                                /\ rec[w].waiter = NoThread}

\* The bit, the record, the work item.  The bit stays when there is no memory.
ResetSchedule(t) ==
  LET stale == IF Has("STARTED") /\ Idle THEN {} ELSE {"stale"} IN
  /\ At(t, "rset")
  /\ dev' = Set({"RESTARTING"})
  /\ \/ /\ CanFail("record")
        /\ faults' = faults \cup {"record"}
        /\ flaws' = flaws \cup stale \cup {"norec"}
        /\ Goto(t, <<>>)
        /\ UNCHANGED <<rec, catch>>
     \/ \E w \in Workers :
          /\ FreeWorkers # {} /\ w = CHOOSE v \in FreeWorkers : TRUE
          /\ rec' = [rec EXCEPT ![w] = [mem |-> "live",
                                        waiter |-> IF t = "pci" THEN t ELSE NoThread]]
          /\ todo' = [todo EXCEPT ![t] = IF t = "pci" THEN <<"rwait">> ELSE <<>>,
                                  ![w] = WorkerSteps]
          /\ catch' = [catch EXCEPT ![w] = <<"wfail">>]
          /\ flaws' = flaws \cup stale
          /\ UNCHANGED faults
  /\ UNCHANGED <<scen, left, ref, wq, misuse>>

Free(w) == [rec EXCEPT ![w].mem = "freed"]
Refreed(w) == IF rec[w].mem = "freed" THEN misuse \cup {"record"} ELSE misuse

\* adf_slot_reset waits ten seconds for the worker and frees the record.
ResetWait(t) ==
  /\ At(t, "rwait")
  /\ \E w \in Workers :
       /\ rec[w].waiter = t
       /\ \/ rec[w].mem = "done" /\ UNCHANGED <<faults, flaws>>
          \/ /\ rec[w].mem # "done"
             /\ todo[w] = <<>>
             /\ UNCHANGED <<faults, flaws>>
          \/ /\ rec[w].mem # "done"
             /\ todo[w] # <<>>
             /\ CanFail("timeout")
             /\ faults' = faults \cup {"timeout"}
             /\ flaws' = flaws \cup {"timeout"}
       /\ misuse' = Refreed(w)
       /\ rec' = [rec EXCEPT ![w] = [mem |-> "freed", waiter |-> NoThread]]
  /\ Goto(t, <<>>)
  /\ UNCHANGED <<scen, left, dev, ref, wq, catch>>

\* adf_dev_restarting_notify; the worker begins.
WorkerBegin(w) ==
  /\ At(w, "notify")
  /\ Proceed(w)
  /\ Quiet
  /\ UNCHANGED dev

\* The device is started again only when nobody uses it.
WorkerCheck(w) ==
  /\ At(w, "check")
  /\ \/ /\ ref.count = 0
        /\ Goto(w, InitSteps \o StartSteps \o <<"wdone", "wcomplete">>)
        /\ UNCHANGED flaws
     \/ /\ ref.count # 0
        /\ Goto(w, <<"wcomplete">>)
        /\ flaws' = flaws \cup {"inuse"}
  /\ UNCHANGED <<Rest, dev, faults, misuse>>

\* Mutant: RESTARTING stays.
WorkerDone_KeepBit(w) ==
  /\ At(w, "wdone")
  /\ Proceed(w)
  /\ Quiet
  /\ UNCHANGED dev

\* adf_dev_restarted_notify, and the reset is over.
WorkerDone(w) ==
  /\ At(w, "wdone")
  /\ dev' = Clear({"RESTARTING"})
  /\ Proceed(w)
  /\ Quiet

\* Mutant: the record is freed although a caller waits for it.
WorkerComplete_Free(w) ==
  /\ At(w, "wcomplete")
  /\ rec' = Free(w)
  /\ misuse' = Refreed(w)
  /\ Proceed(w)
  /\ UNCHANGED <<scen, left, dev, ref, wq, catch, faults, flaws>>

\* The record: the caller that waits for it is woken, otherwise it is freed.
WorkerComplete(w) ==
  LET sync == rec[w].waiter # NoThread IN
  /\ At(w, "wcomplete")
  /\ rec' = IF sync THEN [rec EXCEPT ![w].mem = "done"] ELSE Free(w)
  /\ misuse' = Refreed(w)
  /\ Proceed(w)
  /\ UNCHANGED <<scen, left, dev, ref, wq, catch, faults, flaws>>

\* The restart failed: the record is freed, in both modes, and that is all.
WorkerFail(w) ==
  /\ At(w, "wfail")
  /\ rec' = Free(w)
  /\ misuse' = Refreed(w)
  /\ flaws' = flaws \cup {"failed"}
  /\ Proceed(w)
  /\ UNCHANGED <<scen, left, dev, ref, wq, catch, faults>>

Reset(t) ==
  \/ ResetTest(t) \/ ResetSchedule(t) \/ ResetWait(t)
  \/ WorkerBegin(t) \/ WorkerCheck(t) \/ WorkerDone(t) \/ WorkerComplete(t) \/ WorkerFail(t)

-----------------------------------------------------------------------------
(* The ioctls of adf_ctl *)

\* adf_ctl_ioctl_dev_config of a device that was not started when the call
\* tested it: the sections of the configuration file, and the bit when all of
\* them were added; when one cannot be, the whole configuration goes, whatever
\* it held before the call (adf_cfg_del_all).
CtlConfig(t) ==
  /\ At(t, "config")
  /\ \/ /\ CanFail("config")
        /\ faults' = faults \cup {"config"}
        /\ dev' = CfgDelAll(dev)
     \/ /\ dev' = [dev EXCEPT !.cfg = @ \cup {"general", "kernel"},
                              !.bits = @ \cup {"CONFIGURED"}]
        /\ UNCHANGED faults
  /\ Proceed(t)
  /\ UNCHANGED <<Rest, flaws, misuse>>

\* adf_ctl_ioctl_dev_start
CtlStart(t) ==
  /\ At(t, "sstart")
  /\ Goto(t, IF Has("STARTED") THEN <<>> ELSE InitSteps \o StartSteps \o <<"setupirq">>)
  /\ catch' = [catch EXCEPT ![t] = StopSteps \o ShutdownSteps]
  /\ UNCHANGED <<scen, left, dev, ref, wq, rec, faults, flaws, misuse>>

\* adf_cfg_setup_irq
CtlSetupIrq(t) ==
  /\ At(t, "setupirq")
  /\ \/ Throw(t, "setupirq")
     \/ Proceed(t) /\ UNCHANGED faults
  /\ UNCHANGED <<Rest, dev, flaws, misuse>>

\* adf_ctl_ioctl_dev_stop: adf_ctl_is_device_in_use, then adf_ctl_stop_devices.
CtlStopCheck(t) ==
  /\ At(t, "scheck")
  /\ Goto(t, IF Has("RESTARTING") \/ ref.count # 0 THEN <<>> ELSE <<"sstop">>)
  /\ Quiet
  /\ UNCHANGED dev

CtlStop(t) ==
  /\ At(t, "sstop")
  /\ Goto(t, IF Has("STARTED") THEN StopSteps \o ShutdownSteps ELSE <<>>)
  /\ flaws' = IF Has("RESTARTING") THEN flaws \cup {"stale"} ELSE flaws
  /\ UNCHANGED <<Rest, dev, faults, misuse>>

Ctl(t) == CtlConfig(t) \/ CtlStart(t) \/ CtlSetupIrq(t) \/ CtlStopCheck(t) \/ CtlStop(t)

-----------------------------------------------------------------------------
(* adf_sriov_configure *)

ReinitSteps == InitSteps \o StartSteps \o <<"reinited">>
\* adf_dev_prepare_restart around adf_dev_stop and adf_dev_shutdown
PrepareSteps == <<"save">> \o StopSteps \o ShutdownSteps \o <<"restore">>

\* The steps of adf_sriov_enable and adf_sriov_disable after their tests.
EnableSteps == <<"confcy", "vfalloc">> \o ReinitSteps \o <<"iovon">>
DisableSteps == <<"devconf">> \o ReinitSteps

SriovEnable(t) ==
  LET busy == dev.vf \/ (Has("STARTED") /\ (Has("RESTARTING") \/ ref.count # 0)) IN
  /\ At(t, "oncheck")
  /\ Goto(t, CASE busy -> <<>>
               [] ~busy /\ Has("STARTED") -> PrepareSteps \o EnableSteps
               [] OTHER -> EnableSteps)
  /\ catch' = [catch EXCEPT ![t] = ShutdownSteps \o <<"errvf", "errcfg">>]
  /\ UNCHANGED <<scen, left, dev, ref, wq, rec, faults, flaws, misuse>>

SriovDisable(t) ==
  LET busy == ~dev.vf \/ (Has("STARTED") /\ Has("RESTARTING")) IN
  /\ At(t, "offcheck")
  /\ Goto(t, CASE busy -> <<>>
               [] ~busy /\ Has("STARTED") -> PrepareSteps \o DisableSteps
               [] OTHER -> <<"iovoff">> \o DisableSteps)
  /\ catch' = [catch EXCEPT ![t] = ShutdownSteps \o <<"errcfg">>]
  /\ UNCHANGED <<scen, left, dev, ref, wq, rec, faults, flaws, misuse>>

\* adf_cfg_save_section of GENERAL: without it, or without memory, the call
\* is over before anything was done.
SaveSection(t) ==
  /\ At(t, "save")
  /\ \/ "general" \notin dev.cfg /\ Goto(t, <<>>) /\ UNCHANGED <<dev, faults>>
     \/ /\ CanFail("save")
        /\ faults' = faults \cup {"save"}
        /\ Goto(t, <<>>)
        /\ UNCHANGED dev
     \/ /\ "general" \in dev.cfg
        /\ dev' = [dev EXCEPT !.saved = dev.cfg \cap {"general", "params"}]
        /\ Proceed(t)
        /\ UNCHANGED faults
  /\ UNCHANGED <<Rest, flaws, misuse>>

RestoreSection(t) ==
  /\ At(t, "restore")
  /\ \/ /\ CanFail("restore")
        /\ faults' = faults \cup {"restore"}
        /\ dev' = [dev EXCEPT !.saved = {}]
        /\ Goto(t, <<>>)
     \/ /\ dev' = [dev EXCEPT !.cfg = @ \cup dev.saved, !.saved = {},
                              !.bits = @ \cup {"SRIOV_RESTARTING"}]
        /\ Proceed(t)
        /\ UNCHANGED faults
  /\ UNCHANGED <<Rest, flaws, misuse>>

\* The end of what a caller does about a failure, when nothing was begun.
Giveup(t) == catch[t][Len(catch[t])]

\* adf_config_cy, and qat_crypto_dev_config when the VFs are removed and in
\* the probe.
Configure(t) ==
  /\ \/ At(t, "confcy") \/ At(t, "devconf")
  /\ \/ /\ CanFail("config")
        /\ faults' = faults \cup {"config"}
        /\ Goto(t, <<Giveup(t)>>)
        /\ UNCHANGED dev
     \/ /\ dev' = [dev EXCEPT !.cfg = @ \cup {"kernel"}, !.bits = @ \cup {"CONFIGURED"}]
        /\ Proceed(t)
        /\ UNCHANGED faults
  /\ UNCHANGED <<Rest, flaws, misuse>>

\* kcalloc of vf_info
AllocateVfInfo(t) ==
  /\ At(t, "vfalloc")
  /\ \/ /\ CanFail("vfalloc")
        /\ faults' = faults \cup {"vfalloc"}
        /\ Goto(t, <<Giveup(t)>>)
        /\ UNCHANGED dev
     \/ dev' = [dev EXCEPT !.vf = TRUE] /\ Proceed(t) /\ UNCHANGED faults
  /\ UNCHANGED <<Rest, flaws, misuse>>

\* The end of adf_dev_reinit.
Reinited(t) ==
  /\ At(t, "reinited")
  /\ dev' = Clear({"SRIOV_RESTARTING"})
  /\ Proceed(t)
  /\ Quiet

\* adf_enable_sriov: adf_init_pf_wq and pci_enable_sriov, on a device that is
\* started already.
EnableIov(t) ==
  LET queued == [refs |-> wq.refs + 1, alive |-> TRUE]
      fail(s) == /\ CanFail(s)
                 /\ faults' = faults \cup {s}
                 /\ flaws' = flaws \cup {"iov"}
                 /\ Goto(t, <<"errvf", "errcfg">>) IN
  /\ At(t, "iovon")
  /\ \/ ~wq.alive /\ fail("pfwq") /\ UNCHANGED <<dev, wq>>
     \/ fail("pciiov") /\ wq' = queued /\ UNCHANGED dev
     \/ /\ dev' = [dev EXCEPT !.iov = TRUE]
        /\ wq' = queued
        /\ Proceed(t)
        /\ UNCHANGED <<faults, flaws>>
  /\ UNCHANGED <<scen, left, ref, catch, rec, misuse>>

\* err_free_vf
FreeVfInfo(t) ==
  /\ At(t, "errvf")
  /\ dev' = [dev EXCEPT !.vf = FALSE]
  /\ Proceed(t)
  /\ Quiet

\* err_del_cfg.  ADF_STATUS_SRIOV_RESTARTING stays.
DropConfig(t) ==
  /\ At(t, "errcfg")
  /\ dev' = CfgDelAll(dev)
  /\ flaws' = IF Has("SRIOV_RESTARTING") THEN flaws \cup {"sriov"} ELSE flaws
  /\ Proceed(t)
  /\ UNCHANGED <<Rest, faults, misuse>>

Sriov(t) ==
  \/ SriovEnable(t) \/ SriovDisable(t) \/ SaveSection(t) \/ RestoreSection(t)
  \/ Configure(t) \/ AllocateVfInfo(t) \/ Reinited(t) \/ EnableIov(t)
  \/ FreeVfInfo(t) \/ DropConfig(t)

-----------------------------------------------------------------------------
(* adf_probe, the calls, and the users *)

\* A failed probe frees accel_dev, and nothing of it is left to model.
Gone == At("pci", "gone")
Ended == Overlap \/ Gone

\* The first step of each call; adf_ctl_ioctl_dev_config returns at once when
\* the device is started.
FirstStep == [config |-> "config", start |-> "sstart", stop |-> "scheck",
              reset |-> "rtest", error |-> "rtest", slot_reset |-> "rtest",
              sriov_on |-> "oncheck", sriov_off |-> "offcheck"]

Call(c) ==
  /\ todo[c] = <<>>
  /\ left[c] > 0
  /\ \E op \in scen.calls[c] :
       /\ op = "config" => ~Has("STARTED")
       /\ Goto(c, <<FirstStep[op]>>)
  /\ left' = [left EXCEPT ![c] = @ - 1]
  /\ UNCHANGED <<scen, dev, ref, wq, catch, rec, faults, flaws, misuse>>

\* adf_uio_open: adf_dev_get.  One user, who may open again; bound: two
\* references.
Open ==
  /\ scen.user /\ dev.uio /\ ref.user = "none" /\ ref.count < 2
  /\ ref' = [count |-> ref.count + 1, user |-> "open"]
  /\ UNCHANGED <<scen, left, dev, wq, todo, catch, rec, faults, flaws, misuse>>

\* adf_uio_mmap_close: adf_dev_put, unless the object the user had mapped has
\* been cut off from the device since.
Close ==
  /\ ref.user # "none"
  /\ ref' = [count |-> IF ref.user = "open" THEN ref.count - 1 ELSE ref.count,
             user |-> "none"]
  /\ UNCHANGED <<scen, left, dev, wq, todo, catch, rec, faults, flaws, misuse>>

Step(t) == Routine(t) \/ Reset(t) \/ Ctl(t) \/ Sriov(t)

\* Everything is over: the calls are made and the threads have returned.
Over == (\A t \in Threads : todo[t] = <<>>) /\ UNCHANGED vars

Next ==
  \/ /\ ~Ended
     /\ \/ \E t \in Threads : Step(t)
        \/ \E c \in Callers : Call(c)
        \/ Open \/ Close
  \/ Ended /\ UNCHANGED vars
  \/ Over

Init ==
  /\ scen \in Scenarios
  /\ left = scen.left
  /\ dev = [bits |-> {}, etr |-> FALSE, admin |-> FALSE, svcInit |-> {}, svcStart |-> {},
            accel |-> "none", uio |-> FALSE, vf |-> FALSE, iov |-> FALSE,
            cfg |-> {}, saved |-> {}]
  /\ ref = [count |-> 0, user |-> "none"]
  /\ wq = [refs |-> scen.others, alive |-> scen.others > 0]
  /\ todo = [t \in Threads |-> IF t = "pci"
                               THEN <<"devconf">> \o InitSteps \o StartSteps ELSE <<>>]
  /\ catch = [t \in Threads |-> IF t = "pci" THEN ShutdownSteps \o <<"gone">> ELSE <<>>]
  /\ rec = [w \in Workers |-> [mem |-> "none", waiter |-> NoThread]]
  /\ faults = {} /\ flaws = {} /\ misuse = {}

Spec == Init /\ [][Next]_vars
\* The kernel runs its threads and its work items; users close what they opened
\* only if the scenario says so, and nobody has to call.
FairSpec == Spec /\ \A t \in Threads : WF_vars(~Ended /\ Step(t))
-----------------------------------------------------------------------------
HwBits == {"AE_INITIALISED", "AE_UCODE_LOADED", "AE_STARTED", "IRQ_ALLOCATED"}
\* The device stays in RESTARTING.
Stuck == flaws \cap {"failed", "inuse", "norec"} # {}

\* A device that is down holds nothing: whichever call failed, and wherever,
\* the caller's stop and shutdown give back what init and start had taken.
\* Only the reset worker stops where its restart failed.
DownIsClean ==
  Idle /\ ~Has("STARTED") /\ "failed" \notin flaws =>
    /\ dev.bits \cap (HwBits \cup {"STARTING"}) = {}
    /\ ~dev.etr /\ ~dev.admin /\ ~dev.uio /\ dev.accel # "live" /\ ~dev.vf /\ ~dev.iov
    /\ dev.svcInit # {} => "svcshutdown" \in faults
    /\ dev.svcStart # {} => "svcstop" \in faults

\* A device that is up is whole: all of init and start was done, and its rings
\* belong to user space or to virtual functions, one or the other, unless
\* SR-IOV failed on the started device.  It has the parameters that only the
\* driver can supply, which init adds except when the device restarts: not when
\* RESTARTING or ADF_STATUS_SRIOV_RESTARTING was left behind by what failed
\* before, or set on a device that had just been stopped.
UpIsWhole ==
  Idle /\ Has("STARTED") /\ "iov" \notin flaws =>
    /\ HwBits \cup {"CONFIGURED"} \subseteq dev.bits
    /\ dev.etr /\ dev.admin
    /\ dev.svcInit = 1..Services /\ dev.svcStart = 1..Services
    /\ dev.uio = ~dev.vf /\ dev.iov = dev.vf
    /\ dev.uio => dev.accel = "live"
    /\ flaws \cap {"sriov", "stale", "torn"} = {} /\ ~Stuck => {"general", "params"} \subseteq dev.cfg

\* What init, start and a reset allocate is allocated, used and released once.
\* A table is not allocated over one in use, except by a start of a device
\* whose restart failed.  The sysfs object of the rings is released once per
\* start, except when a start fails before it makes a new one, or a stop comes
\* after SR-IOV failed.  The record of a reset is neither used nor freed after
\* it was freed, unless the waiting caller gave up or the restart failed.
MemorySafe ==
  /\ "leak" \in misuse => "failed" \in flaws
  /\ "accel" \in misuse => flaws \cap {"early", "iov"} # {}
  /\ "record" \in misuse => flaws \cap {"failed", "timeout"} # {}

\* What is counted is what its owners hold.  The references of the device are
\* its users', so that a device without one can be stopped and reset again; a
\* stop that went on after its five seconds of waiting cuts the user off, whose
\* reference is never put.  The queue of the PF2VF responses exists exactly
\* while some PF has virtual functions, this one or another.
CountsOwned ==
  /\ "cut" \notin flaws => ref.count = (IF ref.user = "none" THEN 0 ELSE 1)
  /\ Idle /\ flaws \cap {"iov", "unpaired"} = {} =>
       /\ wq.refs = scen.others + (IF dev.iov THEN 1 ELSE 0)
       /\ wq.alive = (wq.refs > 0)

\* A reset keeps the configuration: the worker finds it when it starts the
\* device again, whoever else called in between, if the test of the reset
\* still held when it set RESTARTING and that of a stop when it began.  Two
\* resets lose it: the first clears RESTARTING before the second shuts down.
ConfigSurvivesReset ==
  \A w \in Workers : At(w, "etr") /\ ~Overlap /\ flaws \cap {"iov", "stale", "torn"} = {} =>
    "CONFIGURED" \in dev.bits /\ "kernel" \in dev.cfg

\* A reset comes to an end: the device leaves RESTARTING, unless there was no
\* memory for the record, the device was still in use, or the restart failed.
ResetEnds == Has("RESTARTING") ~> (~Has("RESTARTING") \/ Stuck \/ Ended)

===============================================================================
