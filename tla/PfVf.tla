--------------------------------- MODULE PfVf ---------------------------------
(***************************************************************************)
(* The mailbox between the physical function (PF) driver and the driver of *)
(* one virtual function (VF): a 32-bit register, written whole by both     *)
(* sides, with no atomic update.  Its bottom half carries the PF's message *)
(* and its top half the VF's; a sender fills the half it does not use with *)
(* an in-use pattern.                                                      *)
(*                                                                         *)
(* Actors: the VF's thread (adf_dev_init, adf_dev_start, adf_dev_shutdown),*)
(* the VF's interrupt and tasklet, the PF's interrupt and response worker, *)
(* and a PF thread that sends notifications (adf_sriov.c, adf_aer.c).      *)
(***************************************************************************)
EXTENDS Integers, Sequences, FiniteSets

CONSTANTS
  Block,          \* the PF's capability block: <<version, length, bytes>>
  Crc(_),         \* adf_pfvf_crc over version, length and bytes
  MsgMaxRetries,  \* ADF_IOV_MSG_MAX_RETRIES
  RespRetries,    \* ADF_IOV_MSG_RESP_RETRIES
  Scenarios       \* the versions, faults and bounds under which the two sides run

FaultKinds == {"ack_timeout", "resp_timeout", "nomem", "ratelimit", "crash"}

ASSUME BlockAssumption ==
  Block \in Seq(Nat) /\ Len(Block) >= 2 /\ Len(Block) = Block[2] + 2
ASSUME RetryAssumption == MsgMaxRetries \in Nat \ {0} /\ RespRetries \in Nat \ {0}
ASSUME ScenarioAssumption ==
  \A s \in Scenarios : /\ s.pfVersion \in Nat /\ s.vfVersion \in Nat
                       /\ s.faults \subseteq FaultKinds
                       /\ s.lives \in Nat /\ s.notes \in Nat /\ s.early \in Nat

FastAck == 3       \* ADF_PFVF_COMPATIBILITY_FAST_ACK
Capabilities == 2  \* ADF_PFVF_COMPATIBILITY_CAPABILITIES
V1Length == 4      \* ADF_VF2PF_CAPABILITIES_V1_LENGTH, the least the VF takes
V3Length == 12     \* ADF_VF2PF_CAPABILITIES_V3_LENGTH, the size of its buffer

VARIABLES
  sc,         \* the scenario, chosen once
  csr,        \* the register: csr["pf"] is the bottom half, csr["vf"] the top
  put,        \* each sender's progress in adf_iov_put
  vpc,        \* what the VF's thread is doing
  vstep,      \* sending, waiting in adf_iov_put, or waiting for the response
  vidx,       \* the byte it is reading
  vtries,     \* retry_count
  buf,        \* the block read so far: version, length, bytes
  lives,      \* times the VF was brought up
  completion, \* vf.iov_msg_completion.done
  vresp,      \* vf.pf2vf_block_resp_type and vf.pf2vf_block_byte
  pfSeen,     \* vf.pf_version and vf.compatible
  pfRunning,  \* ADF_STATUS_PF_RUNNING
  stopWork,   \* adf_dev_stop_async is queued
  vfIrq,      \* the VF's interrupt: allocated, masked, tasklet scheduled
  tasklet,    \* the VF tasklet's place and the message it read
  pfMasked,   \* the VF's bit in the PF's VF2PF interrupt mask
  worker,     \* the PF worker's place, the message it read, its response
  vfInfo,     \* vf_info->init and vf_info->compat_ver
  note,       \* the notification the PF's notifier is sending, if any
  notes,      \* notifications sent
  seen,       \* the PF's notifications that the VF handled since they were sent,
              \* or had handled but not acknowledged when they were sent again
  early       \* timeouts that struck early

vfVars == <<vpc, vstep, vidx, vtries, buf, lives, pfRunning, stopWork>>
respVars == <<completion, vresp, pfSeen>>
pfVars == <<pfMasked, worker, vfInfo>>
noteVars == <<note, notes>>
vars == <<sc, csr, put, vfVars, respVars, vfIrq, tasklet, pfVars, noteVars, seen, early>>

PfVersion == sc.pfVersion  \* ADF_PFVF_COMPATIBILITY_VERSION of the two drivers
VfVersion == sc.vfVersion
Faults == sc.faults        \* what may strike at any time
MaxLives == sc.lives       \* bound: how often the VF is brought up
MaxNotes == sc.notes       \* bound: notifications the PF sends
MaxEarly == sc.early       \* bound: timeouts that strike before a late answer

-----------------------------------------------------------------------------
(* Messages and the register. *)

Msg(type, arg, arg2) == [t |-> type, a |-> arg, b |-> arg2]
None == Msg("none", 0, 0)
InUse == Msg("in_use", 0, 0)   \* ADF_PF2VF_IN_USE_BY_PF, ADF_VF2PF_IN_USE_BY_VF

\* ADF_PF2VF_VF_COMPATIBLE, ADF_PF2VF_VF_COMPAT_UNKNOWN (0: no verdict yet)
COMPATIBLE == 1
COMPAT_UNKNOWN == 3

\* ADF_PF2VF_MSGTYPE_BLOCK_RESP with the three ADF_PF2VF_BLOCK_RESP_TYPEs
BlockResps == {"BLOCK_DATA", "BLOCK_CRC", "BLOCK_ERROR"}

VfNotes == {"INIT", "SHUTDOWN"}
PfNotes == {"RESTARTING", "FATAL_ERROR"}

Sides == {"pf", "vf"}
Other(side) == IF side = "pf" THEN "vf" ELSE "pf"
Half(body, int) == [body |-> body, int |-> int]

\* The register after a reset.
Clean == [h \in Sides |-> Half(None, FALSE)]

\* A sender's write: its message and interrupt bit in its own half, the in-use
\* pattern in the other.
Sent(side, msg) ==
  [h \in Sides |-> IF h = side THEN Half(msg, TRUE) ELSE Half(InUse, FALSE)]

\* A sender clears its in-use pattern, which sits in the other half.
NoUse(side, val) == [val EXCEPT ![Other(side)].body = None]

\* The receiver's acknowledgement: the message it read without the interrupt
\* bit, and without the sender's in-use pattern if the receiver clears it.
Acked(sender, val, clear) ==
  LET v == [val EXCEPT ![sender].int = FALSE]
  IN  IF clear THEN NoUse(sender, v) ELSE v

-----------------------------------------------------------------------------
(* adf_iov_put and __adf_iov_putmsg, by the VF's thread ("vf"), the PF's    *)
(* worker ("pfw") and the PF's notifier ("pfn").                            *)

Agents == {"vf", "pfw", "pfn"}
SideOf(agent) == IF agent = "vf" THEN "vf" ELSE "pf"

Idle == [pc |-> "off", msg |-> None, count |-> 0, val |-> Clean, ret |-> "ok"]
PutCall(msg) == [Idle EXCEPT !.pc = "check", !.msg = msg]

\* The mutex of a side is held from the check to the end of __adf_iov_putmsg.
Locked(side) ==
  \E a \in Agents : SideOf(a) = side /\ put[a].pc \in {"write", "wait", "clear"}

IsNote(msg) == msg.t \in VfNotes \cup PfNotes

\* Return from __adf_iov_putmsg: adf_iov_put tries again after -EAGAIN.
PutReturn(p, ret) ==
  IF ret = "again" /\ p.count + 1 < MsgMaxRetries
  THEN [p EXCEPT !.pc = "check", !.count = @ + 1, !.val = Clean]
  ELSE [p EXCEPT !.pc = "done", !.ret = ret, !.val = Clean]

\* Mutant: the other side's in-use pattern is not looked at.
PutCheck_NoTest(a) ==
  /\ put[a].pc = "check"
  /\ ~Locked(SideOf(a))
  /\ put' = [put EXCEPT ![a].pc = "write"]
  /\ UNCHANGED <<sc, csr, vfVars, respVars, vfIrq, tasklet, pfVars, noteVars, seen, early>>

\* Take the lock and look whether the other side is using the register.
PutCheck(a) ==
  /\ put[a].pc = "check"
  /\ ~Locked(SideOf(a))
  /\ put' = [put EXCEPT ![a] = IF csr[SideOf(a)].body = InUse
                               THEN PutReturn(@, "again")
                               ELSE [@ EXCEPT !.pc = "write"]]
  /\ UNCHANGED <<sc, csr, vfVars, respVars, vfIrq, tasklet, pfVars, noteVars, seen, early>>

\* It was not (when it was read): write the message.
PutWrite(a) ==
  /\ put[a].pc = "write"
  /\ csr' = Sent(SideOf(a), put[a].msg)
  /\ put' = [put EXCEPT ![a].pc = "wait"]
  /\ UNCHANGED <<sc, vfVars, respVars, vfIrq, tasklet, pfVars, noteVars, seen, early>>

\* Mutants: the in-use pattern is never cleared by its sender; a notification's
\* collision is not detected.
PutOutcome_NoClear(p, side, val, ret) ==
  IF IsNote(p.msg) /\ [val EXCEPT ![side].int = FALSE] # Acked(side, Sent(side, p.msg), FALSE)
  THEN PutReturn(p, "again")
  ELSE PutReturn(p, ret)

PutOutcome_NoCollision(p, side, val, ret) ==
  IF val[Other(side)].body = InUse
  THEN [p EXCEPT !.pc = "clear", !.val = [val EXCEPT ![side].int = FALSE], !.ret = ret]
  ELSE PutReturn(p, ret)

\* What __adf_iov_putmsg does with the last value it read.
PutOutcome(p, side, val, ret) ==
  IF IsNote(p.msg) /\ [val EXCEPT ![side].int = FALSE] # Acked(side, Sent(side, p.msg), FALSE)
  THEN PutReturn(p, "again")
  ELSE IF val[Other(side)].body = InUse
  THEN [p EXCEPT !.pc = "clear", !.val = [val EXCEPT ![side].int = FALSE], !.ret = ret]
  ELSE PutReturn(p, ret)

\* The interrupt bit is clear.
PutAcked(a) ==
  /\ put[a].pc = "wait"
  /\ ~csr[SideOf(a)].int
  /\ put' = [put EXCEPT ![a] = PutOutcome(@, SideOf(a), csr, "ok")]
  /\ UNCHANGED <<sc, csr, vfVars, respVars, vfIrq, tasklet, pfVars, noteVars, seen, early>>

\* Nobody is going to acknowledge a message of this side.
NoAckComing(side) ==
  IF side = "vf" THEN pfMasked /\ worker.pc = "idle"
                 ELSE ~vfIrq.on

\* The interrupt bit is still set after ADF_IOV_MSG_ACK_MAX_DELAY_US: -EIO.
PutTimeout(a) ==
  /\ put[a].pc = "wait"
  /\ csr[SideOf(a)].int
  /\ \/ NoAckComing(SideOf(a)) /\ UNCHANGED early
     \/ /\ "ack_timeout" \in Faults /\ early < MaxEarly
        /\ ~NoAckComing(SideOf(a)) /\ early' = early + 1
  /\ put' = [put EXCEPT ![a] = PutOutcome(@, SideOf(a), csr, "io")]
  /\ UNCHANGED <<sc, csr, vfVars, respVars, vfIrq, tasklet, pfVars, noteVars, seen>>

\* The in-use pattern was left: write the value that was read without it.
PutClear(a) ==
  /\ put[a].pc = "clear"
  /\ csr' = NoUse(SideOf(a), put[a].val)
  /\ put' = [put EXCEPT ![a] = PutReturn(@, @.ret)]
  /\ UNCHANGED <<sc, vfVars, respVars, vfIrq, tasklet, pfVars, noteVars, seen, early>>

PutStep(a) == PutCheck(a) \/ PutWrite(a) \/ PutAcked(a) \/ PutClear(a)

-----------------------------------------------------------------------------
(* The VF's thread. *)

Request == CASE vpc = "ver"  -> Msg("COMPAT_VER_REQ", VfVersion, 0)
             [] vpc = "blk"  -> Msg("BLOCK_REQ", vidx, 0)
             [] vpc = "crc"  -> Msg("BLOCK_CRC_REQ", vidx, 0)
             [] vpc = "init" -> Msg("INIT", 0, 0)
             [] vpc = "down" -> Msg("SHUTDOWN", 0, 0)

\* The thread goes on to its next message (or to a state without one).
Goto(pc, idx) == vpc' = pc /\ vstep' = "send" /\ vidx' = idx /\ vtries' = 0

\* adf_dev_shutdown tells the PF only if it believes the PF is running.
ShutdownStep == IF pfRunning THEN "down" ELSE "free"

\* adf_dev_init up to adf_enable_vf2pf_comms.
VfStart ==
  /\ vpc = "off" /\ lives < MaxLives
  /\ lives' = lives + 1
  /\ Goto("ver", 0)
  /\ buf' = <<>>
  /\ vfIrq' = [on |-> TRUE, masked |-> FALSE, sched |-> FALSE]
  /\ UNCHANGED <<sc, csr, put, pfRunning, stopWork, respVars, tasklet, pfVars, noteVars, seen,
                 early>>

\* The thread calls adf_iov_putmsg or adf_iov_notify.
VfSend ==
  /\ vpc \in {"ver", "blk", "crc", "init", "down"} /\ vstep = "send"
  /\ vstep' = "put"
  /\ put' = [put EXCEPT !["vf"] = PutCall(Request)]
  /\ UNCHANGED <<sc, csr, vpc, vidx, vtries, buf, lives, pfRunning, stopWork, respVars,
                 vfIrq, tasklet, pfVars, noteVars, seen, early>>

\* It returns.  A failed bring-up is undone by adf_dev_shutdown.
VfSent ==
  /\ vstep = "put" /\ put["vf"].pc = "done"
  /\ put' = [put EXCEPT !["vf"] = Idle]
  /\ \/ /\ vpc = "down"
        /\ Goto("free", 0) /\ UNCHANGED pfRunning
     \/ /\ vpc # "down" /\ put["vf"].ret # "ok"
        /\ Goto(ShutdownStep, 0) /\ UNCHANGED pfRunning
     \/ /\ vpc = "init" /\ put["vf"].ret = "ok"
        /\ Goto("up", 0) /\ pfRunning' = TRUE
     \/ /\ vpc \in {"ver", "blk", "crc"} /\ put["vf"].ret = "ok"
        /\ vstep' = "resp"
        /\ UNCHANGED <<vpc, vidx, vtries, pfRunning>>
  /\ UNCHANGED <<sc, csr, buf, lives, stopWork, respVars, vfIrq, tasklet, pfVars, noteVars,
                 seen, early>>

\* The VF's verdict on the PF's version; no compatibility checker is registered.
Compatible == pfSeen.compat \in {COMPATIBLE, COMPAT_UNKNOWN}

Payload(b) == IF b[2] < V3Length THEN b[2] ELSE V3Length

\* adf_iov_block_get with one more byte read.
NextByte(b) ==
  IF Len(b) < 2 \/ Len(b) - 2 < Payload(b)
  THEN Goto("blk", Len(b)) ELSE Goto("crc", Payload(b) + 1)

\* Mutant: the CRC is read and not compared.
VfResponse_NoCrc ==
  /\ vstep = "resp" /\ completion > 0
  /\ completion' = completion - 1
  /\ \/ /\ vpc = "ver" /\ Compatible
        /\ IF pfSeen.version >= Capabilities THEN Goto("blk", 0) ELSE Goto("init", 0)
        /\ UNCHANGED buf
     \/ /\ vpc = "blk" /\ vresp.type = "BLOCK_DATA"
        /\ buf' = Append(buf, vresp.byte)
        /\ NextByte(buf')
     \/ /\ vpc = "crc" /\ Payload(buf) >= V1Length
        /\ Goto("init", 0) /\ UNCHANGED buf
  /\ UNCHANGED <<sc, csr, put, lives, pfRunning, stopWork, vresp, pfSeen, vfIrq, tasklet,
                 pfVars, noteVars, seen, early>>

\* wait_for_completion_timeout takes a completion, whichever response gave it,
\* and the thread uses the response the tasklet stored last.
VfResponse ==
  /\ vstep = "resp" /\ completion > 0
  /\ completion' = completion - 1
  /\ \/ /\ vpc = "ver" /\ Compatible
        /\ IF pfSeen.version >= Capabilities THEN Goto("blk", 0) ELSE Goto("init", 0)
        /\ UNCHANGED buf
     \/ /\ vpc = "blk" /\ vresp.type = "BLOCK_DATA"
        /\ buf' = Append(buf, vresp.byte)
        /\ NextByte(buf')
     \/ /\ vpc = "crc" /\ vresp.type = "BLOCK_CRC" /\ vresp.byte = Crc(buf) /\ Payload(buf) >= V1Length
        /\ Goto("init", 0) /\ UNCHANGED buf
     \/ /\ \/ vpc = "ver" /\ ~Compatible
           \/ vpc = "blk" /\ vresp.type # "BLOCK_DATA"
           \/ vpc = "crc" /\ (vresp.type # "BLOCK_CRC" \/ vresp.byte # Crc(buf) \/ Payload(buf) < V1Length)
        /\ Goto(ShutdownStep, 0) /\ UNCHANGED buf
  /\ UNCHANGED <<sc, csr, put, lives, pfRunning, stopWork, vresp, pfSeen, vfIrq, tasklet,
                 pfVars, noteVars, seen, early>>

\* Neither the request nor a response to it is under way.
NoResponseComing ==
  /\ worker.pc = "idle" /\ (csr["vf"].int => pfMasked)
  /\ vfIrq.on => tasklet.pc = "idle" /\ ~vfIrq.sched /\ ~csr["pf"].int

\* Mutant: the request is sent again without end.
VfRespTimeout_Forever ==
  /\ vstep = "resp" /\ completion = 0
  /\ NoResponseComing
  /\ vstep' = "send"
  /\ UNCHANGED <<sc, csr, put, vpc, vidx, vtries, buf, lives, pfRunning, stopWork, respVars,
                 vfIrq, tasklet, pfVars, noteVars, seen, early>>

\* The wait times out: send the request again, or give up.
VfRespTimeout ==
  /\ vstep = "resp" /\ completion = 0
  /\ \/ NoResponseComing /\ UNCHANGED early
     \/ /\ "resp_timeout" \in Faults /\ early < MaxEarly
        /\ ~NoResponseComing /\ early' = early + 1
  /\ IF vtries + 1 < RespRetries
     THEN vstep' = "send" /\ vtries' = vtries + 1 /\ UNCHANGED <<vpc, vidx>>
     ELSE Goto(ShutdownStep, 0)
  /\ UNCHANGED <<sc, csr, put, buf, lives, pfRunning, stopWork, respVars, vfIrq, tasklet,
                 pfVars, noteVars, seen>>

\* The administrator stops the VF.
VfDown ==
  /\ vpc = "up"
  /\ Goto(ShutdownStep, 0)
  /\ UNCHANGED <<sc, csr, put, buf, lives, pfRunning, stopWork, respVars, vfIrq, tasklet,
                 pfVars, noteVars, seen, early>>

TaskletDone == tasklet.pc = "idle" /\ ~vfIrq.sched

\* adf_dev_shutdown frees the interrupt, after the tasklet.
VfFree ==
  /\ vpc = "free" /\ TaskletDone
  /\ Goto("off", 0)
  /\ vfIrq' = [vfIrq EXCEPT !.on = FALSE]
  /\ UNCHANGED <<sc, csr, put, buf, lives, pfRunning, stopWork, respVars, tasklet,
                 pfVars, noteVars, seen, early>>

\* adf_dev_stop_async, without a lock against the thread: it stops and shuts
\* down a VF that is up, takes the interrupt from one that is coming up, and
\* leaves one that is shutting down to its thread; last it unmasks the interrupt.
VfStopAsync ==
  /\ stopWork /\ (vpc \in {"ver", "blk", "crc", "init"} => TaskletDone)
  /\ stopWork' = FALSE
  /\ IF vpc = "up" THEN Goto(ShutdownStep, 0) ELSE UNCHANGED <<vpc, vstep, vidx, vtries>>
  /\ vfIrq' = [vfIrq EXCEPT !.masked = FALSE,
                            !.on = @ /\ vpc \notin {"ver", "blk", "crc", "init"}]
  /\ UNCHANGED <<sc, csr, put, buf, lives, pfRunning, respVars, tasklet,
                 pfVars, noteVars, seen, early>>

-----------------------------------------------------------------------------
(* The VF's interrupt and tasklet. *)

TaskletIdle == [pc |-> "idle", val |-> Clean]

\* adf_isr masks the interrupt and schedules the tasklet.
VfIsr ==
  /\ vfIrq.on /\ ~vfIrq.masked /\ csr["pf"].int
  /\ vfIrq' = [vfIrq EXCEPT !.masked = TRUE, !.sched = TRUE]
  /\ UNCHANGED <<sc, csr, put, vfVars, respVars, tasklet, pfVars, noteVars, seen, early>>

\* What adf_pf2vf_bh_handler does with the message m it read.
VfHandle(m) ==
  \/ /\ m.t = "RESTARTING"
     /\ pfRunning' = FALSE /\ stopWork' = TRUE
     /\ seen' = seen \cup {m.t}
     /\ UNCHANGED respVars
  \/ /\ m.t = "FATAL_ERROR"
     /\ seen' = seen \cup {m.t}
     /\ UNCHANGED <<pfRunning, stopWork, respVars>>
  \/ /\ m.t = "VERSION_RESP"
     /\ pfSeen' = [version |-> m.a, compat |-> m.b]
     /\ completion' = completion + 1
     /\ UNCHANGED <<pfRunning, stopWork, vresp, seen>>
  \/ /\ m.t \in BlockResps
     /\ vresp' = [type |-> m.t, byte |-> m.a]
     /\ completion' = completion + 1
     /\ UNCHANGED <<pfRunning, stopWork, pfSeen, seen>>

\* The tasklet runs: it reads the register and handles the message.
TaskletRead ==
  /\ vfIrq.sched /\ tasklet.pc = "idle" /\ csr["pf"].int
  /\ vfIrq' = [vfIrq EXCEPT !.sched = FALSE]
  /\ tasklet' = [pc |-> "ack", val |-> csr]
  /\ VfHandle(csr["pf"].body)
  /\ UNCHANGED <<sc, csr, put, vpc, vstep, vidx, vtries, buf, lives, pfVars, noteVars, early>>

\* The message was overwritten in the meantime, or there is no memory for the
\* stop work: no acknowledgement.
TaskletNoAck ==
  /\ vfIrq.sched /\ tasklet.pc = "idle"
  /\ \/ ~csr["pf"].int /\ UNCHANGED pfRunning
     \/ /\ "nomem" \in Faults /\ csr["pf"].int /\ csr["pf"].body.t = "RESTARTING"
        /\ pfRunning' = FALSE
  /\ vfIrq' = [vfIrq EXCEPT !.sched = FALSE, !.masked = FALSE]
  /\ UNCHANGED <<sc, csr, put, vpc, vstep, vidx, vtries, buf, lives, stopWork, respVars,
                 tasklet, pfVars, noteVars, seen, early>>

\* It acknowledges what it read, whatever is in the register now, and unmasks.
TaskletAck ==
  /\ tasklet.pc = "ack"
  /\ csr' = Acked("pf", tasklet.val,
                  pfSeen.version >= FastAck /\ ~IsNote(tasklet.val["pf"].body))
  /\ tasklet' = TaskletIdle
  /\ vfIrq' = [vfIrq EXCEPT !.masked = FALSE]
  /\ UNCHANGED <<sc, put, vfVars, respVars, pfVars, noteVars, seen, early>>

-----------------------------------------------------------------------------
(* The PF's interrupt, worker and notifier. *)

WorkerIdle == [pc |-> "idle", val |-> Clean, resp |-> None]

\* adf_handle_vf2pf_int masks the VF's interrupt; adf_vf2pf_bh_handler queues
\* the worker.
PfIsr ==
  /\ csr["vf"].int /\ ~pfMasked
  /\ pfMasked' = TRUE
  /\ worker' = [WorkerIdle EXCEPT !.pc = "read"]
  /\ UNCHANGED <<sc, csr, put, vfVars, respVars, vfIrq, tasklet, vfInfo, noteVars, seen, early>>

\* The interrupts of this VF exceed the rate limit, or there is no memory for
\* the work: the mask stays.
PfIsrDrop ==
  /\ Faults \cap {"ratelimit", "nomem"} # {}
  /\ csr["vf"].int /\ ~pfMasked
  /\ pfMasked' = TRUE
  /\ UNCHANGED <<sc, csr, put, vfVars, respVars, vfIrq, tasklet, worker, vfInfo, noteVars,
                 seen, early>>

\* The PF's verdict on the VF's version; no compatibility checker is registered.
Verdict(version) == IF version <= PfVersion THEN COMPATIBLE ELSE COMPAT_UNKNOWN

\* Mutant: one byte off in the provider's buffer.
BlockByte_OffByOne(i) == IF i >= Block[2] + 2 THEN Msg("BLOCK_ERROR", 0, 0)
                         ELSE Msg("BLOCK_DATA", Block[IF i < 2 THEN i + 1 ELSE i], 0)

\* adf_iov_block_get_data: byte i of the block, or the CRC of all before it.
BlockByte(i) == IF i >= Block[2] + 2 THEN Msg("BLOCK_ERROR", 0, 0)
                                     ELSE Msg("BLOCK_DATA", Block[i + 1], 0)
BlockCrc(i) == IF i >= Block[2] + 2 THEN Msg("BLOCK_ERROR", 0, 0)
                                    ELSE Msg("BLOCK_CRC", Crc(SubSeq(Block, 1, i + 1)), 0)

Response(m) == CASE m.t = "COMPAT_VER_REQ" -> Msg("VERSION_RESP", PfVersion, Verdict(m.a))
                 [] m.t = "BLOCK_REQ"      -> BlockByte(m.a)
                 [] m.t = "BLOCK_CRC_REQ"  -> BlockCrc(m.a)
                 [] OTHER                  -> None

\* Mutant: the VF's version is not recorded.
WorkerRead_NoVersion ==
  /\ worker.pc = "read" /\ csr["vf"].int
  /\ LET m == csr["vf"].body
     IN  /\ worker' = [pc |-> "ack", val |-> csr, resp |-> Response(m)]
         /\ vfInfo' = [vfInfo EXCEPT !.init = IF m.t \in VfNotes THEN m.t = "INIT" ELSE @]
  /\ UNCHANGED <<sc, csr, put, vfVars, respVars, vfIrq, tasklet, pfMasked, noteVars, seen, early>>

\* adf_vf2pf_req_hndl reads the message and handles it.
WorkerRead ==
  /\ worker.pc = "read" /\ csr["vf"].int
  /\ LET m == csr["vf"].body
     IN  /\ worker' = [pc |-> "ack", val |-> csr, resp |-> Response(m)]
         /\ vfInfo' = [init |-> IF m.t \in VfNotes THEN m.t = "INIT" ELSE vfInfo.init,
                       compat_ver |-> IF m.t = "COMPAT_VER_REQ" THEN m.a ELSE vfInfo.compat_ver]
  /\ UNCHANGED <<sc, csr, put, vfVars, respVars, vfIrq, tasklet, pfMasked, noteVars, seen, early>>

\* Mutant: the early return skips the unmasking.
WorkerSpurious_Masked ==
  /\ worker.pc = "read" /\ ~csr["vf"].int
  /\ worker' = WorkerIdle
  /\ UNCHANGED <<sc, csr, put, vfVars, respVars, vfIrq, tasklet, pfMasked, vfInfo, noteVars,
                 seen, early>>

\* The message was overwritten in the meantime.
WorkerSpurious ==
  /\ worker.pc = "read" /\ ~csr["vf"].int
  /\ worker' = WorkerIdle
  /\ pfMasked' = FALSE
  /\ UNCHANGED <<sc, csr, put, vfVars, respVars, vfIrq, tasklet, vfInfo, noteVars, seen, early>>

\* It acknowledges what it read, then calls adf_iov_putmsg if it has a response.
WorkerAck ==
  /\ worker.pc = "ack"
  /\ csr' = Acked("vf", worker.val,
                  vfInfo.compat_ver >= FastAck /\ ~IsNote(worker.val["vf"].body))
  /\ IF worker.resp = None
     THEN worker' = [WorkerIdle EXCEPT !.pc = "unmask"] /\ UNCHANGED put
     ELSE /\ worker' = [WorkerIdle EXCEPT !.pc = "put"]
          /\ put' = [put EXCEPT !["pfw"] = PutCall(worker.resp)]
  /\ UNCHANGED <<sc, vfVars, respVars, vfIrq, tasklet, pfMasked, vfInfo, noteVars, seen, early>>

\* It unmasks the VF's interrupt, whether or not the response was sent.
WorkerUnmask ==
  /\ \/ worker.pc = "unmask" /\ UNCHANGED put
     \/ /\ worker.pc = "put" /\ put["pfw"].pc = "done"
        /\ put' = [put EXCEPT !["pfw"] = Idle]
  /\ worker' = WorkerIdle
  /\ pfMasked' = FALSE
  /\ UNCHANGED <<sc, csr, vfVars, respVars, vfIrq, tasklet, vfInfo, noteVars, seen, early>>

\* The message that the VF's tasklet has handled and is about to acknowledge: the
\* acknowledgement is the same for a notification sent again meanwhile.
Handling == IF tasklet.pc = "ack" THEN {tasklet.val["pf"].body.t} ELSE {}

\* adf_pf2vf_notify_restarting and adf_pf2vf_notify_fatal_error, for a VF that
\* has said INIT.
NotifyStart(n) ==
  /\ note = "none" /\ notes < MaxNotes /\ vfInfo.init
  /\ note' = n /\ notes' = notes + 1
  /\ put' = [put EXCEPT !["pfn"] = PutCall(Msg(n, 0, 0))]
  /\ seen' = (seen \ {n}) \cup ({n} \cap Handling)
  /\ UNCHANGED <<sc, csr, vfVars, respVars, vfIrq, tasklet, pfVars, early>>

NotifyDone ==
  /\ put["pfn"].pc = "done"
  /\ note' = "none"
  /\ put' = [put EXCEPT !["pfn"] = Idle]
  /\ UNCHANGED <<sc, csr, vfVars, respVars, vfIrq, tasklet, pfVars, notes, seen, early>>

-----------------------------------------------------------------------------
(* The specification. *)

\* The guest is killed: its driver is gone, and the PF is not told.
VfCrash ==
  /\ "crash" \in Faults /\ vpc # "off" /\ lives < MaxLives
  /\ Goto("off", 0)
  /\ buf' = <<>> /\ pfRunning' = FALSE /\ stopWork' = FALSE
  /\ completion' = 0 /\ vresp' = [type |-> "none", byte |-> 0]
  /\ pfSeen' = [version |-> 0, compat |-> 0]
  /\ vfIrq' = [on |-> FALSE, masked |-> TRUE, sched |-> FALSE]
  /\ tasklet' = TaskletIdle
  /\ put' = [put EXCEPT !["vf"] = Idle]
  /\ UNCHANGED <<sc, csr, lives, pfVars, noteVars, seen, early>>

\* The VF driver is not loaded.  adf_enable_sriov has cleared the PF's record of
\* the VF, which an earlier guest may have filled since and left as it was.
Init ==
  /\ sc \in Scenarios
  /\ csr = Clean
  /\ put = [a \in Agents |-> Idle]
  /\ vpc = "off" /\ vstep = "send" /\ vidx = 0 /\ vtries = 0
  /\ buf = <<>> /\ lives = 0 /\ pfRunning = FALSE /\ stopWork = FALSE
  /\ completion = 0 /\ vresp = [type |-> "none", byte |-> 0]
  /\ pfSeen = [version |-> 0, compat |-> 0]
  /\ vfIrq = [on |-> FALSE, masked |-> TRUE, sched |-> FALSE]
  /\ tasklet = TaskletIdle
  /\ pfMasked = FALSE /\ worker = WorkerIdle
  /\ vfInfo \in {[init |-> FALSE, compat_ver |-> 0], [init |-> TRUE, compat_ver |-> VfVersion]}
  /\ note = "none" /\ notes = 0 /\ seen = {} /\ early = 0

VfThread == VfSend \/ VfSent \/ VfResponse \/ VfFree \/ VfStopAsync
Tasklet == VfIsr \/ TaskletRead \/ TaskletNoAck \/ TaskletAck
Worker == WorkerRead \/ WorkerSpurious \/ WorkerAck \/ WorkerUnmask

Next ==
  \/ VfStart \/ VfThread \/ VfRespTimeout \/ VfDown \/ VfCrash
  \/ Tasklet
  \/ PfIsr \/ PfIsrDrop \/ Worker
  \/ \E n \in PfNotes : NotifyStart(n)
  \/ NotifyDone
  \/ \E a \in Agents : PutStep(a) \/ PutTimeout(a)

Spec == Init /\ [][Next]_vars

\* Threads, work items, tasklets and interrupts are scheduled, and the waits are
\* bounded.  Nothing makes the administrator or the PF's notifier act.
Fairness ==
  /\ WF_vars(VfThread) /\ WF_vars(VfRespTimeout)
  /\ WF_vars(Tasklet) /\ WF_vars(PfIsr) /\ WF_vars(Worker) /\ WF_vars(NotifyDone)
  /\ \A a \in Agents : WF_vars(PutStep(a)) /\ WF_vars(PutTimeout(a))
FairSpec == Spec /\ Fairness

-----------------------------------------------------------------------------
(* Properties. *)

\* A notification for which adf_iov_notify returns 0 took effect on the other
\* side, although either side's message may wipe out the other's: the PF knows
\* whether the VF is up, the VF has handled what the PF announced, if not since
\* then in a run of its tasklet that had yet to acknowledge the same message.
NotificationHandled ==
  \A a \in Agents : put[a].pc = "done" /\ put[a].ret = "ok" =>
    LET t == put[a].msg.t
    IN  /\ t \in VfNotes => vfInfo.init = (t = "INIT")
        /\ t \in PfNotes => t \in seen

\* A VF that is up is known to the PF: adf_vf2pf_init returned 0 only after the
\* PF set vf_info->init.
UpIsKnown == vpc = "up" => vfInfo.init

\* adf_iov_block_get returns 0 only with the PF's block, however responses were
\* delayed: the CRC rejects one put together from late answers.
BlockIntegrity ==
  vpc \in {"init", "up"} /\ pfSeen.version >= Capabilities => buf = Block

\* A VF past the version exchange knows the PF's version and is known by its own.
VersionsAgreed ==
  vpc \in {"blk", "crc", "init", "up"}
    => pfSeen.version = PfVersion /\ vfInfo.compat_ver = VfVersion

\* A scenario in which every answer is in time and the PF sends nothing of its own.
AllInTime == sc.faults = {} /\ sc.notes = 0

\* The in-use pattern stands in the register only while its owner is in
\* __adf_iov_putmsg, so no side is locked out.
InUseOwned ==
  AllInTime => \A side \in Sides : csr[Other(side)].body = InUse
    => \E a \in Agents : SideOf(a) = side /\ put[a].pc \in {"wait", "clear"}

\* The VF's wait is ended by the response to the request it sent.
ResponseFits ==
  AllInTime /\ vstep = "resp" /\ completion > 0
    => /\ completion = 1
       /\ vpc = "blk" => vresp = [type |-> "BLOCK_DATA", byte |-> Block[vidx + 1]]

\* A message is not written over one that is not yet acknowledged.
NoOverwrite ==
  [][\A a \in Agents : AllInTime /\ PutWrite(a) => ~csr[Other(SideOf(a))].int]_vars

\* Every bring-up ends: the VF is up, or it is off again.
BringUpEnds == (vpc = "ver") ~> (vpc \in {"up", "off"})

\* The PF always comes back to listen to the VF.
InterruptsComeBack == pfMasked ~> ~pfMasked

=============================================================================
