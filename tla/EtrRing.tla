------------------------------- MODULE EtrRing -------------------------------
(***************************************************************************)
(* A request ring and its response ring as the kernel transport drives     *)
(* them (adf_transport.c): adf_send_message on any number of threads, the  *)
(* device that fetches requests and writes responses, and the one handler  *)
(* of the response ring (the bank's tasklet, or adf_poll_bank under the    *)
(* bank lock) that runs adf_handle_response.                               *)
(*                                                                         *)
(* The two rings share one atomic counter, inflights.  Nothing else tells  *)
(* a sender whether its slot is free or tells the device that its response *)
(* slot has been read: the device is not assumed to check for room.        *)
(***************************************************************************)
EXTENDS Integers, FiniteSets

CONSTANTS Senders,   \* threads that call adf_send_message
          Msgs,      \* request identities (opaque_data), reused once completed
          Empty,     \* ADF_RING_EMPTY_SIG
          TxSlots,   \* messages the request ring holds
          RxSlots,   \* messages the response ring holds
          Quotas     \* quotas adf_poll_bank is called with, 0 is "no quota"

\* adf_create_ring refuses a ring whose max_inflights is below 2; both rings
\* of a pair are created with the same num_msgs.
ASSUME RingAssumption ==
  /\ TxSlots \in Nat /\ RxSlots \in Nat
  /\ TxSlots >= 3 /\ RxSlots >= TxSlots
ASSUME MsgAssumption == Empty \notin Msgs
ASSUME FiniteAssumption == IsFiniteSet(Senders) /\ IsFiniteSet(Msgs)
ASSUME QuotaAssumption == Quotas \subseteq Nat

VARIABLES
  inflights, \* *ring->inflights, shared by the two rings
  sender,    \* where each thread is in adf_send_message
  sending,   \* the message it passed
  txMem,     \* the requests in the request ring's memory not yet fetched
  txTail,    \* ring->tail of the request ring and its CSR tail
  txHead,    \* the device's read position
  engine,    \* requests fetched by the device and not yet answered
  rxMem,     \* the response ring's memory
  rxTail,    \* the device's write position
  rxHead,    \* ring->head of the response ring
  csrHead,   \* the response ring's head CSR
  handler,   \* where adf_handle_response is
  quota,     \* its quota
  counter,   \* its msg_counter
  irq,       \* the ring's bit in INT_COL_EN, "on" or "off"; or the ring is "polled"
  live       \* requests copied to the ring whose callback has not run

txVars == <<txMem, txTail, txHead>>
rxVars == <<rxMem, rxTail, rxHead, csrHead>>
hndVars == <<handler, quota, counter, irq>>
vars == <<inflights, sender, sending, txVars, engine, rxVars, hndVars, live>>

TxIndex == 0 .. TxSlots - 1
RxIndex == 0 .. RxSlots - 1

\* Positions wrap at the ring size.
adf_modulo(data, size) == data % size

\* The most requests a pair may have in flight: one less than it has slots.
ADF_MAX_INFLIGHTS(size) == size - 1
max_inflights == ADF_MAX_INFLIGHTS(TxSlots)

\* Ring status CSR: the device finds the response ring not empty.
E_STAT_NotEmpty == rxTail # csrHead

-----------------------------------------------------------------------------
\* adf_create_ring for the two rings: positions 0, memory filled with 0x7F.
Init ==
  /\ inflights = 0
  /\ sender = [s \in Senders |-> "idle"]
  /\ sending = [s \in Senders |-> Empty]
  /\ txMem = [i \in TxIndex |-> Empty] /\ txTail = 0 /\ txHead = 0
  /\ engine = {}
  /\ rxMem = [i \in RxIndex |-> Empty]
  /\ rxTail = 0 /\ rxHead = 0 /\ csrHead = 0
  /\ handler = "idle" /\ quota = 0 /\ counter = 0
  /\ irq \in {"polled", "on"}
  /\ live = {}

\* Mutant: the limit is not tested.
SendReserve_NoTest(s, m) ==
  /\ sender[s] = "idle"
  /\ m \notin live /\ \A t \in Senders : sending[t] # m
  /\ inflights' = inflights + 1
  /\ sender' = [sender EXCEPT ![s] = "claimed"]
  /\ sending' = [sending EXCEPT ![s] = m]
  /\ UNCHANGED <<txVars, engine, rxVars, hndVars, live>>

\* adf_send_message takes one of the inflights, then looks whether it was too
\* many.
SendReserve(s, m) ==
  /\ sender[s] = "idle"
  /\ m \notin live /\ \A t \in Senders : sending[t] # m
  /\ inflights' = inflights + 1
  /\ sender' = [sender EXCEPT ![s] =
                  IF inflights + 1 > max_inflights THEN "over" ELSE "claimed"]
  /\ sending' = [sending EXCEPT ![s] = m]
  /\ UNCHANGED <<txVars, engine, rxVars, hndVars, live>>

\* Mutant: the refused message stays counted.
SendBackOff_NoDec(s) ==
  /\ sender[s] = "over"
  /\ sender' = [sender EXCEPT ![s] = "idle"]
  /\ sending' = [sending EXCEPT ![s] = Empty]
  /\ UNCHANGED <<inflights, txVars, engine, rxVars, hndVars, live>>

\* It was: give it back and return -EAGAIN.
SendBackOff(s) ==
  /\ sender[s] = "over"
  /\ inflights' = inflights - 1
  /\ sender' = [sender EXCEPT ![s] = "idle"]
  /\ sending' = [sending EXCEPT ![s] = Empty]
  /\ UNCHANGED <<txVars, engine, rxVars, hndVars, live>>

\* It was not: copy the message at the tail and publish the new tail, under
\* ring->lock.
SendCopy(s) ==
  /\ sender[s] = "claimed"
  /\ txMem' = [txMem EXCEPT ![txTail] = sending[s]]
  /\ txTail' = adf_modulo(txTail + 1, TxSlots)
  /\ live' = live \cup {sending[s]}
  /\ sender' = [sender EXCEPT ![s] = "idle"]
  /\ sending' = [sending EXCEPT ![s] = Empty]
  /\ UNCHANGED <<inflights, txHead, engine, rxVars, hndVars>>

\* The device fetches the request at its read position.  The bytes stay in the
\* ring, but nobody reads them again: the slot counts as empty.
HwFetch ==
  /\ txHead # txTail
  /\ engine' = engine \cup {txMem[txHead]}
  /\ txMem' = [txMem EXCEPT ![txHead] = Empty]
  /\ txHead' = adf_modulo(txHead + 1, TxSlots)
  /\ UNCHANGED <<inflights, sender, sending, txTail, rxVars, hndVars, live>>

\* The device answers a request, in any order, at its write position.
HwRespond(m) ==
  /\ m \in engine
  /\ engine' = engine \ {m}
  /\ rxMem' = [rxMem EXCEPT ![rxTail] = m]
  /\ rxTail' = adf_modulo(rxTail + 1, RxSlots)
  /\ UNCHANGED <<inflights, sender, sending, txVars, rxHead, csrHead, hndVars, live>>

\* adf_poll_bank finds the ring not empty and calls adf_handle_response.
PollStart(q) ==
  /\ irq = "polled" /\ handler = "idle" /\ E_STAT_NotEmpty
  /\ handler' = "loop" /\ quota' = q /\ counter' = 0
  /\ UNCHANGED <<inflights, sender, sending, txVars, engine, rxVars, irq, live>>

\* The bundle's interrupt masks itself and schedules the tasklet, which finds
\* the ring not empty and calls adf_handle_response without a quota.
IrqStart ==
  /\ irq = "on" /\ handler = "idle" /\ E_STAT_NotEmpty
  /\ irq' = "off"
  /\ handler' = "loop" /\ quota' = 0 /\ counter' = 0
  /\ UNCHANGED <<inflights, sender, sending, txVars, engine, rxVars, live>>

\* adf_handle_response: there is a response and the quota is not used up, so
\* its callback runs.
HandleCallback ==
  /\ handler = "loop"
  /\ rxMem[rxHead] # Empty
  /\ quota = 0 \/ counter < quota
  /\ live' = live \ {rxMem[rxHead]}
  /\ handler' = "dec"
  /\ UNCHANGED <<inflights, sender, sending, txVars, engine, rxVars,
                 quota, counter, irq>>

HandleDec ==
  /\ handler = "dec"
  /\ inflights' = inflights - 1
  /\ handler' = "mark"
  /\ UNCHANGED <<sender, sending, txVars, engine, rxVars, quota, counter, irq, live>>

\* Without a quota only whether the counter is positive matters.
HandleMark ==
  /\ handler = "mark"
  /\ rxMem' = [rxMem EXCEPT ![rxHead] = Empty]
  /\ rxHead' = adf_modulo(rxHead + 1, RxSlots)
  /\ counter' = IF quota = 0 THEN 1 ELSE counter + 1
  /\ handler' = "loop"
  /\ UNCHANGED <<inflights, sender, sending, txVars, engine, rxTail, csrHead,
                 quota, irq, live>>

\* No response is left, or the quota is used up: tell the device how far the
\* ring was read.
HandleExit ==
  /\ handler = "loop"
  /\ rxMem[rxHead] = Empty \/ (quota # 0 /\ counter >= quota)
  /\ csrHead' = IF counter > 0 THEN rxHead ELSE csrHead
  /\ handler' = IF irq = "polled" THEN "idle" ELSE "irq"
  /\ UNCHANGED <<inflights, sender, sending, txVars, engine, rxMem, rxTail, rxHead,
                 quota, counter, irq, live>>

\* Mutant: the interrupt stays off.
IrqEnable_Off ==
  /\ handler = "irq"
  /\ handler' = "idle"
  /\ UNCHANGED <<inflights, sender, sending, txVars, engine, rxVars,
                 quota, counter, irq, live>>

\* adf_response_handler re-enables the interrupt.
IrqEnable ==
  /\ handler = "irq"
  /\ irq' = "on"
  /\ handler' = "idle"
  /\ UNCHANGED <<inflights, sender, sending, txVars, engine, rxVars,
                 quota, counter, live>>

Send(s) == (\E m \in Msgs : SendReserve(s, m)) \/ SendBackOff(s) \/ SendCopy(s)
Device == HwFetch \/ \E m \in Msgs : HwRespond(m)
Handler == (\E q \in Quotas : PollStart(q)) \/ IrqStart \/ HandleCallback
           \/ HandleDec \/ HandleMark \/ HandleExit \/ IrqEnable

Next == (\E s \in Senders : Send(s)) \/ Device \/ Handler

Spec == Init /\ [][Next]_vars

\* A thread inside adf_send_message goes on, the device fetches and answers
\* everything it was given, and the handler runs whenever it can (interrupts
\* are delivered, a polled instance is polled).
Fairness ==
  /\ \A s \in Senders : WF_vars(SendBackOff(s) \/ SendCopy(s))
  /\ WF_vars(HwFetch)
  /\ \A m \in Msgs : WF_vars(HwRespond(m))
  /\ WF_vars(Handler)

FairSpec == Spec /\ Fairness

-----------------------------------------------------------------------------
\* The state is well formed; in particular every ring position stays in its ring.
TypeOK ==
  /\ inflights \in Nat
  /\ sender \in [Senders -> {"idle", "over", "claimed"}]
  /\ sending \in [Senders -> Msgs \cup {Empty}]
  /\ txMem \in [TxIndex -> Msgs \cup {Empty}]
  /\ txTail \in TxIndex /\ txHead \in TxIndex
  /\ engine \subseteq Msgs
  /\ rxMem \in [RxIndex -> Msgs \cup {Empty}]
  /\ rxTail \in RxIndex /\ rxHead \in RxIndex /\ csrHead \in RxIndex
  /\ handler \in {"idle", "loop", "dec", "mark", "irq"}
  /\ quota \in Nat /\ counter \in Nat /\ irq \in {"polled", "on", "off"}
  /\ live \subseteq Msgs

Claimed == {s \in Senders : sender[s] = "claimed"}
Over == {s \in Senders : sender[s] = "over"}
TxUsed == {i \in TxIndex : txMem[i] # Empty}
RxUsed == {i \in RxIndex : rxMem[i] # Empty}

\* adf_send_message never overwrites a request the device has not fetched, and
\* never lets the tail reach the device's head (which reads as an empty ring):
\* every thread past the inflights test has a slot to write.
RequestSlotFree ==
  Claimed # {} => /\ txMem[txTail] = Empty
                  /\ adf_modulo(txTail + 1, TxSlots) # txHead

\* The device never writes a response over one that adf_handle_response has not
\* marked empty, although inflights is decremented before the slot is marked:
\* the slot that max_inflights leaves unused pays for it.
ResponseSlotFree == engine # {} => rxMem[rxTail] = Empty

\* Responses whose callback is still to run.
RxUnread == RxUsed \ (IF handler \in {"dec", "mark"} THEN {rxHead} ELSE {})
InTx == {txMem[i] : i \in TxUsed}
InRx == {rxMem[i] : i \in RxUnread}

\* No request is lost or answered twice: every request the driver accepted and
\* has not called back is in exactly one of the two rings or the device, and
\* what they hold is exactly those.
EachRequestOnce ==
  /\ live = InTx \cup engine \cup InRx
  /\ Cardinality(live) = Cardinality(TxUsed) + Cardinality(engine) + Cardinality(RxUnread)

\* No missed response: while the handler of an idle ring is not running, an
\* unread response shows in the status CSR, and the interrupt that would start
\* the tasklet is enabled.
NoMissedResponse ==
  handler = "idle" /\ RxUsed # {} => E_STAT_NotEmpty /\ irq # "off"

\* The ring pair is a bounded service (accept: the message reaches the ring;
\* complete: its callback runs).
Service == INSTANCE BoundedService
             WITH Capacity <- max_inflights, outstanding <- live

\* adf_send_message and adf_handle_response implement the bounded service: never
\* more than max_inflights outstanding, callbacks only for outstanding requests.
ServiceSpec == Service!Spec

\* Request m, once accepted, is called back.
RequestCompletes(m) == m \in live ~> m \notin live

-----------------------------------------------------------------------------
(* The inductive invariant behind the invariants above (EtrRing_proof). *)

\* Distance from position head to position i of a ring of n slots.
Off(head, i, n) == IF i >= head THEN i - head ELSE i - head + n

\* The used slots are the ones from head up to tail.
RingShape(used, head, tail, n) ==
  LET k == Cardinality(used)
  IN  /\ k <= n
      /\ \A i \in 0 .. n - 1 : i \in used <=> Off(head, i, n) < k
      /\ Off(head, tail, n) = IF k = n THEN 0 ELSE k

ShapeInv ==
  /\ RingShape(TxUsed, txHead, txTail, TxSlots)
  /\ RingShape(RxUsed, rxHead, rxTail, RxSlots)
  /\ handler \in {"dec", "mark"} => rxHead \in RxUsed

\* Slots spoken for: by a sender past the test, or by a message.  The response
\* whose inflight is given back but whose slot is not yet marked is not counted.
Busy == Cardinality(Claimed) + Cardinality(TxUsed) + Cardinality(engine)
        + Cardinality(RxUsed) - (IF handler = "mark" THEN 1 ELSE 0)

CountInv ==
  /\ inflights = Busy + Cardinality(Over)
  /\ Busy <= max_inflights

SenderInv ==
  /\ \A s \in Senders : (sending[s] = Empty <=> sender[s] = "idle") /\ sending[s] \notin live
  /\ \A s, t \in Senders : s # t /\ sending[s] = sending[t] => sending[s] = Empty

PlaceInv ==
  /\ \A i, j \in TxUsed : txMem[i] = txMem[j] => i = j
  /\ \A i, j \in RxUnread : rxMem[i] = rxMem[j] => i = j
  /\ \A i \in TxUsed : txMem[i] \notin engine /\ \A j \in RxUnread : txMem[i] # rxMem[j]
  /\ \A j \in RxUnread : rxMem[j] \notin engine

HandlerInv ==
  /\ handler \in {"idle", "irq"} \/ counter = 0 => csrHead = rxHead
  /\ handler = "idle" => irq # "off"

\* Why the invariants above hold: each used part of a ring is contiguous,
\* inflights counts exactly the slots spoken for and the threads backing off, no
\* message is in two places, and the head CSR lags only inside the handler.
IndInv == TypeOK /\ ShapeInv /\ CountInv /\ SenderInv /\ PlaceInv /\ EachRequestOnce /\ HandlerInv

=============================================================================
