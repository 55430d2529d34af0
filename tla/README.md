# A verification project for the QuickAssist (QAT) driver

TLA+ models of the parts of this repository that are hard to test: what happens
when threads, interrupts, virtual functions, work items and processes interleave.
Every module is translated from the C sources; the line ranges are in
`PROJECT.json` ("map").  `qat_common/` below is
`quickassist/qat/drivers/crypto/qat/qat_common/`, and `access_layer/` is
`quickassist/lookaside/access_layer/src/`.

## The system and its parts

| part | code | state | what makes it hard |
|---|---|---|---|
| transport rings | `qat_common/adf_transport.c` | request and response ring memory, head, tail, `inflights`, interrupt mask | many senders, one handler, a device; one counter says which slots are free |
| PF-VF mailbox | `adf_pf2vf_msg.c`, `adf_vf2pf_msg.c`, `adf_vf_isr.c`, `adf_sriov.c`, `adf_isr.c` | one register both sides overwrite, completion, interrupt masks, VF record | no atomic update, no lock between the sides, late answers, guests that die |
| device lifecycle, reset, SR-IOV | `adf_init.c`, `adf_ctl_drv.c`, `adf_aer.c`, `adf_sriov.c` | status bits, per-service masks, reset record, VF records, reference count | partial failure; callers that share no lock; a timeout that races the worker |
| device table | `adf_dev_mgr.c` | device list, real and fake VF numbers | devices come and go in any order |
| start of user processes | `adf_dev_processes.c`, `access_layer/user/sal_user.c`, `access_layer/qat_direct/src/adf_process_proxy.c` | sections owned by processes, start count and its lock | threads, forks, processes that die |
| services of a process | `access_layer/common/ctrl/`, `uio_user_device.c`, `adf_user_init.c` | instances, the container kept over a reset, events | events polled late or lost |
| UIO bundles | `adf_uio.c`, `adf_uio_cleanup.c`, `adf_user_transport_ctrl.c`, `uio_user_ring.c` | ring masks of a bundle, its users, the bank's registers | processes that die, orphaned rings |
| cookie pools | `access_layer/common/utils/lac_mem_pools.c` | lock-free stack | the ABA pattern |
| symmetric sessions | `access_layer/common/crypto/sym/` | request queue, pending callbacks | unlocked tests, drains |
| compression sessions | `access_layer/common/compression/` | pending counts, type of the next request | failure paths, resets with requests in flight |
| kernel shim, admin, heartbeat, USDM | see `PROJECT.json` | | not modelled |
| configuration, firmware loader, algorithms, OSAL, tools | see `PROJECT.json` | tables, registers | sequential code; not modelled |

How they interact: the access layer and the kernel crypto glue format requests and
send them over ring pairs; the ring handler calls back.  A VF driver comes up by
talking to the PF through the mailbox; the PF tells its VFs through the mailbox when
it restarts or failed.  Reset and SR-IOV changes stop and start the whole device,
which creates and removes the rings.

## Modules

### `EtrRing` - the ring pair (`adf_transport.c`)

Variables: `inflights`; per sending thread where it is in `adf_send_message`; the
request ring (memory, tail, the device's head); the requests inside the device; the
response ring (memory, the device's tail, `ring->head`, the head CSR); the handler's
place in `adf_handle_response`, its quota and counter; `irq`, which says that the ring is
polled or else whether its interrupt is enabled.
`live` is history: requests copied to the ring whose callback has not run.

`SendReserve`, `SendBackOff` and `SendCopy` are the three steps of
`adf_send_message`: the atomic increment with its test, the decrement of a refused
message, and the copy at the tail under `ring->lock`.  `PollStart` is
`adf_poll_bank`, `IrqStart` the interrupt and tasklet, and `HandleCallback`,
`HandleDec`, `HandleMark`, `HandleExit`, `IrqEnable` the steps of
`adf_handle_response` and `adf_response_handler` in the order of the code: the
inflight is given back before the slot is marked empty.  The device (`HwFetch`,
`HwRespond`) is external: it fetches in order and answers in any order, and does not
check for room in the response ring - nothing in the driver relies on such a check.

`BoundedService` is what the pair promises: a set of outstanding requests, at most
`max_inflights`, accepted once and completed once.

### `PfVf` - the mailbox (`adf_pf2vf_msg.c` and around it)

The register is two halves, each a message and an interrupt bit.  A sender writes
both at once: its message in its half and an in-use pattern in the other.
`put` is each sender's place in `adf_iov_put` / `__adf_iov_putmsg` (check, write,
wait for the acknowledgement, clear the pattern, retry); the senders are the VF's
thread, the PF's response worker and a PF thread that sends notifications.  The VF's
thread runs `adf_dev_init` (version exchange, capability block byte by byte, CRC,
INIT) and `adf_dev_shutdown`; its interrupt and tasklet run `adf_isr` and
`adf_pf2vf_bh_handler`; the PF's side is `adf_handle_vf2pf_int`,
`adf_vf2pf_bh_handler` and `adf_vf2pf_req_hndl`.  Reads and writes of the register
are separate steps everywhere.

A timeout may strike when no answer is on its way, and, as a fault, before one that
is.  The other faults are a failed allocation, the interrupt rate limit and a
guest that is killed.  A scenario (versions, faults, bounds) is chosen in the first
state and kept.

Not in the model: the messages of peers older than the version exchange
(`VERSION_REQ`, non-system origin) and registered compatibility checkers.  A stop
work item that finds the VF's own shutdown under way is left to that shutdown.

### `PfVfCrc` - the CRC of the capability block

The driver's table, the loop over it and, as assumptions TLC evaluates, that every
entry of the table is the remainder of a bitwise division by
x^8+x^7+x^4+x^2+x+1 (`TableDivides`), and that the table is a permutation, so that
one changed byte is always detected (`OneByteDetected`).  `MCPfVf` gives PfVf this
CRC.

### `MemPool` - a pool of cookies (`lac_mem_pools.c`, `lac_lock_free_stack.h`)

`top` is the word that the stack swaps (a pointer and a counter), `pNext` the links,
`availBlks` the counter of the pool header; each thread has its place in
`Lac_MemPoolEntryAlloc` or `Lac_MemPoolEntryFree` and its `old_top`, `new_top.ptr` and
block.  One action per access to shared memory: reading the top, reading or writing
`pNext`, the compare-and-swap that succeeds or fails, the update of `availBlks`.
Creation, its failure half way, and destruction are single-threaded:
`lac_mem_pools.h` marks both as not thread safe.  `free` (the blocks of the stack in order) and `age` (how many swaps
a thread's snapshot is old) are auxiliary.

The counter has 16 bits: a thread that sleeps between its read and its swap while a
multiple of 65536 swaps go by cannot tell.  `Stall < CtrMod` is that scheduling
assumption, stated as an assumption on constants and used as a guard.

`BlockPool` is what the pool promises: blocks are taken and given back in single
events.  The pool table (which slot of `lac_mem_pools` a pool has) and tracked pools
(no caller asks for one) are left out.

### `SymSession` - a symmetric session (`lac_sym_api.c`, `lac_sym_alg_chain.c`, `lac_sym_queue.c`, `lac_sym_cb.c`)

Application threads call perform, update and remove; one thread polls and runs
callbacks; the device answers in any order.  Actions follow the calls: `Perform`
(parameter check and reader lock), `TakeCookie`, `FormatFails`, `CountPending`,
`UnlockSessionReader`; in `LacSymQueue_RequestSend` the two unlocked reads (`ReadFlag`,
`ReadTail`), the test under the lock (`Recheck`), `Enqueue`, or `Block`, `Put`,
`Unblock`, `Undo`; then `Accepted`, which updates `partialState`.  `Callback`,
`DequeueLock`, `DequeueHead`, `DequeuePut`, `DequeueEnd`, `UserCallback` and
`CallbackReturn` are `LacSymCb_ProcessCallbackInternal` with
`LacSymCb_PendingReqsDequeue`.

A packet of a stream is `<<stream, index>>`; the state buffer `opState` holds which
packet last went through it, which is what IVs and hash states mean to the protocol.
The client issues partials from one thread, in order, without waiting for callbacks
(`lac_sym_partial.c` states the first; the queue exists for the second), and removes a
session only when it makes no call on it.  A slot of the ring is given back when the
callback has returned (see `EtrRing`), so the retry loop of the drain, which runs inside
a callback of the only poller, never sees a full ring become free.

Two auxiliary flags mark what the code does not survive: `torn` (a partial passed the
unlocked test on a flag that was cleared since) and `broken` (a partial was refused
after somebody queued behind it, a partial was answered with a bad status, or the drain
gave up on a full ring).  `AllAnswered` excepts both; `StreamsChain`, `IvReturned` and
`BlockedByOne` only `torn`, the last with one part (a session whose flag is clear is held
by somebody) that excepts `broken` too: so they say that these are the only ways.
`ReferenceCount` and `UpdateExclusive` hold always.

The IV is that of cipher sessions; a verification that fails on a last partial is a case
of hash sessions (`cpa_cy_sym.h:691`).  That a retry of the drain succeeds because another
thread polls too is not modelled.

Streams and updates are not combined: `cpa_cy_sym.h:1402` allows updates only of
stateless sessions.  The data-plane API, not thread safe by contract, and the synchronous
mode are not modelled.

### `DcSession` - a compression session (`dc_session.c`, `dc_datapath.c`)

Two threads submit (`DcCall`, `CreateRequest`, `SendRequest`, with the failures of each
step), one handler runs `dcCompression_ProcessCallback` (`ProcessResponse`,
`ResponseDone`, `UnsupportedResponse`), the client resets (`ResetCheck`, `ResetWrite`: the
code holds no lock in between) and removes.  `pending` is the count of pending callbacks
of the session's kind, `requestType` decides whether the next request starts a packet.
The client removes a session when no call is inside it, except a call whose callback it
has already seen.  `mid` is history: a stream has begun and not ended.

`dcFlaws`: `reset` (a reset answered RETRY and zeroed the counts all the same), `raced` (a
reset found zero and a call began before it wrote), `uncounted` (a stateless request
without a cookie gives back a count it never took), `leaked` (no synchronous cookie) and
`unsupported` (the response is not counted off), `full` (after a full flush
`dcCreateRequest` leaves FIRST and the callback SUBSEQUENT, so what the next request is
remains open).  In a session of both directions one
`requestType` serves two streams; `StreamFramed` is not claimed there.

### `Device` - life of a physical function (`adf_init.c`, `adf_ctl_drv.c`, `adf_aer.c`, `adf_sriov.c`)

A thread is the sequence of steps it has still to take; a call of `adf_dev_init`, `start`,
`stop` or `shutdown` puts that routine's steps in front, and a failing step replaces them by
what the caller does about it.  The threads are the ioctls, the PCI callbacks (SR-IOV,
slot reset), an error source, and the reset workers.  No lock is common to them.  Where
two are inside the routines at once (`Overlap`) the behaviour ends: what happens then
needs finer steps.  `misuse` records memory used after it was freed or overwritten.

`flaws`: `torn` (two callers passed the test of RESTARTING), `stale` (it was set on a device
just stopped), `early`, `iov`, `sriov` (starts and SR-IOV changes that failed half way),
`norec`, `inuse`, `failed` (no reset record, device in use, restart failed: RESTARTING stays
set and `adf_devmgr_in_reset` answers 1 with no reset under way), `timeout` (the waiting
caller freed the record), `cut` (a stop went on with a user), `unpaired`.

### `DevTable` - the device table (`adf_dev_mgr.c`)

Adding and removing PFs and VFs, the two numbers of a VF, the unload of one driver.
`tflaws`: `full`, `nomem`, `late`, `stale`, `hole`, `foreign` (the unload of one VF driver
clears the entries of another).

### `UserStart` - names and counted starts (`sal_user.c`, `adf_process_proxy.c`, `adf_dev_processes.c`)

Threads of a process share a start count, a mutex created and destroyed with it, and the
file whose opening gives a section name; processes fork and die, devices stop during a
search, and come back with or without virtual functions (`hosts`: such a physical function
serves no process, `adf_dev_processes.c:195`).  `uflaws`: `raced` (the pid test and the reset of the globals are outside the lock),
`undefined` (a destroyed mutex is used), `failed`, `forked`, `empty` (every device stopped
during the search).

### `SalEvents` - services over a reset (`sal_ctrl_services.c`, `adf_user_init.c`, `uio_user_device.c`)

The kernel's events, the polling process, its device structure and the container of
instances handed from the old structure to the new.  A failed instance empties its list; a
failed allocation before it (the debug directory) leaves the list.  `sflaws`: `lost`, `inuse`, `joined`,
`behind`, `failed`.

### `UioRings` - rings of a bundle (`adf_uio.c`, `adf_uio_cleanup.c`, `adf_user_transport_ctrl.c`, `uio_user_ring.c`)

Reservation, enabling, release, unmapping and death of processes at any step, and the
orphan cleanup with its null requests.  `bn.ctl` is `adf_ctl_lock`, which every ioctl holds from
end to end (`adf_ctl_drv.c:664`), `bn.lock` the bundle's own: the test of `rings_used` and its
update, a read of the arbiter's register and the write, are steps of their own, and what keeps
two processes apart between them is `adf_ctl_lock`.  The cleanup in `adf_uio_mmap_close` takes
neither for the arbiter (`adf_uio_cleanup.c:526`), so it does interleave with them, and two
cleanups with each other.  A signal can end the wait for `adf_ctl_lock`; only the result of a
reservation is looked at (`Interrupted`).

Exceptions are kept ring by ring: `bn.leaked`, reserved for good by a cleanup without memory;
`csr.stray`, whose bit in the arbiter was overwritten outside the locks, or left behind by an
interrupted call or by the death of a request ring without its response ring, until it is
written again; `csr.late`, freed before the null answer came, until the firmware is done.  So a
weak spot met on one ring excuses nothing on another.  A failed allocation of `user_lock` (`adf_user_transport_ctrl.c:430`) is
`ReleaseHandle` followed by `UnmapOrDie`.

`MCHost` checks the last four and `DcSession` in one run: `part` chooses which of the five
moves, the others stay as they begin.  In all of these modules a property names exactly
the weak spots that spoil it, so it says that these are the only ways; in `UioRings` it names
the rings.

## Runs

| run | question | result |
|---|---|---|
| `ring` | two senders, polled with quotas 0 (none) to 2 or interrupt driven, under fairness: can a slot be overwritten, a request be lost, answered twice or never called back? | holds; also refines `BoundedService` |
| `pfvf` | bring-up twice with three pairs of versions, and once with a notification at any moment, under fairness: is no message written over another, each wait ended by its own answer, does every bring-up end, does the PF unmask the VF? | holds (the mailbox properties without the notification) |
| `pfvf_faulty` | one notification or two at any moment, late answers, early timeouts, failed allocations, rate limit, a killed guest: what still holds? | acknowledged notifications took effect, a VF that is up is known, holds the PF's block, agrees on versions |
| `pfvf_nomem` | "Tasklet will re-enable ints from this VF" (`adf_isr.c:145`) | violated after one failed allocation |
| `mempool` | two threads, three blocks, a counter of 4 values that wraps: can a block be handed out twice or lost, does the stack make progress? | holds; that it refines `BlockPool` is proved |
| `sym` | two threads, streams and full packets, a ring with and without room, updates, removal: one blocker, streams chain, IVs right, reference count exact, all answered? | holds, with the exceptions of `torn` and `broken` above |
| `sym_torn` | "Only one blocking condition per session can exist at any time" (`lac_session.h:250`) | violated: packets 2 and 3 of a stream with the device at once |
| `sym_verify` | queued messages "will be sent later to the QAT once the blocking condition is cleared" (`lac_sym_queue.h:91`) | violated after a digest of a final partial does not verify |
| `device` | ioctls, SR-IOV, PCI recovery and resets, failures at any call: is a device clean or whole, is nothing used after it was freed, does a reset end? | holds, with the exceptions each property names |
| `host` | the device table, process names and starts, services over resets, rings of a bundle, a compression session | holds, with the exceptions each property names |
| `host_race` | `icp_sal_userStart` is thread safe | violated: two first starts of one process; the quoted line is in the finding |
| `dc_reset` | "Reset will fail if outstanding calls still exist" (`cpa_dc.h:981`), one stateful request in flight (`cpa_dc.h:323`) | violated: the reset answers RETRY, zeroes the count, and a second request is accepted |

What to read carefully.  `InUseOwned`, `ResponseFits` and `NoOverwrite` are claimed only
in scenarios without a notification and without late answers; with a notification
`NoOverwrite` fails, because the check of the register and the write are separate steps.
`BlockIntegrity` is about the block of `MCPfVf`: an eight-bit CRC cannot protect every block
from every shift.  `NotificationHandled` counts a notification as handled when the VF's bottom half
handled one of its kind after the sender started, or was about to acknowledge one then
(`Handling`): the register does not tell two of the same kind apart, so a sender that starts
while the VF is between handling the last one and its acknowledgement takes that for its own.
The mailbox has one VF.  `EveryRequestCompletes` is checked for one
message: the ring only copies and compares messages, so it holds of all.

Every property of a passing run has a mutant, a plausible slip in one definition that makes
TLC find it violated.  `IndInv`, `PoolInv`, `UpIsWhole`, `MemorySafe`, `CountsOwned` and
`ContainersOwned` are conjunctions of several facts; their one mutant breaks one of them.
There is no separate type invariant in the modules that only TLC looks at.

### Bounds

* Rings of 4 slots, so `max_inflights` is 3, with 4 messages: full, empty and wrapped
  rings all occur, and a message can be sent again after its callback.
* Mailbox: 3 tries of a message, as in the code (`ADF_IOV_MSG_MAX_RETRIES`), and 2 of a
  request instead of 5 (`ADF_IOV_MSG_RESP_RETRIES`): enough for one that fails once and
  for one that gives up.  At most two notifications (the second
  after the first timed out early), two lives of the VF and two early timeouts in a behaviour.
* Pool: three blocks and two threads are the least for the classical ABA pattern
  (two pops and a push between a read and a swap); the counter wraps several times, and
  `Stall` = 3 swaps is exactly the pattern's length.
* Sessions: three partials are what the torn test needs (one in flight, one queued, one
  at the test); they also make a stream and the start of the next.  One or two full
  packets per thread, two updates; rings of 2 (refusals, drains that give up) and 4.
* Device: two services, two workers, three ioctls or two beside an autoreset, three
  SR-IOV changes and a stop, one or two failures per scenario; an SR-IOV scenario with and
  without another PF that has VFs.
* Host: table of 3 numbers for two PFs with a VF each, two binds of each, one unload; two
  processes, one with two threads and one forked, four calls, or three and a device that
  stops or comes, a start count of at most 2;
  two resets and two faults; two processes on a bundle of four rings, and one fault or one
  new process.  Sessions: two callers, three requests (a stream, its retry and the next), two
  failures, one reset; a session of both directions only with final flushes, as nothing
  about streams is claimed of it.  `t1`/`t2` and `u1`/`u2` are interchangeable (symmetry);
  `u1`, `u2` are also the two callers of the session.

### Fairness

Weak fairness only, and only for steps that somebody takes once they are possible: a
thread inside a driver call goes on, an interrupt or a queued work item runs, the device
works on what it was given, a client that sent requests polls.  No thread is made to
begin a call, but a polled ring is assumed to be polled, which is the application's part:
without it no response is ever seen.  In `Device` every thread inside its steps goes on.
`host` uses no fairness.  In `PfVf` a timeout that stays possible strikes too: the waits of the code
are bounded.  In `SymSession` the number of calls is bounded, so that waiting for a
lock or a cookie needs no strong fairness; starvation under an endless load is not
examined.  `LockFree` needs only that a thread inside the pool keeps running.

## Proofs

`EtrRing_proof`: for any finite sets of senders and messages, at least 3 request
slots (`adf_create_ring` refuses a ring with fewer than 2 inflights) and no fewer
response slots (`RingAssumption`), polled or interrupt driven, `Spec => []IndInv`.  `RequestSlotFree`
is not inductive: one has to know that `inflights` counts exactly the senders past the
test or backing off, the requests in the ring and the device, and the responses whose
inflight is not yet given back (`CountInv`), that request slots between head and tail are the unfetched
requests (`ShapeInv`), where each request is (`PlaceInv`, `EachRequestOnce`) and what
each step of a sender and of the handler has done (`SenderInv`, `HandlerInv`).  The
interesting step is `HandleDec`: it gives a slot back while the response slot is still
marked full, and only the counting shows that the device cannot come round to it.  From
`IndInv` follow the type invariant, both overrun properties, uniqueness, `NoMissedResponse`
and the refinement of `BoundedService`.

`MemPool_proof`: for any sets of threads and blocks and any counter width,
`Spec => []PoolInv`.  The key is `SnapshotInv`: top.ctr is the counter a thread read plus
its age, modulo `CtrMod`; as the age stays below `CtrMod`, a swap that succeeds has age
0 (`NotOvertaken`), nothing moved since the read, and the `pNext` it prepared is the
current one.  From this the stack stays a list of distinct blocks (`StackIntact`), no
block is in two places (`BlockOnce`), none is lost (`NoneLost`), and every step is one
of `BlockPool` or a stutter (`PoolImplementsBlockPool`).

The same module proves `CountSettles`: `availBlks` is updated after the swap, not with it, so
`CountInv` says that it is the number of free blocks plus the threads that have popped and
not yet subtracted, minus those that have pushed and not yet added, modulo the width of a
`size_t`.  With no thread in the pool that is the property, as long as there are fewer blocks than
the width has values (`FiniteAssumption`; each block has an address).

`SymSession_proof`: for any finite set of threads, any number of packets and any size of
ring and pool, `StreamsChain` and `IvReturned`.  Neither is close to inductive.  The invariant
has the types and the lock of the queue (`QueueInv`), then `AloneInv`: the places from which a
partial can hold the session (in the hands of its sender, on the ring, answered, being
drained) exclude each other, the flag is set only when all are empty, and a partial is sent
past the queue only when no partial is in it.  On that rests `ChainInv`: for each packet in the
queue, `Leaves` says which packet will have gone through the state buffer when its turn comes,
namely the last partial before it in the queue, or the one on the ring, or what the buffer
holds, and it is the packet before it in its stream; for the client's next packet likewise
(`ClientChain`, `PacketInv`).  The lemmas about `Leaves` say what an append, a removal at the
head and a send past an empty queue do to it.

`SymCount_proof`, over the same constants: `ReferenceCount`, `UpdateExclusive` and
`BlockedByOne`.  `CountInv`: `pendingCbCount` is the length of the queue, plus the ring slots in
use, plus the threads between the increment and the send or its undo.  A put must add
to the ring a request that is not in it, so `PlaceInv` (a request is in one place, told
apart by its number or its place in the stream) belongs to the invariant; and `GenInv`
(every request has the current descriptor) needs the count, because a writer gets in
only at zero.  `BlockedByOne` follows from `AloneInv`.

`AccessLayer_proof` is about two modules that share no state, `DcSession` and `SalEvents`.

Of `DcSession`: for any finite set of callers, any number of requests, resets and failures,
and any kinds of session, `DcCountExact`, `RemovedQuiet` and `StreamFramed`.  The invariant tells the
requests apart (`Fresh`), counts them (`Counted`), says that a removed session has nothing
outstanding (`Closed`), that a stateful session has one request at a time (`Single`), and where
`requestType` agrees with the stream at each step of a request (`Framed`); each under the
exceptions that its property names.

Of `SalEvents`, for any number of resets, starts, failed calls and lost events: `InstancesKept`,
`ContainersOwned` and `Settles`.  `SalInv` relates the two ends of the event queue: the events in
it are those the kernel has sent, in its order (`OrderInv`), the process's device structure and
container are what the next event expects to find (`PhaseInv`), and a process without its
device still has the end of a reset to poll (`ComesInv`); `OwnInv` says that the
allocated container is the one that the structure or the saved pointer has.  So the container
handed over by a shutdown in a reset is the one the restart finds, however late the events are
polled.

`PfVf_proof`: for any versions, faults, retries, scenarios and block.  Its first part supposes nothing
of the timing.  `MailInv` says what can stand in each half of the register and in each copy that
somebody read of it (`PutInv`, `ReadersInv`), which message the VF's thread is about (`ThreadInv`), what
of the versions is settled (`VersionInv`), and that the PF's record is what the VF last said from the
moment the message was read to its acknowledgement (`KnownInv`).  `UpIsKnown`, `VersionsAgreed` and
`VfNotesRecorded` follow.  `NotificationHandled` needs `SeenInv`, for any number of notifications: what
the VF's bottom half has in hand is in `seen`, and so is an acknowledged announcement that a
waiting notifier can find in the register.  Only the bottom half can put one there: the sender
sets the interrupt bit, the worker's acknowledgement removes the in-use pattern, a clear
removes it too.  The second part is under `AllInTime`
(no fault, nothing sent by the PF on its own): `TimeInv` says who is at work (`ActorInv`), that the register belongs
to one side at a time (`LineInv`), that what the PF has under way is the response to the request
the VF's thread waits for (`AnswerInv`) and how much of the block it has read (`BlockInv`).
`InUseOwned`, `ResponseFits`, `NoOverwrite` and `BlockInTime` (the VF has the bytes of the PF's block) follow.

`UioRings_proof`: for any number of processes and rings, with deaths, interrupted calls, failed
allocations and new processes, `RingsDisjoint`, `UsedExact`, `BaseOwned`, `QuietBeforeFree` and
`ArbFollowsOwner`, none under an assumption.  They follow from one inductive invariant
(`UioInvariant`).  `IInv` says where a process is in its call, which of the two locks it has there
and what it holds (`PlaceAt`, `HoldInv`), and whose memory each base points to (`BaseInv`): without
it a death in the middle of a creation could leave a base behind.  `HeldInv` says of each
process, by its place in a call or in the cleanup after its death, where requests can be and
that the null request is behind the last of them (`QuietAt`), that what an ioctl read of the
arbiter still stands when it writes (`FreshAt`), that the arbiter has the rings of its handles
(`ArbAt`), and that a ring the arbiter serves is programmed or in the hands of the cleanup
(`PairAt`).  What is said of a bit is said of the rings outside `stray` only, of a request
outside `late`.  `HeldStep` is the frame: a step touches the rings of its process, so the others
keep theirs; a cleanup that writes back what it read before another's write turns just those
rings stray, and leaves every other bit as it is.

`UserStart_proof`: for any processes, threads and devices, `NamesDistinct` (the entries are
well formed and their names differ), `LockOwned` (only a thread of its own process holds a
mutex, and the threads of a dead process are idle), `MapsOnce`, `FilesOwned` and, of every
step, `WaitsOnlyWhenFull`.  `MapsOnce` needs `MapInv`, over
`MutexInv`: the instances are mapped from the moment `do_userStart` returns until the last
stop, and the count is 0 while a thread asks for a name.  `FilesOwned` needs `OwnInv`: an entry
has one process and is in the list from the moment its name is given out until the count is
back at 0.  The count must be able to leave 0, which is where `StartRefCountMax` must not be 0.

The assumptions on constants are finiteness where something is counted, shapes of the
bounds, and that names the code keeps apart differ: a thread is not the polling thread
(`ThreadsAssumption`), nobody is not a process (`UioRingsAssumption`), a mutex is free, gone or held
(`UserStartAssumption`).  A capability block has a version, a length and as many bytes as its length says
(`BlockAssumption`).  `Stall < CtrMod` and the sizes of the rings are the ones with content,
explained above.

Proved and in no run of their own: the consequences of `IndInv` and `PoolInv`, which the runs
check, the refinement of `BlockPool`, and `RingsDisjoint`, `BaseOwned`, `NamesDistinct`,
`LockOwned`, `VfNotesRecorded` and `BlockInTime`.

Only model-checked:

* all liveness properties (`EveryRequestCompletes`, `BringUpEnds`, `InterruptsComeBack`, `LockFree`,
  `AllAnswered`, `ResetEnds`): fairness is out of the prover's reach;
* `BlockIntegrity`, with faults: it rests on what the CRC of a damaged block is, which is a
  recursion over the block (and holds of the block of `MCPfVf`, not of all); the CRC table is
  checked by evaluation.  Without faults `BlockInTime` is proved;
* the invariants of `Device`: a thread is a sequence of steps that the routines rewrite, so an
  inductive invariant has to describe every such sequence, and none has been worked out;
* `LookupTotal` of `DevTable`, whose numbers are counted with `SelectSeq` and cardinalities of
  filtered sets: what these compute for a list of any length needs induction over data.

## Not modelled

* Interleavings inside the lifecycle routines (`Device` ends at `Overlap`), the UIO
  registration and sysfs, creation and removal of kernel rings (a misaligned ring,
  `adf_transport.c:326`, frees its memory and keeps the pointer), two PFs that share the static
  capability buffer (`adf_pf2vf_capabilities.c:70`), compatibility checkers
  (`adf_pf2vf_msg.c:673` counts one too many).
* The kernel shim `qat_transport.c`, where two pollers may work on one ring (line 219); the
  data path of user-space rings; admin messages and the heartbeat.
* Two threads of a process mapping one bank at once (`adf_user_transport_ctrl.c:245`) and the
  use of the bank after a failed creation; usage counters of instances; several devices in
  one process.
* Sessions: the data-plane and batch interfaces, the wait of synchronous callers
  (`lac_sync.c`), checksums and byte counts, updates of a session with partials
  (`lac_sym_api.c:831`).
* USDM's slab allocator, the configuration store, the firmware loader, kernel crypto glue,
  asymmetric services, OSAL, tools and samples: sequential code, register programming,
  request formatting or thin wrappers, where interleavings decide nothing.

The modules cover a small share of the repository's lines.  Most of the rest is of the last
kind: register layouts, firmware loading, parameter checks, request formatting and sample
code, which a state machine would only transcribe.
