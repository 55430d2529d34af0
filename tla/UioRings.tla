------------------------------- MODULE UioRings -------------------------------
(***************************************************************************)
(* The rings of one bundle (a bank of rings mapped to user space), shared  *)
(* by several processes: the reservation of rings in the kernel (adf_uio.c),*)
(* the creation and the release of a ring by the process                   *)
(* (adf_user_transport_ctrl.c, uio_user_ring.c), and what the kernel does  *)
(* when a process unmaps the bundle or dies (adf_uio_cleanup.c).           *)
(***************************************************************************)
EXTENDS Integers, FiniteSets

CONSTANTS
  Users,        \* processes
  Gap,          \* tx_rx_gap: request ring i is answered on ring i + Gap
  Plans,        \* the request rings the configuration gives each process
  RingBounds    \* bounds: the requests, faults and new processes of a behaviour

Tx == 0..(Gap - 1)
Rings == 0..(2 * Gap - 1)

ASSUME UioRingsAssumption ==
  /\ Gap \in Nat \ {0} /\ Plans \subseteq [Users -> SUBSET Tx] /\ "nobody" \notin Users
  /\ RingBounds \subseteq [puts : Nat, faults : Nat, spawns : Nat]

VARIABLES
  us,     \* each process: where it is, its ring, what it read, its entry, its handles
  bn,     \* the bundle: rings_used, adf_ctl_lock, its own lock, the processes in
          \* its list, and the rings that a failed cleanup left reserved
  csr,    \* the bank: ring bases, the arbiter, the requests, the null requests;
          \* stray: the rings whose bit in the arbiter was overwritten or left as it was,
          \* late: the rings freed before their null request was answered
  plan, left  \* the configuration; bounds left

uioVars == <<us, bn, csr, plan, left>>

Nobody == "nobody"
Partner(r) == IF r \in Tx THEN r + Gap ELSE r - Gap

\* Between the read and the write of the arbiter's register.
InArb == {"enable2", "disable2", "off2", "on2", "end2"}

\* The process goes on at l, with the changes of the record r; what it read
\* from the register and its ring are forgotten once they are used.
To(u, l, r) ==
  us' = [us EXCEPT ![u] = [r EXCEPT !.pc = l, !.seen = IF l \in InArb THEN @ ELSE {},
                                    !.ring = IF l \in {"idle", "close"} THEN 0 ELSE @]]
Charge(k) == left[k] > 0 /\ left' = [left EXCEPT ![k] = @ - 1]
Kept == UNCHANGED <<plan, left>>
-----------------------------------------------------------------------------
(* icp_adf_transCreateHandle                                                *)

\* The request ring of an instance first, then its response ring.
Wanted(u) ==
  {r \in plan[u] : r \notin us[u].handles}
    \cup {r \in Rings \ Tx : Partner(r) \in us[u].handles /\ r \notin us[u].handles}

\* The bundle is mapped on the first use: adf_uio_mmap lists the process.
Mmap(u) == bn' = [bn EXCEPT !.listed = @ \cup {u}]

CreateHandle(u, r) ==
  /\ us[u].pc = "idle" /\ r \in Wanted(u)
  /\ To(u, "reserve", [us[u] EXCEPT !.ring = r]) /\ Mmap(u)
  /\ UNCHANGED csr /\ Kept

\* adf_ctl_ioctl: every call on a ring runs under adf_ctl_lock.
TakeCtl(u) == bn.ctl = Nobody /\ bn' = [bn EXCEPT !.ctl = u]

\* adf_ctl_ioctl_reserve_ring: rings_used is tested outside the bundle's lock.
ReserveTest(u) ==
  /\ us[u].pc = "reserve"
  /\ \/ us[u].ring \in bn.used /\ bn.ctl = Nobody /\ To(u, "close", us[u]) /\ UNCHANGED bn
     \/ us[u].ring \notin bn.used /\ TakeCtl(u) /\ To(u, "mark", us[u])
  /\ UNCHANGED csr /\ Kept

\* The ring goes into the process's entry, which no other process looks at,
\* and into rings_used.
MarkUsed(u) ==
  /\ us[u].pc = "mark" /\ bn.lock = Nobody /\ u \in bn.listed
  /\ bn' = [bn EXCEPT !.used = @ \cup {us[u].ring}, !.ctl = Nobody]
  /\ To(u, "init", [us[u] EXCEPT !.mask = @ \cup {us[u].ring}])
  /\ UNCHANGED csr /\ Kept

\* The handle is allocated and adf_init_ring programs the ring; an allocation
\* that fails gives the ring back and frees the bundle.
InitRing(u) ==
  /\ us[u].pc = "init"
  /\ \/ /\ csr' = [csr EXCEPT !.base[us[u].ring] = u]
        /\ To(u, "enable", us[u]) /\ UNCHANGED left
     \/ Charge("faults") /\ To(u, "undo", us[u]) /\ UNCHANGED csr
  /\ UNCHANGED <<bn, plan>>

\* adf_ctl_ioctl_enable_ring and _disable_ring: the register is read and
\* written back under adf_ctl_lock and the bundle's lock.
ArbRead(u, at, next) ==
  /\ us[u].pc = at /\ bn.ctl = Nobody /\ bn.lock = Nobody
  /\ bn' = [bn EXCEPT !.ctl = u, !.lock = u]
  /\ To(u, next, [us[u] EXCEPT !.seen = csr.arb])
  /\ UNCHANGED csr /\ Kept

\* Mutant: the register is written with the rings alone.
ArbOn_Overwrites(seen, rings) == rings \cap Tx

ArbOn(seen, rings) == seen \cup (rings \cap Tx)
ArbOff(seen, rings) == seen \ rings

EnableRing(u) ==
  /\ us[u].pc = "enable2"
  /\ csr' = [csr EXCEPT !.arb = ArbOn(us[u].seen, {us[u].ring}), !.stray = @ \ {us[u].ring}]
  /\ bn' = [bn EXCEPT !.ctl = Nobody, !.lock = Nobody]
  /\ To(u, "idle", [us[u] EXCEPT !.handles = @ \cup {us[u].ring}])
  /\ Kept
-----------------------------------------------------------------------------
(* icp_adf_transReleaseHandle                                               *)

\* Called when the instance has nothing in flight, for the request ring first.
ReleaseHandle(u, r) ==
  /\ us[u].pc = "idle" /\ r \in us[u].handles
  /\ IF r \in Tx THEN csr.work[r] = "none" ELSE Partner(r) \notin us[u].handles
  /\ To(u, "disable", [us[u] EXCEPT !.ring = r])
  /\ UNCHANGED <<bn, csr>> /\ Kept

DisableRing(u) ==
  /\ us[u].pc = "disable2"
  /\ csr' = [csr EXCEPT !.arb = ArbOff(us[u].seen, {us[u].ring}), !.stray = @ \ {us[u].ring}]
  /\ bn' = [bn EXCEPT !.ctl = Nobody, !.lock = Nobody]
  /\ To(u, "clear", us[u])
  /\ Kept

\* adf_cleanup_ring
ClearRing(u) ==
  /\ us[u].pc = "clear"
  /\ csr' = [csr EXCEPT !.base[us[u].ring] = Nobody]
  /\ To(u, "release", us[u])
  /\ UNCHANGED bn /\ Kept

\* adf_ctl_ioctl_release_ring
ReleaseRing(u, at, next) ==
  /\ us[u].pc = at /\ us[u].ring \in us[u].mask /\ bn.ctl = Nobody /\ bn.lock = Nobody
  /\ bn' = [bn EXCEPT !.used = @ \ {us[u].ring}]
  /\ To(u, next, [us[u] EXCEPT !.mask = @ \ {us[u].ring}, !.handles = @ \ {us[u].ring}])
  /\ UNCHANGED csr /\ Kept

\* A signal ends the wait for adf_ctl_lock, which an ioctl on any device may
\* hold.  Only the result of a reservation is looked at: a ring that was not
\* enabled is used, one that was not disabled or released is freed.
Interrupted(u) ==
  /\ Charge("faults")
  /\ \/ us[u].pc \in {"reserve", "undo"} /\ To(u, "close", us[u]) /\ UNCHANGED csr
     \/ /\ us[u].pc = "enable"
        /\ To(u, "idle", [us[u] EXCEPT !.handles = @ \cup {us[u].ring}])
        /\ csr' = [csr EXCEPT !.stray = @ \cup ({us[u].ring} \cap Tx)]
     \/ /\ us[u].pc = "disable" /\ To(u, "clear", us[u])
        /\ csr' = [csr EXCEPT !.stray = @ \cup ({us[u].ring} \cap Tx)]
     \/ /\ us[u].pc = "release"
        /\ To(u, "idle", [us[u] EXCEPT !.handles = @ \ {us[u].ring}]) /\ UNCHANGED csr
  /\ UNCHANGED <<bn, plan>>
-----------------------------------------------------------------------------
(* adf_uio_mmap_close                                                       *)

\* A process unmaps the bundle or dies, anywhere but inside the kernel.
UnmapOrDie(u) ==
  /\ us[u].pc \in {"idle", "reserve", "init", "enable", "disable", "clear", "release", "undo"}
  /\ u \in bn.listed
  /\ To(u, "close", [us[u] EXCEPT !.handles = {}])
  /\ UNCHANGED <<bn, csr>> /\ Kept

\* check_orphan_ring
Unpaired(own) == {r \in own : Partner(r) \notin own}

\* Mutant: a process without programmed rings has nothing to give back.
AfterOrphans_Returns(orphan) == IF orphan = {} THEN "unlist" ELSE "off"

AfterOrphans(orphan) == IF orphan = {} THEN "force" ELSE "off"

\* bundle_need_cleanup and get_orphan_bundle: the process's programmed rings.
\* An allocation that fails leaves them, and rings_used, as they are.
GetOrphans(u) ==
  LET own == {r \in us[u].mask : csr.base[r] # Nobody}
      lone == Unpaired(own)
      orphan == {r \in own : Partner(r) \in own}
  IN  /\ us[u].pc = "close"
      /\ \/ /\ csr' = [csr EXCEPT !.base = [r \in Rings |-> IF r \in lone THEN Nobody ELSE @[r]],
                                 !.stray = @ \cup (lone \cap csr.arb)]
            /\ To(u, AfterOrphans(orphan), [us[u] EXCEPT !.orphan = orphan, !.handles = {}])
            /\ UNCHANGED <<bn, left>>
         \/ /\ \E r \in Rings : csr.base[r] # Nobody
            /\ Charge("faults")
            /\ bn' = [bn EXCEPT !.leaked = @ \cup us[u].mask]
            /\ To(u, "unlist", [us[u] EXCEPT !.handles = {}]) /\ UNCHANGED csr
      /\ UNCHANGED plan

\* adf_disable_ring_arb and adf_enable_ring_arb outside both locks.
OrphanRead(u, at, next) ==
  /\ us[u].pc = at
  /\ To(u, next, [us[u] EXCEPT !.seen = csr.arb])
  /\ UNCHANGED <<bn, csr>> /\ Kept

\* The bank once the register holds arb.  The other rings get the bits they had
\* when the register was read; and a process inside its ioctl is about to give
\* these rings the bits it read.
OrphanWrite(u, arb) ==
  LET changed == (csr.arb \ us[u].seen) \cup (us[u].seen \ csr.arb)
      pending == {r \in us[u].orphan \cap Tx : \E v \in Users :
                    us[v].pc \in {"enable2", "disable2"} /\ ((r \in us[v].seen) # (r \in arb))}
  IN  [csr EXCEPT !.arb = arb, !.stray = ((@ \cup changed) \ us[u].orphan) \cup pending]

\* The rings are stopped and rewound: what was queued is gone.
ResetTx(u) ==
  /\ us[u].pc = "off2"
  /\ csr' = [OrphanWrite(u, ArbOff(us[u].seen, us[u].orphan)) EXCEPT
                !.work = [r \in Tx |-> IF r \in us[u].orphan /\ @[r] = "queued"
                                       THEN "none" ELSE @[r]]]
  /\ To(u, "on", us[u])
  /\ UNCHANGED bn /\ Kept

\* The rings are started and send_null_msg puts a null request on each.
SendNull(u) ==
  /\ us[u].pc = "on2"
  /\ csr' = [OrphanWrite(u, ArbOn(us[u].seen, us[u].orphan)) EXCEPT
                !.null = @ \cup (us[u].orphan \cap Tx)]
  /\ To(u, "wait", us[u])
  /\ UNCHANGED bn /\ Kept

\* Mutant: no wait.
WaitNull_None(u) ==
  /\ us[u].pc = "wait" /\ To(u, "zero", us[u])
  /\ UNCHANGED <<bn, csr>> /\ Kept

\* wait_for_null_msg: every null answer is there, or CLEANUP_PH2_LIMIT passed.
WaitNull(u) ==
  /\ us[u].pc = "wait"
  /\ To(u, "zero", us[u])
  /\ csr' = [csr EXCEPT !.null = @ \ us[u].orphan, !.late = @ \cup (us[u].orphan \cap csr.null)]
  /\ UNCHANGED bn /\ Kept

\* cleanup_all_ring
ZeroRings(u) ==
  /\ us[u].pc = "zero"
  /\ csr' = [csr EXCEPT !.base = [r \in Rings |-> IF r \in us[u].orphan THEN Nobody ELSE @[r]]]
  /\ To(u, "end", us[u])
  /\ UNCHANGED bn /\ Kept
StopRings(u) ==
  /\ us[u].pc = "end2"
  /\ csr' = OrphanWrite(u, ArbOff(us[u].seen, us[u].orphan))
  /\ To(u, "force", us[u])
  /\ UNCHANGED bn /\ Kept

\* The forced release at the end of adf_uio_do_cleanup_orphan
ForceRelease(u) ==
  /\ us[u].pc = "force" /\ bn.lock = Nobody
  /\ bn' = [bn EXCEPT !.used = @ \ us[u].mask]
  /\ To(u, "unlist", us[u])
  /\ UNCHANGED csr /\ Kept

\* The entry is deleted.
Unlist(u) ==
  /\ us[u].pc = "unlist"
  /\ bn' = [bn EXCEPT !.listed = @ \ {u}]
  /\ To(u, "gone", [us[u] EXCEPT !.mask = {}, !.orphan = {}])
  /\ UNCHANGED csr /\ Kept
-----------------------------------------------------------------------------
(* The environment: requests, the firmware, new processes.                  *)

PutRequest(u, r) ==
  /\ us[u].pc = "idle" /\ {r, Partner(r)} \subseteq us[u].handles /\ r \in Tx
  /\ csr.work[r] = "none" /\ Charge("puts")
  /\ csr' = [csr EXCEPT !.work[r] = "queued"]
  /\ UNCHANGED <<us, bn, plan>>

Firmware(r) ==
  /\ \/ /\ csr.work[r] = "queued" /\ r \in csr.arb
        /\ csr' = [csr EXCEPT !.work[r] = "working"]
     \/ /\ csr.work[r] = "working"
        /\ csr' = [csr EXCEPT !.work[r] = "none", !.late = @ \ {r}]
     \/ /\ csr.work[r] = "none" /\ r \in csr.null \cap csr.arb
        /\ csr' = [csr EXCEPT !.null = @ \ {r}]
  /\ UNCHANGED <<us, bn>> /\ Kept

NewProcess == [pc |-> "idle", ring |-> 0, seen |-> {}, mask |-> {}, handles |-> {}, orphan |-> {}]
Spawn(u) ==
  /\ us[u].pc = "gone" /\ Charge("spawns")
  /\ us' = [us EXCEPT ![u] = NewProcess]
  /\ UNCHANGED <<bn, csr, plan>>
-----------------------------------------------------------------------------
UioInit ==
  /\ us = [u \in Users |-> NewProcess]
  /\ bn = [used |-> {}, ctl |-> Nobody, lock |-> Nobody, listed |-> {}, leaked |-> {}]
  /\ csr = [base |-> [r \in Rings |-> Nobody], arb |-> {},
            work |-> [r \in Tx |-> "none"], null |-> {}, stray |-> {}, late |-> {}]
  /\ plan \in Plans
  /\ left \in RingBounds

RingStep(u) ==
  \/ \E r \in Rings : CreateHandle(u, r) \/ ReleaseHandle(u, r) \/ PutRequest(u, r)
  \/ ReserveTest(u) \/ MarkUsed(u) \/ InitRing(u)
  \/ ArbRead(u, "enable", "enable2") \/ EnableRing(u)
  \/ ArbRead(u, "disable", "disable2") \/ DisableRing(u) \/ ClearRing(u)
  \/ ReleaseRing(u, "release", "idle") \/ ReleaseRing(u, "undo", "close")
  \/ Interrupted(u)
CloseStep(u) ==
  \/ UnmapOrDie(u) \/ GetOrphans(u)
  \/ OrphanRead(u, "off", "off2") \/ ResetTx(u)
  \/ OrphanRead(u, "on", "on2") \/ SendNull(u) \/ WaitNull(u)
  \/ ZeroRings(u) \/ OrphanRead(u, "end", "end2") \/ StopRings(u)
  \/ ForceRelease(u) \/ Unlist(u) \/ Spawn(u)

UioNext ==
  \/ \E u \in Users : RingStep(u) \/ CloseStep(u)
  \/ \E r \in Tx : Firmware(r)

UioSpec == UioInit /\ [][UioNext]_uioVars
-----------------------------------------------------------------------------
\* The rings a process holds: those of its entry, until the forced release
\* has given them back and only the deletion of the entry is left.
Holds(u) == IF us[u].pc = "unlist" THEN {} ELSE us[u].mask

\* Two processes never hold the same ring, in particular not after deaths and
\* failed creations, although rings_used is tested outside the bundle's lock.
RingsDisjoint == \A u, v \in Users : u # v => Holds(u) \cap Holds(v) = {}

\* rings_used is what the processes hold, and the rings of a cleanup that found
\* no memory: any other ring can be reserved, whatever happened to the process
\* that had it.
UsedExact == bn.used = bn.leaked \cup UNION {Holds(u) : u \in bn.listed}

\* A ring points into the memory of a process only while the process is in the
\* bundle's list and holds the ring: its death in any step of a creation or a
\* release leaves no ring behind, but for those of a cleanup without memory.
BaseOwned ==
  \A r \in Rings \ bn.leaked : csr.base[r] # Nobody =>
    csr.base[r] \in bn.listed /\ r \in Holds(csr.base[r])

\* The arbiter serves the request rings of every process that is not inside a
\* call and no ring that nobody holds, whatever the others do: a cleanup that
\* overlaps another write of the register, an interrupted call and a request
\* ring that dies without its response ring spoil their own rings' bits, until
\* these are written again, and no other's.
ArbFollowsOwner ==
  /\ \A u \in Users : us[u].pc = "idle" => us[u].handles \cap Tx \subseteq csr.arb \cup csr.stray
  /\ csr.arb \subseteq csr.stray \cup bn.leaked \cup UNION {Holds(u) : u \in Users}

\* The firmware works on no request of a ring that was taken from its process:
\* the answers would go to memory that is being freed.  Not so for a ring whose
\* wait for the null answer ran out of time, until the firmware is done with it.
QuietBeforeFree ==
  \A r \in Tx \ csr.late : csr.base[r] = Nobody => csr.work[r] = "none"
===============================================================================
