---------------------------- MODULE UioRings_proof ----------------------------
(* Proofs about UioRings: any number of processes, any number of rings, any  *)
(* configuration.                                                            *)
EXTENDS UioRings, TLAPS

Places == {"idle", "reserve", "mark", "init", "enable", "enable2", "disable", "disable2", "clear",
           "release", "undo", "close", "off", "off2", "on", "on2", "wait", "zero", "end", "end2",
           "force", "unlist", "gone"}
Process == [pc : Places, ring : Rings, seen : SUBSET Tx, mask : SUBSET Rings,
            handles : SUBSET Rings, orphan : SUBSET Rings]
Bundle == [used : SUBSET Rings, ctl : Users \cup {Nobody}, lock : Users \cup {Nobody},
           listed : SUBSET Users, leaked : SUBSET Rings]
Bank == [base : [Rings -> Users \cup {Nobody}], arb : SUBSET Tx,
         work : [Tx -> {"none", "queued", "working"}], null : SUBSET Tx,
         stray : SUBSET Tx, late : SUBSET Tx]

\* The state is well formed.
TypeInv ==
  /\ us \in [Users -> Process] /\ bn \in Bundle /\ csr \in Bank
  /\ plan \in [Users -> SUBSET Tx]

\* The init state is well formed, and 0 is a ring.
LEMMA RingFacts == 0 \in Rings /\ Tx \subseteq Rings
  BY UioRingsAssumption DEF Rings, Tx

\* A process stays a process through To.
LEMMA ToType ==
  ASSUME TypeInv, NEW u \in Users, NEW l \in Places, NEW r \in Process, To(u, l, r)
  PROVE  /\ us' \in [Users -> Process]
         /\ \A v \in Users \ {u} : us'[v] = us[v]
         /\ us'[u].pc = l /\ us'[u].mask = r.mask /\ us'[u].handles = r.handles
         /\ us'[u].orphan = r.orphan /\ us'[u].seen = (IF l \in InArb THEN r.seen ELSE {})
         /\ us'[u].ring = (IF l \in {"idle", "close"} THEN 0 ELSE r.ring)
<1> DEFINE s == IF l \in InArb THEN r.seen ELSE {}
           n == IF l \in {"idle", "close"} THEN 0 ELSE r.ring
           w == [r EXCEPT !.pc = l, !.seen = s, !.ring = n]
<1>1. us' = [us EXCEPT ![u] = w]
  BY Zenon DEF To
<1>2. w \in Process /\ w.pc = l /\ w.mask = r.mask /\ w.handles = r.handles
      /\ w.orphan = r.orphan /\ w.ring = n /\ w.seen = s
  BY RingFacts, Zenon DEF Process
<1>3. us'[u] = w /\ us' \in [Users -> Process] /\ \A v \in Users \ {u} : us'[v] = us[v]
  BY <1>1, <1>2 DEF TypeInv
<1> QED
  BY <1>2, <1>3

\* What To does to a process that is one.
Moved(u, l, r) ==
  /\ us' \in [Users -> Process] /\ \A v \in Users \ {u} : us'[v] = us[v]
  /\ us'[u].pc = l /\ us'[u].mask = r.mask /\ us'[u].handles = r.handles
  /\ us'[u].orphan = r.orphan
  /\ l \in InArb => us'[u].seen = r.seen
  /\ l \notin {"idle", "close"} => us'[u].ring = r.ring
-----------------------------------------------------------------------------
(* The inductive invariant.                                                  *)

\* Inside a call about a ring that is already in the entry.
Holding == {"init", "enable", "enable2", "disable", "disable2", "clear", "release", "undo"}
\* adf_uio_do_cleanup_orphan: until the rings are cleared, and after.
Draining == {"off", "off2", "on", "on2", "wait", "zero"}
Ending == {"end", "end2", "force"}
\* Past get_orphan_bundle.
Closing == Draining \cup Ending \cup {"unlist", "gone"}
\* Inside an ioctl, under adf_ctl_lock.
InCtl == {"mark", "enable2", "disable2"}

\* Where the process u is, whose record is w, and what it has.
PlaceAt(u, w, b) ==
  /\ w.mask # {} \/ w.pc \notin {"idle", "gone"} => u \in b.listed
  /\ w.pc \in Holding => w.ring \in w.mask
  /\ w.handles \subseteq w.mask
  /\ w.pc \in Closing => w.handles = {}
  /\ w.pc = "gone" => w.mask = {}
  /\ w.pc \in InCtl => b.ctl = u
  /\ w.pc = "mark" => w.ring \notin b.used

\* Process u has programmed what it holds: b are the bases.
BaseAt(u, w, b) ==
  w.pc # "unlist" =>
    /\ \A r \in w.mask : b[r] \in {Nobody, u}
    /\ w.pc \in {"init", "release", "undo"} => b[w.ring] = Nobody
    /\ w.pc \in {"enable", "enable2", "disable", "disable2", "clear"} => b[w.ring] = u
    /\ w.pc \in {"reserve", "mark", "init", "enable", "enable2", "undo"} => w.ring \notin w.handles
    /\ \A r \in w.handles : b[r] = u \/ (w.pc = "release" /\ r = w.ring)
    /\ w.pc \in Draining \cup Ending => w.orphan \subseteq w.mask
    /\ w.pc \in Draining => \A r \in w.mask : b[r] # Nobody => r \in w.orphan
    /\ w.pc \in Ending => \A r \in w.mask : b[r] = Nobody

HeldBy(w) == IF w.pc = "unlist" THEN {} ELSE w.mask

\* A ring has one holder or none; a ring in use has one or was left reserved.
HoldInv ==
  /\ \A u, v \in Users : u # v => HeldBy(us[u]) \cap HeldBy(us[v]) = {}
  /\ \A u \in Users : HeldBy(us[u]) \cap bn.leaked = {}
  /\ \A r \in Rings : r \in bn.used <=> (r \in bn.leaked \/ \E u \in Users : r \in HeldBy(us[u]))

\* A programmed ring has a holder or was left reserved.
BaseInv ==
  \A r \in Rings : csr.base[r] # Nobody =>
    r \in bn.leaked \/ (csr.base[r] \in Users /\ r \in HeldBy(us[csr.base[r]]))

IInv ==
  /\ TypeInv /\ HoldInv /\ BaseInv
  /\ \A u \in Users : PlaceAt(u, us[u], bn) /\ BaseAt(u, us[u], csr.base)

\* A step that goes on through To moves its process alone.
LEMMA ToMoves ==
  ASSUME IInv, NEW u \in Users, NEW l \in Places, NEW r \in Process, To(u, l, r)
  PROVE  Moved(u, l, r)
  BY ToType DEF IInv, Moved

\* What the invariant says of one process.
LEMMA Here ==
  ASSUME IInv, NEW u \in Users
  PROVE  /\ us[u] \in Process /\ us[u].mask \subseteq Rings /\ us[u].ring \in Rings
         /\ us[u].seen \subseteq Tx /\ us[u].orphan \subseteq Rings
         /\ us[u].handles \subseteq us[u].mask
         /\ PlaceAt(u, us[u], bn) /\ BaseAt(u, us[u], csr.base)
         /\ csr \in Bank /\ bn \in Bundle /\ u # Nobody
<1>1. us[u] \in Process /\ csr \in Bank /\ bn \in Bundle
  BY Zenon DEF IInv, TypeInv
<1>2. PlaceAt(u, us[u], bn) /\ BaseAt(u, us[u], csr.base)
  BY Zenon DEF IInv
<1>3. us[u].handles \subseteq us[u].mask
  BY <1>2, Zenon DEF PlaceAt
<1>4. u # Nobody
  BY UioRingsAssumption, Zenon DEF Nobody
<1> QED BY <1>1, <1>2, <1>3, <1>4, Zenon DEF Process

\* Initially nobody has a ring.
LEMMA InitInv == UioInit => IInv
<1> SUFFICES ASSUME UioInit PROVE IInv
  BY Zenon
<1> USE DEF UioInit
<1>1. NewProcess \in Process /\ NewProcess.pc = "idle" /\ NewProcess.mask = {}
      /\ NewProcess.handles = {}
  BY RingFacts, Zenon DEF NewProcess, Process, Places
<1>2. TypeInv
  BY <1>1, UioRingsAssumption, Zenon DEF TypeInv, Bundle, Bank
<1>3. \A u \in Users : us[u] = NewProcess
  BY Zenon
<1>4. ASSUME NEW u \in Users PROVE PlaceAt(u, us[u], bn) /\ BaseAt(u, us[u], csr.base)
  BY <1>1, <1>3, Zenon DEF PlaceAt, BaseAt, Holding, Closing, Draining, Ending, InCtl
<1>5. HoldInv
  BY <1>1, <1>3, Zenon DEF HoldInv, HeldBy
<1>6. BaseInv
  BY Zenon DEF BaseInv
<1> QED BY <1>2, <1>4, <1>5, <1>6, Zenon DEF IInv

\* The bases of the rings of a process decide what BaseAt says of it.
LEMMA BaseFrame ==
  ASSUME NEW v, NEW w, NEW b, NEW c, BaseAt(v, w, b), w.handles \subseteq w.mask,
         w.pc \in Holding => w.ring \in w.mask, \A r \in HeldBy(w) : c[r] = b[r]
  PROVE  BaseAt(v, w, c)
<1> SUFFICES ASSUME w.pc # "unlist" PROVE BaseAt(v, w, c)
  BY Zenon DEF BaseAt
<1>1. \A r \in w.mask : c[r] = b[r]
  BY Zenon DEF HeldBy
<1>2. w.pc \in Holding => c[w.ring] = b[w.ring]
  BY <1>1, Zenon
<1>3. /\ w.pc \in {"init", "release", "undo"} => c[w.ring] = Nobody
      /\ w.pc \in {"enable", "enable2", "disable", "disable2", "clear"} => c[w.ring] = v
  BY <1>2, ZenonT(60) DEF BaseAt, Holding
<1>4. /\ \A r \in w.mask : c[r] \in {Nobody, v}
      /\ w.pc \in Draining => \A r \in w.mask : c[r] # Nobody => r \in w.orphan
      /\ w.pc \in Ending => \A r \in w.mask : c[r] = Nobody
  BY <1>1, ZenonT(60) DEF BaseAt
<1>5. \A r \in w.handles : c[r] = v \/ (w.pc = "release" /\ r = w.ring)
  <2>1. \A r \in w.handles : b[r] = v \/ (w.pc = "release" /\ r = w.ring)
    BY Zenon DEF BaseAt
  <2> QED BY <1>1, <2>1, Zenon
<1>6. /\ w.pc \in {"reserve", "mark", "init", "enable", "enable2", "undo"} => w.ring \notin w.handles
      /\ w.pc \in Draining \cup Ending => w.orphan \subseteq w.mask
  BY Zenon DEF BaseAt
<1> QED BY <1>3, <1>4, <1>5, <1>6, ZenonT(60) DEF BaseAt

\* What a step of process u may do with the rings it held, O, and holds, N.
Owns(u, O, N) ==
  /\ \A r \in Rings \ (O \cup N) : /\ r \in bn'.used <=> r \in bn.used
                                   /\ r \in bn'.leaked <=> r \in bn.leaked
                                   /\ csr'.base[r] = csr.base[r]
  /\ \A r \in N : r \in bn'.used /\ r \notin bn'.leaked /\ csr'.base[r] \in {Nobody, u}
  /\ \A r \in N \ O : r \notin bn.used
  /\ \A r \in O \ N : \/ r \in bn'.leaked /\ r \in bn'.used
                      \/ r \notin bn'.leaked /\ r \notin bn'.used /\ csr'.base[r] = Nobody

\* The step of one process touches only the rings it holds.
LEMMA OwnStep ==
  ASSUME IInv, NEW u \in Users, us' \in [Users -> Process], bn' \in Bundle, csr' \in Bank,
         plan' = plan, \A v \in Users \ {u} : us'[v] = us[v],
         bn.listed \ {u} \subseteq bn'.listed,
         \A v \in Users \ {u} : bn.ctl = v => bn'.ctl = v /\ bn'.used \subseteq bn.used,
         PlaceAt(u, us'[u], bn'), BaseAt(u, us'[u], csr'.base),
         Owns(u, HeldBy(us[u]), HeldBy(us'[u]))
  PROVE  IInv'
<1> DEFINE O == HeldBy(us[u])
           N == HeldBy(us'[u])
<1>1. TypeInv'
  BY Zenon DEF IInv, TypeInv
<1>2. \A v \in Users : HeldBy(us[v]) \subseteq Rings
  BY Zenon DEF IInv, TypeInv, Process, HeldBy
<1>3. N \subseteq Rings
  BY Zenon DEF Process, HeldBy
<1>4. /\ \A v \in Users \ {u} : O \cap HeldBy(us[v]) = {}
      /\ \A v, x \in Users : v # x => HeldBy(us[v]) \cap HeldBy(us[x]) = {}
      /\ \A v \in Users : HeldBy(us[v]) \cap bn.leaked = {}
      /\ \A r \in Rings : r \in bn.used <=> (r \in bn.leaked \/ \E v \in Users : r \in HeldBy(us[v]))
  BY Zenon DEF IInv, HoldInv
<1>5. /\ \A r \in Rings \ (O \cup N) : /\ r \in bn'.used <=> r \in bn.used
                                       /\ r \in bn'.leaked <=> r \in bn.leaked
                                       /\ csr'.base[r] = csr.base[r]
      /\ \A r \in N : r \in bn'.used /\ r \notin bn'.leaked /\ csr'.base[r] \in {Nobody, u}
      /\ \A r \in N \ O : r \notin bn.used
      /\ \A r \in O \ N : \/ r \in bn'.leaked /\ r \in bn'.used
                          \/ r \notin bn'.leaked /\ r \notin bn'.used /\ csr'.base[r] = Nobody
  BY Zenon DEF Owns
<1> HIDE DEF O, N
<1>6. \A v \in Users \ {u} : N \cap HeldBy(us[v]) = {}
  <2> SUFFICES ASSUME NEW v \in Users \ {u}, NEW r \in N, r \in HeldBy(us[v]) PROVE FALSE
    BY Zenon
  <2>1. r \notin O
    BY <1>4, Zenon
  <2>2. r \in bn.used
    BY <1>2, <1>4, Zenon
  <2> QED BY <1>5, <2>1, <2>2, Zenon
<1>7. \A v \in Users : HeldBy(us'[v]) = IF v = u THEN N ELSE HeldBy(us[v])
  BY Zenon DEF N
<1>8. ASSUME NEW v \in Users \ {u}, NEW r \in HeldBy(us[v])
      PROVE  r \in Rings \ (O \cup N)
  BY <1>2, <1>4, <1>6, <1>8, Zenon
<1>9. HoldInv'
  <2>1. \A v, x \in Users : v # x => HeldBy(us'[v]) \cap HeldBy(us'[x]) = {}
    <3> SUFFICES ASSUME NEW v \in Users, NEW x \in Users, v # x
                 PROVE  HeldBy(us'[v]) \cap HeldBy(us'[x]) = {}
      BY Zenon
    <3>1. CASE v = u
      BY <1>6, <1>7, <3>1, Zenon
    <3>2. CASE x = u
      BY <1>6, <1>7, <3>2, Zenon
    <3>3. CASE v # u /\ x # u
      BY <1>4, <1>7, <3>3, Zenon
    <3> QED BY <3>1, <3>2, <3>3, Zenon
  <2>2. ASSUME NEW v \in Users PROVE HeldBy(us'[v]) \cap bn'.leaked = {}
    <3>1. CASE v = u
      BY <1>5, <1>7, <3>1, Zenon
    <3>2. CASE v # u
      <4> SUFFICES ASSUME NEW r \in HeldBy(us[v]) PROVE r \notin bn'.leaked
        BY <1>7, <3>2, Zenon
      <4> QED BY <1>4, <1>5, <1>8, <3>2, Zenon
    <3> QED BY <3>1, <3>2, Zenon
  <2>3. ASSUME NEW r \in Rings
        PROVE  r \in bn'.used <=> (r \in bn'.leaked \/ \E v \in Users : r \in HeldBy(us'[v]))
    <3>1. CASE r \in N
      <4>1. r \in bn'.used
        BY <1>5, <3>1, Zenon
      <4>2. r \in HeldBy(us'[u])
        BY <1>7, <3>1, Zenon
      <4> QED BY <4>1, <4>2, Zenon
    <3>2. CASE r \in O \ N
      <4>1. \A v \in Users : r \notin HeldBy(us'[v])
        BY <1>4, <1>7, <3>2, Zenon
      <4> QED BY <1>5, <3>2, <4>1, Zenon
    <3>3. CASE r \notin O \cup N
      <4>1. ASSUME NEW v \in Users PROVE r \in HeldBy(us'[v]) <=> r \in HeldBy(us[v])
        BY <1>7, <3>3, Zenon DEF O
      <4> QED BY <1>4, <1>5, <3>3, <4>1, Zenon
    <3> QED BY <3>1, <3>2, <3>3, Zenon
  <2> QED BY <2>1, <2>2, <2>3, Zenon DEF HoldInv
<1>10. BaseInv'
  <2> SUFFICES ASSUME NEW r \in Rings, csr'.base[r] # Nobody, r \notin bn'.leaked
               PROVE  csr'.base[r] \in Users /\ r \in HeldBy(us'[csr'.base[r]])
    BY Zenon DEF BaseInv
  <2>1. CASE r \in N
    BY <1>5, <1>7, <2>1, ZenonT(60)
  <2>2. CASE r \in O \ N
    BY <1>5, <2>2, Zenon
  <2>3. CASE r \notin O \cup N
    <3>1. csr'.base[r] = csr.base[r] /\ r \notin bn.leaked
      BY <1>5, <2>3, Zenon
    <3>2. csr.base[r] \in Users /\ r \in HeldBy(us[csr.base[r]])
      BY <3>1, Zenon DEF IInv, BaseInv
    <3>3. csr.base[r] # u
      BY <2>3, <3>2, Zenon DEF O
    <3> QED BY <1>7, <3>1, <3>2, <3>3, Zenon
  <2> QED BY <2>1, <2>2, <2>3, Zenon
<1>11. ASSUME NEW v \in Users PROVE PlaceAt(v, us'[v], bn') /\ BaseAt(v, us'[v], csr'.base)
  <2>1. CASE v = u
    BY <2>1, Zenon
  <2>2. CASE v # u
    <3>1. us'[v] = us[v] /\ PlaceAt(v, us[v], bn) /\ BaseAt(v, us[v], csr.base)
      BY <2>2, Zenon DEF IInv
    <3>2. PlaceAt(v, us[v], bn')
      <4>1. us[v].pc \in InCtl => bn.ctl = v
        BY <3>1, Zenon DEF PlaceAt
      <4>2. us[v].pc = "mark" => us[v].ring \notin bn'.used /\ us[v].pc \in InCtl
        <5>1. us[v].pc = "mark" => us[v].pc \in InCtl
          BY Zenon DEF InCtl
        <5>2. us[v].pc = "mark" => us[v].ring \notin bn.used
          BY <3>1, Zenon DEF PlaceAt
        <5> QED BY <2>2, <4>1, <5>1, <5>2, Zenon
      <4>3. u # v /\ v \in Users \ {u}
        BY <2>2, Zenon
      <4> QED BY <3>1, <4>1, <4>2, <4>3, ZenonT(60) DEF PlaceAt
    <3>3. us[v].handles \subseteq us[v].mask /\ (us[v].pc \in Holding => us[v].ring \in us[v].mask)
      BY <3>1, Zenon DEF PlaceAt
    <3>4. \A r \in HeldBy(us[v]) : csr'.base[r] = csr.base[r]
      BY <1>5, <1>8, <2>2, Zenon
    <3> QED BY <3>1, <3>2, <3>3, <3>4, BaseFrame, ZenonT(60)
  <2> QED BY <2>1, <2>2, Zenon
<1> QED BY <1>1, <1>9, <1>10, <1>11, Zenon DEF IInv
-----------------------------------------------------------------------------
(* The requests on the rings and the arbiter.                                *)

\* The requests that count: those of the rings whose wait did not run out.
Work(c) == [r \in Tx |-> IF r \in c.late THEN "none" ELSE c.work[r]]
\* The rings the arbiter serves, as far as their bits are right.
Sure(c) == c.arb \ c.stray

\* A ring with requests, which are k, has its answer ring.  The process has both
\* handles, or the cleanup has both rings and the null request n behind the last.
QuietAt(u, w, b, k, n) ==
  w.pc # "unlist" =>
    /\ w.pc \in {"disable", "disable2", "clear", "release"} =>
         \A r \in w.mask \cap Tx : w.ring \in {r, Partner(r)} => k[r] = "none"
    /\ \A r \in w.mask \cap Tx : k[r] # "none" =>
         /\ Partner(r) \in w.mask /\ b[r] = u /\ b[Partner(r)] = u
         /\ w.pc \notin {"close"} \cup Closing => {r, Partner(r)} \subseteq w.handles
         /\ w.pc \in Draining => r \in w.orphan
         /\ w.pc = "wait" => r \in n
         /\ w.pc \notin {"zero"} \cup Ending

\* Between the read and the write of an ioctl only stray bits s of the register
\* a change.
FreshAt(w, a, s) ==
  w.pc \in {"enable2", "disable2"} => (a \ w.seen) \cup (w.seen \ a) \subseteq s

\* The register has the handles, but for the stray ones.
ArbAt(w, m) ==
  \A r \in w.handles \cap Tx : r \in m \/ (w.pc \in {"clear", "release"} /\ r = w.ring)

\* A ring the arbiter surely serves is programmed, or the cleanup has it.
PairAt(w, b, g) ==
  w.pc # "unlist" =>
    /\ w.pc = "clear" => w.ring \notin g
    /\ w.pc \notin Draining \cup Ending => \A r \in w.mask \cap g : b[r] # Nobody
    /\ w.pc \in Draining \cup {"end", "end2"} => w.mask \cap g \subseteq w.orphan
    /\ w.pc = "force" => w.mask \cap g = {}

HeldInv ==
  /\ \A r \in Tx : csr.base[r] = Nobody => Work(csr)[r] = "none"
  /\ \A r \in Sure(csr) : r \in bn.leaked \/ \E u \in Users : r \in HeldBy(us[u])
  /\ \A u \in Users : /\ QuietAt(u, us[u], csr.base, Work(csr), csr.null)
                      /\ FreshAt(us[u], csr.arb, csr.stray)
                      /\ ArbAt(us[u], csr.arb \cup csr.stray)
                      /\ PairAt(us[u], csr.base, Sure(csr))

\* What HeldInv says of one process.
LEMMA HeldHere ==
  ASSUME HeldInv, NEW u \in Users
  PROVE  /\ QuietAt(u, us[u], csr.base, Work(csr), csr.null)
         /\ FreshAt(us[u], csr.arb, csr.stray)
         /\ ArbAt(us[u], csr.arb \cup csr.stray)
         /\ PairAt(us[u], csr.base, Sure(csr))
  BY Zenon DEF HeldInv

\* The rings of a process decide what these say of it.
LEMMA HeldFrame ==
  ASSUME IInv, HeldInv, NEW v \in Users, Sure(csr') \subseteq Tx,
         \A r \in HeldBy(us[v]) : csr'.base[r] = csr.base[r],
         \A r \in HeldBy(us[v]) \cap Tx :
           /\ Work(csr')[r] = Work(csr)[r] /\ (r \in csr'.null <=> r \in csr.null)
           /\ (r \in csr.arb \cup csr.stray => r \in csr'.arb \cup csr'.stray)
           /\ (r \in Sure(csr') => r \in Sure(csr))
  PROVE  /\ QuietAt(v, us[v], csr'.base, Work(csr'), csr'.null)
         /\ ArbAt(us[v], csr'.arb \cup csr'.stray) /\ PairAt(us[v], csr'.base, Sure(csr'))
<1> DEFINE w == us[v]
           b == csr.base
           c == csr'.base
           k == Work(csr)
           l == Work(csr')
           n == csr.null
           o == csr'.null
           m == csr.arb \cup csr.stray
           p == csr'.arb \cup csr'.stray
           g == Sure(csr)
           h == Sure(csr')
<1> SUFFICES QuietAt(v, w, c, l, o) /\ ArbAt(w, p) /\ PairAt(w, c, h)
  BY Zenon
<1>3. QuietAt(v, w, b, k, n) /\ ArbAt(w, m) /\ PairAt(w, b, g)
  BY HeldHere, Zenon
<1>4. /\ w.handles \subseteq w.mask
      /\ w.pc \in Closing => w.handles = {}
      /\ w.pc \in Holding => w.ring \in w.mask
  BY Zenon DEF IInv, PlaceAt
<1>5. /\ \A r \in HeldBy(w) : c[r] = b[r]
      /\ \A r \in HeldBy(w) \cap Tx : /\ l[r] = k[r] /\ (r \in o <=> r \in n)
                                     /\ (r \in m => r \in p) /\ (r \in h => r \in g)
  BY Zenon
<1>6. h \subseteq Tx
  BY Zenon
<1> HIDE DEF w, b, c, k, l, n, o, m, p, g, h
<1>1. CASE w.pc = "unlist"
  <2>1. w.handles = {}
    BY <1>1, <1>4, Zenon DEF Closing
  <2> QED BY <1>1, <2>1, ZenonT(60) DEF QuietAt, ArbAt, PairAt
<1>2. CASE w.pc # "unlist"
  <2>1. HeldBy(w) = w.mask
    BY <1>2, Zenon DEF HeldBy
  <2>2. QuietAt(v, w, c, l, o)
    <3>1. ASSUME NEW r \in w.mask \cap Tx, l[r] # "none"
          PROVE  /\ Partner(r) \in w.mask /\ c[r] = v /\ c[Partner(r)] = v
                 /\ w.pc \notin {"close"} \cup Closing => {r, Partner(r)} \subseteq w.handles
                 /\ w.pc \in Draining => r \in w.orphan
                 /\ w.pc = "wait" => r \in o
                 /\ w.pc \notin {"zero"} \cup Ending
      <4>1. k[r] # "none"
        BY <1>5, <2>1, <3>1, Zenon
      <4>2. /\ Partner(r) \in w.mask /\ b[r] = v /\ b[Partner(r)] = v
            /\ w.pc \notin {"close"} \cup Closing => {r, Partner(r)} \subseteq w.handles
            /\ w.pc \in Draining => r \in w.orphan
            /\ w.pc = "wait" => r \in n
            /\ w.pc \notin {"zero"} \cup Ending
        BY <1>2, <1>3, <4>1, Zenon DEF QuietAt
      <4> QED BY <1>5, <2>1, <4>2, Zenon
    <3>2. w.pc \in {"disable", "disable2", "clear", "release"} =>
            \A r \in w.mask \cap Tx : w.ring \in {r, Partner(r)} => l[r] = "none"
      <4>1. w.pc \in {"disable", "disable2", "clear", "release"} =>
              \A r \in w.mask \cap Tx : w.ring \in {r, Partner(r)} => k[r] = "none"
        BY <1>2, <1>3, Zenon DEF QuietAt
      <4> QED BY <1>5, <2>1, <4>1, Zenon
    <3> QED BY <3>1, <3>2, Zenon DEF QuietAt
  <2>3. ArbAt(w, p)
    BY <1>3, <1>4, <1>5, <2>1, Zenon DEF ArbAt
  <2>4. PairAt(w, c, h)
    <3>1. w.mask \cap h \subseteq w.mask \cap g
      BY <1>5, <1>6, <2>1, Zenon
    <3>2. w.pc = "clear" => w.ring \notin h
      <4>1. w.pc = "clear" => w.ring \notin g /\ w.ring \in w.mask
        BY <1>2, <1>3, <1>4, Zenon DEF PairAt, Holding
      <4> QED BY <3>1, <4>1, Zenon
    <3>3. w.pc \notin Draining \cup Ending => \A r \in w.mask \cap h : c[r] # Nobody
      BY <1>2, <1>3, <1>5, <2>1, <3>1, Zenon DEF PairAt
    <3>4. /\ w.pc \in Draining \cup {"end", "end2"} => w.mask \cap h \subseteq w.orphan
          /\ w.pc = "force" => w.mask \cap h = {}
      BY <1>2, <1>3, <3>1, Zenon DEF PairAt
    <3> QED BY <3>2, <3>3, <3>4, Zenon DEF PairAt
  <2> QED BY <2>2, <2>3, <2>4, Zenon
<1> QED BY <1>1, <1>2, Zenon

\* What a step does to the rings outside O: nothing, but for stray bits.
Elsewhere(O) ==
  /\ \A r \in Rings \ O : csr'.base[r] = csr.base[r]
  /\ \A r \in Tx \ O : /\ Work(csr')[r] = Work(csr)[r] /\ (r \in csr'.null <=> r \in csr.null)
                       /\ (r \in csr.arb \cup csr.stray => r \in csr'.arb \cup csr'.stray)
                       /\ (r \in Sure(csr') => r \in Sure(csr))

\* The step of one process touches only the rings it holds.
LEMMA HeldStep ==
  ASSUME IInv, HeldInv, NEW u \in Users, \A v \in Users \ {u} : us'[v] = us[v],
         csr' \in Bank, bn.leaked \subseteq bn'.leaked, Elsewhere(HeldBy(us[u])),
         \A r \in Tx \cap HeldBy(us[u]) : csr'.base[r] = Nobody => Work(csr')[r] = "none",
         \A r \in HeldBy(us[u]) \cap Sure(csr') : r \in HeldBy(us'[u]) \cup bn'.leaked,
         \A v \in Users \ {u} : FreshAt(us[v], csr'.arb, csr'.stray),
         QuietAt(u, us'[u], csr'.base, Work(csr'), csr'.null),
         FreshAt(us'[u], csr'.arb, csr'.stray), ArbAt(us'[u], csr'.arb \cup csr'.stray),
         PairAt(us'[u], csr'.base, Sure(csr'))
  PROVE  HeldInv'
<1> DEFINE O == HeldBy(us[u])
<1>1. Tx \subseteq Rings /\ Sure(csr) \subseteq Tx /\ Sure(csr') \subseteq Tx
  BY RingFacts, Zenon DEF IInv, TypeInv, Bank, Sure
<1>2. /\ \A r \in Rings \ O : csr'.base[r] = csr.base[r]
      /\ \A r \in Tx \ O : /\ Work(csr')[r] = Work(csr)[r] /\ (r \in csr'.null <=> r \in csr.null)
                           /\ (r \in csr.arb \cup csr.stray => r \in csr'.arb \cup csr'.stray)
                           /\ (r \in Sure(csr') => r \in Sure(csr))
  BY Zenon DEF Elsewhere
<1>3. \A v \in Users \ {u} : HeldBy(us[v]) \subseteq Rings \ O
  BY Zenon DEF IInv, HoldInv, TypeInv, Process, HeldBy
<1> HIDE DEF O
<1>4. ASSUME NEW v \in Users \ {u}
      PROVE  /\ QuietAt(v, us'[v], csr'.base, Work(csr'), csr'.null)
             /\ FreshAt(us'[v], csr'.arb, csr'.stray)
             /\ ArbAt(us'[v], csr'.arb \cup csr'.stray)
             /\ PairAt(us'[v], csr'.base, Sure(csr'))
  <2>3. \A r \in HeldBy(us[v]) : csr'.base[r] = csr.base[r]
    BY <1>2, <1>3, Zenon
  <2>4. \A r \in HeldBy(us[v]) \cap Tx :
          /\ Work(csr')[r] = Work(csr)[r] /\ (r \in csr'.null <=> r \in csr.null)
          /\ (r \in csr.arb \cup csr.stray => r \in csr'.arb \cup csr'.stray)
          /\ (r \in Sure(csr') => r \in Sure(csr))
    BY <1>2, <1>3, Zenon
  <2>5. QuietAt(v, us[v], csr'.base, Work(csr'), csr'.null)
        /\ ArbAt(us[v], csr'.arb \cup csr'.stray) /\ PairAt(us[v], csr'.base, Sure(csr'))
    BY <1>1, <2>3, <2>4, HeldFrame, Zenon
  <2> QED BY <2>5, Zenon
<1>5. ASSUME NEW r \in Tx, csr'.base[r] = Nobody PROVE Work(csr')[r] = "none"
  <2>1. CASE r \in O
    BY <1>5, <2>1, Zenon DEF O
  <2>2. CASE r \notin O
    BY <1>1, <1>2, <1>5, <2>2, Zenon DEF HeldInv
  <2> QED BY <2>1, <2>2, Zenon
<1>6. ASSUME NEW r \in Sure(csr') PROVE r \in bn'.leaked \/ \E v \in Users : r \in HeldBy(us'[v])
  <2>1. CASE r \in O
    BY <1>6, <2>1, Zenon DEF O
  <2>2. CASE r \notin O
    <3>1. r \in Sure(csr)
      BY <1>1, <1>2, <1>6, <2>2, Zenon
    <3>2. r \in bn.leaked \/ \E v \in Users : r \in HeldBy(us[v])
      BY <3>1, Zenon DEF HeldInv
    <3>3. ASSUME NEW v \in Users, r \in HeldBy(us[v]) PROVE v \in Users \ {u}
      BY <2>2, <3>3, Zenon DEF O
    <3> QED BY <3>2, <3>3, Zenon
  <2> QED BY <2>1, <2>2, Zenon
<1> QED BY <1>4, <1>5, <1>6, Zenon DEF HeldInv

\* A ring in an entry is in use.
LEMMA InUse ==
  ASSUME IInv, NEW u \in Users, NEW r \in HeldBy(us[u])
  PROVE  r \in Rings /\ r \in bn.used /\ r \notin bn.leaked
<1>1. r \in Rings
  BY Zenon DEF IInv, TypeInv, Process, HeldBy
<1> QED BY <1>1, Zenon DEF IInv, HoldInv

\* A step of u that writes the bases of its own rings alone and keeps them.
LEMMA BaseStep ==
  ASSUME IInv, HeldInv, NEW u \in Users, NEW l \in Places \ {"unlist", "gone"}, NEW w \in Process,
         Moved(u, l, w), us[u].pc # "unlist", w.mask = us[u].mask, plan' = plan,
         bn' \in Bundle, bn'.used = bn.used, bn'.leaked = bn.leaked, bn.listed \subseteq bn'.listed,
         \A v \in Users \ {u} : bn.ctl = v => bn'.ctl = v,
         csr' \in Bank, csr'.arb = csr.arb, csr'.null = csr.null, csr'.work = csr.work,
         csr'.late = csr.late, csr.stray \subseteq csr'.stray,
         \A r \in Rings \ us[u].mask : csr'.base[r] = csr.base[r],
         \A r \in us[u].mask \cap Tx : csr'.base[r] = Nobody => Work(csr)[r] = "none",
         PlaceAt(u, us'[u], bn'), BaseAt(u, us'[u], csr'.base),
         QuietAt(u, us'[u], csr'.base, Work(csr), csr.null),
         FreshAt(us'[u], csr.arb, csr'.stray), ArbAt(us'[u], csr.arb \cup csr'.stray),
         PairAt(us'[u], csr'.base, Sure(csr'))
  PROVE  IInv' /\ HeldInv'
<1>1. /\ us' \in [Users -> Process] /\ \A v \in Users \ {u} : us'[v] = us[v]
      /\ us'[u].pc = l /\ us'[u].mask = us[u].mask
  BY Zenon DEF Moved
<1>2. HeldBy(us'[u]) = us[u].mask /\ HeldBy(us[u]) = us[u].mask
  BY <1>1, Zenon DEF HeldBy
<1>3. us[u].mask \subseteq Rings /\ \A r \in us[u].mask : csr'.base[r] \in {Nobody, u}
  BY <1>1, Zenon DEF IInv, TypeInv, Process, BaseAt
<1>4. \A r \in us[u].mask : r \in bn.used /\ r \notin bn.leaked
  BY <1>2, InUse, Zenon
<1>5. Owns(u, HeldBy(us[u]), HeldBy(us'[u]))
  BY <1>2, <1>3, <1>4, Zenon DEF Owns
<1>7. IInv'
  BY <1>1, <1>5, OwnStep, Zenon
<1>8. Work(csr') = Work(csr) /\ Sure(csr') \subseteq Sure(csr)
  BY Zenon DEF Work, Sure
<1>9. Elsewhere(HeldBy(us[u]))
  BY <1>2, <1>8, Zenon DEF Elsewhere
<1>10. \A r \in Tx \cap HeldBy(us[u]) : csr'.base[r] = Nobody => Work(csr')[r] = "none"
  BY <1>2, <1>8, Zenon
<1>11. \A v \in Users \ {u} : FreshAt(us[v], csr'.arb, csr'.stray)
  <2>1. \A v \in Users : FreshAt(us[v], csr.arb, csr.stray)
    BY Zenon DEF HeldInv
  <2> QED BY <2>1, Zenon DEF FreshAt
<1>12. QuietAt(u, us'[u], csr'.base, Work(csr'), csr'.null)
       /\ FreshAt(us'[u], csr'.arb, csr'.stray) /\ ArbAt(us'[u], csr'.arb \cup csr'.stray)
  BY <1>8, Zenon
<1>13. HeldInv'
  BY <1>1, <1>2, <1>9, <1>10, <1>11, <1>12, HeldStep, Zenon
<1> QED BY <1>7, <1>13

\* A step that moves one process, leaves its rings with it and touches of the
\* bank only stray bits.
LEMMA MoveStep ==
  ASSUME IInv, HeldInv, NEW u \in Users, NEW l \in Places \ {"unlist", "gone"}, NEW w \in Process,
         Moved(u, l, w), us[u].pc # "unlist", w.mask = us[u].mask, plan' = plan,
         bn' \in Bundle, bn'.used = bn.used, bn'.leaked = bn.leaked, bn.listed \subseteq bn'.listed,
         \A v \in Users \ {u} : bn.ctl = v => bn'.ctl = v,
         csr' \in Bank, csr'.base = csr.base, csr'.arb = csr.arb, csr'.null = csr.null,
         csr'.work = csr.work, csr'.late = csr.late, csr.stray \subseteq csr'.stray,
         PlaceAt(u, us'[u], bn'), BaseAt(u, us'[u], csr.base),
         QuietAt(u, us'[u], csr.base, Work(csr), csr.null),
         FreshAt(us'[u], csr.arb, csr'.stray), ArbAt(us'[u], csr.arb \cup csr'.stray),
         PairAt(us'[u], csr.base, Sure(csr'))
  PROVE  IInv' /\ HeldInv'
<1>1. \A r \in us[u].mask \cap Tx : csr'.base[r] = Nobody => Work(csr)[r] = "none"
  BY Zenon DEF HeldInv
<1>2. /\ \A r \in Rings \ us[u].mask : csr'.base[r] = csr.base[r]
      /\ BaseAt(u, us'[u], csr'.base) /\ QuietAt(u, us'[u], csr'.base, Work(csr), csr.null)
      /\ PairAt(us'[u], csr'.base, Sure(csr'))
  BY Zenon
<1> QED BY <1>1, <1>2, BaseStep, Zenon
-----------------------------------------------------------------------------
(* The steps that leave the process its rings and the bank its state.        *)

\* The response ring of a request ring.
LEMMA Pairs ==
  ASSUME NEW r \in Tx
  PROVE  Partner(r) \in Rings \ Tx /\ Partner(Partner(r)) = r
  BY UioRingsAssumption DEF Partner, Rings, Tx

\* A process wants one more ring and is listed.
LEMMA CreateInv ==
  ASSUME IInv, HeldInv, NEW u \in Users, NEW r \in Rings, CreateHandle(u, r)
  PROVE  IInv' /\ HeldInv'
<1> DEFINE w == [us[u] EXCEPT !.ring = r]
<1>1. /\ us[u].pc = "idle" /\ r \notin us[u].handles /\ To(u, "reserve", w)
      /\ bn' = [bn EXCEPT !.listed = @ \cup {u}] /\ csr' = csr /\ plan' = plan
  BY Zenon DEF CreateHandle, Wanted, Mmap, Kept
<1>2. /\ us[u] \in Process /\ PlaceAt(u, us[u], bn) /\ BaseAt(u, us[u], csr.base)
      /\ csr \in Bank /\ bn \in Bundle /\ us[u].handles \subseteq us[u].mask
  BY Here, Zenon
<1>3. w \in Process /\ w.mask = us[u].mask /\ w.handles = us[u].handles /\ w.ring = r
  BY <1>2, Zenon DEF Process
<1>4. "reserve" \in Places \ {"unlist", "gone"}
  BY Zenon DEF Places
<1> HIDE DEF w
<1>5. Moved(u, "reserve", w)
  BY <1>1, <1>3, <1>4, ToMoves, Zenon
<1>6. /\ us'[u].pc = "reserve" /\ us'[u].mask = us[u].mask /\ us'[u].handles = us[u].handles
      /\ us'[u].ring = r
  BY <1>3, <1>5, Zenon DEF Moved
<1>7. /\ bn' \in Bundle /\ bn'.used = bn.used /\ bn'.leaked = bn.leaked /\ bn'.ctl = bn.ctl
      /\ bn'.listed = bn.listed \cup {u}
  BY <1>1, <1>2, Zenon DEF Bundle
<1>8. PlaceAt(u, us'[u], bn')
  BY <1>2, <1>6, <1>7, Zenon DEF PlaceAt, Holding, Closing, Draining, Ending, InCtl
<1>9. BaseAt(u, us'[u], csr.base)
  BY <1>1, <1>2, <1>6, Zenon DEF BaseAt, Draining, Ending
<1>10. QuietAt(u, us[u], csr.base, Work(csr), csr.null) /\ ArbAt(us[u], csr.arb \cup csr.stray)
       /\ PairAt(us[u], csr.base, Sure(csr))
  BY HeldHere, Zenon
<1>11. QuietAt(u, us'[u], csr.base, Work(csr), csr.null)
  BY <1>1, <1>6, <1>10, Zenon DEF QuietAt, Closing, Draining, Ending
<1>12. FreshAt(us'[u], csr.arb, csr'.stray) /\ ArbAt(us'[u], csr.arb \cup csr'.stray)
  BY <1>1, <1>6, <1>10, Zenon DEF FreshAt, ArbAt
<1>13. PairAt(us'[u], csr.base, Sure(csr))
  BY <1>1, <1>6, <1>10, Zenon DEF PairAt, Draining, Ending
<1>14. csr' \in Bank /\ us[u].pc # "unlist"
  BY <1>1, <1>2, Zenon
<1> QED BY <1>1, <1>3, <1>4, <1>5, <1>7, <1>8, <1>9, <1>11, <1>12, <1>13, <1>14, MoveStep, Zenon

\* A process gives a ring back that has nothing in flight.
LEMMA ReleaseHandleInv ==
  ASSUME IInv, HeldInv, NEW u \in Users, NEW r \in Rings, ReleaseHandle(u, r)
  PROVE  IInv' /\ HeldInv'
<1> DEFINE w == [us[u] EXCEPT !.ring = r]
<1>1. /\ us[u].pc = "idle" /\ r \in us[u].handles /\ To(u, "disable", w)
      /\ IF r \in Tx THEN csr.work[r] = "none" ELSE Partner(r) \notin us[u].handles
      /\ bn' = bn /\ csr' = csr /\ plan' = plan
  BY Zenon DEF ReleaseHandle, Kept
<1>2. /\ us[u] \in Process /\ PlaceAt(u, us[u], bn) /\ BaseAt(u, us[u], csr.base)
      /\ csr \in Bank /\ bn \in Bundle /\ us[u].handles \subseteq us[u].mask
  BY Here, Zenon
<1>3. w \in Process /\ w.mask = us[u].mask /\ w.handles = us[u].handles /\ w.ring = r
  BY <1>2, Zenon DEF Process
<1>4. "disable" \in Places \ {"unlist", "gone"}
  BY Zenon DEF Places
<1> HIDE DEF w
<1>5. Moved(u, "disable", w)
  BY <1>1, <1>3, <1>4, ToMoves, Zenon
<1>6. /\ us'[u].pc = "disable" /\ us'[u].mask = us[u].mask /\ us'[u].handles = us[u].handles
      /\ us'[u].ring = r
  BY <1>3, <1>5, Zenon DEF Moved
<1>7. u \in bn.listed
  BY <1>1, <1>2, Zenon DEF PlaceAt
<1>8. PlaceAt(u, us'[u], bn')
  BY <1>1, <1>2, <1>6, <1>7, Zenon DEF PlaceAt, Holding, Closing, Draining, Ending, InCtl
<1>9. BaseAt(u, us'[u], csr.base)
  BY <1>1, <1>2, <1>6, Zenon DEF BaseAt, Draining, Ending
<1>10. QuietAt(u, us[u], csr.base, Work(csr), csr.null) /\ ArbAt(us[u], csr.arb \cup csr.stray)
       /\ PairAt(us[u], csr.base, Sure(csr))
  BY HeldHere, Zenon
<1>11. QuietAt(u, us'[u], csr.base, Work(csr), csr.null)
  <2>1. ASSUME NEW x \in us[u].mask \cap Tx, r \in {x, Partner(x)} PROVE Work(csr)[x] = "none"
    <3>1. Partner(x) \notin Tx /\ Partner(Partner(x)) = x
      BY <2>1, Pairs, Zenon
    <3>2. CASE r \in Tx
      <4>1. r = x /\ csr.work[x] = "none"
        BY <1>1, <2>1, <3>1, <3>2, Zenon
      <4> QED BY <4>1, Zenon DEF Work
    <3>3. CASE r \notin Tx
      <4>1. x \notin us[u].handles
        BY <1>1, <2>1, <3>1, <3>3, Zenon
      <4> QED BY <1>1, <1>10, <4>1, Zenon DEF QuietAt, Closing, Draining, Ending
    <3> QED BY <3>2, <3>3, Zenon
  <2> QED BY <1>1, <1>6, <1>10, <2>1, Zenon DEF QuietAt, Closing, Draining, Ending
<1>12. FreshAt(us'[u], csr.arb, csr'.stray) /\ ArbAt(us'[u], csr.arb \cup csr'.stray)
  BY <1>1, <1>6, <1>10, Zenon DEF FreshAt, ArbAt
<1>13. PairAt(us'[u], csr.base, Sure(csr))
  BY <1>1, <1>6, <1>10, Zenon DEF PairAt, Draining, Ending
<1>14. csr' \in Bank /\ bn' \in Bundle /\ us[u].pc # "unlist"
  BY <1>1, <1>2, Zenon
<1> QED BY <1>1, <1>3, <1>4, <1>5, <1>8, <1>9, <1>11, <1>12, <1>13, <1>14, MoveStep, Zenon

\* A process goes on with what it has, inside an ioctl or outside.
Passes ==
  {<<"reserve", "mark">>, <<"reserve", "close">>, <<"undo", "close">>, <<"init", "undo">>,
   <<"enable", "enable2">>, <<"disable", "disable2">>,
   <<"off", "off2">>, <<"on", "on2">>, <<"end", "end2">>}

\* What the places before and after such a step have in common.
LEMMA PassFacts ==
  ASSUME NEW p, NEW l, <<p, l>> \in Passes
  PROVE  /\ l \in Holding => p \in Holding
         /\ l \in Closing => p \in Closing
         /\ l \in {"init", "release", "undo"} => p = "init"
         /\ l \in {"enable", "enable2", "disable", "disable2", "clear"} => p \in {"enable", "disable"}
         /\ l \in {"disable", "disable2", "clear", "release"} => p = "disable"
         /\ l \in {"reserve", "mark", "init", "enable", "enable2", "undo"} =>
              p \in {"reserve", "enable", "init"}
         /\ l \in Draining => p \in Draining
         /\ l \in Ending => p \in Ending
         /\ l \notin {"close"} \cup Closing => p \notin {"close"} \cup Closing
         /\ l \notin Draining \cup Ending => p \notin Draining \cup Ending
         /\ l \in Draining \cup {"end", "end2"} => p \in Draining \cup {"end", "end2"}
         /\ p \notin {"idle", "gone", "release", "clear", "unlist"}
         /\ l \notin {"idle", "gone", "release", "clear", "unlist", "wait", "force", "zero"}
<1>1. \/ p = "reserve" /\ l = "mark"
      \/ p = "reserve" /\ l = "close"
      \/ p = "undo" /\ l = "close"
      \/ p = "init" /\ l = "undo"
      \/ p = "enable" /\ l = "enable2"
      \/ p = "disable" /\ l = "disable2"
      \/ p = "off" /\ l = "off2"
      \/ p = "on" /\ l = "on2"
      \/ p = "end" /\ l = "end2"
  BY SMT DEF Passes
<1> QED BY <1>1, SMT DEF Holding, Closing, Draining, Ending

\* Such a step keeps the invariant.
LEMMA PassStep ==
  ASSUME IInv, HeldInv, NEW u \in Users, NEW l, <<us[u].pc, l>> \in Passes, NEW w,
         To(u, l, w), \/ w = [us[u] EXCEPT !.seen = csr.arb]
                      \/ w = us[u] /\ l \notin InArb,
         csr' = csr, plan' = plan, bn' \in Bundle, bn'.used = bn.used, bn'.leaked = bn.leaked,
         bn'.listed = bn.listed, l \in InCtl => bn'.ctl = u,
         \A v \in Users \ {u} : bn.ctl = v => bn'.ctl = v,
         l = "mark" => us[u].ring \notin bn.used
  PROVE  IInv' /\ HeldInv'
<1>1. /\ us[u] \in Process /\ PlaceAt(u, us[u], bn) /\ BaseAt(u, us[u], csr.base)
      /\ csr \in Bank /\ us[u].handles \subseteq us[u].mask
  BY Here, Zenon
<1>2. csr.arb \in SUBSET Tx
  BY <1>1, Zenon DEF Bank
<1>3. /\ w \in Process /\ w.mask = us[u].mask /\ w.handles = us[u].handles
      /\ w.ring = us[u].ring /\ w.orphan = us[u].orphan /\ w.seen \in {us[u].seen, csr.arb}
      /\ l \in InArb => w.seen = csr.arb
  <2>1. CASE w = us[u] /\ l \notin InArb
    BY <1>1, <2>1, Zenon
  <2>2. CASE w = [us[u] EXCEPT !.seen = csr.arb]
    BY <1>1, <1>2, <2>2, Zenon DEF Process
  <2> QED BY <2>1, <2>2, Zenon
<1>4. l \in Places \ {"unlist", "gone"}
  BY Zenon DEF Places, Passes
<1>5. Moved(u, l, w)
  BY <1>3, <1>4, ToMoves, Zenon
<1>6. /\ us'[u].pc = l /\ us'[u].mask = us[u].mask /\ us'[u].handles = us[u].handles
      /\ us'[u].orphan = us[u].orphan
      /\ l # "close" => us'[u].ring = us[u].ring
  <2>1. l \notin {"idle", "close"} \/ l = "close"
    BY Zenon DEF Passes
  <2> QED BY <1>3, <1>5, <2>1, Zenon DEF Moved
<1>7. FreshAt(us'[u], csr.arb, csr'.stray)
  <2>1. l \in {"enable2", "disable2"} => us'[u].seen = csr.arb
    BY <1>3, <1>5, Zenon DEF Moved, InArb
  <2> QED BY <1>6, <2>1, Zenon DEF FreshAt
<1>8. QuietAt(u, us[u], csr.base, Work(csr), csr.null) /\ ArbAt(us[u], csr.arb \cup csr.stray)
      /\ PairAt(us[u], csr.base, Sure(csr))
  BY HeldHere, Zenon
<1>9. /\ PlaceAt(u, us'[u], bn') /\ BaseAt(u, us'[u], csr.base)
      /\ QuietAt(u, us'[u], csr.base, Work(csr), csr.null)
      /\ ArbAt(us'[u], csr.arb \cup csr'.stray) /\ PairAt(us'[u], csr.base, Sure(csr))
  <2> DEFINE p == us[u].pc
  <2>1. /\ l \in Holding => p \in Holding
        /\ l \in Closing => p \in Closing
        /\ p \notin {"idle", "gone"} /\ l # "gone"
    BY PassFacts, ZenonT(60)
  <2>2. /\ l \in {"init", "release", "undo"} => p = "init"
        /\ l \in {"enable", "enable2", "disable", "disable2", "clear"} => p \in {"enable", "disable"}
        /\ l \in {"reserve", "mark", "init", "enable", "enable2", "undo"} =>
             p \in {"reserve", "enable", "init"}
    BY PassFacts, Zenon
  <2>3. /\ l \in Draining => p \in Draining
        /\ l \in Ending => p \in Ending
        /\ p \notin {"release", "clear", "unlist"}
        /\ l \notin {"release", "clear", "unlist", "wait", "force", "zero"}
    BY PassFacts, Zenon
  <2>4. /\ l \in {"disable", "disable2", "clear", "release"} => p = "disable"
        /\ l \notin {"close"} \cup Closing => p \notin {"close"} \cup Closing
    BY PassFacts, ZenonT(60)
  <2>5. /\ l \notin Draining \cup Ending => p \notin Draining \cup Ending
        /\ l \in Draining \cup {"end", "end2"} => p \in Draining \cup {"end", "end2"}
    BY PassFacts, ZenonT(60)
  <2>6. PlaceAt(u, us'[u], bn')
    <3>1. u \in bn'.listed
      BY <1>1, <2>1, Zenon DEF PlaceAt
    <3>2. us'[u].pc \in Holding => us'[u].ring \in us'[u].mask
      <4>1. "close" \notin Holding
        BY Zenon DEF Holding
      <4> QED BY <1>1, <1>6, <2>1, <4>1, Zenon DEF PlaceAt
    <3>3. us'[u].pc \in Closing => us'[u].handles = {}
      BY <1>1, <1>6, <2>1, Zenon DEF PlaceAt
    <3> QED BY <1>1, <1>6, <2>1, <3>1, <3>2, <3>3, Zenon DEF PlaceAt
  <2>7. BaseAt(u, us'[u], csr.base)
    <3>1. l \in {"init", "release", "undo"} => csr.base[us'[u].ring] = Nobody
      BY <1>1, <1>6, <2>2, <2>3, Zenon DEF BaseAt
    <3>2. l \in {"enable", "enable2", "disable", "disable2", "clear"} => csr.base[us'[u].ring] = u
      BY <1>1, <1>6, <2>2, <2>3, Zenon DEF BaseAt
    <3>3. l \in {"reserve", "mark", "init", "enable", "enable2", "undo"} =>
            us'[u].ring \notin us'[u].handles
      BY <1>1, <1>6, <2>2, <2>3, Zenon DEF BaseAt
    <3>4. \A r \in us[u].handles : csr.base[r] = u
      BY <1>1, <2>3, Zenon DEF BaseAt
    <3>5. /\ \A r \in us[u].mask : csr.base[r] \in {Nobody, u}
          /\ l \in Draining \cup Ending => us[u].orphan \subseteq us[u].mask
          /\ l \in Draining => \A r \in us[u].mask : csr.base[r] # Nobody => r \in us[u].orphan
          /\ l \in Ending => \A r \in us[u].mask : csr.base[r] = Nobody
      BY <1>1, <2>3, Zenon DEF BaseAt
    <3> QED BY <1>6, <3>1, <3>2, <3>3, <3>4, <3>5, Zenon DEF BaseAt
  <2>8. QuietAt(u, us'[u], csr.base, Work(csr), csr.null)
    <3>1. \A r \in us[u].mask \cap Tx : Work(csr)[r] # "none" =>
            /\ Partner(r) \in us[u].mask /\ csr.base[r] = u /\ csr.base[Partner(r)] = u
            /\ l \notin {"close"} \cup Closing => {r, Partner(r)} \subseteq us[u].handles
            /\ l \in Draining => r \in us[u].orphan
            /\ l \notin Ending
      BY <1>8, <2>3, <2>4, Zenon DEF QuietAt
    <3>2. l \in {"disable", "disable2", "clear", "release"} =>
            /\ us'[u].ring = us[u].ring
            /\ \A r \in us[u].mask \cap Tx : us[u].ring \in {r, Partner(r)} => Work(csr)[r] = "none"
      BY <1>6, <1>8, <2>4, Zenon DEF QuietAt
    <3> QED BY <1>6, <2>3, <3>1, <3>2, Zenon DEF QuietAt
  <2>9. ArbAt(us'[u], csr.arb \cup csr'.stray)
    BY <1>6, <1>8, <2>3, Zenon DEF ArbAt
  <2>10. PairAt(us'[u], csr.base, Sure(csr))
    BY <1>6, <1>8, <2>3, <2>5, Zenon DEF PairAt
  <2> QED BY <2>6, <2>7, <2>8, <2>9, <2>10, Zenon
<1>10. csr' \in Bank /\ us[u].pc # "unlist"
  BY <1>1, PassFacts, Zenon
<1> QED BY <1>3, <1>4, <1>5, <1>7, <1>9, <1>10, MoveStep, Zenon

\* The test of a reservation.
LEMMA ReserveInv ==
  ASSUME IInv, HeldInv, NEW u \in Users, ReserveTest(u)
  PROVE  IInv' /\ HeldInv'
<1>1. us[u].pc = "reserve" /\ csr' = csr /\ plan' = plan /\ bn \in Bundle /\ u # Nobody
  BY Here, Zenon DEF ReserveTest, Kept
<1>2. CASE bn' = bn /\ To(u, "close", us[u])
  <2>1. <<us[u].pc, "close">> \in Passes /\ "close" \notin InArb /\ "close" \notin InCtl
    BY <1>1, Zenon DEF Passes, InArb, InCtl
  <2> QED BY <1>1, <1>2, <2>1, PassStep, Zenon
<1>3. CASE us[u].ring \notin bn.used /\ TakeCtl(u) /\ To(u, "mark", us[u])
  <2>1. <<us[u].pc, "mark">> \in Passes /\ "mark" \notin InArb
    BY <1>1, Zenon DEF Passes, InArb
  <2>2. bn.ctl = Nobody /\ bn' = [bn EXCEPT !.ctl = u]
    BY <1>3, Zenon DEF TakeCtl
  <2>3. /\ bn' \in Bundle /\ bn'.used = bn.used /\ bn'.leaked = bn.leaked
        /\ bn'.listed = bn.listed /\ bn'.ctl = u
    BY <1>1, <2>2, Zenon DEF Bundle
  <2>4. \A v \in Users : v # Nobody
    BY Here, Zenon
  <2> QED BY <1>1, <1>3, <2>1, <2>2, <2>3, <2>4, PassStep, Zenon
<1> QED BY <1>2, <1>3, Zenon DEF ReserveTest

\* The read of an ioctl, which holds adf_ctl_lock from here on.
LEMMA ArbReadInv ==
  ASSUME IInv, HeldInv, NEW u \in Users, NEW at, NEW next, ArbRead(u, at, next),
         <<at, next>> \in {<<"enable", "enable2">>, <<"disable", "disable2">>}
  PROVE  IInv' /\ HeldInv'
<1> DEFINE w == [us[u] EXCEPT !.seen = csr.arb]
<1>1. /\ us[u].pc = at /\ bn.ctl = Nobody /\ bn' = [bn EXCEPT !.ctl = u, !.lock = u]
      /\ To(u, next, w) /\ csr' = csr /\ plan' = plan /\ bn \in Bundle
  BY Here, Zenon DEF ArbRead, Kept
<1>2. <<us[u].pc, next>> \in Passes /\ next # "mark"
  BY <1>1, Zenon DEF Passes
<1>3. /\ bn' \in Bundle /\ bn'.used = bn.used /\ bn'.leaked = bn.leaked
      /\ bn'.listed = bn.listed /\ bn'.ctl = u
  BY <1>1, Zenon DEF Bundle
<1>4. \A v \in Users : v # Nobody
  BY Here, Zenon
<1> QED BY <1>1, <1>2, <1>3, <1>4, PassStep, Zenon

\* The read of a cleanup.
LEMMA OrphanReadInv ==
  ASSUME IInv, HeldInv, NEW u \in Users, NEW at, NEW next, OrphanRead(u, at, next),
         <<at, next>> \in {<<"off", "off2">>, <<"on", "on2">>, <<"end", "end2">>}
  PROVE  IInv' /\ HeldInv'
<1> DEFINE w == [us[u] EXCEPT !.seen = csr.arb]
<1>1. /\ us[u].pc = at /\ To(u, next, w) /\ bn' = bn /\ csr' = csr /\ plan' = plan
      /\ bn \in Bundle
  BY Here, Zenon DEF OrphanRead, Kept
<1>2. <<us[u].pc, next>> \in Passes /\ next # "mark" /\ next \notin InCtl
  BY <1>1, Zenon DEF Passes, InCtl
<1> QED BY <1>1, <1>2, PassStep, Zenon

\* An unmapped bundle, or a dead process: the handles are gone.
LEMMA UnmapInv ==
  ASSUME IInv, HeldInv, NEW u \in Users, UnmapOrDie(u)
  PROVE  IInv' /\ HeldInv'
<1> DEFINE w == [us[u] EXCEPT !.handles = {}]
<1>1. /\ us[u].pc \in {"idle", "reserve", "init", "enable", "disable", "clear", "release", "undo"}
      /\ u \in bn.listed /\ To(u, "close", w) /\ bn' = bn /\ csr' = csr /\ plan' = plan
  BY Zenon DEF UnmapOrDie, Kept
<1>2. /\ us[u] \in Process /\ BaseAt(u, us[u], csr.base) /\ csr \in Bank /\ bn \in Bundle
  BY Here, Zenon
<1>3. w \in Process /\ w.mask = us[u].mask /\ w.handles = {}
  BY <1>2, Zenon DEF Process
<1>4. "close" \in Places \ {"unlist", "gone"}
  BY Zenon DEF Places
<1> HIDE DEF w
<1>5. Moved(u, "close", w)
  BY <1>1, <1>3, <1>4, ToMoves, Zenon
<1>6. us'[u].pc = "close" /\ us'[u].mask = us[u].mask /\ us'[u].handles = {}
  BY <1>3, <1>5, Zenon DEF Moved
<1>7. PlaceAt(u, us'[u], bn')
  BY <1>1, <1>6, Zenon DEF PlaceAt, Holding, InCtl
<1>8. us[u].pc \notin {"unlist"} \cup Draining \cup Ending
  BY <1>1, Zenon DEF Draining, Ending
<1>9. BaseAt(u, us'[u], csr.base)
  BY <1>2, <1>6, <1>8, Zenon DEF BaseAt, Draining, Ending
<1>10. QuietAt(u, us[u], csr.base, Work(csr), csr.null) /\ PairAt(us[u], csr.base, Sure(csr))
  BY HeldHere, Zenon
<1>11. QuietAt(u, us'[u], csr.base, Work(csr), csr.null)
  BY <1>6, <1>8, <1>10, Zenon DEF QuietAt, Closing, Draining, Ending
<1>12. FreshAt(us'[u], csr.arb, csr'.stray) /\ ArbAt(us'[u], csr.arb \cup csr'.stray)
  BY <1>6, Zenon DEF FreshAt, ArbAt
<1>13. PairAt(us'[u], csr.base, Sure(csr))
  BY <1>6, <1>8, <1>10, Zenon DEF PairAt, Draining, Ending
<1>14. csr' \in Bank /\ bn' \in Bundle /\ us[u].pc # "unlist"
  BY <1>1, <1>2, <1>8, Zenon
<1> QED BY <1>1, <1>3, <1>4, <1>5, <1>7, <1>9, <1>11, <1>12, <1>13, <1>14, MoveStep, Zenon

\* A signal before the lock: the process believes the call was made.
LEMMA InterruptedInv ==
  ASSUME IInv, HeldInv, NEW u \in Users, Interrupted(u)
  PROVE  IInv' /\ HeldInv'
<1>1. bn' = bn /\ plan' = plan
  BY Zenon DEF Interrupted
<1>2. /\ us[u] \in Process /\ PlaceAt(u, us[u], bn) /\ BaseAt(u, us[u], csr.base)
      /\ csr \in Bank /\ bn \in Bundle /\ us[u].handles \subseteq us[u].mask
      /\ us[u].ring \in Rings /\ us[u].mask \subseteq Rings
  BY Here, Zenon
<1>3. QuietAt(u, us[u], csr.base, Work(csr), csr.null) /\ ArbAt(us[u], csr.arb \cup csr.stray)
      /\ PairAt(us[u], csr.base, Sure(csr))
  BY HeldHere, Zenon
<1>4. CASE us[u].pc \in {"reserve", "undo"} /\ To(u, "close", us[u]) /\ csr' = csr
  <2>1. /\ <<us[u].pc, "close">> \in Passes /\ "close" \notin InArb /\ "close" \notin InCtl
    BY <1>4, Zenon DEF Passes, InArb, InCtl
  <2> QED BY <1>1, <1>2, <1>4, <2>1, PassStep, Zenon
<1>5. CASE /\ us[u].pc = "enable"
           /\ To(u, "idle", [us[u] EXCEPT !.handles = @ \cup {us[u].ring}])
           /\ csr' = [csr EXCEPT !.stray = @ \cup ({us[u].ring} \cap Tx)]
  <2> DEFINE w == [us[u] EXCEPT !.handles = @ \cup {us[u].ring}]
  <2>1. us[u].ring \in us[u].mask /\ u \in bn.listed /\ csr.base[us[u].ring] = u
    BY <1>2, <1>5, Zenon DEF PlaceAt, BaseAt, Holding
  <2>2. /\ w \in Process /\ w.mask = us[u].mask
        /\ w.handles = us[u].handles \cup {us[u].ring}
    BY <1>2, <2>1, Zenon DEF Process
  <2>3. "idle" \in Places \ {"unlist", "gone"}
    BY Zenon DEF Places
  <2>4. /\ csr' \in Bank /\ csr'.base = csr.base /\ csr'.arb = csr.arb /\ csr'.null = csr.null
        /\ csr'.work = csr.work /\ csr'.late = csr.late
        /\ csr'.stray = csr.stray \cup ({us[u].ring} \cap Tx)
    BY <1>2, <1>5, Zenon DEF Bank
  <2> HIDE DEF w
  <2>5. Moved(u, "idle", w)
    BY <1>5, <2>2, <2>3, ToMoves, Zenon DEF w
  <2>6. /\ us'[u].pc = "idle" /\ us'[u].mask = us[u].mask
        /\ us'[u].handles = us[u].handles \cup {us[u].ring}
    BY <2>2, <2>5, Zenon DEF Moved
  <2>7. PlaceAt(u, us'[u], bn')
    BY <1>1, <1>2, <2>1, <2>6, Zenon DEF PlaceAt, Holding, Closing, Draining, Ending, InCtl
  <2>8. BaseAt(u, us'[u], csr.base)
    BY <1>2, <1>5, <2>1, <2>6, Zenon DEF BaseAt, Draining, Ending
  <2>9. QuietAt(u, us'[u], csr.base, Work(csr), csr.null)
    BY <1>3, <1>5, <2>6, Zenon DEF QuietAt, Closing, Draining, Ending
  <2>10. FreshAt(us'[u], csr.arb, csr'.stray) /\ ArbAt(us'[u], csr.arb \cup csr'.stray)
    BY <1>3, <1>5, <2>4, <2>6, Zenon DEF FreshAt, ArbAt
  <2>11. PairAt(us'[u], csr.base, Sure(csr'))
    <3>1. Sure(csr') \subseteq Sure(csr)
      BY <2>4, Zenon DEF Sure
    <3> QED BY <1>3, <1>5, <2>6, <3>1, Zenon DEF PairAt, Draining, Ending
  <2>12. csr.stray \subseteq csr'.stray /\ bn' \in Bundle /\ us[u].pc # "unlist"
    BY <1>1, <1>2, <1>5, <2>4, Zenon
  <2> QED BY <1>1, <2>2, <2>3, <2>4, <2>5, <2>7, <2>8, <2>9, <2>10, <2>11, <2>12, MoveStep, Zenon
<1>6. CASE /\ us[u].pc = "disable" /\ To(u, "clear", us[u])
           /\ csr' = [csr EXCEPT !.stray = @ \cup ({us[u].ring} \cap Tx)]
  <2>3. "clear" \in Places \ {"unlist", "gone"}
    BY Zenon DEF Places
  <2>4. /\ csr' \in Bank /\ csr'.base = csr.base /\ csr'.arb = csr.arb /\ csr'.null = csr.null
        /\ csr'.work = csr.work /\ csr'.late = csr.late
        /\ csr'.stray = csr.stray \cup ({us[u].ring} \cap Tx)
    BY <1>2, <1>6, Zenon DEF Bank
  <2>5. Moved(u, "clear", us[u])
    BY <1>2, <1>6, <2>3, ToMoves, Zenon
  <2>6. /\ us'[u].pc = "clear" /\ us'[u].mask = us[u].mask
        /\ us'[u].handles = us[u].handles /\ us'[u].ring = us[u].ring
    BY <2>5, Zenon DEF Moved
  <2>7. PlaceAt(u, us'[u], bn')
    BY <1>1, <1>2, <1>6, <2>6, Zenon DEF PlaceAt, Holding, Closing, Draining, Ending, InCtl
  <2>8. BaseAt(u, us'[u], csr.base)
    BY <1>2, <1>6, <2>6, Zenon DEF BaseAt, Draining, Ending
  <2>9. QuietAt(u, us'[u], csr.base, Work(csr), csr.null)
    BY <1>3, <1>6, <2>6, Zenon DEF QuietAt, Closing, Draining, Ending
  <2>10. FreshAt(us'[u], csr.arb, csr'.stray) /\ ArbAt(us'[u], csr.arb \cup csr'.stray)
    BY <1>3, <1>6, <2>4, <2>6, Zenon DEF FreshAt, ArbAt
  <2>11. PairAt(us'[u], csr.base, Sure(csr'))
    <3>1. Sure(csr') \subseteq Sure(csr) /\ us[u].ring \notin Sure(csr')
      BY <1>2, <2>4, Zenon DEF Sure, Bank
    <3> QED BY <1>3, <1>6, <2>6, <3>1, Zenon DEF PairAt, Draining, Ending
  <2>12. csr.stray \subseteq csr'.stray /\ bn' \in Bundle /\ us[u].pc # "unlist"
    BY <1>1, <1>2, <1>6, <2>4, Zenon
  <2> QED BY <1>1, <1>2, <2>3, <2>4, <2>5, <2>7, <2>8, <2>9, <2>10, <2>11, <2>12, MoveStep, Zenon
<1>7. CASE /\ us[u].pc = "release" /\ csr' = csr
           /\ To(u, "idle", [us[u] EXCEPT !.handles = @ \ {us[u].ring}])
  <2> DEFINE w == [us[u] EXCEPT !.handles = @ \ {us[u].ring}]
  <2>1. u \in bn.listed
    BY <1>2, <1>7, Zenon DEF PlaceAt
  <2>2. /\ w \in Process /\ w.mask = us[u].mask
        /\ w.handles = us[u].handles \ {us[u].ring}
    BY <1>2, Zenon DEF Process
  <2>3. "idle" \in Places \ {"unlist", "gone"}
    BY Zenon DEF Places
  <2> HIDE DEF w
  <2>5. Moved(u, "idle", w)
    BY <1>7, <2>2, <2>3, ToMoves, Zenon DEF w
  <2>6. /\ us'[u].pc = "idle" /\ us'[u].mask = us[u].mask
        /\ us'[u].handles = us[u].handles \ {us[u].ring}
    BY <2>2, <2>5, Zenon DEF Moved
  <2>7. PlaceAt(u, us'[u], bn')
    BY <1>1, <1>2, <2>1, <2>6, Zenon DEF PlaceAt, Holding, Closing, Draining, Ending, InCtl
  <2>8. BaseAt(u, us'[u], csr.base)
    BY <1>2, <1>7, <2>6, Zenon DEF BaseAt, Draining, Ending
  <2>9. QuietAt(u, us'[u], csr.base, Work(csr), csr.null)
    <3>1. \A r \in us[u].mask \cap Tx : us[u].ring \in {r, Partner(r)} => Work(csr)[r] = "none"
      BY <1>3, <1>7, Zenon DEF QuietAt
    <3>2. \A r \in us[u].mask \cap Tx : Work(csr)[r] # "none" =>
            /\ Partner(r) \in us[u].mask /\ csr.base[r] = u /\ csr.base[Partner(r)] = u
            /\ {r, Partner(r)} \subseteq us[u].handles
      BY <1>3, <1>7, Zenon DEF QuietAt, Closing, Draining, Ending
    <3> QED BY <2>6, <3>1, <3>2, Zenon DEF QuietAt, Draining, Ending
  <2>10. FreshAt(us'[u], csr.arb, csr'.stray) /\ ArbAt(us'[u], csr.arb \cup csr'.stray)
    BY <1>3, <1>7, <2>6, Zenon DEF FreshAt, ArbAt
  <2>11. PairAt(us'[u], csr.base, Sure(csr))
    BY <1>3, <1>7, <2>6, Zenon DEF PairAt, Draining, Ending
  <2>12. csr' \in Bank /\ bn' \in Bundle /\ us[u].pc # "unlist"
    BY <1>1, <1>2, <1>7, Zenon
  <2> QED BY <1>1, <1>7, <2>2, <2>3, <2>5, <2>7, <2>8, <2>9, <2>10, <2>11, <2>12, MoveStep, Zenon
<1> QED BY <1>4, <1>5, <1>6, <1>7, Zenon DEF Interrupted
-----------------------------------------------------------------------------
(* The steps of a creation and a release that touch the ring.                *)

\* A ring that is not in use is not programmed, quiet and not served.
LEMMA Unused ==
  ASSUME IInv, HeldInv, NEW r \in Rings \ bn.used
  PROVE  csr.base[r] = Nobody /\ r \notin Sure(csr) /\ (r \in Tx => Work(csr)[r] = "none")
<1>1. r \notin bn.leaked /\ \A v \in Users : r \notin HeldBy(us[v])
  BY Zenon DEF IInv, HoldInv
<1>2. csr.base[r] = Nobody
  BY <1>1, Zenon DEF IInv, BaseInv
<1> QED BY <1>1, <1>2, Zenon DEF HeldInv

\* The ring is nobody's: nobody can have taken it since the test.
LEMMA MarkInv ==
  ASSUME IInv, HeldInv, NEW u \in Users, MarkUsed(u)
  PROVE  IInv' /\ HeldInv'
<1> DEFINE i == us[u].ring
           w == [us[u] EXCEPT !.mask = @ \cup {us[u].ring}]
<1>1. /\ us[u].pc = "mark" /\ u \in bn.listed /\ To(u, "init", w) /\ csr' = csr /\ plan' = plan
      /\ bn' = [bn EXCEPT !.used = @ \cup {i}, !.ctl = Nobody]
  BY Zenon DEF MarkUsed, Kept
<1>2. /\ us[u] \in Process /\ PlaceAt(u, us[u], bn) /\ BaseAt(u, us[u], csr.base)
      /\ csr \in Bank /\ bn \in Bundle /\ us[u].handles \subseteq us[u].mask
      /\ i \in Rings /\ us[u].mask \subseteq Rings
  BY Here, Zenon
<1>3. w \in Process /\ w.mask = us[u].mask \cup {i} /\ w.handles = us[u].handles /\ w.ring = i
  BY <1>2, Zenon DEF Process
<1>4. "init" \in Places
  BY Zenon DEF Places
<1>5. bn.ctl = u /\ i \notin bn.used
  BY <1>1, <1>2, Zenon DEF PlaceAt, InCtl
<1>6. csr.base[i] = Nobody /\ i \notin Sure(csr) /\ (i \in Tx => Work(csr)[i] = "none")
  BY <1>2, <1>5, Unused, Zenon
<1>7. /\ bn' \in Bundle /\ bn'.used = bn.used \cup {i} /\ bn'.leaked = bn.leaked
      /\ bn'.listed = bn.listed
  BY <1>1, <1>2, Zenon DEF Bundle
<1> HIDE DEF w
<1>8. Moved(u, "init", w)
  BY <1>1, <1>3, <1>4, ToMoves, Zenon
<1>9. /\ us' \in [Users -> Process] /\ \A v \in Users \ {u} : us'[v] = us[v]
      /\ us'[u].pc = "init" /\ us'[u].mask = us[u].mask \cup {i}
      /\ us'[u].handles = us[u].handles /\ us'[u].ring = i
  BY <1>3, <1>8, Zenon DEF Moved
<1>10. HeldBy(us'[u]) = us[u].mask \cup {i} /\ HeldBy(us[u]) = us[u].mask
  BY <1>1, <1>9, Zenon DEF HeldBy
<1>11. /\ \A r \in us[u].mask : r \in bn.used /\ r \notin bn.leaked /\ csr.base[r] \in {Nobody, u}
       /\ i \notin bn.leaked /\ i \notin us[u].handles
  <2>1. \A r \in Rings : r \in bn.leaked => r \in bn.used
    BY Zenon DEF IInv, HoldInv
  <2>2. \A r \in us[u].mask : r \in bn.used /\ r \notin bn.leaked
    BY <1>10, InUse, Zenon
  <2>3. \A r \in us[u].mask : csr.base[r] \in {Nobody, u}
    BY <1>1, <1>2, Zenon DEF BaseAt
  <2> QED BY <1>2, <1>5, <2>1, <2>2, <2>3, Zenon
<1>12. PlaceAt(u, us'[u], bn')
  BY <1>1, <1>2, <1>7, <1>9, Zenon DEF PlaceAt, Holding, Closing, Draining, Ending, InCtl
<1>13. BaseAt(u, us'[u], csr'.base)
  <2>1. \A r \in us[u].handles : csr.base[r] = u
    BY <1>1, <1>2, Zenon DEF BaseAt
  <2> QED BY <1>1, <1>6, <1>9, <1>11, <2>1, Zenon DEF BaseAt, Draining, Ending
<1>14. Owns(u, HeldBy(us[u]), HeldBy(us'[u]))
  BY <1>1, <1>5, <1>6, <1>7, <1>10, <1>11, Zenon DEF Owns
<1>15. csr' \in Bank /\ \A v \in Users \ {u} : bn.ctl # v
  BY <1>1, <1>2, <1>5, Zenon
<1>16. IInv'
  BY <1>1, <1>7, <1>9, <1>12, <1>13, <1>14, <1>15, OwnStep, Zenon
<1>17. /\ QuietAt(u, us[u], csr.base, Work(csr), csr.null) /\ ArbAt(us[u], csr.arb \cup csr.stray)
       /\ PairAt(us[u], csr.base, Sure(csr))
  BY HeldHere, Zenon
<1>18. QuietAt(u, us'[u], csr.base, Work(csr), csr.null)
  <2>1. \A r \in us[u].mask \cap Tx : Work(csr)[r] # "none" =>
          /\ Partner(r) \in us[u].mask /\ csr.base[r] = u /\ csr.base[Partner(r)] = u
          /\ {r, Partner(r)} \subseteq us[u].handles
    BY <1>1, <1>17, Zenon DEF QuietAt, Closing, Draining, Ending
  <2> QED BY <1>6, <1>9, <2>1, Zenon DEF QuietAt, Draining, Ending
<1>19. FreshAt(us'[u], csr.arb, csr.stray) /\ ArbAt(us'[u], csr.arb \cup csr.stray)
  BY <1>1, <1>9, <1>17, Zenon DEF FreshAt, ArbAt
<1>20. PairAt(us'[u], csr.base, Sure(csr))
  BY <1>1, <1>6, <1>9, <1>17, Zenon DEF PairAt, Draining, Ending
<1>21. Elsewhere(HeldBy(us[u]))
  BY <1>1, Zenon DEF Elsewhere
<1>22. /\ \A r \in Tx \cap HeldBy(us[u]) : csr.base[r] = Nobody => Work(csr)[r] = "none"
       /\ \A v \in Users \ {u} : FreshAt(us[v], csr.arb, csr.stray)
  BY Zenon DEF HeldInv
<1>23. /\ \A r \in HeldBy(us[u]) \cap Sure(csr') : r \in HeldBy(us'[u]) \cup bn'.leaked
       /\ bn.leaked \subseteq bn'.leaked
  BY <1>7, <1>10, Zenon
<1>24. HeldInv'
  BY <1>1, <1>9, <1>15, <1>18, <1>19, <1>20, <1>21, <1>22, <1>23, HeldStep, Zenon
<1> QED BY <1>16, <1>24

\* The ring is programmed, or goes back.
LEMMA InitRingInv ==
  ASSUME IInv, HeldInv, NEW u \in Users, InitRing(u)
  PROVE  IInv' /\ HeldInv'
<1> DEFINE i == us[u].ring
<1>1. us[u].pc = "init" /\ bn' = bn /\ plan' = plan
  BY Zenon DEF InitRing
<1>2. /\ us[u] \in Process /\ PlaceAt(u, us[u], bn) /\ BaseAt(u, us[u], csr.base)
      /\ csr \in Bank /\ bn \in Bundle /\ i \in Rings /\ u # Nobody
  BY Here, Zenon
<1>3. CASE csr' = [csr EXCEPT !.base[i] = u] /\ To(u, "enable", us[u])
  <2>1. /\ i \in us[u].mask /\ i \notin us[u].handles /\ csr.base[i] = Nobody
    BY <1>1, <1>2, Zenon DEF PlaceAt, BaseAt, Holding
  <2>2. /\ csr' \in Bank /\ csr'.base = [csr.base EXCEPT ![i] = u] /\ csr'.arb = csr.arb
        /\ csr'.null = csr.null /\ csr'.work = csr.work /\ csr'.late = csr.late
        /\ csr'.stray = csr.stray
    BY <1>2, <1>3, Zenon DEF Bank
  <2>3. csr'.base[i] = u /\ \A r \in Rings \ {i} : csr'.base[r] = csr.base[r]
    BY <1>2, <2>2, Zenon DEF Bank
  <2>4. "enable" \in Places \ {"unlist", "gone"}
    BY Zenon DEF Places
  <2>5. Moved(u, "enable", us[u])
    BY <1>2, <1>3, <2>4, ToMoves, Zenon
  <2>6. /\ us'[u].pc = "enable" /\ us'[u].mask = us[u].mask
        /\ us'[u].handles = us[u].handles /\ us'[u].ring = i
    BY <2>5, Zenon DEF Moved
  <2>7. PlaceAt(u, us'[u], bn')
    BY <1>1, <1>2, <2>1, <2>6, Zenon DEF PlaceAt, Holding, Closing, Draining, Ending, InCtl
  <2>8. us[u].mask \subseteq Rings /\ us[u].handles \subseteq us[u].mask
    BY Here, Zenon
  <2>9. BaseAt(u, us'[u], csr'.base)
    <3>1. \A r \in us[u].mask : csr'.base[r] \in {Nobody, u}
      BY <1>1, <1>2, <2>3, <2>8, Zenon DEF BaseAt
    <3>2. \A r \in us[u].handles : csr'.base[r] = u
      BY <1>1, <1>2, <2>3, <2>8, Zenon DEF BaseAt
    <3> QED BY <2>1, <2>3, <2>6, <3>1, <3>2, Zenon DEF BaseAt, Draining, Ending
  <2>10. QuietAt(u, us[u], csr.base, Work(csr), csr.null) /\ ArbAt(us[u], csr.arb \cup csr.stray)
         /\ PairAt(us[u], csr.base, Sure(csr))
    BY HeldHere, Zenon
  <2>11. QuietAt(u, us'[u], csr'.base, Work(csr), csr.null)
    <3>1. \A r \in us[u].mask \cap Tx : Work(csr)[r] # "none" =>
            /\ Partner(r) \in us[u].mask /\ csr.base[r] = u /\ csr.base[Partner(r)] = u
            /\ {r, Partner(r)} \subseteq us[u].handles
      BY <1>1, <2>10, Zenon DEF QuietAt, Closing, Draining, Ending
    <3>2. \A r \in us[u].mask : csr.base[r] = u => csr'.base[r] = u
      BY <2>3, <2>8, Zenon
    <3> QED BY <2>6, <3>1, <3>2, Zenon DEF QuietAt, Draining, Ending
  <2>12. FreshAt(us'[u], csr.arb, csr'.stray) /\ ArbAt(us'[u], csr.arb \cup csr'.stray)
    BY <1>1, <2>2, <2>6, <2>10, Zenon DEF FreshAt, ArbAt
  <2>13. PairAt(us'[u], csr'.base, Sure(csr'))
    <3>1. Sure(csr') = Sure(csr)
      BY <2>2, Zenon DEF Sure
    <3>2. \A r \in us[u].mask \cap Sure(csr) : csr'.base[r] # Nobody
      BY <1>1, <1>2, <2>3, <2>8, <2>10, Zenon DEF PairAt, Draining, Ending
    <3> QED BY <2>6, <3>1, <3>2, Zenon DEF PairAt, Draining, Ending
  <2>14. /\ \A r \in Rings \ us[u].mask : csr'.base[r] = csr.base[r]
         /\ \A r \in us[u].mask \cap Tx : csr'.base[r] = Nobody => Work(csr)[r] = "none"
    BY <1>2, <2>1, <2>3, <2>8, Zenon DEF HeldInv
  <2>15. bn' \in Bundle /\ us[u].pc # "unlist" /\ csr.stray \subseteq csr'.stray
    BY <1>1, <1>2, <2>2, Zenon
  <2> QED BY <1>1, <1>2, <2>2, <2>4, <2>5, <2>7, <2>9, <2>11, <2>12, <2>13, <2>14, <2>15,
             BaseStep, Zenon
<1>4. CASE To(u, "undo", us[u]) /\ csr' = csr
  <2>1. <<us[u].pc, "undo">> \in Passes /\ "undo" \notin InArb /\ "undo" \notin InCtl
    BY <1>1, Zenon DEF Passes, InArb, InCtl
  <2> QED BY <1>1, <1>2, <1>4, <2>1, PassStep, Zenon
<1> QED BY <1>3, <1>4, Zenon DEF InitRing

\* The ring is quiet when its base goes.
LEMMA ClearRingInv ==
  ASSUME IInv, HeldInv, NEW u \in Users, ClearRing(u)
  PROVE  IInv' /\ HeldInv'
<1> DEFINE i == us[u].ring
<1>1. /\ us[u].pc = "clear" /\ bn' = bn /\ plan' = plan
      /\ csr' = [csr EXCEPT !.base[i] = Nobody] /\ To(u, "release", us[u])
  BY Zenon DEF ClearRing, Kept
<1>2. /\ us[u] \in Process /\ PlaceAt(u, us[u], bn) /\ BaseAt(u, us[u], csr.base)
      /\ csr \in Bank /\ bn \in Bundle /\ i \in Rings /\ u # Nobody
      /\ us[u].mask \subseteq Rings /\ us[u].handles \subseteq us[u].mask
  BY Here, Zenon
<1>3. i \in us[u].mask
  BY <1>1, <1>2, Zenon DEF PlaceAt, Holding
<1>4. /\ csr' \in Bank /\ csr'.base = [csr.base EXCEPT ![i] = Nobody] /\ csr'.arb = csr.arb
      /\ csr'.null = csr.null /\ csr'.work = csr.work /\ csr'.late = csr.late
      /\ csr'.stray = csr.stray
  BY <1>1, <1>2, Zenon DEF Bank
<1>5. csr'.base[i] = Nobody /\ \A r \in Rings \ {i} : csr'.base[r] = csr.base[r]
  BY <1>2, <1>4, Zenon DEF Bank
<1>6. "release" \in Places \ {"unlist", "gone"}
  BY Zenon DEF Places
<1>7. Moved(u, "release", us[u])
  BY <1>1, <1>2, <1>6, ToMoves, Zenon
<1>8. /\ us'[u].pc = "release" /\ us'[u].mask = us[u].mask
      /\ us'[u].handles = us[u].handles /\ us'[u].ring = i
  BY <1>7, Zenon DEF Moved
<1>9. PlaceAt(u, us'[u], bn')
  BY <1>1, <1>2, <1>3, <1>8, Zenon DEF PlaceAt, Holding, Closing, Draining, Ending, InCtl
<1>10. BaseAt(u, us'[u], csr'.base)
  <2>1. \A r \in us[u].mask : csr'.base[r] \in {Nobody, u}
    BY <1>1, <1>2, <1>5, Zenon DEF BaseAt
  <2>2. \A r \in us[u].handles : csr'.base[r] = u \/ r = i
    BY <1>1, <1>2, <1>5, Zenon DEF BaseAt
  <2> QED BY <1>5, <1>8, <2>1, <2>2, Zenon DEF BaseAt, Draining, Ending
<1>11. QuietAt(u, us[u], csr.base, Work(csr), csr.null) /\ ArbAt(us[u], csr.arb \cup csr.stray)
       /\ PairAt(us[u], csr.base, Sure(csr))
  BY HeldHere, Zenon
<1>12. \A r \in us[u].mask \cap Tx : i \in {r, Partner(r)} => Work(csr)[r] = "none"
  BY <1>1, <1>11, Zenon DEF QuietAt
<1>13. QuietAt(u, us'[u], csr'.base, Work(csr), csr.null)
  <2>1. \A r \in us[u].mask \cap Tx : Work(csr)[r] # "none" =>
          /\ Partner(r) \in us[u].mask /\ csr.base[r] = u /\ csr.base[Partner(r)] = u
          /\ {r, Partner(r)} \subseteq us[u].handles
    BY <1>1, <1>11, Zenon DEF QuietAt, Closing, Draining, Ending
  <2>2. \A r \in us[u].mask \cap Tx : Work(csr)[r] # "none" =>
          csr'.base[r] = u /\ csr'.base[Partner(r)] = u
    BY <1>2, <1>5, <1>12, <2>1, Zenon
  <2> QED BY <1>8, <1>12, <2>1, <2>2, Zenon DEF QuietAt, Draining, Ending
<1>14. FreshAt(us'[u], csr.arb, csr'.stray) /\ ArbAt(us'[u], csr.arb \cup csr'.stray)
  BY <1>1, <1>4, <1>8, <1>11, Zenon DEF FreshAt, ArbAt
<1>15. PairAt(us'[u], csr'.base, Sure(csr'))
  <2>1. Sure(csr') = Sure(csr) /\ i \notin Sure(csr)
    BY <1>1, <1>4, <1>11, Zenon DEF Sure, PairAt
  <2>2. \A r \in us[u].mask \cap Sure(csr) : csr'.base[r] # Nobody
    BY <1>1, <1>2, <1>5, <1>11, <2>1, Zenon DEF PairAt, Draining, Ending
  <2> QED BY <1>8, <2>1, <2>2, Zenon DEF PairAt, Draining, Ending
<1>16. /\ \A r \in Rings \ us[u].mask : csr'.base[r] = csr.base[r]
       /\ \A r \in us[u].mask \cap Tx : csr'.base[r] = Nobody => Work(csr)[r] = "none"
  BY <1>2, <1>3, <1>5, <1>12, Zenon DEF HeldInv
<1>17. bn' \in Bundle /\ us[u].pc # "unlist" /\ csr.stray \subseteq csr'.stray
  BY <1>1, <1>2, <1>4, Zenon
<1> QED BY <1>1, <1>2, <1>4, <1>6, <1>7, <1>9, <1>10, <1>13, <1>14, <1>15, <1>16, <1>17,
           BaseStep, Zenon

\* The write of an ioctl: only the bits that were stray may change.
LEMMA ArbWriteInv ==
  ASSUME IInv, HeldInv, NEW u \in Users, EnableRing(u) \/ DisableRing(u)
  PROVE  IInv' /\ HeldInv'
<1> DEFINE i == us[u].ring
           w == [us[u] EXCEPT !.handles = @ \cup {us[u].ring}]
<1>1. /\ bn' = [bn EXCEPT !.ctl = Nobody, !.lock = Nobody] /\ plan' = plan
      /\ us[u].pc \in {"enable2", "disable2"}
      /\ us[u].pc = "enable2" => To(u, "idle", w)
      /\ us[u].pc = "disable2" => To(u, "clear", us[u])
  BY Zenon DEF EnableRing, DisableRing, Kept
<1>2. /\ us[u] \in Process /\ PlaceAt(u, us[u], bn) /\ BaseAt(u, us[u], csr.base)
      /\ csr \in Bank /\ bn \in Bundle /\ i \in Rings /\ us[u].seen \subseteq Tx
      /\ us[u].mask \subseteq Rings /\ us[u].handles \subseteq us[u].mask /\ u # Nobody
  BY Here, Zenon
<1>3. i \in us[u].mask /\ u \in bn.listed /\ csr.base[i] = u /\ bn.ctl = u
  BY <1>1, <1>2, Zenon DEF PlaceAt, BaseAt, Holding, InCtl
<1>4. /\ w \in Process /\ w.mask = us[u].mask /\ w.handles = us[u].handles \cup {i}
      /\ w.ring = i
  BY <1>2, <1>3, Zenon DEF Process
<1> HIDE DEF w
<1>5. /\ us[u].pc = "enable2" => Moved(u, "idle", w)
      /\ us[u].pc = "disable2" => Moved(u, "clear", us[u])
  <2>1. {"idle", "clear"} \subseteq Places
    BY Zenon DEF Places
  <2> QED BY <1>1, <1>2, <1>4, <2>1, ToMoves, Zenon
<1>6. /\ us' \in [Users -> Process] /\ \A v \in Users \ {u} : us'[v] = us[v]
      /\ us'[u].mask = us[u].mask /\ us'[u].pc \in {"idle", "clear"}
      /\ us'[u].pc = "idle" => us'[u].handles = us[u].handles \cup {i}
      /\ us'[u].pc = "clear" => us'[u].handles = us[u].handles /\ us'[u].ring = i
  BY <1>1, <1>4, <1>5, Zenon DEF Moved
<1>7. us'[u].pc = "idle" <=> us[u].pc = "enable2"
  BY <1>1, <1>5, Zenon DEF Moved
<1>8. PICK a \in SUBSET Tx :
        /\ csr' = [csr EXCEPT !.arb = a, !.stray = @ \ {i}]
        /\ \A r \in Tx \ {i} : r \in a <=> r \in us[u].seen
        /\ i \in a <=> us[u].pc = "enable2" /\ i \in Tx
  <2>1. CASE EnableRing(u)
    <3>1. us[u].pc = "enable2" /\ csr' = [csr EXCEPT !.arb = us[u].seen \cup ({i} \cap Tx), !.stray = @ \ {i}]
      BY <2>1, Zenon DEF EnableRing, ArbOn
    <3>2. us[u].seen \cup ({i} \cap Tx) \in SUBSET Tx
      BY <1>2, Zenon
    <3> QED BY <1>2, <3>1, <3>2, Zenon
  <2>2. CASE DisableRing(u)
    <3>1. us[u].pc = "disable2" /\ csr' = [csr EXCEPT !.arb = us[u].seen \ {i}, !.stray = @ \ {i}]
      BY <2>2, Zenon DEF DisableRing, ArbOff
    <3>2. us[u].seen \ {i} \in SUBSET Tx /\ us[u].pc # "enable2"
      BY <1>2, <3>1, Zenon
    <3> QED BY <1>2, <3>1, <3>2, Zenon
  <2> QED BY <2>1, <2>2, Zenon
<1>9. /\ csr' \in Bank /\ csr'.base = csr.base /\ csr'.null = csr.null /\ csr'.work = csr.work
      /\ csr'.late = csr.late /\ csr'.stray = csr.stray \ {i}
      /\ \A r \in Tx \ {i} : r \in csr'.arb <=> r \in us[u].seen
      /\ i \in csr'.arb <=> us[u].pc = "enable2" /\ i \in Tx
  <2>1. csr' \in Bank /\ csr'.base = csr.base /\ csr'.null = csr.null /\ csr'.work = csr.work
        /\ csr'.late = csr.late /\ csr'.stray = csr.stray \ {i} /\ csr'.arb = a
    BY <1>2, <1>8, Zenon DEF Bank
  <2> QED BY <1>8, <2>1, Zenon
<1>10. /\ QuietAt(u, us[u], csr.base, Work(csr), csr.null) /\ ArbAt(us[u], csr.arb \cup csr.stray)
       /\ PairAt(us[u], csr.base, Sure(csr)) /\ FreshAt(us[u], csr.arb, csr.stray)
  BY HeldHere, Zenon
<1>11. \A r \in Tx : r \notin csr.stray => (r \in csr.arb <=> r \in us[u].seen)
  BY <1>1, <1>10, Zenon DEF FreshAt
<1>12. /\ bn' \in Bundle /\ bn'.used = bn.used /\ bn'.leaked = bn.leaked /\ bn'.listed = bn.listed
  BY <1>1, <1>2, Zenon DEF Bundle
<1>13. PlaceAt(u, us'[u], bn')
  <2>1. us'[u].pc \notin Closing \cup InCtl \cup {"gone", "mark"}
    BY <1>6, Zenon DEF Closing, Draining, Ending, InCtl
  <2>2. us'[u].pc \in Holding => us'[u].pc = "clear"
    BY <1>6, Zenon DEF Holding
  <2>3. us'[u].handles \subseteq us'[u].mask
    BY <1>2, <1>3, <1>6, Zenon
  <2> QED BY <1>3, <1>6, <1>12, <2>1, <2>2, <2>3, Zenon DEF PlaceAt
<1>14. BaseAt(u, us'[u], csr'.base)
  <2>1. (\A r \in us[u].mask : csr.base[r] \in {Nobody, u}) /\ (\A r \in us[u].handles : csr.base[r] = u)
    BY <1>1, <1>2, Zenon DEF BaseAt
  <2> QED BY <1>3, <1>6, <1>9, <2>1, ZenonT(60) DEF BaseAt, Draining, Ending
<1>15. HeldBy(us'[u]) = us[u].mask /\ HeldBy(us[u]) = us[u].mask
  BY <1>1, <1>6, Zenon DEF HeldBy
<1>16. Owns(u, HeldBy(us[u]), HeldBy(us'[u]))
  <2>1. \A r \in us[u].mask : r \in bn.used /\ r \notin bn.leaked
    BY <1>15, InUse, Zenon
  <2>2. \A r \in us[u].mask : csr.base[r] \in {Nobody, u}
    BY <1>1, <1>2, Zenon DEF BaseAt
  <2> QED BY <1>9, <1>12, <1>15, <2>1, <2>2, Zenon DEF Owns
<1>17. IInv'
  BY <1>1, <1>3, <1>6, <1>9, <1>12, <1>13, <1>14, <1>16, OwnStep, Zenon
<1>18. Work(csr') = Work(csr)
  BY <1>9, Zenon DEF Work
<1>19. /\ \A r \in Tx \ {i} : r \in Sure(csr') => r \in Sure(csr)
       /\ \A r \in Tx \ {i} : r \in csr.arb \cup csr.stray => r \in csr'.arb \cup csr'.stray
       /\ i \in Sure(csr') => us[u].pc = "enable2"
  BY <1>9, <1>11, Zenon DEF Sure
<1>20. Elsewhere(HeldBy(us[u]))
  BY <1>3, <1>9, <1>15, <1>18, <1>19, Zenon DEF Elsewhere
<1>21. QuietAt(u, us'[u], csr'.base, Work(csr'), csr'.null)
  <2>1. \A r \in us[u].mask \cap Tx : Work(csr)[r] # "none" =>
          /\ Partner(r) \in us[u].mask /\ csr.base[r] = u /\ csr.base[Partner(r)] = u
          /\ {r, Partner(r)} \subseteq us[u].handles
    BY <1>1, <1>10, Zenon DEF QuietAt, Closing, Draining, Ending
  <2>2. us'[u].pc = "clear" =>
          \A r \in us[u].mask \cap Tx : i \in {r, Partner(r)} => Work(csr)[r] = "none"
    BY <1>1, <1>6, <1>7, <1>10, Zenon DEF QuietAt
  <2>3. us'[u].pc \notin {"disable", "disable2", "release", "wait", "zero"} \cup Draining \cup Ending
    BY <1>6, Zenon DEF Draining, Ending
  <2>4. us[u].handles \subseteq us'[u].handles
    BY <1>6, Zenon
  <2>5. ASSUME NEW r \in us'[u].mask \cap Tx, Work(csr')[r] # "none"
        PROVE  /\ Partner(r) \in us'[u].mask /\ csr'.base[r] = u /\ csr'.base[Partner(r)] = u
               /\ {r, Partner(r)} \subseteq us'[u].handles
    BY <1>6, <1>9, <1>18, <2>1, <2>4, <2>5, ZenonT(60)
  <2>6. us'[u].pc = "clear" =>
          \A r \in us'[u].mask \cap Tx : us'[u].ring \in {r, Partner(r)} => Work(csr')[r] = "none"
    BY <1>6, <1>18, <2>2, Zenon
  <2> QED BY <2>3, <2>5, <2>6, Zenon DEF QuietAt
<1>22. FreshAt(us'[u], csr'.arb, csr'.stray)
  BY <1>6, Zenon DEF FreshAt
<1>23. ArbAt(us'[u], csr'.arb \cup csr'.stray)
  <2>1. \A r \in us[u].handles \cap Tx : r \in csr.arb \cup csr.stray
    BY <1>1, <1>10, Zenon DEF ArbAt
  <2>2. \A r \in us[u].handles \cap Tx : r # i => r \in csr'.arb \cup csr'.stray
    BY <1>19, <2>1, Zenon
  <2> QED BY <1>6, <1>7, <1>9, <2>2, Zenon DEF ArbAt
<1>24. PairAt(us'[u], csr'.base, Sure(csr'))
  <2>1. Sure(csr') \subseteq Tx
    BY <1>9, Zenon DEF Sure, Bank
  <2>2. \A r \in us[u].mask \cap Sure(csr') : csr'.base[r] # Nobody
    BY <1>1, <1>2, <1>3, <1>9, <1>10, <1>19, <2>1, ZenonT(60) DEF PairAt, Draining, Ending
  <2>3. us'[u].pc = "clear" => i \notin Sure(csr')
    BY <1>1, <1>6, <1>7, <1>19, Zenon
  <2> QED BY <1>6, <2>2, <2>3, Zenon DEF PairAt, Draining, Ending
<1>25. \A v \in Users \ {u} : FreshAt(us[v], csr'.arb, csr'.stray)
  <2>1. \A v \in Users : us[v].pc \in InCtl => bn.ctl = v
    BY Zenon DEF IInv, PlaceAt
  <2> QED BY <1>3, <2>1, Zenon DEF FreshAt, InCtl
<1>26. /\ \A r \in Tx \cap HeldBy(us[u]) : csr'.base[r] = Nobody => Work(csr')[r] = "none"
       /\ \A r \in HeldBy(us[u]) \cap Sure(csr') : r \in HeldBy(us'[u]) \cup bn'.leaked
       /\ bn.leaked \subseteq bn'.leaked
  BY <1>9, <1>12, <1>15, <1>18, Zenon DEF HeldInv
<1>27. HeldInv'
  BY <1>6, <1>9, <1>20, <1>21, <1>22, <1>23, <1>24, <1>25, <1>26, HeldStep, Zenon
<1> QED BY <1>17, <1>27

\* A cleared ring leaves the entry and rings_used.
LEMMA ReleaseInv ==
  ASSUME IInv, HeldInv, NEW u \in Users, NEW at, NEW next, ReleaseRing(u, at, next),
         <<at, next>> \in {<<"release", "idle">>, <<"undo", "close">>}
  PROVE  IInv' /\ HeldInv'
<1> DEFINE i == us[u].ring
           w == [us[u] EXCEPT !.mask = @ \ {us[u].ring}, !.handles = @ \ {us[u].ring}]
<1>1. /\ us[u].pc = at /\ i \in us[u].mask /\ csr' = csr /\ plan' = plan
      /\ bn' = [bn EXCEPT !.used = @ \ {i}] /\ To(u, next, w)
  BY Zenon DEF ReleaseRing, Kept
<1>2. /\ us[u] \in Process /\ PlaceAt(u, us[u], bn) /\ BaseAt(u, us[u], csr.base)
      /\ csr \in Bank /\ bn \in Bundle /\ us[u].handles \subseteq us[u].mask
      /\ i \in Rings /\ us[u].mask \subseteq Rings /\ u # Nobody
  BY Here, Zenon
<1>3. /\ us[u].pc \in {"release", "undo"} /\ next \in {"idle", "close"} /\ next \in Places
      /\ next = "idle" => us[u].pc = "release"
  BY <1>1, Zenon DEF Places
<1>4. w \in Process /\ w.mask = us[u].mask \ {i} /\ w.handles = us[u].handles \ {i}
  BY <1>2, Zenon DEF Process
<1> HIDE DEF w
<1>5. Moved(u, next, w)
  BY <1>1, <1>3, <1>4, ToMoves, Zenon
<1>6. /\ us' \in [Users -> Process] /\ \A v \in Users \ {u} : us'[v] = us[v]
      /\ us'[u].pc = next /\ us'[u].mask = us[u].mask \ {i} /\ us'[u].handles = us[u].handles \ {i}
  BY <1>4, <1>5, Zenon DEF Moved
<1>7. /\ bn' \in Bundle /\ bn'.used = bn.used \ {i} /\ bn'.leaked = bn.leaked
      /\ bn'.listed = bn.listed /\ bn'.ctl = bn.ctl
  BY <1>1, <1>2, Zenon DEF Bundle
<1>8. HeldBy(us'[u]) = us[u].mask \ {i} /\ HeldBy(us[u]) = us[u].mask
  BY <1>3, <1>6, Zenon DEF HeldBy
<1>9. /\ \A r \in us[u].mask : r \in bn.used /\ r \notin bn.leaked
      /\ u \in bn.listed
  BY <1>2, <1>3, <1>8, InUse, Zenon DEF PlaceAt
<1>10. csr.base[i] = Nobody /\ \A r \in us[u].mask : csr.base[r] \in {Nobody, u}
  BY <1>2, <1>3, Zenon DEF BaseAt
<1>11. \A r \in us[u].handles : r # i => csr.base[r] = u
  BY <1>2, <1>3, Zenon DEF BaseAt
<1>12. us'[u].pc \notin {"unlist", "gone", "mark"} \cup Holding \cup Closing \cup InCtl
  BY <1>3, <1>6, Zenon DEF Holding, Closing, Draining, Ending, InCtl
<1>13. PlaceAt(u, us'[u], bn')
  BY <1>2, <1>6, <1>7, <1>9, <1>12, Zenon DEF PlaceAt
<1>14. BaseAt(u, us'[u], csr'.base)
  BY <1>1, <1>3, <1>6, <1>10, <1>11, Zenon DEF BaseAt, Draining, Ending
<1>15. Owns(u, HeldBy(us[u]), HeldBy(us'[u]))
  BY <1>1, <1>7, <1>8, <1>9, <1>10, Zenon DEF Owns
<1>16. csr' \in Bank /\ bn'.used \subseteq bn.used
  BY <1>1, <1>2, <1>7, Zenon
<1>17. IInv'
  BY <1>1, <1>6, <1>7, <1>13, <1>14, <1>15, <1>16, OwnStep, Zenon
<1>18. /\ QuietAt(u, us[u], csr.base, Work(csr), csr.null) /\ ArbAt(us[u], csr.arb \cup csr.stray)
       /\ PairAt(us[u], csr.base, Sure(csr))
  BY HeldHere, Zenon
<1>19. QuietAt(u, us'[u], csr.base, Work(csr), csr.null)
  <2>1. \A r \in us[u].mask \cap Tx : Work(csr)[r] # "none" =>
          /\ Partner(r) \in us[u].mask /\ csr.base[r] = u /\ csr.base[Partner(r)] = u
          /\ {r, Partner(r)} \subseteq us[u].handles
    BY <1>3, <1>18, Zenon DEF QuietAt, Closing, Draining, Ending
  <2>2. \A r \in us[u].mask \cap Tx : Work(csr)[r] # "none" => i \notin {r, Partner(r)}
    BY <1>2, <1>10, <2>1, Zenon
  <2> QED BY <1>3, <1>6, <2>1, <2>2, Zenon DEF QuietAt, Draining, Ending
<1>20. FreshAt(us'[u], csr.arb, csr.stray) /\ ArbAt(us'[u], csr.arb \cup csr.stray)
  BY <1>3, <1>6, <1>18, Zenon DEF FreshAt, ArbAt
<1>21. \A r \in us[u].mask \cap Sure(csr) : csr.base[r] # Nobody
  BY <1>3, <1>18, Zenon DEF PairAt, Draining, Ending
<1>22. PairAt(us'[u], csr.base, Sure(csr))
  BY <1>3, <1>6, <1>21, Zenon DEF PairAt, Draining, Ending
<1>23. Elsewhere(HeldBy(us[u]))
  BY <1>1, Zenon DEF Elsewhere
<1>24. /\ \A r \in Tx \cap HeldBy(us[u]) : csr.base[r] = Nobody => Work(csr)[r] = "none"
       /\ \A v \in Users \ {u} : FreshAt(us[v], csr.arb, csr.stray)
  BY Zenon DEF HeldInv
<1>25. /\ \A r \in HeldBy(us[u]) \cap Sure(csr) : r \in HeldBy(us'[u]) \cup bn'.leaked
       /\ bn.leaked \subseteq bn'.leaked
  BY <1>7, <1>8, <1>10, <1>21, Zenon
<1>26. HeldInv'
  BY <1>1, <1>6, <1>16, <1>19, <1>20, <1>22, <1>23, <1>24, <1>25, HeldStep, Zenon
<1> QED BY <1>17, <1>26
-----------------------------------------------------------------------------
(* The end of a process.                                                     *)

\* A step after which the process has nothing, and nothing else changes.
LEMMA DropStep ==
  ASSUME IInv, HeldInv, NEW u \in Users, us' \in [Users -> Process], bn' \in Bundle, csr' = csr,
         plan' = plan, \A v \in Users \ {u} : us'[v] = us[v], us'[u].handles = {},
         us'[u].pc \in {"unlist", "gone", "idle"}, us'[u].pc # "unlist" => us'[u].mask = {},
         us'[u].pc = "unlist" => u \in bn'.listed, bn.listed \ {u} \subseteq bn'.listed,
         bn'.ctl = bn.ctl, bn'.used \subseteq bn.used, bn.leaked \subseteq bn'.leaked,
         \A r \in Rings \ HeldBy(us[u]) : /\ r \in bn'.used <=> r \in bn.used
                                          /\ r \in bn'.leaked <=> r \in bn.leaked,
         \A r \in HeldBy(us[u]) :
           \/ r \in bn'.leaked /\ r \in bn'.used
           \/ r \notin bn'.leaked /\ r \notin bn'.used /\ csr.base[r] = Nobody /\ r \notin Sure(csr)
  PROVE  IInv' /\ HeldInv'
<1>1. HeldBy(us'[u]) = {}
  BY Zenon DEF HeldBy
<1>2. us'[u].pc \notin Holding \cup InCtl \cup Draining \cup Ending \cup {"mark"}
  BY Zenon DEF Holding, InCtl, Draining, Ending
<1>3. PlaceAt(u, us'[u], bn')
  BY <1>2, Zenon DEF PlaceAt
<1>4. BaseAt(u, us'[u], csr'.base)
  BY <1>2, Zenon DEF BaseAt, Holding
<1>5. Owns(u, HeldBy(us[u]), HeldBy(us'[u]))
  BY <1>1, Zenon DEF Owns
<1>6. csr' \in Bank
  BY Zenon DEF IInv, TypeInv
<1>7. IInv'
  BY <1>3, <1>4, <1>5, <1>6, OwnStep, Zenon
<1>8. QuietAt(u, us'[u], csr.base, Work(csr), csr.null)
  BY Zenon DEF QuietAt
<1>9. FreshAt(us'[u], csr.arb, csr.stray) /\ ArbAt(us'[u], csr.arb \cup csr.stray)
  BY Zenon DEF FreshAt, ArbAt
<1>10. PairAt(us'[u], csr.base, Sure(csr))
  BY <1>2, Zenon DEF PairAt, Draining, Ending
<1>11. Elsewhere(HeldBy(us[u]))
  BY Zenon DEF Elsewhere
<1>12. /\ \A r \in Tx \cap HeldBy(us[u]) : csr.base[r] = Nobody => Work(csr)[r] = "none"
       /\ \A v \in Users \ {u} : FreshAt(us[v], csr.arb, csr.stray)
  BY Zenon DEF HeldInv
<1>13. \A r \in HeldBy(us[u]) \cap Sure(csr) : r \in HeldBy(us'[u]) \cup bn'.leaked
  BY Zenon
<1>14. HeldInv'
  BY <1>6, <1>8, <1>9, <1>10, <1>11, <1>12, <1>13, HeldStep, Zenon
<1> QED BY <1>7, <1>14

\* The forced release: every ring is cleared and off.
LEMMA ForceInv ==
  ASSUME IInv, HeldInv, NEW u \in Users, ForceRelease(u)
  PROVE  IInv' /\ HeldInv'
<1>1. /\ us[u].pc = "force" /\ To(u, "unlist", us[u]) /\ csr' = csr /\ plan' = plan
      /\ bn' = [bn EXCEPT !.used = @ \ us[u].mask]
  BY Zenon DEF ForceRelease, Kept
<1>2. /\ us[u] \in Process /\ PlaceAt(u, us[u], bn) /\ BaseAt(u, us[u], csr.base)
      /\ bn \in Bundle /\ PairAt(us[u], csr.base, Sure(csr))
  BY Here, HeldHere, Zenon
<1>3. "unlist" \in Places
  BY Zenon DEF Places
<1>4. Moved(u, "unlist", us[u])
  BY <1>1, <1>2, <1>3, ToMoves, Zenon
<1>5. /\ us' \in [Users -> Process] /\ \A v \in Users \ {u} : us'[v] = us[v]
      /\ us'[u].pc = "unlist" /\ us'[u].handles = us[u].handles
  BY <1>4, Zenon DEF Moved
<1>6. us[u].handles = {} /\ u \in bn.listed
  BY <1>1, <1>2, Zenon DEF PlaceAt, Closing, Ending
<1>7. /\ bn' \in Bundle /\ bn'.used = bn.used \ us[u].mask /\ bn'.leaked = bn.leaked
      /\ bn'.listed = bn.listed /\ bn'.ctl = bn.ctl
  BY <1>1, <1>2, Zenon DEF Bundle
<1>8. HeldBy(us[u]) = us[u].mask
  BY <1>1, Zenon DEF HeldBy
<1>9. \A r \in us[u].mask : csr.base[r] = Nobody /\ r \notin Sure(csr) /\ r \notin bn.leaked
  BY <1>1, <1>2, <1>8, InUse, ZenonT(60) DEF BaseAt, PairAt, Ending
<1>10. \A r \in HeldBy(us[u]) : r \notin bn'.leaked /\ r \notin bn'.used
  BY <1>7, <1>8, <1>9, Zenon
<1>11. /\ \A r \in Rings \ HeldBy(us[u]) : /\ r \in bn'.used <=> r \in bn.used
                                           /\ r \in bn'.leaked <=> r \in bn.leaked
       /\ bn'.used \subseteq bn.used
  BY <1>7, <1>8, Zenon
<1> QED BY <1>1, <1>5, <1>6, <1>7, <1>8, <1>9, <1>10, <1>11, DropStep, Zenon

\* The entry is deleted.
LEMMA UnlistInv ==
  ASSUME IInv, HeldInv, NEW u \in Users, Unlist(u)
  PROVE  IInv' /\ HeldInv'
<1> DEFINE w == [us[u] EXCEPT !.mask = {}, !.orphan = {}]
<1>1. /\ us[u].pc = "unlist" /\ To(u, "gone", w) /\ csr' = csr /\ plan' = plan
      /\ bn' = [bn EXCEPT !.listed = @ \ {u}]
  BY Zenon DEF Unlist, Kept
<1>2. us[u] \in Process /\ PlaceAt(u, us[u], bn) /\ bn \in Bundle
  BY Here, Zenon
<1>3. w \in Process /\ w.mask = {} /\ w.handles = us[u].handles /\ "gone" \in Places
  BY <1>2, Zenon DEF Process, Places
<1> HIDE DEF w
<1>4. Moved(u, "gone", w)
  BY <1>1, <1>3, ToMoves, Zenon
<1>5. us[u].handles = {} /\ HeldBy(us[u]) = {}
  BY <1>1, <1>2, Zenon DEF PlaceAt, Closing, HeldBy
<1>6. /\ us' \in [Users -> Process] /\ \A v \in Users \ {u} : us'[v] = us[v]
      /\ us'[u].pc = "gone" /\ us'[u].handles = {} /\ us'[u].mask = {}
  BY <1>3, <1>4, <1>5, Zenon DEF Moved
<1>7. /\ bn' \in Bundle /\ bn'.used = bn.used /\ bn'.leaked = bn.leaked
      /\ bn'.listed = bn.listed \ {u} /\ bn'.ctl = bn.ctl
  BY <1>1, <1>2, Zenon DEF Bundle
<1> QED BY <1>1, <1>5, <1>6, <1>7, DropStep, Zenon

\* A new process begins with nothing.
LEMMA SpawnInv ==
  ASSUME IInv, HeldInv, NEW u \in Users, Spawn(u)
  PROVE  IInv' /\ HeldInv'
<1>1. /\ us[u].pc = "gone" /\ us' = [us EXCEPT ![u] = NewProcess] /\ bn' = bn /\ csr' = csr
      /\ plan' = plan
  BY Zenon DEF Spawn
<1>2. NewProcess \in Process /\ NewProcess.pc = "idle" /\ NewProcess.mask = {}
      /\ NewProcess.handles = {}
  BY RingFacts, Zenon DEF NewProcess, Process, Places
<1>3. us \in [Users -> Process] /\ PlaceAt(u, us[u], bn) /\ bn \in Bundle
  BY Here, Zenon DEF IInv, TypeInv
<1>4. /\ us' \in [Users -> Process] /\ \A v \in Users \ {u} : us'[v] = us[v]
      /\ us'[u] = NewProcess
  BY <1>1, <1>2, <1>3, Zenon
<1>5. HeldBy(us[u]) = {}
  BY <1>1, <1>3, Zenon DEF PlaceAt, HeldBy
<1> QED BY <1>1, <1>2, <1>3, <1>4, <1>5, DropStep, Zenon

\* get_orphan_bundle: a ring without its partner is cleared, the others are kept
\* for the cleanup; without memory they stay reserved.
LEMMA OrphansInv ==
  ASSUME IInv, HeldInv, NEW u \in Users, GetOrphans(u)
  PROVE  IInv' /\ HeldInv'
<1> DEFINE own == {r \in us[u].mask : csr.base[r] # Nobody}
           lone == Unpaired(own)
           orphan == {r \in own : Partner(r) \in own}
<1>1. us[u].pc = "close" /\ plan' = plan
  BY Zenon DEF GetOrphans
<1>2. /\ us[u] \in Process /\ PlaceAt(u, us[u], bn) /\ BaseAt(u, us[u], csr.base)
      /\ csr \in Bank /\ bn \in Bundle /\ us[u].mask \subseteq Rings /\ u # Nobody
  BY Here, Zenon
<1>3. /\ own \subseteq us[u].mask /\ lone \subseteq own /\ orphan \subseteq own
      /\ \A r \in own : csr.base[r] # Nobody /\ (r \in lone \/ r \in orphan)
      /\ \A r \in us[u].mask : csr.base[r] # Nobody => r \in own
      /\ \A r \in lone : Partner(r) \notin own
      /\ \A r \in own : Partner(r) \in own => r \in orphan
      /\ u \in bn.listed /\ \A r \in us[u].mask : csr.base[r] \in {Nobody, u}
  <2>1. u \in bn.listed /\ \A r \in us[u].mask : csr.base[r] \in {Nobody, u}
    BY <1>1, <1>2, Zenon DEF PlaceAt, BaseAt
  <2> QED BY <2>1, Zenon DEF Unpaired
<1>4. CASE /\ csr' = [csr EXCEPT !.base = [r \in Rings |-> IF r \in lone THEN Nobody ELSE @[r]],
                                 !.stray = @ \cup (lone \cap csr.arb)]
           /\ To(u, AfterOrphans(orphan), [us[u] EXCEPT !.orphan = orphan, !.handles = {}])
           /\ bn' = bn
  <2> DEFINE w == [us[u] EXCEPT !.orphan = orphan, !.handles = {}]
             l == AfterOrphans(orphan)
             b == [r \in Rings |-> IF r \in lone THEN Nobody ELSE csr.base[r]]
  <2>1. w \in Process /\ w.mask = us[u].mask /\ w.orphan = orphan /\ w.handles = {}
    BY <1>2, <1>3, Zenon DEF Process
  <2>2. b \in [Rings -> Users \cup {Nobody}]
    BY <1>2, Zenon DEF Bank
  <2>3. /\ csr' \in Bank /\ csr'.base = b /\ csr'.arb = csr.arb /\ csr'.null = csr.null
        /\ csr'.work = csr.work /\ csr'.late = csr.late
        /\ csr'.stray = csr.stray \cup (lone \cap csr.arb)
    BY <1>2, <1>4, <2>2, Zenon DEF Bank
  <2>4. \A r \in Rings : csr'.base[r] = IF r \in lone THEN Nobody ELSE csr.base[r]
    BY <2>3, Zenon
  <2>5. l \in Places \ {"unlist", "gone"} /\ l \in {"off", "force"} /\ (l = "force" => orphan = {})
    BY Zenon DEF AfterOrphans, Places
  <2>6. To(u, l, w) /\ bn' = bn
    BY <1>4, Zenon
  <2> HIDE DEF w, l, b, own, lone, orphan
  <2>7. Moved(u, l, w)
    BY <2>1, <2>5, <2>6, ToMoves, Zenon
  <2>8. /\ us'[u].pc = l /\ us'[u].mask = us[u].mask /\ us'[u].handles = {}
        /\ us'[u].orphan = orphan
    BY <2>1, <2>7, Zenon DEF Moved
  <2>9. PlaceAt(u, us'[u], bn')
    BY <1>3, <2>5, <2>6, <2>8, Zenon DEF PlaceAt, Holding, InCtl
  <2>10. \A r \in us[u].mask : csr'.base[r] \in {Nobody, u} /\ (csr'.base[r] # Nobody => r \in orphan)
    BY <1>2, <1>3, <2>4, Zenon
  <2>11. BaseAt(u, us'[u], csr'.base)
    <3>1. orphan \subseteq us[u].mask
      BY <1>3, Zenon
    <3>2. l \in Ending => \A r \in us[u].mask : csr'.base[r] = Nobody
      BY <2>5, <2>10, Zenon DEF Ending
    <3>3. l \notin {"init", "release", "undo", "enable", "enable2", "disable", "disable2", "clear",
                    "reserve", "mark"}
      BY <2>5, Zenon
    <3> QED BY <2>8, <2>10, <3>1, <3>2, <3>3, Zenon DEF BaseAt
  <2>12. QuietAt(u, us[u], csr.base, Work(csr), csr.null) /\ PairAt(us[u], csr.base, Sure(csr))
    BY HeldHere, Zenon
  <2>13. ASSUME NEW r \in us[u].mask \cap Tx, Work(csr)[r] # "none"
         PROVE  /\ Partner(r) \in us[u].mask /\ r \in orphan
                /\ csr'.base[r] = u /\ csr'.base[Partner(r)] = u
    <3>1. Partner(r) \in us[u].mask /\ csr.base[r] = u /\ csr.base[Partner(r)] = u
      BY <1>1, <2>12, <2>13, Zenon DEF QuietAt
    <3>2. r \in own /\ Partner(r) \in own /\ Partner(Partner(r)) = r
      BY <1>2, <1>3, <2>13, <3>1, Pairs, Zenon
    <3>3. r \in orphan /\ r \notin lone /\ Partner(r) \notin lone
      BY <1>3, <3>2, Zenon
    <3> QED BY <1>2, <2>4, <3>1, <3>3, Zenon
  <2>14. QuietAt(u, us'[u], csr'.base, Work(csr), csr.null)
    <3>1. l \in Ending => orphan = {}
      BY <2>5, Zenon DEF Ending
    <3>2. l \in Closing /\ l \notin {"wait", "zero", "disable", "disable2", "clear", "release"}
      BY <2>5, Zenon DEF Closing, Draining, Ending
    <3> QED BY <2>8, <2>13, <3>1, <3>2, Zenon DEF QuietAt
  <2>15. FreshAt(us'[u], csr.arb, csr'.stray) /\ ArbAt(us'[u], csr.arb \cup csr'.stray)
    BY <2>5, <2>8, Zenon DEF FreshAt, ArbAt
  <2>16. PairAt(us'[u], csr'.base, Sure(csr'))
    <3>1. us[u].mask \cap Sure(csr') \subseteq orphan
      <4> SUFFICES ASSUME NEW r \in us[u].mask, r \in Sure(csr') PROVE r \in orphan
        BY Zenon
      <4>1. r \in csr.arb /\ r \notin csr.stray /\ r \notin lone
        BY <2>3, Zenon DEF Sure
      <4>2. csr.base[r] # Nobody
        BY <1>1, <2>12, <4>1, Zenon DEF PairAt, Draining, Ending, Sure
      <4> QED BY <1>3, <4>1, <4>2, Zenon
    <3>2. l \in Draining \cup Ending /\ l # "clear" /\ (l = "force" => orphan = {})
      BY <2>5, Zenon DEF Draining, Ending
    <3> QED BY <2>8, <3>1, <3>2, Zenon DEF PairAt
  <2>17. /\ \A r \in Rings \ us[u].mask : csr'.base[r] = csr.base[r]
         /\ \A r \in us[u].mask \cap Tx : csr'.base[r] = Nobody => Work(csr)[r] = "none"
    BY <1>2, <1>3, <2>4, <2>13, Zenon
  <2>18. bn' \in Bundle /\ us[u].pc # "unlist" /\ csr.stray \subseteq csr'.stray
    BY <1>1, <1>2, <2>3, <2>6, Zenon
  <2> QED BY <1>1, <1>2, <2>1, <2>3, <2>5, <2>6, <2>7, <2>9, <2>11, <2>14, <2>15, <2>16, <2>17,
             <2>18, BaseStep, Zenon
<1>5. CASE /\ bn' = [bn EXCEPT !.leaked = @ \cup us[u].mask] /\ csr' = csr
           /\ To(u, "unlist", [us[u] EXCEPT !.handles = {}])
  <2> DEFINE w == [us[u] EXCEPT !.handles = {}]
  <2>1. w \in Process /\ w.handles = {} /\ "unlist" \in Places
    BY <1>2, Zenon DEF Process, Places
  <2> HIDE DEF w
  <2>2. Moved(u, "unlist", w)
    BY <1>5, <2>1, ToMoves, Zenon DEF w
  <2>3. /\ us' \in [Users -> Process] /\ \A v \in Users \ {u} : us'[v] = us[v]
        /\ us'[u].pc = "unlist" /\ us'[u].handles = {}
    BY <2>1, <2>2, Zenon DEF Moved
  <2>4. /\ bn' \in Bundle /\ bn'.used = bn.used /\ bn'.leaked = bn.leaked \cup us[u].mask
        /\ bn'.listed = bn.listed /\ bn'.ctl = bn.ctl
    BY <1>2, <1>5, Zenon DEF Bundle
  <2>5. HeldBy(us[u]) = us[u].mask
    BY <1>1, Zenon DEF HeldBy
  <2>6. \A r \in us[u].mask : r \in bn.used
    BY <2>5, InUse, Zenon
  <2> QED BY <1>1, <1>3, <1>5, <2>3, <2>4, <2>5, <2>6, DropStep, Zenon
<1> QED BY <1>4, <1>5, Zenon DEF GetOrphans

\* After the wait the rings are quiet, or late.
LEMMA WaitInv ==
  ASSUME IInv, HeldInv, NEW u \in Users, WaitNull(u)
  PROVE  IInv' /\ HeldInv'
<1>1. /\ us[u].pc = "wait" /\ To(u, "zero", us[u]) /\ bn' = bn /\ plan' = plan
      /\ csr' = [csr EXCEPT !.null = @ \ us[u].orphan,
                            !.late = @ \cup (us[u].orphan \cap csr.null)]
  BY Zenon DEF WaitNull, Kept
<1>2. /\ us[u] \in Process /\ PlaceAt(u, us[u], bn) /\ BaseAt(u, us[u], csr.base)
      /\ csr \in Bank /\ bn \in Bundle
  BY Here, Zenon
<1>3. "zero" \in Places
  BY Zenon DEF Places
<1>4. Moved(u, "zero", us[u])
  BY <1>1, <1>2, <1>3, ToMoves, Zenon
<1>5. /\ us' \in [Users -> Process] /\ \A v \in Users \ {u} : us'[v] = us[v]
      /\ us'[u].pc = "zero" /\ us'[u].mask = us[u].mask /\ us'[u].handles = us[u].handles
      /\ us'[u].orphan = us[u].orphan
  BY <1>4, Zenon DEF Moved
<1>6. /\ csr' \in Bank /\ csr'.base = csr.base /\ csr'.arb = csr.arb /\ csr'.stray = csr.stray
      /\ csr'.work = csr.work /\ csr'.null = csr.null \ us[u].orphan
      /\ csr'.late = csr.late \cup (us[u].orphan \cap csr.null)
  BY <1>1, <1>2, Zenon DEF Bank
<1>7. PlaceAt(u, us'[u], bn')
  BY <1>1, <1>2, <1>5, Zenon DEF PlaceAt, Holding, Closing, Draining, InCtl
<1>8. BaseAt(u, us'[u], csr'.base)
  BY <1>1, <1>2, <1>5, <1>6, ZenonT(60) DEF BaseAt, Draining, Ending
<1>9. HeldBy(us'[u]) = us[u].mask /\ HeldBy(us[u]) = us[u].mask /\ us[u].orphan \subseteq us[u].mask
  BY <1>1, <1>2, <1>5, Zenon DEF HeldBy, BaseAt, Draining
<1>10. Owns(u, HeldBy(us[u]), HeldBy(us'[u]))
  <2>1. \A r \in us[u].mask : r \in bn.used /\ r \notin bn.leaked
    BY <1>9, InUse, Zenon
  <2>2. \A r \in us[u].mask : csr.base[r] \in {Nobody, u}
    BY <1>1, <1>2, Zenon DEF BaseAt
  <2> QED BY <1>1, <1>6, <1>9, <2>1, <2>2, Zenon DEF Owns
<1>11. IInv'
  BY <1>1, <1>2, <1>5, <1>6, <1>7, <1>8, <1>10, OwnStep, Zenon
<1>12. /\ QuietAt(u, us[u], csr.base, Work(csr), csr.null) /\ PairAt(us[u], csr.base, Sure(csr))
       /\ ArbAt(us[u], csr.arb \cup csr.stray)
  BY HeldHere, Zenon
<1>13. \A r \in Tx : /\ Work(csr)[r] = "none" => Work(csr')[r] = "none"
                     /\ r \in us[u].orphan \cap csr.null => Work(csr')[r] = "none"
                     /\ r \notin us[u].orphan => Work(csr')[r] = Work(csr)[r]
  BY <1>6, Zenon DEF Work
<1>14. \A r \in us[u].mask \cap Tx : Work(csr')[r] = "none"
  <2>1. \A r \in us[u].mask \cap Tx : Work(csr)[r] # "none" => r \in us[u].orphan \cap csr.null
    BY <1>1, <1>12, Zenon DEF QuietAt, Draining
  <2> QED BY <1>13, <2>1, Zenon
<1>15. Sure(csr') = Sure(csr)
  BY <1>6, ZenonT(60) DEF Sure
<1>16. Elsewhere(HeldBy(us[u]))
  BY <1>6, <1>9, <1>13, <1>15, Zenon DEF Elsewhere
<1>17. QuietAt(u, us'[u], csr'.base, Work(csr'), csr'.null)
  BY <1>5, <1>14, Zenon DEF QuietAt
<1>18. FreshAt(us'[u], csr'.arb, csr'.stray) /\ ArbAt(us'[u], csr'.arb \cup csr'.stray)
  BY <1>1, <1>5, <1>6, <1>12, Zenon DEF FreshAt, ArbAt
<1>19. PairAt(us'[u], csr'.base, Sure(csr'))
  BY <1>1, <1>5, <1>6, <1>12, <1>15, Zenon DEF PairAt, Draining, Ending
<1>20. /\ \A r \in Tx \cap HeldBy(us[u]) : csr'.base[r] = Nobody => Work(csr')[r] = "none"
       /\ \A r \in HeldBy(us[u]) \cap Sure(csr') : r \in HeldBy(us'[u]) \cup bn'.leaked
       /\ bn.leaked \subseteq bn'.leaked
  BY <1>1, <1>9, <1>14, Zenon
<1>21. \A v \in Users \ {u} : FreshAt(us[v], csr'.arb, csr'.stray)
  BY <1>6, Zenon DEF HeldInv
<1>22. HeldInv'
  BY <1>5, <1>6, <1>16, <1>17, <1>18, <1>19, <1>20, <1>21, HeldStep, Zenon
<1> QED BY <1>11, <1>22

\* The rings are cleared.
LEMMA ZeroInv ==
  ASSUME IInv, HeldInv, NEW u \in Users, ZeroRings(u)
  PROVE  IInv' /\ HeldInv'
<1> DEFINE b == [r \in Rings |-> IF r \in us[u].orphan THEN Nobody ELSE csr.base[r]]
<1>1. /\ us[u].pc = "zero" /\ To(u, "end", us[u]) /\ bn' = bn /\ plan' = plan
      /\ csr' = [csr EXCEPT !.base = b]
  BY Zenon DEF ZeroRings, Kept
<1>2. /\ us[u] \in Process /\ PlaceAt(u, us[u], bn) /\ BaseAt(u, us[u], csr.base)
      /\ csr \in Bank /\ bn \in Bundle /\ us[u].mask \subseteq Rings
  BY Here, Zenon
<1>3. b \in [Rings -> Users \cup {Nobody}]
  BY <1>2, Zenon DEF Bank
<1>4. /\ csr' \in Bank /\ csr'.base = b /\ csr'.arb = csr.arb /\ csr'.null = csr.null
      /\ csr'.work = csr.work /\ csr'.late = csr.late /\ csr'.stray = csr.stray
  BY <1>1, <1>2, <1>3, Zenon DEF Bank
<1>5. \A r \in Rings : csr'.base[r] = IF r \in us[u].orphan THEN Nobody ELSE csr.base[r]
  BY <1>4, Zenon
<1> HIDE DEF b
<1>6. "end" \in Places \ {"unlist", "gone"}
  BY Zenon DEF Places
<1>7. Moved(u, "end", us[u])
  BY <1>1, <1>2, <1>6, ToMoves, Zenon
<1>8. /\ us'[u].pc = "end" /\ us'[u].mask = us[u].mask /\ us'[u].handles = us[u].handles
      /\ us'[u].orphan = us[u].orphan
  BY <1>7, Zenon DEF Moved
<1>9. /\ us[u].orphan \subseteq us[u].mask /\ us[u].handles = {} /\ u \in bn.listed
      /\ \A r \in us[u].mask : csr.base[r] # Nobody => r \in us[u].orphan
  BY <1>1, <1>2, Zenon DEF BaseAt, PlaceAt, Closing, Draining
<1>10. \A r \in us[u].mask : csr'.base[r] = Nobody
  BY <1>2, <1>5, <1>9, Zenon
<1>11. PlaceAt(u, us'[u], bn')
  BY <1>1, <1>8, <1>9, Zenon DEF PlaceAt, Holding, InCtl
<1>12. BaseAt(u, us'[u], csr'.base)
  BY <1>8, <1>9, <1>10, Zenon DEF BaseAt, Draining
<1>13. QuietAt(u, us[u], csr.base, Work(csr), csr.null) /\ PairAt(us[u], csr.base, Sure(csr))
  BY HeldHere, Zenon
<1>14. \A r \in us[u].mask \cap Tx : Work(csr)[r] = "none"
  BY <1>1, <1>13, Zenon DEF QuietAt
<1>15. QuietAt(u, us'[u], csr'.base, Work(csr), csr.null)
  BY <1>8, <1>14, Zenon DEF QuietAt
<1>16. FreshAt(us'[u], csr.arb, csr'.stray) /\ ArbAt(us'[u], csr.arb \cup csr'.stray)
  BY <1>8, <1>9, Zenon DEF FreshAt, ArbAt
<1>17. PairAt(us'[u], csr'.base, Sure(csr'))
  <2>1. us[u].mask \cap Sure(csr') \subseteq us[u].orphan
    BY <1>1, <1>4, <1>13, Zenon DEF PairAt, Sure, Draining
  <2> QED BY <1>8, <2>1, Zenon DEF PairAt, Ending
<1>18. /\ \A r \in Rings \ us[u].mask : csr'.base[r] = csr.base[r]
       /\ \A r \in us[u].mask \cap Tx : csr'.base[r] = Nobody => Work(csr)[r] = "none"
  BY <1>5, <1>9, <1>14, Zenon
<1>19. bn' \in Bundle /\ us[u].pc # "unlist" /\ csr.stray \subseteq csr'.stray
  BY <1>1, <1>2, <1>4, Zenon
<1> QED BY <1>1, <1>2, <1>4, <1>6, <1>7, <1>11, <1>12, <1>15, <1>16, <1>17, <1>18, <1>19,
           BaseStep, Zenon

\* The register after the write of a cleanup, without the locks.
Swept(u, a) ==
  /\ csr'.arb = a /\ csr'.base = csr.base /\ csr'.late = csr.late
  /\ csr'.stray = ((csr.stray \cup (csr.arb \ us[u].seen) \cup (us[u].seen \ csr.arb)) \ us[u].orphan)
       \cup {r \in us[u].orphan \cap Tx : \E v \in Users :
               us[v].pc \in {"enable2", "disable2"} /\ ((r \in us[v].seen) # (r \in a))}

\* It makes stray what it changes by mistake, and what an ioctl will change.
LEMMA SweepStep ==
  ASSUME IInv, HeldInv, NEW u \in Users, NEW a \in SUBSET Tx, Swept(u, a), csr' \in Bank,
         \A r \in Tx \ us[u].orphan : r \in a <=> r \in us[u].seen,
         \A r \in Tx : csr'.work[r] = csr.work[r] \/ (r \in us[u].orphan /\ csr'.work[r] = "none"),
         \A r \in Tx \ us[u].orphan : r \in csr'.null <=> r \in csr.null,
         us[u].pc \in {"off2", "on2", "end2"}, bn' = bn, plan' = plan,
         NEW l \in {"on", "wait", "force"}, To(u, l, us[u]),
         us[u].pc = "end2" <=> l = "force", l = "force" => a \cap us[u].orphan = {},
         l = "wait" => us[u].orphan \cap Tx \subseteq csr'.null
  PROVE  IInv' /\ HeldInv'
<1>1. /\ us[u] \in Process /\ PlaceAt(u, us[u], bn) /\ BaseAt(u, us[u], csr.base)
      /\ csr \in Bank /\ bn \in Bundle /\ us[u].seen \subseteq Tx
  BY Here, Zenon
<1>2. l \in Places /\ l \notin {"idle", "close"}
  BY Zenon DEF Places
<1>3. Moved(u, l, us[u])
  BY <1>1, <1>2, ToMoves, Zenon
<1>4. /\ us' \in [Users -> Process] /\ \A v \in Users \ {u} : us'[v] = us[v]
      /\ us'[u].pc = l /\ us'[u].mask = us[u].mask /\ us'[u].handles = us[u].handles
      /\ us'[u].orphan = us[u].orphan
  BY <1>3, Zenon DEF Moved
<1>5. /\ us[u].pc \in Draining \cup Ending
      /\ us[u].pc \in Closing /\ us[u].pc # "unlist"
      /\ us[u].pc \in Draining \cup {"end", "end2"}
      /\ us[u].pc = "end2" => us[u].pc \in Ending
      /\ us[u].pc # "end2" => us[u].pc \in Draining
  BY Zenon DEF Closing, Draining, Ending
<1>6. /\ l \in Closing /\ l \notin {"unlist", "gone", "zero"} \cup Holding \cup InCtl
      /\ l = "force" => l \in Ending /\ l \notin Draining
      /\ l # "force" => l \in Draining /\ l \notin Ending
  BY Zenon DEF Closing, Draining, Ending, Holding, InCtl
<1>7. /\ us[u].orphan \subseteq us[u].mask /\ us[u].handles = {} /\ u \in bn.listed
      /\ \A r \in us[u].mask : csr.base[r] \in {Nobody, u}
      /\ us[u].pc # "end2" => \A r \in us[u].mask : csr.base[r] # Nobody => r \in us[u].orphan
      /\ us[u].pc = "end2" => \A r \in us[u].mask : csr.base[r] = Nobody
  <2>1. us[u].orphan \subseteq us[u].mask /\ \A r \in us[u].mask : csr.base[r] \in {Nobody, u}
    BY <1>1, <1>5, Zenon DEF BaseAt
  <2>2. us[u].handles = {} /\ u \in bn.listed
    BY <1>1, <1>5, Zenon DEF PlaceAt
  <2>3. us[u].pc # "end2" => \A r \in us[u].mask : csr.base[r] # Nobody => r \in us[u].orphan
    BY <1>1, <1>5, Zenon DEF BaseAt
  <2>4. us[u].pc = "end2" => \A r \in us[u].mask : csr.base[r] = Nobody
    BY <1>1, <1>5, Zenon DEF BaseAt
  <2> QED BY <2>1, <2>2, <2>3, <2>4, Zenon
<1>8. /\ csr'.arb = a /\ csr'.base = csr.base /\ csr'.late = csr.late
      /\ \A r \in Tx \ us[u].orphan :
           r \in csr'.stray <=> (r \in csr.stray \/ ~(r \in csr.arb <=> r \in us[u].seen))
      /\ \A r \in us[u].orphan \cap Tx : \A v \in Users :
           us[v].pc \in {"enable2", "disable2"} /\ ~(r \in us[v].seen <=> r \in a) => r \in csr'.stray
  <2>1. \A r \in us[u].orphan \cap Tx : \A v \in Users :
          us[v].pc \in {"enable2", "disable2"} /\ (r \in us[v].seen) # (r \in a) => r \in csr'.stray
    BY SMT DEF Swept
  <2>2. \A r \in Tx \ us[u].orphan :
           r \in csr'.stray <=> (r \in csr.stray \/ ~(r \in csr.arb <=> r \in us[u].seen))
    BY SMT DEF Swept
  <2>3. csr'.arb = a /\ csr'.base = csr.base /\ csr'.late = csr.late
    BY Zenon DEF Swept
  <2> QED BY <2>1, <2>2, <2>3, SMT
<1>9. PlaceAt(u, us'[u], bn')
  BY <1>4, <1>6, <1>7, Zenon DEF PlaceAt, InCtl
<1>10. BaseAt(u, us'[u], csr'.base)
  <2>1. l \notin {"init", "release", "undo", "enable", "enable2", "disable", "disable2", "clear",
                  "reserve", "mark"}
    BY Zenon
  <2> QED BY <1>4, <1>6, <1>7, <1>8, <2>1, Zenon DEF BaseAt
<1>11. HeldBy(us'[u]) = us[u].mask /\ HeldBy(us[u]) = us[u].mask
  BY <1>4, <1>5, <1>6, Zenon DEF HeldBy
<1>12. Owns(u, HeldBy(us[u]), HeldBy(us'[u]))
  <2>1. \A r \in us[u].mask : r \in bn.used /\ r \notin bn.leaked
    BY <1>11, InUse, Zenon
  <2> QED BY <1>7, <1>8, <1>11, <2>1, Zenon DEF Owns
<1>13. IInv'
  BY <1>1, <1>4, <1>9, <1>10, <1>12, OwnStep, Zenon
<1>14. QuietAt(u, us[u], csr.base, Work(csr), csr.null) /\ PairAt(us[u], csr.base, Sure(csr))
  BY HeldHere, Zenon
<1>15. \A r \in Tx : Work(csr')[r] = Work(csr)[r] \/ (r \in us[u].orphan /\ Work(csr')[r] = "none")
  BY <1>8, Zenon DEF Work
<1>16. /\ \A r \in Tx \ us[u].orphan : r \in csr.arb \cup csr.stray => r \in csr'.arb \cup csr'.stray
       /\ \A r \in Tx \ us[u].orphan : r \in Sure(csr') => r \in Sure(csr)
  BY <1>8, Zenon DEF Sure
<1>17. Elsewhere(HeldBy(us[u]))
  <2>1. Tx \ us[u].mask \subseteq Tx \ us[u].orphan
    BY <1>7, Zenon
  <2>2. \A r \in Tx \ us[u].mask :
          /\ Work(csr')[r] = Work(csr)[r] /\ (r \in csr'.null <=> r \in csr.null)
          /\ (r \in csr.arb \cup csr.stray => r \in csr'.arb \cup csr'.stray)
          /\ (r \in Sure(csr') => r \in Sure(csr))
    BY <1>15, <1>16, <2>1, Zenon
  <2> QED BY <1>8, <1>11, <2>2, Zenon DEF Elsewhere
<1>18. QuietAt(u, us'[u], csr'.base, Work(csr'), csr'.null)
  <2>1. ASSUME NEW r \in us[u].mask \cap Tx, Work(csr')[r] # "none"
        PROVE  /\ Partner(r) \in us[u].mask /\ csr.base[r] = u /\ csr.base[Partner(r)] = u
               /\ r \in us[u].orphan /\ l # "force" /\ (l = "wait" => r \in csr'.null)
    <3>1. Work(csr)[r] # "none"
      BY <1>15, <2>1, Zenon
    <3>2. Partner(r) \in us[u].mask /\ csr.base[r] = u /\ csr.base[Partner(r)] = u
      BY <1>5, <1>14, <3>1, Zenon DEF QuietAt
    <3>3. us[u].pc \notin Ending /\ (us[u].pc \in Draining => r \in us[u].orphan)
      BY <1>5, <1>14, <3>1, Zenon DEF QuietAt
    <3> QED BY <1>5, <2>1, <3>2, <3>3, Zenon
  <2>2. l \notin {"disable", "disable2", "clear", "release", "zero"}
    BY Zenon
  <2> QED BY <1>4, <1>6, <1>8, <2>1, <2>2, Zenon DEF QuietAt
<1>19. FreshAt(us'[u], csr'.arb, csr'.stray) /\ ArbAt(us'[u], csr'.arb \cup csr'.stray)
  BY <1>4, <1>7, Zenon DEF FreshAt, ArbAt
<1>20. PairAt(us'[u], csr'.base, Sure(csr'))
  <2>1. us[u].mask \cap Sure(csr) \subseteq us[u].orphan
    BY <1>5, <1>14, Zenon DEF PairAt
  <2>2. Sure(csr') \subseteq Tx /\ Sure(csr') \subseteq a
    BY <1>8, Zenon DEF Sure
  <2>3. us[u].mask \cap Sure(csr') \subseteq us[u].orphan
    BY <1>16, <2>1, <2>2, Zenon
  <2>4. l = "force" => us[u].mask \cap Sure(csr') = {}
    BY <2>2, <2>3, Zenon
  <2>5. l \in Draining \cup Ending /\ l # "clear"
    BY <1>6, Zenon
  <2> QED BY <1>4, <2>3, <2>4, <2>5, Zenon DEF PairAt
<1>21. ASSUME NEW v \in Users \ {u} PROVE FreshAt(us[v], csr'.arb, csr'.stray)
  <2> SUFFICES ASSUME us[v].pc \in {"enable2", "disable2"}, NEW r \in Tx,
                      ~(r \in a <=> r \in us[v].seen)
               PROVE  r \in csr'.stray
    <3>1. us[v].seen \subseteq Tx
      BY Here, Zenon
    <3> QED BY <1>8, <3>1, Zenon DEF FreshAt
  <2>1. CASE r \in us[u].orphan
    BY <1>8, <2>1, Zenon
  <2>2. CASE r \notin us[u].orphan
    <3>1. FreshAt(us[v], csr.arb, csr.stray)
      BY HeldHere, Zenon
    <3>2. r \in csr.stray \/ (r \in csr.arb <=> r \in us[v].seen)
      BY <3>1, Zenon DEF FreshAt
    <3> QED BY <1>8, <2>2, <3>2, Zenon
  <2> QED BY <2>1, <2>2, Zenon
<1>22. /\ \A r \in Tx \cap HeldBy(us[u]) : csr'.base[r] = Nobody => Work(csr')[r] = "none"
       /\ \A r \in HeldBy(us[u]) \cap Sure(csr') : r \in HeldBy(us'[u]) \cup bn'.leaked
       /\ bn.leaked \subseteq bn'.leaked
  <2>1. \A r \in Tx : csr.base[r] = Nobody => Work(csr)[r] = "none"
    BY Zenon DEF HeldInv
  <2> QED BY <1>8, <1>11, <1>15, <2>1, Zenon
<1>23. HeldInv'
  BY <1>4, <1>17, <1>18, <1>19, <1>20, <1>21, <1>22, HeldStep, Zenon
<1> QED BY <1>13, <1>23

\* The three writes of a cleanup.
LEMMA SweepInv ==
  ASSUME IInv, HeldInv, NEW u \in Users, ResetTx(u) \/ SendNull(u) \/ StopRings(u)
  PROVE  IInv' /\ HeldInv'
<1> DEFINE O == us[u].orphan
           S(a) == ((csr.stray \cup ((csr.arb \ us[u].seen) \cup (us[u].seen \ csr.arb))) \ O)
                     \cup {r \in O \cap Tx : \E v \in Users :
                             us[v].pc \in {"enable2", "disable2"} /\ ((r \in us[v].seen) # (r \in a))}
<1>1. /\ us[u] \in Process /\ csr \in Bank /\ us[u].seen \subseteq Tx
  BY Here, Zenon
<1>2. ASSUME NEW a \in SUBSET Tx PROVE S(a) \in SUBSET Tx
  <2>1. csr.stray \subseteq Tx /\ csr.arb \subseteq Tx
    BY <1>1, Zenon DEF Bank
  <2> QED BY <1>1, <2>1, Zenon
<1>3. \A a : OrphanWrite(u, a) = [csr EXCEPT !.arb = a, !.stray = S(a)]
  BY Zenon DEF OrphanWrite
<1>4. us[u].seen \ O \in SUBSET Tx /\ us[u].seen \cup (O \cap Tx) \in SUBSET Tx
  BY <1>1, Zenon
<1>5. bn' = bn /\ plan' = plan
  BY Zenon DEF ResetTx, SendNull, StopRings, Kept
<1>6. CASE ResetTx(u)
  <2> DEFINE a == us[u].seen \ O
             k == [r \in Tx |-> IF r \in O /\ csr.work[r] = "queued" THEN "none" ELSE csr.work[r]]
  <2>1. us[u].pc = "off2" /\ To(u, "on", us[u])
        /\ csr' = [[csr EXCEPT !.arb = a, !.stray = S(a)] EXCEPT
                     !.work = [r \in Tx |-> IF r \in O /\ @[r] = "queued" THEN "none" ELSE @[r]]]
    BY <1>3, <1>6, Zenon DEF ResetTx, ArbOff
  <2>2. k \in [Tx -> {"none", "queued", "working"}] /\ S(a) \in SUBSET Tx /\ a \in SUBSET Tx
    BY <1>1, <1>2, <1>4, Zenon DEF Bank
  <2> HIDE DEF S
  <2>3. /\ csr' \in Bank /\ csr'.arb = a /\ csr'.base = csr.base /\ csr'.late = csr.late
        /\ csr'.stray = S(a) /\ csr'.null = csr.null /\ csr'.work = k
    BY <1>1, <2>1, <2>2, Zenon DEF Bank
  <2>4. Swept(u, a)
    <3>1. S(a) = ((csr.stray \cup (csr.arb \ us[u].seen) \cup (us[u].seen \ csr.arb)) \ O)
                   \cup {r \in O \cap Tx : \E v \in Users :
                         us[v].pc \in {"enable2", "disable2"} /\ ((r \in us[v].seen) # (r \in a))}
      BY Zenon DEF S
    <3> QED BY <2>3, <3>1, Zenon DEF Swept
  <2>5. /\ \A r \in Tx \ O : r \in a <=> r \in us[u].seen
        /\ \A r \in Tx : csr'.work[r] = csr.work[r] \/ (r \in O /\ csr'.work[r] = "none")
        /\ \A r \in Tx \ O : r \in csr'.null <=> r \in csr.null
    BY <2>3, Zenon
  <2> QED BY <1>5, <2>1, <2>2, <2>3, <2>4, <2>5, SweepStep, Zenon
<1>7. CASE SendNull(u)
  <2> DEFINE a == us[u].seen \cup (O \cap Tx)
  <2>1. us[u].pc = "on2" /\ To(u, "wait", us[u])
        /\ csr' = [[csr EXCEPT !.arb = a, !.stray = S(a)] EXCEPT !.null = @ \cup (O \cap Tx)]
    BY <1>3, <1>7, Zenon DEF SendNull, ArbOn
  <2>2. S(a) \in SUBSET Tx /\ a \in SUBSET Tx
    BY <1>2, <1>4, Zenon
  <2> HIDE DEF S
  <2>3. /\ csr' \in Bank /\ csr'.arb = a /\ csr'.base = csr.base /\ csr'.late = csr.late
        /\ csr'.stray = S(a) /\ csr'.null = csr.null \cup (O \cap Tx) /\ csr'.work = csr.work
    BY <1>1, <2>1, <2>2, Zenon DEF Bank
  <2>4. Swept(u, a)
    <3>1. S(a) = ((csr.stray \cup (csr.arb \ us[u].seen) \cup (us[u].seen \ csr.arb)) \ O)
                   \cup {r \in O \cap Tx : \E v \in Users :
                         us[v].pc \in {"enable2", "disable2"} /\ ((r \in us[v].seen) # (r \in a))}
      BY Zenon DEF S
    <3> QED BY <2>3, <3>1, Zenon DEF Swept
  <2>5. /\ \A r \in Tx \ O : r \in a <=> r \in us[u].seen
        /\ \A r \in Tx : csr'.work[r] = csr.work[r]
        /\ \A r \in Tx \ O : r \in csr'.null <=> r \in csr.null
        /\ O \cap Tx \subseteq csr'.null
    BY <2>3, Zenon
  <2> QED BY <1>5, <2>1, <2>2, <2>3, <2>4, <2>5, SweepStep, Zenon
<1>8. CASE StopRings(u)
  <2> DEFINE a == us[u].seen \ O
  <2>1. us[u].pc = "end2" /\ To(u, "force", us[u]) /\ csr' = [csr EXCEPT !.arb = a, !.stray = S(a)]
    BY <1>3, <1>8, Zenon DEF StopRings, ArbOff
  <2>2. S(a) \in SUBSET Tx /\ a \in SUBSET Tx /\ a \cap O = {}
    BY <1>2, <1>4, Zenon
  <2> HIDE DEF S
  <2>3. /\ csr' \in Bank /\ csr'.arb = a /\ csr'.base = csr.base /\ csr'.late = csr.late
        /\ csr'.stray = S(a) /\ csr'.null = csr.null /\ csr'.work = csr.work
    BY <1>1, <2>1, <2>2, Zenon DEF Bank
  <2>4. Swept(u, a)
    <3>1. S(a) = ((csr.stray \cup (csr.arb \ us[u].seen) \cup (us[u].seen \ csr.arb)) \ O)
                   \cup {r \in O \cap Tx : \E v \in Users :
                         us[v].pc \in {"enable2", "disable2"} /\ ((r \in us[v].seen) # (r \in a))}
      BY Zenon DEF S
    <3> QED BY <2>3, <3>1, Zenon DEF Swept
  <2>5. /\ \A r \in Tx \ O : r \in a <=> r \in us[u].seen
        /\ \A r \in Tx : csr'.work[r] = csr.work[r]
        /\ \A r \in Tx \ O : r \in csr'.null <=> r \in csr.null
    BY <2>3, Zenon
  <2> QED BY <1>5, <2>1, <2>2, <2>3, <2>4, <2>5, SweepStep, Zenon
<1> QED BY <1>6, <1>7, <1>8, Zenon
-----------------------------------------------------------------------------
(* Requests and the firmware.                                                *)

\* A request goes onto a ring whose two handles the process has.
LEMMA PutInv ==
  ASSUME IInv, HeldInv, NEW u \in Users, NEW r \in Rings, PutRequest(u, r)
  PROVE  IInv' /\ HeldInv'
<1>1. /\ us[u].pc = "idle" /\ {r, Partner(r)} \subseteq us[u].handles /\ r \in Tx
      /\ csr' = [csr EXCEPT !.work[r] = "queued"] /\ us' = us /\ bn' = bn /\ plan' = plan
  BY Zenon DEF PutRequest
<1>2. /\ us[u] \in Process /\ PlaceAt(u, us[u], bn) /\ BaseAt(u, us[u], csr.base)
      /\ csr \in Bank /\ bn \in Bundle /\ us[u].handles \subseteq us[u].mask
      /\ us \in [Users -> Process]
  BY Here, Zenon DEF IInv, TypeInv
<1>3. /\ csr' \in Bank /\ csr'.base = csr.base /\ csr'.arb = csr.arb /\ csr'.null = csr.null
      /\ csr'.stray = csr.stray /\ csr'.late = csr.late
      /\ csr'.work = [csr.work EXCEPT ![r] = "queued"]
  BY <1>1, <1>2, Zenon DEF Bank
<1>4. HeldBy(us[u]) = us[u].mask
  BY <1>1, Zenon DEF HeldBy
<1>5. Owns(u, HeldBy(us[u]), HeldBy(us'[u]))
  <2>1. \A x \in us[u].mask : x \in bn.used /\ x \notin bn.leaked
    BY <1>4, InUse, Zenon
  <2>2. \A x \in us[u].mask : csr.base[x] \in {Nobody, u}
    BY <1>1, <1>2, Zenon DEF BaseAt
  <2> QED BY <1>1, <1>3, <1>4, <2>1, <2>2, Zenon DEF Owns
<1>6. IInv'
  BY <1>1, <1>2, <1>3, <1>5, OwnStep, Zenon
<1>7. \A x \in Tx \ {r} : Work(csr')[x] = Work(csr)[x]
  BY <1>2, <1>3, Zenon DEF Work, Bank
<1>8. /\ QuietAt(u, us[u], csr.base, Work(csr), csr.null) /\ ArbAt(us[u], csr.arb \cup csr.stray)
      /\ PairAt(us[u], csr.base, Sure(csr)) /\ FreshAt(us[u], csr.arb, csr.stray)
  BY HeldHere, Zenon
<1>9. csr.base[r] = u /\ csr.base[Partner(r)] = u /\ r \in us[u].mask /\ Partner(r) \in us[u].mask
  BY <1>1, <1>2, Zenon DEF BaseAt
<1>10. QuietAt(u, us[u], csr'.base, Work(csr'), csr'.null)
  <2>1. ASSUME NEW x \in us[u].mask \cap Tx, Work(csr')[x] # "none"
        PROVE  /\ Partner(x) \in us[u].mask /\ csr.base[x] = u /\ csr.base[Partner(x)] = u
               /\ {x, Partner(x)} \subseteq us[u].handles
    <3>1. CASE x = r
      BY <1>1, <1>9, <3>1, Zenon
    <3>2. CASE x # r
      <4>1. Work(csr)[x] # "none"
        BY <1>7, <2>1, <3>2, Zenon
      <4> QED BY <1>1, <1>8, <4>1, Zenon DEF QuietAt, Closing, Draining, Ending
    <3> QED BY <3>1, <3>2, Zenon
  <2> QED BY <1>1, <1>3, <2>1, Zenon DEF QuietAt, Draining, Ending
<1>11. Sure(csr') = Sure(csr)
  BY <1>3, Zenon DEF Sure
<1>12. Elsewhere(HeldBy(us[u]))
  BY <1>3, <1>4, <1>7, <1>9, <1>11, Zenon DEF Elsewhere
<1>13. \A x \in Tx \cap HeldBy(us[u]) : csr'.base[x] = Nobody => Work(csr')[x] = "none"
  <2>1. \A x \in Tx : csr.base[x] = Nobody => Work(csr)[x] = "none"
    BY Zenon DEF HeldInv
  <2>2. u # Nobody
    BY Here, Zenon
  <2> QED BY <1>3, <1>7, <1>9, <2>1, <2>2, Zenon
<1>14. \A v \in Users \ {u} : FreshAt(us[v], csr'.arb, csr'.stray)
  BY <1>3, Zenon DEF HeldInv
<1>15. HeldInv'
  BY <1>1, <1>3, <1>8, <1>10, <1>11, <1>12, <1>13, <1>14, HeldStep, Zenon
<1> QED BY <1>6, <1>15

\* The firmware only ever finishes.
LEMMA FirmwareInv ==
  ASSUME IInv, HeldInv, NEW r \in Tx, Firmware(r)
  PROVE  IInv' /\ HeldInv'
<1>1. us' = us /\ bn' = bn /\ plan' = plan /\ csr \in Bank
  BY Zenon DEF Firmware, Kept, IInv, TypeInv
<1>2. /\ csr' \in Bank /\ csr'.base = csr.base /\ csr'.arb = csr.arb /\ csr'.stray = csr.stray
      /\ \A x \in Tx : Work(csr')[x] # "none" =>
           Work(csr)[x] # "none" /\ (x \in csr.null => x \in csr'.null)
  <2>1. CASE csr.work[r] = "queued" /\ csr' = [csr EXCEPT !.work[r] = "working"]
    <3>1. /\ csr' \in Bank /\ csr'.base = csr.base /\ csr'.arb = csr.arb /\ csr'.stray = csr.stray
          /\ csr'.null = csr.null /\ csr'.late = csr.late
          /\ csr'.work = [csr.work EXCEPT ![r] = "working"]
      BY <1>1, <2>1, Zenon DEF Bank
    <3>2. \A x \in Tx : csr'.work[x] # "none" => csr.work[x] # "none"
      BY <1>1, <2>1, <3>1, Zenon DEF Bank
    <3> QED BY <3>1, <3>2, Zenon DEF Work
  <2>2. CASE csr' = [csr EXCEPT !.work[r] = "none", !.late = @ \ {r}]
    <3>1. /\ csr' \in Bank /\ csr'.base = csr.base /\ csr'.arb = csr.arb /\ csr'.stray = csr.stray
          /\ csr'.null = csr.null /\ csr'.late = csr.late \ {r}
          /\ csr'.work = [csr.work EXCEPT ![r] = "none"]
      BY <1>1, <2>2, Zenon DEF Bank
    <3>2. csr'.work[r] = "none" /\ \A x \in Tx \ {r} : csr'.work[x] = csr.work[x]
      BY <1>1, <3>1, Zenon DEF Bank
    <3> QED BY <3>1, <3>2, Zenon DEF Work
  <2>3. CASE csr.work[r] = "none" /\ csr' = [csr EXCEPT !.null = @ \ {r}]
    <3>1. /\ csr' \in Bank /\ csr'.base = csr.base /\ csr'.arb = csr.arb /\ csr'.stray = csr.stray
          /\ csr'.null = csr.null \ {r} /\ csr'.late = csr.late /\ csr'.work = csr.work
      BY <1>1, <2>3, Zenon DEF Bank
    <3> QED BY <2>3, <3>1, Zenon DEF Work
  <2> QED BY <2>1, <2>2, <2>3, Zenon DEF Firmware
<1>3. IInv'
  BY <1>1, <1>2, Zenon DEF IInv, TypeInv, HoldInv, BaseInv
<1>4. ASSUME NEW v \in Users PROVE QuietAt(v, us[v], csr'.base, Work(csr'), csr'.null)
  <2>1. QuietAt(v, us[v], csr.base, Work(csr), csr.null)
    BY HeldHere, Zenon
  <2> QED BY <1>2, <2>1, Zenon DEF QuietAt
<1>5. Sure(csr') = Sure(csr)
  BY <1>2, Zenon DEF Sure
<1>6. HeldInv'
  <2>1. \A x \in Tx : csr'.base[x] = Nobody => Work(csr')[x] = "none"
    BY <1>2, Zenon DEF HeldInv
  <2>2. \A v \in Users : /\ FreshAt(us'[v], csr'.arb, csr'.stray)
                         /\ ArbAt(us'[v], csr'.arb \cup csr'.stray)
                         /\ PairAt(us'[v], csr'.base, Sure(csr'))
    BY <1>1, <1>2, <1>5, Zenon DEF HeldInv
  <2>3. \A x \in Sure(csr') : x \in bn'.leaked \/ \E v \in Users : x \in HeldBy(us'[v])
    BY <1>1, <1>5, Zenon DEF HeldInv
  <2> QED BY <1>1, <1>4, <2>1, <2>2, <2>3, Zenon DEF HeldInv
<1> QED BY <1>3, <1>6
-----------------------------------------------------------------------------
(* The invariant, and what it says.                                          *)

\* Initially every ring is quiet and off.
LEMMA HeldInit == UioInit => HeldInv
<1> SUFFICES ASSUME UioInit PROVE HeldInv
  BY Zenon
<1>1. /\ csr.arb = {} /\ csr.work = [r \in Tx |-> "none"] /\ Sure(csr) = {}
      /\ \A u \in Users : us[u] = NewProcess
  BY Zenon DEF UioInit, Sure
<1>2. NewProcess.pc = "idle" /\ NewProcess.mask = {} /\ NewProcess.handles = {}
  BY Zenon DEF NewProcess
<1>3. \A r \in Tx : Work(csr)[r] = "none"
  BY <1>1, Zenon DEF Work
<1>4. ASSUME NEW u \in Users
      PROVE  /\ QuietAt(u, us[u], csr.base, Work(csr), csr.null)
             /\ FreshAt(us[u], csr.arb, csr.stray)
             /\ ArbAt(us[u], csr.arb \cup csr.stray)
             /\ PairAt(us[u], csr.base, Sure(csr))
  BY <1>1, <1>2, Zenon DEF QuietAt, FreshAt, ArbAt, PairAt, Draining, Ending
<1> QED BY <1>1, <1>3, <1>4, Zenon DEF HeldInv

\* One case per step of a process; the firmware; a step of somebody else.
LEMMA NextInv == IInv /\ HeldInv /\ [UioNext]_uioVars => IInv' /\ HeldInv'
<1> SUFFICES ASSUME IInv, HeldInv, [UioNext]_uioVars PROVE IInv' /\ HeldInv'
  BY Zenon
<1>1. ASSUME NEW u \in Users, RingStep(u) PROVE IInv' /\ HeldInv'
  <2>1. ASSUME NEW r \in Rings, CreateHandle(u, r) \/ ReleaseHandle(u, r) \/ PutRequest(u, r)
        PROVE  IInv' /\ HeldInv'
    BY <2>1, CreateInv, ReleaseHandleInv, PutInv, Zenon
  <2>2. ASSUME ReserveTest(u) \/ MarkUsed(u) \/ InitRing(u) \/ EnableRing(u) \/ DisableRing(u)
                 \/ ClearRing(u) \/ Interrupted(u)
        PROVE  IInv' /\ HeldInv'
    BY <2>2, ReserveInv, MarkInv, InitRingInv, ArbWriteInv, ClearRingInv, InterruptedInv, Zenon
  <2>3. ASSUME ArbRead(u, "enable", "enable2") \/ ArbRead(u, "disable", "disable2")
        PROVE  IInv' /\ HeldInv'
    BY <2>3, ArbReadInv, Zenon
  <2>4. ASSUME ReleaseRing(u, "release", "idle") \/ ReleaseRing(u, "undo", "close")
        PROVE  IInv' /\ HeldInv'
    BY <2>4, ReleaseInv, Zenon
  <2> QED BY <1>1, <2>1, <2>2, <2>3, <2>4, Zenon DEF RingStep
<1>2. ASSUME NEW u \in Users, CloseStep(u) PROVE IInv' /\ HeldInv'
  <2>1. ASSUME \/ OrphanRead(u, "off", "off2") \/ OrphanRead(u, "on", "on2")
               \/ OrphanRead(u, "end", "end2")
        PROVE  IInv' /\ HeldInv'
    BY <2>1, OrphanReadInv, Zenon
  <2>2. ASSUME ResetTx(u) \/ SendNull(u) \/ StopRings(u) PROVE IInv' /\ HeldInv'
    BY <2>2, SweepInv, Zenon
  <2>3. ASSUME UnmapOrDie(u) \/ GetOrphans(u) \/ WaitNull(u) \/ ZeroRings(u)
        PROVE  IInv' /\ HeldInv'
    BY <2>3, UnmapInv, OrphansInv, WaitInv, ZeroInv, Zenon
  <2>4. ASSUME ForceRelease(u) \/ Unlist(u) \/ Spawn(u) PROVE IInv' /\ HeldInv'
    BY <2>4, ForceInv, UnlistInv, SpawnInv, Zenon
  <2> QED BY <1>2, <2>1, <2>2, <2>3, <2>4, Zenon DEF CloseStep
<1>3. ASSUME UNCHANGED uioVars PROVE IInv' /\ HeldInv'
  <2>1. us' = us /\ bn' = bn /\ csr' = csr /\ plan' = plan
    BY <1>3, Zenon DEF uioVars
  <2>2. IInv'
    BY <2>1, Zenon DEF IInv, TypeInv, HoldInv, BaseInv
  <2>3. HeldInv'
    BY <2>1, Zenon DEF HeldInv
  <2> QED BY <2>2, <2>3
<1> QED BY <1>1, <1>2, <1>3, FirmwareInv, Zenon DEF UioNext

\* The strengthened invariant, for any processes, rings, configurations and bounds.
THEOREM UioInvariant == UioSpec => [](IInv /\ HeldInv)
  BY InitInv, HeldInit, NextInv, PTL DEF UioSpec

\* Two processes never hold the same ring: the test and the mark of a reservation
\* are one step for the others, and a dead process gives its rings back once.
THEOREM RingsAreDisjoint == UioSpec => []RingsDisjoint
<1>1. IInv => RingsDisjoint
  BY Zenon DEF IInv, HoldInv, RingsDisjoint, Holds, HeldBy
<1> QED BY <1>1, UioInvariant, PTL

\* rings_used is what the listed processes hold and what failed cleanups left.
THEOREM UsedIsExact == UioSpec => []UsedExact
<1>1. ASSUME IInv PROVE UsedExact
  <2>1. \A u \in Users : Holds(u) = HeldBy(us[u])
    BY Zenon DEF Holds, HeldBy
  <2>2. bn.used \subseteq Rings /\ bn.leaked \subseteq Rings /\ bn.listed \subseteq Users
    BY <1>1, Zenon DEF IInv, TypeInv, Bundle
  <2>3. \A u \in Users : HeldBy(us[u]) \subseteq Rings
    BY <1>1, Zenon DEF IInv, TypeInv, Process, HeldBy
  <2>4. \A r \in Rings : r \in bn.used <=> (r \in bn.leaked \/ \E u \in Users : r \in HeldBy(us[u]))
    BY <1>1, Zenon DEF IInv, HoldInv
  <2>5. ASSUME NEW u \in Users, NEW r \in HeldBy(us[u]) PROVE u \in bn.listed
    BY <1>1, <2>5, Zenon DEF IInv, PlaceAt, HeldBy
  <2>6. ASSUME NEW r \in bn.used PROVE r \in bn.leaked \cup UNION {Holds(u) : u \in bn.listed}
    BY <2>1, <2>2, <2>4, <2>5, Zenon
  <2>7. ASSUME NEW r \in bn.leaked \cup UNION {Holds(u) : u \in bn.listed} PROVE r \in bn.used
    BY <2>1, <2>2, <2>3, <2>4, Zenon
  <2> QED BY <2>6, <2>7, Zenon DEF UsedExact
<1> QED BY <1>1, UioInvariant, PTL

\* No ring points into the memory of a process that is gone or does not hold it.
THEOREM BasesAreOwned == UioSpec => []BaseOwned
<1>1. ASSUME IInv PROVE BaseOwned
  <2> SUFFICES ASSUME NEW r \in Rings \ bn.leaked, csr.base[r] # Nobody
               PROVE  csr.base[r] \in bn.listed /\ r \in Holds(csr.base[r])
    BY Zenon DEF BaseOwned
  <2>1. csr.base[r] \in Users /\ r \in HeldBy(us[csr.base[r]])
    BY <1>1, Zenon DEF IInv, BaseInv
  <2>2. csr.base[r] \in bn.listed
    BY <1>1, <2>1, Zenon DEF IInv, PlaceAt, HeldBy
  <2> QED BY <2>1, <2>2, Zenon DEF Holds, HeldBy
<1> QED BY <1>1, UioInvariant, PTL

\* The firmware works on no request of a ring that was taken from its process,
\* unless the wait for the ring's null answer ran out of time.
THEOREM RingsAreQuiet == UioSpec => []QuietBeforeFree
<1>1. HeldInv => QuietBeforeFree
  BY Zenon DEF HeldInv, Work, QuietBeforeFree
<1> QED BY <1>1, UioInvariant, PTL

\* The arbiter serves the rings of the processes and of nobody else, up to the
\* bits that a cleanup or an interrupted call made stray.
THEOREM ArbiterFollowsOwner == UioSpec => []ArbFollowsOwner
<1>1. ASSUME IInv, HeldInv PROVE ArbFollowsOwner
  <2>1. \A u \in Users : us[u].pc = "idle" => us[u].handles \cap Tx \subseteq csr.arb \cup csr.stray
    BY <1>1, Zenon DEF HeldInv, ArbAt
  <2>2. csr.arb \subseteq csr.stray \cup bn.leaked \cup UNION {Holds(u) : u \in Users}
    BY <1>1, Zenon DEF HeldInv, Sure, Holds, HeldBy
  <2> QED BY <2>1, <2>2, Zenon DEF ArbFollowsOwner
<1> QED BY <1>1, UioInvariant, PTL
===============================================================================
