------------------------------- MODULE DevTable -------------------------------
(***************************************************************************)
(* The table of devices (adf_dev_mgr.c).  A device gets the lowest free    *)
(* number when it is bound; a virtual function of the host keeps it while  *)
(* it is away with a guest.  User space counts the devices it can use and  *)
(* asks for numbers below that count, so the table also keeps a second     *)
(* number per device, without gaps, and translates.                        *)
(***************************************************************************)
EXTENDS Integers, Sequences, FiniteSets

CONSTANTS
  Pfs,         \* physical functions
  Vfs,         \* virtual functions on the host
  PfOf,        \* the physical function of a virtual one
  DriverOf,    \* the driver module of a virtual function
  MaxDevices,  \* ADF_MAX_DEVICES
  MaxNoMem,    \* bound: failed allocations
  MaxUnloads,  \* bound: unloads of a driver of virtual functions
  MaxBinds     \* bound: binds of one device

ASSUME TableAssumption ==
  /\ MaxDevices \in Nat \ {0}
  /\ PfOf \in [Vfs -> Pfs]
  /\ Pfs \cap Vfs = {}

VARIABLES
  accel_table,  \* the devices, in the order they were added, with their accel_id
  vfs_table,    \* the translation, in the order of the first binding
  id_map,       \* the numbers taken
  num_devices,  \* how many numbers are taken, counted apart
  probing,      \* devices that passed the unlocked test of num_devices
  binds,        \* bindings of each device so far
  spent,        \* allocations that failed, and unloads
  tflaws        \* weak spots met

tabVars == <<accel_table, vfs_table, id_map, num_devices, probing, binds, spent, tflaws>>

Ids == 0..(MaxDevices - 1)
NoBdf == "pf"
Bound == {accel_table[k].dev : k \in DOMAIN accel_table}

\* adf_find_vf: the entry of a virtual function, or 0.
FindVf(v) ==
  LET at == {k \in DOMAIN vfs_table : vfs_table[k].bdf = v} IN
  IF at = {} THEN 0 ELSE CHOOSE k \in at : \A j \in at : k <= j

\* Mutant: only the entry itself moves.
Shift_One(k, n) == [vfs_table EXCEPT ![k].fake_id = @ + n]

\* The second numbers from entry k on, moved by n.
Shift(k, n) ==
  [j \in DOMAIN vfs_table |->
     IF j < k THEN vfs_table[j] ELSE [vfs_table[j] EXCEPT !.fake_id = @ + n]]

\* adf_find_free_id
FreeIds == Ids \ id_map
LowestFree == CHOOSE i \in FreeIds : \A j \in FreeIds : i <= j

\* adf_get_vf_real_id and adf_devmgr_get_dev_by_id: the first entry with the
\* second number, and the first device with its number; 0 or an index of
\* accel_table.
Lookup(i) ==
  LET maps == {k \in DOMAIN vfs_table : vfs_table[k].fake_id = i}
      m == CHOOSE k \in maps : \A j \in maps : k <= j
      devs == {k \in DOMAIN accel_table : accel_table[k].id = vfs_table[m].id}
  IN  IF maps = {} \/ devs = {} THEN 0 ELSE CHOOSE k \in devs : \A j \in devs : k <= j

\* adf_get_num_dettached_vfs and adf_devmgr_get_num_dev
Detached == {k \in DOMAIN vfs_table : vfs_table[k].bdf # NoBdf /\ ~vfs_table[k].attached}
NumDev == num_devices - Cardinality(Detached)

-----------------------------------------------------------------------------
\* adf_probe reaches adf_devmgr_add_dev, which tests the count before it takes
\* the lock.  A virtual function exists while its physical one is bound.
Probe(d) ==
  /\ d \notin Bound \cup probing
  /\ binds[d] < MaxBinds
  /\ d \in Vfs => PfOf[d] \in Bound
  /\ num_devices # MaxDevices
  /\ probing' = probing \cup {d}
  /\ binds' = [binds EXCEPT ![d] = @ + 1]
  /\ UNCHANGED <<accel_table, vfs_table, id_map, num_devices, spent, tflaws>>

Entry(b, i) == [bdf |-> b, id |-> i, fake_id |-> i, attached |-> TRUE]

\* The translation of a new entry is wrong from the start, or becomes wrong at
\* the next shift: entries are away, a lower number than the last was free, or
\* a virtual function takes the number of a removed physical one, whose entry
\* is still there.
Late(d) ==
  LET i == LowestFree IN
  IF \/ Detached # {}
     \/ \E j \in id_map : j > i
     \/ d \in Vfs /\ \E k \in DOMAIN vfs_table : vfs_table[k].id = i
  THEN {"late"} ELSE {}

\* A physical function.  It is in the table before its number and its entry
\* are; the probe frees the device when either fails, and leaves it there.
AddPf(d) ==
  LET i == LowestFree
      added(n) == Append(accel_table, [dev |-> d, id |-> n]) IN
  /\ d \in probing \cap Pfs
  /\ probing' = probing \ {d}
  /\ \/ /\ FreeIds = {}
        /\ accel_table' = added(MaxDevices + 1)
        /\ tflaws' = tflaws \cup {"full"}
        /\ UNCHANGED <<vfs_table, id_map, num_devices, spent>>
     \/ /\ FreeIds # {}
        /\ spent.nomem < MaxNoMem
        /\ accel_table' = added(i)
        /\ id_map' = id_map \cup {i}
        /\ num_devices' = num_devices + 1
        /\ spent' = [spent EXCEPT !.nomem = @ + 1]
        /\ tflaws' = tflaws \cup {"nomem"}
        /\ UNCHANGED vfs_table
     \/ /\ FreeIds # {}
        /\ accel_table' = added(i)
        /\ id_map' = id_map \cup {i}
        /\ num_devices' = num_devices + 1
        /\ vfs_table' = Append(vfs_table, Entry(NoBdf, i))
        /\ tflaws' = tflaws \cup Late(d)
        /\ UNCHANGED spent
  /\ UNCHANGED binds

\* A virtual function that was here before: its number, and the second
\* numbers after it move up.
Reattach(v) ==
  LET k == FindVf(v) IN
  /\ v \in probing \cap Vfs
  /\ k # 0
  /\ probing' = probing \ {v}
  /\ accel_table' = Append(accel_table, [dev |-> v, id |-> vfs_table[k].id])
  /\ vfs_table' = [Shift(k, 1) EXCEPT ![k].attached = TRUE]
  /\ UNCHANGED <<id_map, num_devices, binds, spent, tflaws>>

\* A virtual function that is new.  Nothing was done when it fails.
AddVf(v) ==
  LET i == LowestFree IN
  /\ v \in probing \cap Vfs
  /\ FindVf(v) = 0
  /\ probing' = probing \ {v}
  /\ \/ /\ FreeIds = {} \/ spent.nomem < MaxNoMem
        /\ spent' = IF FreeIds = {} THEN spent ELSE [spent EXCEPT !.nomem = @ + 1]
        /\ UNCHANGED <<accel_table, vfs_table, id_map, num_devices, tflaws>>
     \/ /\ FreeIds # {}
        /\ accel_table' = Append(accel_table, [dev |-> v, id |-> i])
        /\ id_map' = id_map \cup {i}
        /\ num_devices' = num_devices + 1
        /\ vfs_table' = Append(vfs_table, Entry(v, i))
        /\ tflaws' = tflaws \cup Late(v)
        /\ UNCHANGED spent
  /\ UNCHANGED binds

Without(d) == SelectSeq(accel_table, LAMBDA e : e.dev # d)
IdOf(d) == accel_table[CHOOSE k \in DOMAIN accel_table : accel_table[k].dev = d].id

\* A physical function goes, after its virtual ones.  Its entry stays.
RemovePf(d) ==
  /\ d \in Bound \cap Pfs
  /\ \A v \in Vfs : PfOf[v] = d => v \notin Bound \cup probing
  /\ id_map' = id_map \ {IdOf(d)}
  /\ num_devices' = num_devices - 1
  /\ accel_table' = Without(d)
  /\ tflaws' = IF \/ \E j \in id_map : j > IdOf(d)
                   \/ \E k \in DOMAIN vfs_table : vfs_table[k].bdf # NoBdf
                THEN tflaws \cup {"stale"} ELSE tflaws
  /\ UNCHANGED <<vfs_table, probing, binds, spent>>

\* A virtual function goes to a guest: the second numbers from it on move down.
RemoveVf(v) ==
  LET k == FindVf(v) IN
  /\ v \in Bound \cap Vfs
  /\ accel_table' = Without(v)
  /\ vfs_table' = IF k = 0 THEN vfs_table ELSE [Shift(k, -1) EXCEPT ![k].attached = FALSE]
  /\ UNCHANGED <<id_map, num_devices, probing, binds, spent, tflaws>>

\* adf_clean_vf_map(true), when a driver of virtual functions is unloaded: its
\* own are unbound by then, those of the other drivers need not be.
CleanVfMap(m) ==
  LET vf == {k \in DOMAIN vfs_table : vfs_table[k].bdf # NoBdf} IN
  /\ spent.unloads < MaxUnloads
  /\ \A v \in Vfs : DriverOf[v] = m => v \notin Bound \cup probing
  /\ id_map' = id_map \ {vfs_table[k].id : k \in vf}
  /\ num_devices' = num_devices - Cardinality(vf)
  /\ vfs_table' = SelectSeq(vfs_table, LAMBDA e : e.bdf = NoBdf)
  /\ spent' = [spent EXCEPT !.unloads = @ + 1]
  /\ tflaws' = tflaws \cup (IF Bound \cap Vfs # {} THEN {"foreign"} ELSE {})
                      \cup (IF \E k \in vf, i \in id_map' : i > vfs_table[k].id
                            THEN {"hole"} ELSE {})
  /\ UNCHANGED <<accel_table, probing, binds>>

TabInit ==
  /\ accel_table = <<>> /\ vfs_table = <<>>
  /\ id_map = {} /\ num_devices = 0
  /\ probing = {} /\ binds = [d \in Pfs \cup Vfs |-> 0]
  /\ spent = [nomem |-> 0, unloads |-> 0]
  /\ tflaws = {}

\* A freed device in the list ends the behaviour: every walk would read it.
Dangling == tflaws \cap {"full", "nomem"} # {}

TabNext ==
  /\ ~Dangling
  /\ \/ \E d \in Pfs \cup Vfs : Probe(d)
     \/ \E d \in Pfs : AddPf(d) \/ RemovePf(d)
     \/ \E v \in Vfs : AddVf(v) \/ Reattach(v) \/ RemoveVf(v)
     \/ \E m \in {DriverOf[v] : v \in Vfs} : CleanVfMap(m)

TabSpec == TabInit /\ [][TabNext]_tabVars
-----------------------------------------------------------------------------
\* Every number below the reported count leads to a device, and every device
\* is reached by one: what user space relies on when it walks the devices.
LookupTotal ==
  tflaws = {} =>
    {Lookup(i) : i \in 0..(NumDev - 1)} = DOMAIN accel_table
===============================================================================
