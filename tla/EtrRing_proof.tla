---------------------------- MODULE EtrRing_proof ----------------------------
(***************************************************************************)
(* Proofs about EtrRing, for every number of senders and slots.            *)
(***************************************************************************)
EXTENDS EtrRing, FiniteSetTheorems, TLAPS

-----------------------------------------------------------------------------
(* Positions and ring shapes. *)

\* adf_modulo on the positions the driver gives it: one past a slot is the next
\* slot, or slot 0 after the last.
LEMMA ModuloNext ==
  ASSUME NEW n \in Nat, n > 0, NEW i \in 0 .. n - 1
  PROVE  /\ adf_modulo(i + 1, n) = IF i + 1 = n THEN 0 ELSE i + 1
         /\ adf_modulo(i + 1, n) \in 0 .. n - 1
<1>1. CASE i + 1 = n
  BY <1>1, SMT DEF adf_modulo
<1>2. CASE i + 1 # n
  BY <1>2, SMT DEF adf_modulo
<1> QED BY <1>1, <1>2

\* Sets of ring slots (what the invariant counts) are finite.
LEMMA SlotsFinite ==
  ASSUME NEW n \in Nat, NEW used \in SUBSET (0 .. n - 1)
  PROVE  IsFiniteSet(used) /\ Cardinality(used) \in Nat
<1>1. IsFiniteSet(0 .. n - 1)
  <2>1. 0 \in Int /\ n - 1 \in Int
    OBVIOUS
  <2> QED BY <2>1, FS_Interval, Zenon
<1>2. IsFiniteSet(used)
  BY <1>1, FS_Subset, Zenon
<1> QED BY <1>2, FS_CardinalityType, Zenon

\* Writing at the tail of a ring that is not full takes an empty slot, and the
\* ring keeps its shape (adf_send_message; the device's response).
LEMMA ShapeAdd ==
  ASSUME NEW n \in Nat, n > 0, NEW used \in SUBSET (0 .. n - 1),
         NEW head \in 0 .. n - 1, NEW tail \in 0 .. n - 1,
         RingShape(used, head, tail, n), Cardinality(used) < n
  PROVE  /\ tail \notin used
         /\ Cardinality(used \cup {tail}) = Cardinality(used) + 1
         /\ RingShape(used \cup {tail}, head, adf_modulo(tail + 1, n), n)
<1>1. IsFiniteSet(used) /\ Cardinality(used) \in Nat
  BY SlotsFinite, Zenon
<1>2. tail \notin used
  BY <1>1, SMT DEF RingShape, Off
<1>3. Cardinality(used \cup {tail}) = Cardinality(used) + 1
  BY <1>1, <1>2, FS_AddElement, Zenon
<1>4. \A i \in 0 .. n - 1 : i \in used \cup {tail} <=> Off(head, i, n) < Cardinality(used) + 1
  BY <1>1, SMT DEF RingShape, Off
<1>5. Off(head, adf_modulo(tail + 1, n), n)
        = IF Cardinality(used) + 1 = n THEN 0 ELSE Cardinality(used) + 1
  BY <1>1, ModuloNext, SMT DEF RingShape, Off
<1> QED BY <1>1, <1>2, <1>3, <1>4, <1>5, SMT DEF RingShape

\* Freeing the slot at the head of a ring that is not empty keeps its shape
\* (the device's fetch; adf_handle_response).
LEMMA ShapeRemove ==
  ASSUME NEW n \in Nat, n > 0, NEW used \in SUBSET (0 .. n - 1),
         NEW head \in 0 .. n - 1, NEW tail \in 0 .. n - 1,
         RingShape(used, head, tail, n), head \in used
  PROVE  /\ Cardinality(used \ {head}) = Cardinality(used) - 1
         /\ RingShape(used \ {head}, adf_modulo(head + 1, n), tail, n)
<1>1. IsFiniteSet(used) /\ Cardinality(used) \in Nat
  BY SlotsFinite, Zenon
<1>2. Cardinality(used \ {head}) = Cardinality(used) - 1
  BY <1>1, FS_RemoveElement, Zenon
<1>3. Cardinality(used) > 0
  BY <1>1, SMT DEF RingShape, Off
<1>4. \A i \in 0 .. n - 1 : i \in used \ {head} <=>
        Off(adf_modulo(head + 1, n), i, n) < Cardinality(used) - 1
  BY <1>1, <1>3, ModuloNext, SMTT(30) DEF RingShape, Off
<1>5. Off(adf_modulo(head + 1, n), tail, n) = Cardinality(used) - 1
  BY <1>1, <1>3, ModuloNext, SMTT(30) DEF RingShape, Off
<1>6. Cardinality(used) - 1 <= n /\ Cardinality(used) - 1 # n
  BY <1>1, SMT DEF RingShape
<1> QED BY <1>2, <1>4, <1>5, <1>6, Zenon DEF RingShape

-----------------------------------------------------------------------------
(* The inductive invariant. *)

\* Every set the invariant counts is finite.
LEMMA Finite ==
  ASSUME TypeOK
  PROVE  /\ IsFiniteSet(Claimed) /\ Cardinality(Claimed) \in Nat
         /\ IsFiniteSet(Over) /\ Cardinality(Over) \in Nat
         /\ IsFiniteSet(TxUsed) /\ Cardinality(TxUsed) \in Nat
         /\ IsFiniteSet(RxUsed) /\ Cardinality(RxUsed) \in Nat
         /\ IsFiniteSet(RxUnread) /\ Cardinality(RxUnread) \in Nat
         /\ IsFiniteSet(engine) /\ Cardinality(engine) \in Nat
         /\ IsFiniteSet(live) /\ Cardinality(live) \in Nat
<1>1. Claimed \subseteq Senders /\ Over \subseteq Senders
  BY Zenon DEF Claimed, Over
<1>2. /\ TxUsed \in SUBSET (0 .. TxSlots - 1)
      /\ RxUsed \in SUBSET (0 .. RxSlots - 1)
      /\ RxUnread \in SUBSET (0 .. RxSlots - 1)
  BY Zenon DEF TxUsed, RxUsed, RxUnread, TxIndex, RxIndex
<1>3. engine \subseteq Msgs /\ live \subseteq Msgs
  BY DEF TypeOK
<1>4. \A S : S \subseteq Senders \/ S \subseteq Msgs => IsFiniteSet(S) /\ Cardinality(S) \in Nat
  BY FiniteAssumption, FS_Subset, FS_CardinalityType, Zenon
<1> QED BY <1>1, <1>2, <1>3, <1>4, SlotsFinite, RingAssumption, Zenon

\* Senders change neither the response ring nor what the handler sees of it.
LEMMA SendReserveInv ==
  ASSUME IndInv, NEW s \in Senders, NEW m \in Msgs, SendReserve(s, m)
  PROVE  IndInv'
<1> USE DEF IndInv
<1>1. TypeOK'
  BY DEF TypeOK, SendReserve, txVars, rxVars, hndVars
<1>2. /\ TxUsed' = TxUsed /\ RxUsed' = RxUsed /\ RxUnread' = RxUnread
      /\ InTx' = InTx /\ InRx' = InRx
  BY DEF SendReserve, txVars, rxVars, hndVars, TxUsed, RxUsed, RxUnread, InTx, InRx
<1>3. ShapeInv'
  BY <1>2, Zenon DEF ShapeInv, SendReserve, txVars, rxVars, hndVars, RingShape
<1>4. CountInv'
  <2>1. s \notin Claimed /\ s \notin Over
    BY Zenon DEF Claimed, Over, SendReserve
  <2>2. CASE inflights + 1 > max_inflights
    <3>1. Claimed' = Claimed /\ Over' = Over \cup {s}
      BY <2>2 DEF Claimed, Over, SendReserve, TypeOK
    <3>2. Cardinality(Over') = Cardinality(Over) + 1
      BY <3>1, <2>1, Finite, FS_AddElement, Zenon
    <3>3. Busy' = Busy
      BY <3>1, <1>2, Zenon DEF Busy, SendReserve, hndVars
    <3> QED BY <3>1, <3>2, <3>3, Finite DEF CountInv, Busy, SendReserve, TypeOK
  <2>3. CASE ~(inflights + 1 > max_inflights)
    <3>1. Claimed' = Claimed \cup {s} /\ Over' = Over
      BY <2>3 DEF Claimed, Over, SendReserve, TypeOK
    <3>2. Cardinality(Claimed') = Cardinality(Claimed) + 1
      BY <3>1, <2>1, Finite, FS_AddElement, Zenon
    <3> QED BY SMTT(30), <3>1, <3>2, <1>2, <2>3, Finite, RingAssumption
            DEF CountInv, Busy, SendReserve, hndVars, max_inflights, ADF_MAX_INFLIGHTS, TypeOK
  <2> QED BY <2>2, <2>3, Zenon
<1>5. SenderInv'
  BY MsgAssumption, Zenon DEF SenderInv, SendReserve, TypeOK
<1>6. PlaceInv' /\ EachRequestOnce'
  BY <1>2, Zenon DEF PlaceInv, EachRequestOnce, SendReserve, txVars, rxVars
<1>7. HandlerInv'
  BY DEF HandlerInv, SendReserve, rxVars, hndVars
<1> QED BY <1>1, <1>3, <1>4, <1>5, <1>6, <1>7, Zenon

\* A refused sender of adf_send_message gives back what it took: it was counted in
\* Over and never in Busy.
LEMMA SendBackOffInv ==
  ASSUME IndInv, NEW s \in Senders, SendBackOff(s)
  PROVE  IndInv'
<1> USE DEF IndInv
<1>2. /\ TxUsed' = TxUsed /\ RxUsed' = RxUsed /\ RxUnread' = RxUnread
      /\ InTx' = InTx /\ InRx' = InRx
  BY DEF SendBackOff, txVars, rxVars, hndVars, TxUsed, RxUsed, RxUnread, InTx, InRx
<1>3. ShapeInv'
  BY <1>2, Zenon DEF ShapeInv, SendBackOff, txVars, rxVars, hndVars, RingShape
<1>4. CountInv' /\ inflights' \in Nat
  <2>1. s \in Over /\ Over' = Over \ {s} /\ Claimed' = Claimed
    BY DEF Claimed, Over, SendBackOff, TypeOK
  <2>2. Cardinality(Over') = Cardinality(Over) - 1 /\ Cardinality(Over') \in Nat
    BY <2>1, Finite, FS_RemoveElement, FS_CardinalityType
  <2>3. handler = "mark" => Cardinality(RxUsed) > 0
    BY Finite, FS_EmptySet DEF ShapeInv
  <2> QED BY <2>1, <2>2, <2>3, <1>2, Finite DEF CountInv, Busy, SendBackOff, hndVars, TypeOK
<1>1. TypeOK'
  BY <1>4 DEF TypeOK, SendBackOff, txVars, rxVars, hndVars
<1>5. SenderInv'
  BY MsgAssumption DEF SenderInv, SendBackOff, TypeOK
<1>6. PlaceInv' /\ EachRequestOnce'
  BY <1>2, Zenon DEF PlaceInv, EachRequestOnce, SendBackOff, txVars, rxVars
<1>7. HandlerInv'
  BY Zenon DEF HandlerInv, SendBackOff, rxVars, hndVars
<1> QED BY <1>1, <1>3, <1>4, <1>5, <1>6, <1>7, Zenon

\* Copying a message (adf_send_message under ring->lock) turns a claimed slot into
\* a used one, so Busy stays the same.
LEMMA SendCopyInv ==
  ASSUME IndInv, NEW s \in Senders, SendCopy(s)
  PROVE  IndInv'
<1> USE DEF IndInv
<1> DEFINE m == sending[s]
<1>a. m \in Msgs /\ m # Empty /\ m \notin live
  BY MsgAssumption, Zenon DEF SendCopy, SenderInv, TypeOK
<1>b. s \in Claimed /\ Claimed' = Claimed \ {s} /\ Over' = Over
  BY Zenon DEF Claimed, Over, SendCopy, TypeOK
<1>c. Cardinality(Claimed') = Cardinality(Claimed) - 1 /\ Cardinality(Claimed') \in Nat
  BY <1>b, Finite, FS_RemoveElement, FS_CardinalityType, Zenon
<1>d. Cardinality(TxUsed) < TxSlots
  <2>1. handler = "mark" => Cardinality(RxUsed) > 0
    BY Finite, FS_EmptySet DEF ShapeInv
  <2> QED BY <2>1, <1>c, Finite, RingAssumption
          DEF CountInv, Busy, max_inflights, ADF_MAX_INFLIGHTS
<1>e. TxUsed \in SUBSET (0 .. TxSlots - 1) /\ txHead \in 0 .. TxSlots - 1 /\ txTail \in 0 .. TxSlots - 1
  BY Zenon DEF TxUsed, TxIndex, TypeOK
<1>f. TxUsed' = TxUsed \cup {txTail}
  BY <1>a, <1>e DEF SendCopy, TxUsed, TypeOK, TxIndex
<1>g. /\ txTail \notin TxUsed
      /\ Cardinality(TxUsed') = Cardinality(TxUsed) + 1
      /\ RingShape(TxUsed', txHead, txTail', TxSlots)
      /\ txTail' \in 0 .. TxSlots - 1
  <2>1. TxSlots \in Nat /\ TxSlots > 0 /\ RingShape(TxUsed, txHead, txTail, TxSlots)
    BY RingAssumption DEF ShapeInv
  <2>2. /\ txTail \notin TxUsed
        /\ Cardinality(TxUsed \cup {txTail}) = Cardinality(TxUsed) + 1
        /\ RingShape(TxUsed \cup {txTail}, txHead, adf_modulo(txTail + 1, TxSlots), TxSlots)
    BY <2>1, <1>d, <1>e, ShapeAdd, Zenon
  <2>3. adf_modulo(txTail + 1, TxSlots) \in 0 .. TxSlots - 1
    BY <2>1, <1>e, ModuloNext, Zenon
  <2> QED BY <2>2, <2>3, <1>f, Zenon DEF SendCopy
<1>h. RxUsed' = RxUsed /\ RxUnread' = RxUnread /\ InRx' = InRx
  BY Zenon DEF SendCopy, rxVars, hndVars, RxUsed, RxUnread, InRx
<1>1. TypeOK'
  BY <1>a, <1>g, Zenon DEF TypeOK, SendCopy, rxVars, hndVars, TxIndex
<1>2. ShapeInv'
  BY <1>g, <1>h, Zenon DEF ShapeInv, SendCopy, rxVars, hndVars, RingShape
<1>3. CountInv'
  BY <1>b, <1>c, <1>g, <1>h, Finite DEF CountInv, Busy, SendCopy, hndVars, TypeOK
<1>4. SenderInv'
  BY <1>a, MsgAssumption, Zenon DEF SenderInv, SendCopy, TypeOK
<1>5. /\ \A i \in TxUsed : txMem'[i] = txMem[i] /\ txMem[i] \in live
      /\ txMem'[txTail] = m
      /\ \A j \in RxUnread : rxMem'[j] = rxMem[j] /\ rxMem[j] \in live
      /\ engine \subseteq live /\ engine' = engine
  BY <1>e, <1>g, Zenon DEF SendCopy, TypeOK, TxIndex, rxVars, EachRequestOnce, InTx, InRx
<1>6. PlaceInv'
  BY <1>a, <1>5, <1>f, <1>g, <1>h DEF PlaceInv
<1>7. EachRequestOnce'
  <2>1. InTx' = InTx \cup {m}
    BY <1>5, <1>f, Zenon DEF InTx
  <2>2. Cardinality(live') = Cardinality(live) + 1
    BY <1>a, Finite, FS_AddElement, Zenon DEF SendCopy
  <2> QED BY <2>1, <2>2, <1>5, <1>g, <1>h, Finite DEF EachRequestOnce, SendCopy
<1>8. HandlerInv'
  BY Zenon DEF HandlerInv, SendCopy, rxVars, hndVars
<1> QED BY <1>1, <1>2, <1>3, <1>4, <1>6, <1>7, <1>8, Zenon

\* The device's fetch moves a message from the request ring to the device.
LEMMA HwFetchInv ==
  ASSUME IndInv, HwFetch
  PROVE  IndInv'
<1> USE DEF IndInv
<1> DEFINE m == txMem[txHead]
<1>a. TxUsed \in SUBSET (0 .. TxSlots - 1) /\ txHead \in 0 .. TxSlots - 1 /\ txTail \in 0 .. TxSlots - 1
  BY Zenon DEF TxUsed, TxIndex, TypeOK
<1>b. txHead \in TxUsed
  BY <1>a, Finite, RingAssumption DEF HwFetch, ShapeInv, RingShape, Off
<1>c. m \in Msgs /\ m # Empty /\ m \notin engine
  BY <1>b, Zenon DEF TypeOK, TxUsed, PlaceInv
<1>d. TxUsed' = TxUsed \ {txHead}
  BY <1>a DEF HwFetch, TxUsed, TypeOK, TxIndex
<1>e. /\ Cardinality(TxUsed') = Cardinality(TxUsed) - 1
      /\ RingShape(TxUsed', txHead', txTail, TxSlots)
      /\ txHead' \in 0 .. TxSlots - 1
  <2>1. TxSlots \in Nat /\ TxSlots > 0 /\ RingShape(TxUsed, txHead, txTail, TxSlots)
    BY RingAssumption DEF ShapeInv
  <2>2. /\ Cardinality(TxUsed \ {txHead}) = Cardinality(TxUsed) - 1
        /\ RingShape(TxUsed \ {txHead}, adf_modulo(txHead + 1, TxSlots), txTail, TxSlots)
    BY <2>1, <1>a, <1>b, ShapeRemove, Zenon
  <2>3. adf_modulo(txHead + 1, TxSlots) \in 0 .. TxSlots - 1
    BY <2>1, <1>a, ModuloNext, Zenon
  <2> QED BY <2>2, <2>3, <1>d, Zenon DEF HwFetch
<1>f. Cardinality(engine') = Cardinality(engine) + 1
  BY <1>c, Finite, FS_AddElement, Zenon DEF HwFetch
<1>g. Claimed' = Claimed /\ Over' = Over
  BY Zenon DEF Claimed, Over, HwFetch
<1>h. RxUsed' = RxUsed /\ RxUnread' = RxUnread /\ InRx' = InRx
  BY Zenon DEF HwFetch, rxVars, hndVars, RxUsed, RxUnread, InRx
<1>1. TypeOK'
  BY <1>c, <1>e, Zenon DEF TypeOK, HwFetch, rxVars, hndVars, TxIndex
<1>2. ShapeInv'
  BY <1>e, <1>h, Zenon DEF ShapeInv, HwFetch, rxVars, hndVars, RingShape
<1>3. CountInv'
  BY <1>e, <1>f, <1>g, <1>h, Finite, SMTT(30) DEF CountInv, Busy, HwFetch, hndVars, TypeOK
<1>4. SenderInv'
  BY Zenon DEF SenderInv, HwFetch
<1>5. /\ \A i \in TxUsed' : txMem'[i] = txMem[i] /\ i \in TxUsed /\ i # txHead
      /\ \A j \in RxUnread : rxMem'[j] = rxMem[j]
      /\ engine' = engine \cup {m}
  BY <1>a, <1>d, Zenon DEF HwFetch, TypeOK, TxIndex, rxVars
<1>6. PlaceInv'
  BY <1>5, <1>b, <1>d, <1>h DEF PlaceInv
<1>7. EachRequestOnce'
  <2>1. InTx = InTx' \cup {m}
    BY <1>5, <1>b, <1>d DEF InTx
  <2> QED BY <2>1, <1>5, <1>e, <1>f, <1>h, Finite DEF EachRequestOnce, HwFetch
<1>8. HandlerInv'
  BY DEF HandlerInv, HwFetch, rxVars, hndVars
<1> QED BY <1>1, <1>2, <1>3, <1>4, <1>6, <1>7, <1>8

\* The device's answer moves a message from the device to a free response slot.
LEMMA HwRespondInv ==
  ASSUME IndInv, NEW m \in Msgs, HwRespond(m)
  PROVE  IndInv'
<1> USE DEF IndInv
<1>a. RxUsed \in SUBSET (0 .. RxSlots - 1) /\ rxHead \in 0 .. RxSlots - 1 /\ rxTail \in 0 .. RxSlots - 1
  BY DEF RxUsed, RxIndex, TypeOK
<1>b. m \in engine /\ m # Empty /\ m \in live
  BY MsgAssumption, Zenon DEF HwRespond, EachRequestOnce
<1>c. Cardinality(engine') = Cardinality(engine) - 1 /\ Cardinality(engine') \in Nat
  BY <1>b, Finite, FS_RemoveElement, FS_CardinalityType, Zenon DEF HwRespond
<1>d. Cardinality(RxUsed) < RxSlots
  BY <1>c, Finite, RingAssumption DEF CountInv, Busy, max_inflights, ADF_MAX_INFLIGHTS
<1>e. RxUsed' = RxUsed \cup {rxTail}
  BY <1>a, <1>b DEF HwRespond, RxUsed, TypeOK, RxIndex
<1>f. /\ rxTail \notin RxUsed
      /\ Cardinality(RxUsed') = Cardinality(RxUsed) + 1
      /\ RingShape(RxUsed', rxHead, rxTail', RxSlots)
      /\ rxTail' \in 0 .. RxSlots - 1
  <2>1. RxSlots \in Nat /\ RxSlots > 0 /\ RingShape(RxUsed, rxHead, rxTail, RxSlots)
    BY RingAssumption DEF ShapeInv
  <2>2. /\ rxTail \notin RxUsed
        /\ Cardinality(RxUsed \cup {rxTail}) = Cardinality(RxUsed) + 1
        /\ RingShape(RxUsed \cup {rxTail}, rxHead, adf_modulo(rxTail + 1, RxSlots), RxSlots)
    BY <2>1, <1>d, <1>a, ShapeAdd, Zenon
  <2>3. adf_modulo(rxTail + 1, RxSlots) \in 0 .. RxSlots - 1
    BY <2>1, <1>a, ModuloNext, Zenon
  <2> QED BY <2>2, <2>3, <1>e, Zenon DEF HwRespond
<1>g. RxUnread' = RxUnread \cup {rxTail} /\ rxTail \notin RxUnread
  <2>1. handler \in {"dec", "mark"} => rxHead # rxTail
    BY <1>f, Zenon DEF ShapeInv
  <2> QED BY <2>1, <1>e, <1>f, Zenon DEF RxUnread, HwRespond, hndVars
<1>h. TxUsed' = TxUsed /\ InTx' = InTx /\ Claimed' = Claimed /\ Over' = Over
  BY Zenon DEF HwRespond, txVars, TxUsed, InTx, Claimed, Over
<1>1. TypeOK'
  BY <1>b, <1>f, Zenon DEF TypeOK, HwRespond, txVars, hndVars, RxIndex
<1>2. ShapeInv'
  <2>1. handler' \in {"dec", "mark"} => rxHead' \in RxUsed'
    BY <1>e, Zenon DEF ShapeInv, HwRespond, hndVars
  <2> QED BY <2>1, <1>f, <1>h, Zenon DEF ShapeInv, HwRespond, txVars, RingShape
<1>3. CountInv'
  BY <1>c, <1>f, <1>h, Finite DEF CountInv, Busy, HwRespond, hndVars, TypeOK
<1>4. SenderInv'
  BY Zenon DEF SenderInv, HwRespond
<1>5. /\ \A j \in RxUnread : rxMem'[j] = rxMem[j]
      /\ rxMem'[rxTail] = m
      /\ \A i \in TxUsed : txMem'[i] = txMem[i]
      /\ engine' = engine \ {m}
  BY <1>a, <1>g, Zenon DEF HwRespond, TypeOK, RxIndex, txVars, RxUnread, RxUsed
<1>6. PlaceInv'
  BY <1>5, <1>b, <1>g, <1>h DEF PlaceInv
<1>7. EachRequestOnce'
  <2>1. InRx' = InRx \cup {m}
    BY <1>5, <1>g DEF InRx
  <2>2. Cardinality(RxUnread') = Cardinality(RxUnread) + 1
    BY <1>g, Finite, FS_AddElement, Zenon
  <2>3. live' = live /\ live' = InTx' \cup engine' \cup InRx'
    BY <2>1, <1>5, <1>b, <1>h, Zenon DEF EachRequestOnce, HwRespond
  <2> QED BY <2>2, <2>3, <1>c, <1>h, Finite DEF EachRequestOnce
<1>8. HandlerInv'
  BY Zenon DEF HandlerInv, HwRespond, hndVars
<1> QED BY <1>1, <1>2, <1>3, <1>4, <1>6, <1>7, <1>8, Zenon

\* Starting and leaving the handler move no message.
LEMMA HandlerMoveInv ==
  ASSUME IndInv,
         \/ \E q \in Quotas : PollStart(q)
         \/ IrqStart \/ HandleExit \/ IrqEnable
  PROVE  IndInv'
<1> USE DEF IndInv
<1>1. /\ UNCHANGED <<inflights, sender, sending, txMem, txTail, txHead, engine,
                     rxMem, rxTail, rxHead, live>>
      /\ handler \in {"idle", "loop", "irq"} /\ handler' \in {"idle", "loop", "irq"}
      /\ quota' \in Nat /\ counter' \in Nat /\ irq' \in {"polled", "on", "off"} /\ csrHead' \in RxIndex
  <2>1. CASE \E q \in Quotas : PollStart(q)
    BY <2>1, QuotaAssumption DEF TypeOK, PollStart, txVars, rxVars
  <2>2. CASE IrqStart
    BY <2>2, Zenon DEF TypeOK, IrqStart, txVars, rxVars
  <2>3. CASE HandleExit
    BY <2>3, Zenon DEF TypeOK, HandleExit, txVars
  <2>4. CASE IrqEnable
    BY <2>4, Zenon DEF TypeOK, IrqEnable, txVars, rxVars
  <2> QED BY <2>1, <2>2, <2>3, <2>4, Zenon
<1>2. /\ TxUsed' = TxUsed /\ RxUsed' = RxUsed /\ RxUnread' = RxUnread
      /\ InTx' = InTx /\ InRx' = InRx /\ Claimed' = Claimed /\ Over' = Over
  BY <1>1 DEF TxUsed, RxUsed, RxUnread, InTx, InRx, Claimed, Over
<1>3. TypeOK'
  BY <1>1, Zenon DEF TypeOK
<1>4. ShapeInv'
  <2>1. handler' \notin {"dec", "mark"}
    BY <1>1, Zenon
  <2> QED BY <2>1, <1>1, <1>2, Zenon DEF ShapeInv, RingShape
<1>5. CountInv'
  BY <1>1, <1>2 DEF CountInv, Busy
<1>6. SenderInv' /\ PlaceInv' /\ EachRequestOnce'
  BY <1>1, <1>2, Zenon DEF SenderInv, PlaceInv, EachRequestOnce
<1>7. HandlerInv'
  BY QuotaAssumption DEF HandlerInv, PollStart, IrqStart, HandleExit, IrqEnable, rxVars, TypeOK
<1> QED BY <1>3, <1>4, <1>5, <1>6, <1>7, Zenon

\* The callback takes the response out of the live requests; its slot stays used.
LEMMA HandleCallbackInv ==
  ASSUME IndInv, HandleCallback
  PROVE  IndInv'
<1> USE DEF IndInv
<1> DEFINE m == rxMem[rxHead]
<1>a. rxHead \in RxUsed /\ rxHead \in RxUnread /\ RxUnread = RxUsed
  BY Zenon DEF HandleCallback, TypeOK, RxUsed, RxUnread
<1>b. m \in live /\ m \notin engine /\ m \notin InTx
  BY <1>a, Zenon DEF EachRequestOnce, InRx, InTx, PlaceInv
<1>c. RxUsed' = RxUsed /\ RxUnread' = RxUnread \ {rxHead}
  BY <1>a, Zenon DEF HandleCallback, rxVars, RxUsed, RxUnread
<1>d. TxUsed' = TxUsed /\ InTx' = InTx /\ Claimed' = Claimed /\ Over' = Over
  BY Zenon DEF HandleCallback, txVars, TxUsed, InTx, Claimed, Over
<1>1. TypeOK'
  BY DEF TypeOK, HandleCallback, txVars, rxVars
<1>2. ShapeInv'
  BY <1>a, <1>c, <1>d, Zenon DEF ShapeInv, HandleCallback, txVars, rxVars, RingShape
<1>3. CountInv'
  BY <1>c, <1>d, Zenon DEF CountInv, Busy, HandleCallback
<1>4. SenderInv'
  BY Zenon DEF SenderInv, HandleCallback
<1>5. PlaceInv'
  BY <1>c, <1>d DEF PlaceInv, HandleCallback, txVars, rxVars
<1>6. EachRequestOnce'
  <2>1. InRx' = InRx \ {m}
    BY <1>a, <1>c DEF InRx, HandleCallback, rxVars, PlaceInv
  <2>2. Cardinality(RxUnread') = Cardinality(RxUnread) - 1
    BY <1>a, <1>c, Finite, FS_RemoveElement, Zenon
  <2>3. Cardinality(live') = Cardinality(live) - 1
    BY <1>b, Finite, FS_RemoveElement, Zenon DEF HandleCallback
  <2>4. engine' = engine /\ live' = live \ {m}
    BY Zenon DEF HandleCallback
  <2>5. live' = InTx' \cup engine' \cup InRx'
    BY <2>1, <2>4, <1>b, <1>d DEF EachRequestOnce
  <2> QED BY <2>2, <2>3, <2>4, <2>5, <1>d, Finite DEF EachRequestOnce
<1>7. HandlerInv'
  BY DEF HandlerInv, HandleCallback, rxVars
<1> QED BY <1>1, <1>2, <1>3, <1>4, <1>5, <1>6, <1>7, Zenon

\* Giving the inflight back before the slot is marked leaves Busy one short of
\* the used slots.
LEMMA HandleDecInv ==
  ASSUME IndInv, HandleDec
  PROVE  IndInv'
<1> USE DEF IndInv
<1>a. /\ TxUsed' = TxUsed /\ RxUsed' = RxUsed /\ RxUnread' = RxUnread
      /\ InTx' = InTx /\ InRx' = InRx /\ Claimed' = Claimed /\ Over' = Over
  BY Zenon DEF HandleDec, txVars, rxVars, TxUsed, RxUsed, RxUnread, InTx, InRx, Claimed, Over
<1>b. rxHead \in RxUsed /\ Cardinality(RxUsed) > 0
  BY Finite, FS_EmptySet DEF HandleDec, ShapeInv
<1>1. CountInv' /\ inflights' \in Nat
  BY <1>a, <1>b, Finite, RingAssumption
     DEF CountInv, Busy, HandleDec, TypeOK, max_inflights, ADF_MAX_INFLIGHTS
<1>2. TypeOK'
  BY <1>1 DEF TypeOK, HandleDec, txVars, rxVars
<1>3. ShapeInv'
  BY <1>a, <1>b, Zenon DEF ShapeInv, HandleDec, txVars, rxVars, RingShape
<1>4. SenderInv' /\ PlaceInv' /\ EachRequestOnce'
  BY <1>a, Zenon DEF SenderInv, PlaceInv, EachRequestOnce, HandleDec, txVars, rxVars
<1>5. HandlerInv'
  BY DEF HandlerInv, HandleDec, rxVars
<1> QED BY <1>1, <1>2, <1>3, <1>4, <1>5, Zenon

\* Marking the slot empty (adf_handle_response) brings Busy and the used slots back
\* in step, and the head to the next response.
LEMMA HandleMarkInv ==
  ASSUME IndInv, HandleMark
  PROVE  IndInv'
<1> USE DEF IndInv
<1>a. RxUsed \in SUBSET (0 .. RxSlots - 1) /\ rxHead \in 0 .. RxSlots - 1 /\ rxTail \in 0 .. RxSlots - 1
  BY Zenon DEF RxUsed, RxIndex, TypeOK
<1>b. rxHead \in RxUsed
  BY Zenon DEF HandleMark, ShapeInv
<1>c. RxUsed' = RxUsed \ {rxHead}
  BY <1>a, Zenon DEF HandleMark, RxUsed, TypeOK, RxIndex
<1>d. /\ Cardinality(RxUsed') = Cardinality(RxUsed) - 1
      /\ RingShape(RxUsed', rxHead', rxTail, RxSlots)
      /\ rxHead' \in 0 .. RxSlots - 1
  <2>1. RxSlots \in Nat /\ RxSlots > 0 /\ RingShape(RxUsed, rxHead, rxTail, RxSlots)
    BY RingAssumption DEF ShapeInv
  <2>2. /\ Cardinality(RxUsed \ {rxHead}) = Cardinality(RxUsed) - 1
        /\ RingShape(RxUsed \ {rxHead}, adf_modulo(rxHead + 1, RxSlots), rxTail, RxSlots)
    BY <2>1, <1>a, <1>b, ShapeRemove, Zenon
  <2>3. adf_modulo(rxHead + 1, RxSlots) \in 0 .. RxSlots - 1
    BY <2>1, <1>a, ModuloNext, Zenon
  <2> QED BY <2>2, <2>3, <1>c, Zenon DEF HandleMark
<1>e. RxUnread' = RxUnread
  BY <1>c, Zenon DEF RxUnread, HandleMark
<1>f. \A j \in RxUnread : rxMem'[j] = rxMem[j]
  BY <1>a, Zenon DEF HandleMark, RxUnread, RxUsed, TypeOK, RxIndex
<1>g. /\ TxUsed' = TxUsed /\ InTx' = InTx /\ Claimed' = Claimed /\ Over' = Over
      /\ InRx' = InRx
  BY <1>e, <1>f, Zenon DEF HandleMark, txVars, TxUsed, InTx, InRx, Claimed, Over
<1>1. TypeOK'
  BY <1>d DEF TypeOK, HandleMark, txVars, RxIndex
<1>2. ShapeInv'
  <2>1. handler' \notin {"dec", "mark"}
    BY Zenon DEF HandleMark
  <2> QED BY <2>1, <1>d, <1>g, Zenon DEF ShapeInv, HandleMark, txVars, RingShape
<1>3. CountInv'
  BY <1>d, <1>g, Finite DEF CountInv, Busy, HandleMark
<1>4. SenderInv' /\ EachRequestOnce'
  BY <1>e, <1>g, Zenon DEF SenderInv, EachRequestOnce, HandleMark
<1>5. PlaceInv'
  BY <1>e, <1>f, <1>g DEF PlaceInv, HandleMark, txVars
<1>6. HandlerInv'
  BY DEF HandlerInv, HandleMark, TypeOK
<1> QED BY <1>1, <1>2, <1>3, <1>4, <1>5, <1>6, Zenon

-----------------------------------------------------------------------------
\* The rings adf_create_ring leaves satisfy the inductive invariant.
LEMMA InitInv == Init => IndInv
<1> SUFFICES ASSUME Init PROVE IndInv
  BY Zenon
<1>1. TypeOK
  BY RingAssumption, QuotaAssumption DEF Init, TypeOK, TxIndex, RxIndex
<1>2. /\ Claimed = {} /\ Over = {} /\ TxUsed = {} /\ RxUsed = {} /\ RxUnread = {}
      /\ InTx = {} /\ InRx = {} /\ engine = {} /\ live = {}
  BY Zenon DEF Init, Claimed, Over, TxUsed, RxUsed, RxUnread, InTx, InRx
<1>3. ShapeInv
  BY <1>2, FS_EmptySet, RingAssumption DEF Init, ShapeInv, RingShape, Off
<1>4. CountInv
  BY <1>2, FS_EmptySet, RingAssumption DEF Init, CountInv, Busy, max_inflights, ADF_MAX_INFLIGHTS
<1>5. SenderInv
  BY <1>2, Zenon DEF Init, SenderInv
<1>6. PlaceInv /\ EachRequestOnce
  BY <1>2, FS_EmptySet DEF PlaceInv, EachRequestOnce
<1>7. HandlerInv
  BY QuotaAssumption DEF Init, HandlerInv
<1> QED BY <1>1, <1>3, <1>4, <1>5, <1>6, <1>7, Zenon DEF IndInv

\* Every step of senders, device and handler keeps the inductive invariant.
LEMMA NextInv == IndInv /\ [Next]_vars => IndInv'
<1> SUFFICES ASSUME IndInv, [Next]_vars PROVE IndInv'
  OBVIOUS
<1>1. CASE \E s \in Senders : Send(s)
  BY <1>1, SendReserveInv, SendBackOffInv, SendCopyInv, Zenon DEF Send
<1>2. CASE Device
  BY <1>2, HwFetchInv, HwRespondInv, Zenon DEF Device
<1>3. CASE Handler
  BY <1>3, HandlerMoveInv, HandleCallbackInv, HandleDecInv, HandleMarkInv, Zenon DEF Handler
<1>4. CASE UNCHANGED vars
  <2>1. /\ Claimed' = Claimed /\ Over' = Over /\ TxUsed' = TxUsed /\ RxUsed' = RxUsed
        /\ RxUnread' = RxUnread /\ InTx' = InTx /\ InRx' = InRx
    BY <1>4, Zenon DEF vars, txVars, rxVars, hndVars, Claimed, Over, TxUsed, RxUsed, RxUnread, InTx, InRx
  <2>2. TypeOK' /\ HandlerInv'
    BY <1>4, Zenon DEF IndInv, TypeOK, HandlerInv, vars, txVars, rxVars, hndVars
  <2>3. CountInv'
    BY <1>4, <2>1 DEF IndInv, CountInv, Busy, vars, hndVars
  <2>4. ShapeInv' /\ SenderInv' /\ PlaceInv' /\ EachRequestOnce'
    BY <1>4, <2>1, Zenon
       DEF IndInv, ShapeInv, SenderInv, PlaceInv, EachRequestOnce, RingShape,
           vars, txVars, rxVars, hndVars
  <2> QED BY <2>2, <2>3, <2>4, Zenon DEF IndInv
<1> QED BY <1>1, <1>2, <1>3, <1>4 DEF Next

\* The inductive invariant holds in every reachable state.
THEOREM RingInvariant == Spec => []IndInv
<1> QED BY InitInv, NextInv, PTL DEF Spec

\* The positions of both rings stay inside the rings and inflights, a counter
\* several threads add to and take from, never goes below zero.
THEOREM RingTypeCorrect == Spec => []TypeOK
<1>1. IndInv => TypeOK
  BY Zenon DEF IndInv
<1> QED BY <1>1, RingInvariant, PTL

\* adf_send_message always has a free slot to write, for every ring size and
\* however many threads send at once.
THEOREM NoRequestOverrun == Spec => []RequestSlotFree
<1>1. IndInv => RequestSlotFree
  <2> SUFFICES ASSUME IndInv, Claimed # {}
               PROVE  txMem[txTail] = Empty /\ adf_modulo(txTail + 1, TxSlots) # txHead
    BY Zenon DEF RequestSlotFree
  <2> USE DEF IndInv
  <2>1. Cardinality(Claimed) > 0
    BY Finite, FS_EmptySet
  <2>2. handler = "mark" => Cardinality(RxUsed) > 0
    BY Finite, FS_EmptySet DEF ShapeInv
  <2>3. Cardinality(TxUsed) + 1 < TxSlots
    BY <2>1, <2>2, Finite, RingAssumption DEF CountInv, Busy, max_inflights, ADF_MAX_INFLIGHTS
  <2>4. TxSlots \in Nat /\ TxSlots > 0 /\ txHead \in 0 .. TxSlots - 1 /\ txTail \in 0 .. TxSlots - 1
    BY RingAssumption DEF TypeOK, TxIndex
  <2>5. adf_modulo(txTail + 1, TxSlots) = IF txTail + 1 = TxSlots THEN 0 ELSE txTail + 1
    BY <2>4, ModuloNext, Zenon
  <2>6. txTail \notin TxUsed
    BY <2>3, <2>4, Finite DEF ShapeInv, RingShape, Off
  <2>7. txMem[txTail] = Empty
    BY <2>6, <2>4, Zenon DEF TxUsed, TxIndex
  <2> QED BY <2>3, <2>4, <2>5, <2>7, Finite DEF ShapeInv, RingShape, Off
<1> QED BY <1>1, RingInvariant, PTL

\* The device never overwrites a response that adf_handle_response has not
\* released, for every ring size with RxSlots >= TxSlots.
THEOREM NoResponseOverrun == Spec => []ResponseSlotFree
<1>1. IndInv => ResponseSlotFree
  <2> SUFFICES ASSUME IndInv, engine # {}
               PROVE  rxMem[rxTail] = Empty
    BY Zenon DEF ResponseSlotFree
  <2> USE DEF IndInv
  <2>1. Cardinality(engine) > 0
    BY Finite, FS_EmptySet
  <2>2. Cardinality(RxUsed) < RxSlots
    BY <2>1, Finite, RingAssumption DEF CountInv, Busy, max_inflights, ADF_MAX_INFLIGHTS
  <2>3. rxHead \in 0 .. RxSlots - 1 /\ rxTail \in 0 .. RxSlots - 1
    BY Zenon DEF TypeOK, RxIndex
  <2>4. rxTail \notin RxUsed
    BY <2>2, <2>3, Finite, RingAssumption DEF ShapeInv, RingShape, Off
  <2> QED BY <2>3, <2>4 DEF RxUsed, RxIndex
<1> QED BY <1>1, RingInvariant, PTL

\* No accepted request is ever lost, duplicated or answered twice.
THEOREM EveryRequestInOnePlace == Spec => []EachRequestOnce
<1>1. IndInv => EachRequestOnce
  BY Zenon DEF IndInv
<1> QED BY <1>1, RingInvariant, PTL

\* A response never waits unnoticed: the status CSR shows it and the interrupt is
\* enabled whenever the handler is not running.
THEOREM ResponsesNoticed == Spec => []NoMissedResponse
<1>1. IndInv => NoMissedResponse
  <2> SUFFICES ASSUME IndInv, handler = "idle", RxUsed # {}
               PROVE  E_STAT_NotEmpty /\ irq # "off"
    BY Zenon DEF NoMissedResponse
  <2> USE DEF IndInv
  <2>1. Cardinality(RxUsed) > 0
    BY Finite, FS_EmptySet
  <2>2. Cardinality(RxUsed) < RxSlots
    BY Finite, RingAssumption DEF CountInv, Busy, max_inflights, ADF_MAX_INFLIGHTS
  <2>3. rxHead \in 0 .. RxSlots - 1 /\ rxTail \in 0 .. RxSlots - 1
    BY Zenon DEF TypeOK, RxIndex
  <2>4. rxTail # rxHead
    BY <2>1, <2>2, <2>3, Finite, RingAssumption DEF ShapeInv, RingShape, Off
  <2> QED BY <2>4 DEF HandlerInv, E_STAT_NotEmpty
<1> QED BY <1>1, RingInvariant, PTL

\* The ring pair implements the bounded service: requests are accepted only
\* below max_inflights and called back once.
THEOREM RingImplementsService == Spec => ServiceSpec
<1>1. Init => Service!Init
  BY Zenon DEF Init, Service!Init
<1>2. IndInv /\ [Next]_vars => [Service!Next]_live
  <2> SUFFICES ASSUME IndInv, [Next]_vars, live' # live
               PROVE  \E m \in Msgs : Service!Accept(m) \/ Service!Complete(m)
    BY Zenon DEF Service!Next
  <2> USE DEF IndInv
  <2>1. (\E s \in Senders : SendCopy(s)) \/ HandleCallback
    BY Zenon DEF Next, Send, Device, Handler, SendReserve, SendBackOff, HwFetch, HwRespond,
           PollStart, IrqStart, HandleDec, HandleMark, HandleExit, IrqEnable, vars
  <2>2. CASE \E s \in Senders : SendCopy(s)
    <3> PICK s \in Senders : SendCopy(s)
      BY <2>2, Zenon
    <3>1. sending[s] \in Msgs \ live
      BY MsgAssumption, Zenon DEF SendCopy, SenderInv, TypeOK
    <3>2. Cardinality(Claimed) > 0
      BY Finite, FS_EmptySet DEF SendCopy, Claimed
    <3>3. handler = "mark" => Cardinality(RxUnread) = Cardinality(RxUsed) - 1
      BY Finite, FS_RemoveElement, Zenon DEF RxUnread, ShapeInv
    <3>4. Cardinality(RxUnread) <= Cardinality(RxUsed)
      BY Finite, FS_Subset, Zenon DEF RxUnread
    <3>5. Cardinality(live) < max_inflights
      BY <3>2, <3>3, <3>4, Finite, RingAssumption
         DEF EachRequestOnce, CountInv, Busy, max_inflights, ADF_MAX_INFLIGHTS
    <3>6. Service!Accept(sending[s])
      <4>1. Service!Cardinality(live) = Cardinality(live)
        BY Zenon DEF Cardinality, Service!Cardinality
      <4> QED BY <4>1, <3>1, <3>5, Zenon DEF SendCopy, Service!Accept
    <3> QED BY <3>1, <3>6, Zenon
  <2>3. CASE HandleCallback
    <3>1. rxMem[rxHead] \in live /\ rxMem[rxHead] \in Msgs
      BY <2>3 DEF HandleCallback, EachRequestOnce, InRx, RxUnread, RxUsed, TypeOK
    <3>2. Service!Complete(rxMem[rxHead])
      BY <3>1, <2>3 DEF HandleCallback, Service!Complete
    <3> QED BY <3>1, <3>2, Zenon
  <2> QED BY <2>1, <2>2, <2>3, Zenon
<1> QED BY <1>1, <1>2, RingInvariant, PTL DEF Spec, ServiceSpec, Service!Spec

=============================================================================
