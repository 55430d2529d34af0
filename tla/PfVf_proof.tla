------------------------------ MODULE PfVf_proof ------------------------------
(* Proofs about PfVf: any versions, faults, retries and block.  The first part *)
(* needs nothing of the timing; the second supposes every call is answered    *)
(* before its polls run out.                                                  *)
EXTENDS PfVf, TLAPS

IsMsg(m) == m = [t |-> m.t, a |-> m.a, b |-> m.b]
IsHalf(h) == h \in [body : {h.body}, int : BOOLEAN] /\ IsMsg(h.body)
IsReg(v) == v = [h \in Sides |-> v[h]] /\ \A h \in Sides : IsHalf(v[h])

\* The two versions, and whether the PF recorded the VF's.
Versions == [pf |-> PfVersion, vf |-> VfVersion, known |-> vfInfo.compat_ver = VfVersion]

\* What the two drivers send.  A response to the version request is on its way
\* only after the PF recorded the VF's version.
VfMsg(k, m) ==
  \/ m.t = "COMPAT_VER_REQ" /\ m.a = k.vf
  \/ m.t \in {"BLOCK_REQ", "BLOCK_CRC_REQ"}
  \/ m.t \in VfNotes
PfMsg(k, m) ==
  \/ m.t = "VERSION_RESP" /\ m.a = k.pf /\ m.b \in {COMPATIBLE, COMPAT_UNKNOWN} /\ k.known
  \/ m.t \in BlockResps
  \/ m.t \in PfNotes
SideMsg(k, side, m) == IsMsg(m) /\ IF side = "pf" THEN PfMsg(k, m) ELSE VfMsg(k, m)

\* A value the register may have, or that was read from it.
Reg(k, v) ==
  /\ IsReg(v)
  /\ \A h \in Sides : v[h].body \in {None, InUse} \/ SideMsg(k, h, v[h].body)
  /\ \A h \in Sides : v[h].int => v[h].body \notin {None, InUse} /\ ~v[Other(h)].int

\* A notification of this side that the other side acknowledged, and nobody
\* wrote over.
AckedNote(side, v) == ~v[side].int /\ IsNote(v[side].body) /\ v[Other(side)].body = InUse

IsPut(q) == q \in [pc : {q.pc}, msg : {q.msg}, count : {q.count}, val : {q.val}, ret : {q.ret}]
Sending(q) == q.pc \in {"check", "write", "wait", "clear", "done"}
PutOk(k, a, q) ==
  /\ IsPut(q)
  /\ q.pc = "off" \/ (Sending(q) /\ SideMsg(k, SideOf(a), q.msg))
  /\ q.pc = "clear" => /\ Reg(k, q.val) /\ ~q.val[SideOf(a)].int
                       /\ q.val[Other(SideOf(a))].body = InUse

PutInv ==
  /\ put = [a \in Agents |-> put[a]]
  /\ \A a \in Agents : PutOk(Versions, a, put[a])

MsgOf(place) == CASE place = "ver" -> "COMPAT_VER_REQ"
                  [] place = "blk" -> "BLOCK_REQ"
                  [] place = "crc" -> "BLOCK_CRC_REQ"
                  [] place = "init" -> "INIT"
                  [] OTHER -> "SHUTDOWN"

ThreadInv ==
  /\ vpc \in {"off", "ver", "blk", "crc", "init", "up", "down", "free"}
  /\ vstep = "put" <=> Sending(put["vf"])
  /\ vstep # "send" => vpc \in {"ver", "blk", "crc", "init", "down"}
  /\ vstep = "put" => put["vf"].msg.t = MsgOf(vpc)

ReadersInv ==
  /\ Reg(Versions, csr)
  /\ worker.pc = "ack" => /\ Reg(Versions, worker.val) /\ worker.val["vf"].int
                          /\ worker.resp = None \/ SideMsg(Versions, "pf", worker.resp)
  /\ tasklet.pc = "ack" => Reg(Versions, tasklet.val) /\ tasklet.val["pf"].int

VersionInv ==
  /\ pfSeen.compat # 0 => pfSeen.version = PfVersion /\ vfInfo.compat_ver = VfVersion
  /\ vpc \in {"blk", "crc", "init", "up"} => pfSeen.compat # 0

\* The PF's record is what the VF last said: once it read the message, while it
\* acknowledges it, and as long as the VF sends no other.
Recorded(init, m) == m.t \in VfNotes => init = (m.t = "INIT")
KnownInv ==
  /\ AckedNote("vf", csr) => Recorded(vfInfo.init, csr["vf"].body)
  /\ worker.pc = "ack" => Recorded(vfInfo.init, worker.val["vf"].body)
  /\ put["vf"].pc \in {"clear", "done"} /\ put["vf"].ret = "ok" => ~csr["vf"].int /\ Recorded(vfInfo.init, put["vf"].msg)
  /\ vpc = "up" => ~csr["vf"].int /\ vfInfo.init

MailInv == PutInv /\ ThreadInv /\ ReadersInv /\ VersionInv /\ KnownInv
-----------------------------------------------------------------------------
(* The register.                                                             *)

LEMMA Values ==
  /\ Sides = {"pf", "vf"} /\ Other("pf") = "vf" /\ Other("vf") = "pf"
  /\ SideOf("vf") = "vf" /\ SideOf("pfw") = "pf" /\ SideOf("pfn") = "pf"
  /\ \A s \in Sides : Other(s) \in Sides /\ Other(s) # s /\ Other(Other(s)) = s
  /\ \A a \in Agents : SideOf(a) \in Sides
  /\ None.t = "none" /\ InUse.t = "in_use" /\ None # InUse /\ IsMsg(None) /\ IsMsg(InUse)
  BY Zenon DEF Sides, Other, SideOf, Agents, None, InUse, Msg, IsMsg

LEMMA Messages ==
  ASSUME NEW k, NEW s, NEW m, SideMsg(k, s, m)
  PROVE  m.t \notin {"none", "in_use"} /\ m \notin {None, InUse} /\ IsMsg(m)
  BY Values DEF SideMsg, VfMsg, PfMsg, VfNotes, PfNotes, BlockResps

LEMMA SentReg ==
  ASSUME NEW k, NEW s \in Sides, NEW m, SideMsg(k, s, m), NEW v, v = Sent(s, m)
  PROVE  /\ Reg(k, v) /\ v[s].body = m /\ v[s].int
         /\ v[Other(s)].body = InUse /\ ~v[Other(s)].int
<1>1. IsReg(v) /\ v[s] = Half(m, TRUE) /\ v[Other(s)] = Half(InUse, FALSE)
  <2>1. v = [h \in Sides |-> v[h]] /\ v[s] = Half(m, TRUE) /\ v[Other(s)] = Half(InUse, FALSE)
    BY Values, Zenon DEF Sent
  <2>2. IsHalf(Half(m, TRUE)) /\ IsHalf(Half(InUse, FALSE))
    BY Values, Messages DEF IsHalf, Half
  <2>3. \A h \in Sides : h = s \/ h = Other(s)
    BY Values, Zenon
  <2> QED BY <2>1, <2>2, <2>3, Zenon DEF IsReg
<1>2. /\ v[s].body = m /\ v[s].int /\ v[Other(s)].body = InUse /\ ~v[Other(s)].int
  BY <1>1 DEF Half
<1>3. \A h \in Sides : h = s \/ h = Other(s)
  BY Values, Zenon
<1>4. m \notin {None, InUse} /\ Other(Other(s)) = s
  BY Messages, Values
<1>5. \A h \in Sides : v[h].body \in {None, InUse} \/ SideMsg(k, h, v[h].body)
  BY <1>2, <1>3, Zenon
<1>6. \A h \in Sides : v[h].int => v[h].body \notin {None, InUse} /\ ~v[Other(h)].int
  BY <1>2, <1>3, <1>4, Zenon
<1> QED BY <1>1, <1>2, <1>5, <1>6, Zenon DEF Reg

Lower(s, v) == [v EXCEPT ![s].int = FALSE]
LEMMA Lowered ==
  ASSUME NEW k, NEW v, Reg(k, v), NEW s \in Sides, NEW w, w = Lower(s, v)
  PROVE  /\ Reg(k, w) /\ ~w[s].int /\ w[s].body = v[s].body /\ w[Other(s)] = v[Other(s)]
<1>1. /\ IsHalf(w[s]) /\ ~w[s].int /\ w[s].body = v[s].body /\ w[Other(s)] = v[Other(s)]
      /\ w = [h \in Sides |-> w[h]]
  <2> DEFINE x == [v[s] EXCEPT !.int = FALSE]
  <2>1. v = [h \in Sides |-> v[h]] /\ IsHalf(v[s])
    BY DEF Reg, IsReg
  <2>2. IsHalf(x) /\ ~x.int /\ x.body = v[s].body
    BY <2>1, Zenon DEF IsHalf
  <2>3. w = [v EXCEPT ![s] = x]
    BY Zenon DEF Lower
  <2> HIDE DEF x
  <2>4. w = [h \in Sides |-> w[h]] /\ w[s] = x /\ w[Other(s)] = v[Other(s)]
    BY <2>1, <2>3, Values
  <2> QED BY <2>2, <2>4, Zenon
<1>2. \A h \in Sides : h = s \/ h = Other(s)
  BY Values, Zenon
<1>3. IsReg(w)
  BY <1>1, <1>2 DEF Reg, IsReg
<1> QED BY <1>1, <1>2, <1>3, Values DEF Reg

LEMMA NoUseReg ==
  ASSUME NEW k, NEW v, Reg(k, v), NEW s \in Sides, ~v[Other(s)].int, NEW w, w = NoUse(s, v)
  PROVE  Reg(k, w) /\ w[s] = v[s] /\ w[Other(s)].body = None /\ ~w[Other(s)].int
<1>1. /\ IsHalf(w[Other(s)]) /\ ~w[Other(s)].int /\ w[Other(s)].body = None /\ w[s] = v[s]
      /\ w = [h \in Sides |-> w[h]]
  <2> DEFINE x == [v[Other(s)] EXCEPT !.body = None]
  <2>1. v = [h \in Sides |-> v[h]] /\ IsHalf(v[Other(s)])
    BY Values DEF Reg, IsReg
  <2>2. IsMsg(None)
    BY Values
  <2>3. IsHalf(x) /\ x.int = v[Other(s)].int /\ x.body = None
    BY <2>1, <2>2, Zenon DEF IsHalf
  <2>4. w = [v EXCEPT ![Other(s)] = x]
    BY Zenon DEF NoUse
  <2> HIDE DEF x
  <2>5. w = [h \in Sides |-> w[h]] /\ w[Other(s)] = x /\ w[s] = v[s]
    BY <2>1, <2>4, Values
  <2> QED BY <2>3, <2>5, Zenon
<1>2. \A h \in Sides : h = s \/ h = Other(s)
  BY Values, Zenon
<1>3. IsReg(w)
  BY <1>1, <1>2 DEF Reg, IsReg
<1> QED BY <1>1, <1>2, <1>3, Values DEF Reg

LEMMA AckedReg ==
  ASSUME NEW k, NEW v, Reg(k, v), NEW s \in Sides, v[s].int, NEW c, NEW w, w = Acked(s, v, c)
  PROVE  /\ Reg(k, w) /\ ~w[s].int /\ w[s].body = v[s].body
         /\ ~w[Other(s)].int /\ w[Other(s)].body \in {v[Other(s)].body, None}
<1> DEFINE l == Lower(s, v)
<1>1. Reg(k, l) /\ ~l[s].int /\ l[s].body = v[s].body /\ l[Other(s)] = v[Other(s)]
  <2> HIDE DEF l
  <2> QED BY Lowered DEF l
<1>2. ~l[Other(s)].int
  BY <1>1, Zenon DEF Reg
<1>3. w = IF c THEN NoUse(s, l) ELSE l
  BY Zenon DEF Acked, Lower
<1> HIDE DEF l
<1>4. CASE w = l
  BY <1>1, <1>2, <1>4, Zenon
<1>5. CASE w = NoUse(s, l)
  BY <1>1, <1>2, <1>5, NoUseReg
<1> QED BY <1>3, <1>4, <1>5, Zenon

\* The PF's record of the version only gets better.
LEMMA Learns ==
  ASSUME NEW k, NEW l, l.pf = k.pf, l.vf = k.vf, k.known => l.known
  PROVE  /\ \A s, m : SideMsg(k, s, m) => SideMsg(l, s, m)
         /\ \A v : Reg(k, v) => Reg(l, v)
         /\ \A a, q : PutOk(k, a, q) => PutOk(l, a, q)
<1>1. \A s, m : SideMsg(k, s, m) => SideMsg(l, s, m)
  BY Zenon DEF SideMsg, VfMsg, PfMsg
<1>2. \A v : Reg(k, v) => Reg(l, v)
  BY <1>1, Zenon DEF Reg
<1> QED BY <1>1, <1>2, Zenon DEF PutOk

-----------------------------------------------------------------------------
(* Sending a message.                                                        *)

LEMMA Called ==
  ASSUME NEW k, NEW a \in Agents, NEW m, SideMsg(k, SideOf(a), m), NEW r, r = PutCall(m)
  PROVE  PutOk(k, a, r) /\ r.msg = m /\ r.pc = "check"
<1>1. IsPut(r) /\ r.msg = m /\ r.pc = "check"
  BY Zenon DEF PutCall, Idle, IsPut
<1> QED BY <1>1 DEF PutOk, Sending

LEMMA Idles ==
  ASSUME NEW k, NEW a \in Agents
  PROVE  PutOk(k, a, Idle) /\ Idle.pc = "off" /\ ~Sending(Idle)
<1>1. IsPut(Idle) /\ Idle.pc = "off"
  BY Zenon DEF Idle, IsPut
<1>2. ~Sending(Idle) /\ Idle.pc # "clear"
  BY <1>1 DEF Sending
<1> QED BY <1>1, <1>2, Zenon DEF PutOk

LEMMA Moved ==
  ASSUME NEW k, NEW a \in Agents, NEW q, PutOk(k, a, q), Sending(q),
         NEW pc \in {"write", "wait"}, NEW r, r = [q EXCEPT !.pc = pc]
  PROVE  PutOk(k, a, r) /\ r.msg = q.msg /\ r.pc = pc /\ Sending(r)
<1>1. IsPut(r) /\ r.msg = q.msg /\ r.pc = pc
  BY Zenon DEF PutOk, IsPut
<1>2. pc # "off" /\ pc # "clear" /\ q.pc # "off"
  BY Zenon DEF Sending
<1> QED BY <1>1, <1>2, Zenon DEF PutOk, Sending

LEMMA Returned ==
  ASSUME NEW k, NEW a \in Agents, NEW q, PutOk(k, a, q), Sending(q), NEW ret, NEW r, r = PutReturn(q, ret)
  PROVE  /\ PutOk(k, a, r) /\ r.msg = q.msg /\ Sending(r)
         /\ r.pc = "check" \/ (r.pc = "done" /\ r.ret = ret)
<1>1. SideMsg(k, SideOf(a), q.msg)
  BY Zenon DEF PutOk, Sending
<1>2. CASE r = [q EXCEPT !.pc = "check", !.count = @ + 1, !.val = Clean]
  <2>1. IsPut(r) /\ r.msg = q.msg /\ r.pc = "check"
    BY <1>2, Zenon DEF PutOk, IsPut
  <2> QED BY <1>1, <2>1 DEF PutOk, Sending
<1>3. CASE r = [q EXCEPT !.pc = "done", !.ret = ret, !.val = Clean]
  <2>1. IsPut(r) /\ r.msg = q.msg /\ r.pc = "done" /\ r.ret = ret
    BY <1>3, Zenon DEF PutOk, IsPut
  <2> QED BY <1>1, <2>1, Zenon DEF PutOk, Sending
<1> QED BY <1>2, <1>3, Zenon DEF PutReturn

\* What a sender makes of the last value it read.  A notification that returns 0
\* was acknowledged and not written over.
LEMMA Outcome ==
  ASSUME NEW k, NEW a \in Agents, NEW q, PutOk(k, a, q), q.pc = "wait", NEW v, Reg(k, v), NEW ret,
         NEW r, r = PutOutcome(q, SideOf(a), v, ret)
  PROVE  /\ PutOk(k, a, r) /\ r.msg = q.msg /\ Sending(r) /\ r.pc \notin {"write", "wait"}
         /\ r.pc = "clear" => \A h \in Sides : r.val[h].body = v[h].body
         /\ r.pc \in {"clear", "done"} =>
              \/ r.ret = "again"
              \/ /\ r.ret = ret
                 /\ IsNote(q.msg) => v[SideOf(a)].body = q.msg /\ v[Other(SideOf(a))].body = InUse
<1> DEFINE s == SideOf(a)
           l == Lower(s, v)
<1>1. s \in Sides /\ Sending(q) /\ SideMsg(k, s, q.msg)
  BY Values, Zenon DEF PutOk, Sending
<1> HIDE DEF s
<1>2. Reg(k, l) /\ ~l[s].int /\ l[s].body = v[s].body /\ l[Other(s)] = v[Other(s)]
  <2> HIDE DEF l
  <2> QED BY <1>1, Lowered DEF l
<1>3. l = Acked(s, Sent(s, q.msg), FALSE) => v[s].body = q.msg /\ v[Other(s)].body = InUse
  <2> DEFINE u == Sent(s, q.msg)
             w == Lower(s, u)
  <2>1. Acked(s, u, FALSE) = w
    BY DEF Acked, Lower
  <2>2. Reg(k, u) /\ u[s].body = q.msg /\ u[Other(s)].body = InUse
    <3> HIDE DEF u
    <3> QED BY <1>1, SentReg DEF u
  <2> HIDE DEF u
  <2>3. w[s].body = u[s].body /\ w[Other(s)] = u[Other(s)]
    <3> HIDE DEF w
    <3> QED BY <1>1, <2>2, Lowered DEF w
  <2> HIDE DEF w, l
  <2> QED BY <1>2, <2>1, <2>2, <2>3, Zenon DEF u
<1>4. CASE r = PutReturn(q, "again")
  BY <1>1, <1>4, Returned
<1>5. CASE /\ ~(IsNote(q.msg) /\ l # Acked(s, Sent(s, q.msg), FALSE))
           /\ r = PutReturn(q, ret)
  <2>1. /\ PutOk(k, a, r) /\ r.msg = q.msg /\ Sending(r)
        /\ r.pc = "check" \/ (r.pc = "done" /\ r.ret = ret)
    BY <1>1, <1>5, Returned
  <2> HIDE DEF l
  <2> QED BY <1>3, <1>5, <2>1, Zenon DEF s
<1>6. CASE /\ ~(IsNote(q.msg) /\ l # Acked(s, Sent(s, q.msg), FALSE))
           /\ v[Other(s)].body = InUse
           /\ r = [q EXCEPT !.pc = "clear", !.val = l, !.ret = ret]
  <2> HIDE DEF l
  <2>1. IsPut(r) /\ r.msg = q.msg /\ r.pc = "clear" /\ r.val = l /\ r.ret = ret
    BY <1>6, Zenon DEF PutOk, IsPut
  <2>2. PutOk(k, a, r)
    BY <1>1, <1>2, <1>6, <2>1, Zenon DEF PutOk, Sending, s
  <2>3. \A h \in Sides : r.val[h].body = v[h].body
    <3>1. \A h \in Sides : h = s \/ h = Other(s)
      BY <1>1, Values
    <3> QED BY <1>2, <2>1, <3>1
  <2> QED BY <1>3, <1>6, <2>1, <2>2, <2>3, Zenon DEF Sending, s
<1> HIDE DEF l
<1>7. \/ r = PutReturn(q, "again")
      \/ /\ ~(IsNote(q.msg) /\ l # Acked(s, Sent(s, q.msg), FALSE))
         /\ \/ r = PutReturn(q, ret)
            \/ v[Other(s)].body = InUse /\ r = [q EXCEPT !.pc = "clear", !.val = l, !.ret = ret]
  BY Zenon DEF PutOutcome, l, Lower, s
<1> QED BY <1>4, <1>5, <1>6, <1>7, Zenon

LEMMA PutChanges ==
  ASSUME PutInv, Versions' = Versions, NEW a \in Agents, NEW r, PutOk(Versions, a, r),
         put' = [put EXCEPT ![a] = r]
  PROVE  PutInv' /\ put'[a] = r /\ \A b \in Agents \ {a} : put'[b] = put[b]
  BY Zenon DEF PutInv

-----------------------------------------------------------------------------
(* The steps keep the invariant.                                             *)

mailVars == <<sc, csr, put, vpc, vstep, worker, tasklet, pfSeen, vfInfo>>

LEMMA MailStays ==
  ASSUME MailInv, UNCHANGED mailVars
  PROVE  MailInv'
<1>1. /\ sc' = sc /\ csr' = csr /\ put' = put /\ vpc' = vpc /\ vstep' = vstep /\ worker' = worker
      /\ tasklet' = tasklet /\ pfSeen' = pfSeen /\ vfInfo' = vfInfo
  BY Zenon DEF mailVars
<1>2. Versions' = Versions
  BY <1>1, Zenon DEF Versions, PfVersion, VfVersion
<1>3. PutInv' /\ ThreadInv' /\ ReadersInv'
  BY <1>1, <1>2, Zenon DEF MailInv, PutInv, ThreadInv, ReadersInv
<1>4. VersionInv' /\ KnownInv'
  BY <1>1, <1>2 DEF MailInv, VersionInv, KnownInv, Recorded, PfVersion, VfVersion
<1> QED BY <1>3, <1>4, Zenon DEF MailInv

\* The VF's thread goes to another place.
LEMMA ThreadMoves ==
  ASSUME MailInv, UNCHANGED <<sc, csr, put, worker, tasklet, pfSeen, vfInfo>>,
         vstep # "put", vstep' = "send",
         vpc' \in {"off", "ver", "blk", "crc", "init", "down", "free"},
         vpc' \in {"blk", "crc", "init"} => pfSeen.compat # 0
  PROVE  MailInv'
<1>1. /\ sc' = sc /\ csr' = csr /\ put' = put /\ worker' = worker
      /\ tasklet' = tasklet /\ pfSeen' = pfSeen /\ vfInfo' = vfInfo
  BY Zenon
<1>2. Versions' = Versions
  BY <1>1, Zenon DEF Versions, PfVersion, VfVersion
<1>3. PutInv' /\ ReadersInv'
  BY <1>1, <1>2, Zenon DEF MailInv, PutInv, ReadersInv
<1>4. ThreadInv'
  BY <1>1, Zenon DEF MailInv, ThreadInv
<1>5. VersionInv'
  BY <1>1, Zenon DEF MailInv, VersionInv, PfVersion, VfVersion
<1>6. KnownInv'
  BY <1>1 DEF MailInv, KnownInv, Recorded
<1> QED BY <1>3, <1>4, <1>5, <1>6 DEF MailInv

\* A sender or the PF's worker goes on, and may write the register.
LEMMA SenderMoves ==
  ASSUME MailInv, NEW a \in Agents, NEW r, PutOk(Versions, a, r), put' = [put EXCEPT ![a] = r],
         UNCHANGED <<sc, vpc, vstep, tasklet, pfSeen, vfInfo>>,
         worker' = worker \/ worker'.pc # "ack",
         Reg(Versions, csr'),
         AckedNote("vf", csr') => Recorded(vfInfo.init, csr'["vf"].body),
         csr'["vf"].int => csr["vf"].int \/ (a = "vf" /\ r.pc = "wait"),
         a = "vf" => /\ Sending(put["vf"]) /\ Sending(r) /\ r.msg = put["vf"].msg
                     /\ r.pc \in {"clear", "done"} /\ r.ret = "ok" => ~csr'["vf"].int /\ Recorded(vfInfo.init, r.msg)
  PROVE  MailInv'
<1>1. /\ sc' = sc /\ vpc' = vpc /\ vstep' = vstep
      /\ tasklet' = tasklet /\ pfSeen' = pfSeen /\ vfInfo' = vfInfo
  OBVIOUS
<1>2. Versions' = Versions
  BY <1>1, Zenon DEF Versions, PfVersion, VfVersion
<1>3. PutInv' /\ put'[a] = r /\ \A b \in Agents \ {a} : put'[b] = put[b]
  BY <1>2, PutChanges, Zenon DEF MailInv
<1>4. "vf" \in Agents
  BY Zenon DEF Agents
<1>5. ThreadInv'
  BY <1>1, <1>3, <1>4, Zenon DEF MailInv, ThreadInv
<1>6. ReadersInv'
  BY <1>1, <1>2, Zenon DEF MailInv, ReadersInv
<1>7. VersionInv'
  BY <1>1, Zenon DEF MailInv, VersionInv, PfVersion, VfVersion
<1>8. KnownInv'
  <2>1. worker'.pc = "ack" => Recorded(vfInfo.init, worker'.val["vf"].body)
    BY Zenon DEF MailInv, KnownInv
  <2>2. put'["vf"].pc \in {"clear", "done"} /\ put'["vf"].ret = "ok" =>
          ~csr'["vf"].int /\ Recorded(vfInfo.init, put'["vf"].msg)
    <3>1. CASE a = "vf"
      BY <1>3, <3>1, Zenon
    <3>2. CASE a # "vf"
      BY <1>3, <1>4, <3>2, Zenon DEF MailInv, KnownInv
    <3> QED BY <3>1, <3>2, Zenon
  <2>3. vpc = "up" => ~csr'["vf"].int /\ vfInfo.init
    BY Zenon DEF MailInv, KnownInv, ThreadInv
  <2> QED BY <1>1, <2>1, <2>2, <2>3 DEF KnownInv
<1> QED BY <1>3, <1>5, <1>6, <1>7, <1>8, Zenon DEF MailInv


\* What a step of adf_iov_put by agent a, on side s, makes of its record and of
\* the register: it looks, it writes, it judges what it read, it clears.
Looked(q, r) == r.pc \in {"check", "write"} \/ (r.pc = "done" /\ r.ret = "again")
Wrote(s, q, r, v) ==
  /\ q.pc = "write" /\ r.pc = "wait"
  /\ v[s].body = q.msg /\ v[s].int /\ v[Other(s)].body = InUse /\ ~v[Other(s)].int
Judged(s, q, r, v) ==
  /\ q.pc = "wait" /\ r.pc \in {"clear", "done"}
  /\ r.pc = "clear" => \A h \in Sides : r.val[h].body = v[h].body
  /\ r.ret = "ok" => ~v[s].int /\ (IsNote(q.msg) => v[s].body = q.msg /\ AckedNote(s, v))
Cleared(s, q, r, v) ==
  /\ q.pc = "clear" /\ v[s] = q.val[s] /\ v[Other(s)].body = None
  /\ ~v[s].int /\ ~v[Other(s)].int
  /\ r.pc = "check" \/ (r.pc = "done" /\ r.ret = q.ret)
PutDone(a, s, q, r) ==
  /\ PutOk(Versions, a, r) /\ Sending(q) /\ Sending(r) /\ r.msg = q.msg
  /\ put' = [put EXCEPT ![a] = r] /\ Reg(Versions, csr')
  /\ \/ csr' = csr /\ (Looked(q, r) \/ Judged(s, q, r, csr))
     \/ Wrote(s, q, r, csr')
     \/ Cleared(s, q, r, csr')

LEMMA PutEffect ==
  ASSUME MailInv, NEW a \in Agents, PutStep(a) \/ PutTimeout(a)
  PROVE  \E r : PutDone(a, SideOf(a), put[a], r)
<1> DEFINE q == put[a]
           s == SideOf(a)
<1>1. /\ PutOk(Versions, a, q) /\ put = [b \in Agents |-> put[b]] /\ Reg(Versions, csr)
      /\ s \in Sides
  BY Values, Zenon DEF MailInv, PutInv, ReadersInv, Agents
<1>3. CASE PutCheck(a)
  <2> DEFINE r == IF csr[s].body = InUse THEN PutReturn(q, "again") ELSE [q EXCEPT !.pc = "write"]
  <2>1. q.pc = "check" /\ put' = [put EXCEPT ![a] = r] /\ csr' = csr
    BY <1>1, <1>3, Zenon DEF PutCheck
  <2>2. Sending(q)
    BY <2>1, Zenon DEF Sending
  <2>3. PutOk(Versions, a, r) /\ r.msg = q.msg /\ Sending(r) /\ Looked(q, r)
    <3>1. CASE csr[s].body = InUse
      <4>1. r = PutReturn(q, "again")
        BY <3>1, Zenon
      <4> HIDE DEF q, r
      <4>2. /\ PutOk(Versions, a, r) /\ r.msg = q.msg /\ Sending(r)
            /\ r.pc = "check" \/ (r.pc = "done" /\ r.ret = "again")
        BY <1>1, <2>2, <4>1, Returned
      <4> QED BY <4>2, Zenon DEF Looked
    <3>2. CASE csr[s].body # InUse
      <4>1. r = [q EXCEPT !.pc = "write"]
        BY <3>2
      <4> HIDE DEF q, r
      <4>2. PutOk(Versions, a, r) /\ r.msg = q.msg /\ Sending(r) /\ r.pc = "write"
        BY <1>1, <2>2, <4>1, Moved
      <4> QED BY <4>2 DEF Looked
    <3> QED BY <3>1, <3>2, Zenon
  <2> HIDE DEF r
  <2>4. PutDone(a, s, q, r)
    BY <1>1, <2>1, <2>2, <2>3, Zenon DEF PutDone
  <2> QED BY <2>4, Zenon
<1>4. CASE PutWrite(a)
  <2> DEFINE r == [q EXCEPT !.pc = "wait"]
  <2>1. q.pc = "write" /\ put' = [put EXCEPT ![a] = r] /\ csr' = Sent(s, q.msg)
    BY <1>1, <1>4, Zenon DEF PutWrite
  <2>2. Sending(q) /\ SideMsg(Versions, s, q.msg)
    BY <1>1, <2>1, Zenon DEF Sending, PutOk
  <2>3. r = [q EXCEPT !.pc = "wait"]
    BY Zenon
  <2> HIDE DEF q, r
  <2>5. PutOk(Versions, a, r) /\ r.msg = q.msg /\ Sending(r) /\ r.pc = "wait"
    BY <1>1, <2>2, <2>3, Moved
  <2> HIDE DEF s
  <2>6. /\ Reg(Versions, csr') /\ csr'[s].body = q.msg /\ csr'[s].int
        /\ csr'[Other(s)].body = InUse /\ ~csr'[Other(s)].int
    <3>1. csr' = Sent(s, q.msg) /\ s \in Sides /\ SideMsg(Versions, s, q.msg)
      BY <1>1, <2>1, <2>2, Zenon
    <3> QED BY <3>1, SentReg
  <2>7. Wrote(s, q, r, csr')
    BY <2>1, <2>5, <2>6, Zenon DEF Wrote
  <2>8. PutDone(a, s, q, r)
    BY <2>1, <2>2, <2>5, <2>6, <2>7, Zenon DEF PutDone
  <2> QED BY <2>8 DEF s, q
<1>5. CASE PutAcked(a) \/ PutTimeout(a)
  <2>1. PICK ret \in {"ok", "io"} :
          /\ q.pc = "wait" /\ put' = [put EXCEPT ![a] = PutOutcome(q, s, csr, ret)]
          /\ ret = "ok" => ~csr[s].int
          /\ csr' = csr
    <3>1. CASE PutAcked(a)
      BY <1>1, <3>1, Zenon DEF PutAcked
    <3>2. CASE PutTimeout(a)
      BY <1>1, <3>2, Zenon DEF PutTimeout
    <3> QED BY <1>5, <3>1, <3>2, Zenon
  <2> DEFINE r == PutOutcome(q, s, csr, ret)
  <2>2. Sending(q) /\ put' = [put EXCEPT ![a] = r]
    BY <2>1, Zenon DEF Sending
  <2>3. /\ PutOk(Versions, a, r) /\ r.msg = q.msg /\ Sending(r) /\ r.pc \notin {"write", "wait"}
        /\ r.pc = "clear" => \A h \in Sides : r.val[h].body = csr[h].body
        /\ r.pc \in {"clear", "done"} =>
             \/ r.ret = "again"
             \/ r.ret = ret /\ (IsNote(q.msg) => csr[s].body = q.msg /\ csr[Other(s)].body = InUse)
    <3>1. r = PutOutcome(q, SideOf(a), csr, ret)
      BY Zenon
    <3> HIDE DEF q, r
    <3>2. PutOk(Versions, a, q) /\ q.pc = "wait" /\ Reg(Versions, csr)
      BY <1>1, <2>1, Zenon
    <3> DEFINE Fits(v) == r.pc = "clear" => \A h \in Sides : r.val[h].body = v[h].body
    <3>3. /\ PutOk(Versions, a, r) /\ r.msg = q.msg /\ Sending(r) /\ r.pc \notin {"write", "wait"}
          /\ Fits(csr)
          /\ r.pc \in {"clear", "done"} =>
             \/ r.ret = "again"
             \/ /\ r.ret = ret
                /\ IsNote(q.msg) => csr[SideOf(a)].body = q.msg /\ csr[Other(SideOf(a))].body = InUse
      BY <3>1, <3>2, Outcome
    <3> QED BY <3>3, Zenon
  <2> HIDE DEF q, r, s
  <2>4. Looked(q, r) \/ Judged(s, q, r, csr)
    <3>1. CASE r.pc \in {"clear", "done"}
      <4>1. r.ret = "ok" => ~csr[s].int /\ (IsNote(q.msg) => csr[s].body = q.msg /\ AckedNote(s, csr))
        BY <2>1, <2>3, <3>1, Zenon DEF AckedNote
      <4> QED BY <2>1, <2>3, <3>1, <4>1, Zenon DEF Judged
    <3>2. CASE r.pc \notin {"clear", "done"}
      BY <2>3, <3>2, Zenon DEF Looked, Sending
    <3> QED BY <3>1, <3>2, Zenon
  <2>5. PutDone(a, s, q, r)
    BY <1>1, <2>1, <2>2, <2>3, <2>4, Zenon DEF PutDone
  <2> QED BY <2>5, Zenon DEF q, s
<1>6. CASE PutClear(a)
  <2> DEFINE r == PutReturn(q, q.ret)
  <2>1. q.pc = "clear" /\ put' = [put EXCEPT ![a] = r] /\ csr' = NoUse(s, q.val)
    BY <1>1, <1>6, Zenon DEF PutClear
  <2>2. Sending(q) /\ Reg(Versions, q.val) /\ ~q.val[s].int /\ q.val[Other(s)].body = InUse
    BY <1>1, <2>1 DEF Sending, PutOk
  <2>3. r = PutReturn(q, q.ret)
    BY Zenon
  <2> HIDE DEF q, r
  <2>5. /\ PutOk(Versions, a, r) /\ r.msg = q.msg /\ Sending(r)
        /\ r.pc = "check" \/ (r.pc = "done" /\ r.ret = q.ret)
    BY <1>1, <2>2, <2>3, Returned
  <2> HIDE DEF s
  <2>6. ~q.val[Other(s)].int
    BY <1>1, <2>2, Values, Zenon DEF Reg
  <2>7. Reg(Versions, csr') /\ csr'[s] = q.val[s] /\ csr'[Other(s)].body = None /\ ~csr'[Other(s)].int
    <3>1. csr' = NoUse(s, q.val) /\ s \in Sides /\ Reg(Versions, q.val) /\ ~q.val[Other(s)].int
      BY <1>1, <2>1, <2>2, <2>6, Zenon
    <3> QED BY <3>1, NoUseReg
  <2>8. Cleared(s, q, r, csr')
    BY <2>1, <2>2, <2>5, <2>7, Zenon DEF Cleared
  <2>9. PutDone(a, s, q, r)
    BY <2>1, <2>2, <2>5, <2>7, <2>8 DEF PutDone
  <2> QED BY <2>9, Zenon DEF s, q
<1> QED BY <1>3, <1>4, <1>5, <1>6, Zenon DEF PutStep

LEMMA PutStepKeeps ==
  ASSUME MailInv, NEW a \in Agents, PutStep(a) \/ PutTimeout(a)
  PROVE  MailInv'
<1>1. PICK r : PutDone(a, SideOf(a), put[a], r)
  BY PutEffect
<1>2. UNCHANGED <<sc, vpc, vstep, tasklet, pfSeen, vfInfo, worker>>
  <2>1. CASE PutCheck(a) \/ PutWrite(a)
    BY <2>1, Zenon DEF PutCheck, PutWrite, vfVars, respVars, pfVars
  <2>2. CASE PutAcked(a) \/ PutTimeout(a) \/ PutClear(a)
    BY <2>2, Zenon DEF PutAcked, PutTimeout, PutClear, vfVars, respVars, pfVars
  <2> QED BY <2>1, <2>2, Zenon DEF PutStep
<1>3. /\ AckedNote("vf", csr) => Recorded(vfInfo.init, csr["vf"].body)
      /\ put["vf"].pc \in {"clear", "done"} /\ put["vf"].ret = "ok" =>
           ~csr["vf"].int /\ Recorded(vfInfo.init, put["vf"].msg)
  BY Zenon DEF MailInv, KnownInv
<1> DEFINE s == SideOf(a)
           q == put[a]
<1>4. s \in Sides /\ (a = "vf" <=> s = "vf") /\ (a = "vf" => q = put["vf"])
  BY Values, Zenon DEF Agents
<1> HIDE DEF s
<1>5. AckedNote("vf", csr') => Recorded(vfInfo.init, csr'["vf"].body)
  <2>1. Wrote(s, q, r, csr') \/ Cleared(s, q, r, csr') => ~AckedNote("vf", csr')
    BY <1>4, Values DEF Wrote, Cleared, AckedNote, IsNote, VfNotes, PfNotes, Sides
  <2> QED BY <1>1, <1>3, <2>1 DEF PutDone, s
<1>6. csr'["vf"].int => csr["vf"].int \/ (a = "vf" /\ r.pc = "wait")
  <2>1. Wrote(s, q, r, csr') => r.pc = "wait" /\ (csr'["vf"].int => s = "vf")
    BY <1>4, Values, Zenon DEF Wrote, Sides
  <2>2. Cleared(s, q, r, csr') => ~csr'["vf"].int
    BY <1>4, Values, Zenon DEF Cleared, Sides
  <2> QED BY <1>1, <1>4, <2>1, <2>2 DEF PutDone, s
<1>7. a = "vf" /\ r.pc \in {"clear", "done"} /\ r.ret = "ok" => ~csr'["vf"].int /\ Recorded(vfInfo.init, r.msg)
  <2> SUFFICES ASSUME a = "vf", r.pc \in {"clear", "done"}, r.ret = "ok"
               PROVE  ~csr'["vf"].int /\ Recorded(vfInfo.init, r.msg)
    BY Zenon
  <2>1. s = "vf" /\ r.msg = q.msg /\ ~Looked(q, r) /\ ~Wrote(s, q, r, csr') /\ Other("vf") = "pf"
    BY <1>1, <1>4, Values, Zenon DEF PutDone, Looked, Wrote
  <2>2. CASE csr' = csr /\ Judged(s, q, r, csr)
    <3>1. ~csr["vf"].int /\ (IsNote(q.msg) => csr["vf"].body = q.msg /\ AckedNote("vf", csr))
      BY <2>1, <2>2, Zenon DEF Judged
    <3>2. CASE IsNote(q.msg)
      BY <1>3, <2>1, <2>2, <3>1, <3>2, Zenon
    <3>3. CASE ~IsNote(q.msg)
      BY <2>1, <2>2, <3>1, <3>3, Zenon DEF Recorded, IsNote
    <3> QED BY <3>2, <3>3, Zenon
  <2>3. CASE Cleared(s, q, r, csr')
    BY <1>3, <1>4, <2>1, <2>3, Zenon DEF Cleared
  <2> QED BY <1>1, <2>1, <2>2, <2>3, Zenon DEF PutDone, s
<1>8. /\ PutOk(Versions, a, r) /\ put' = [put EXCEPT ![a] = r] /\ Reg(Versions, csr')
      /\ a = "vf" => Sending(put["vf"]) /\ Sending(r) /\ r.msg = put["vf"].msg
  BY <1>1, <1>4 DEF PutDone
<1> QED BY <1>2, <1>5, <1>6, <1>7, <1>8, SenderMoves, Zenon

LEMMA RequestIs ==
  ASSUME vpc \in {"ver", "blk", "crc", "init", "down"}
  PROVE  /\ SideMsg(Versions, "vf", Request) /\ Request.t = MsgOf(vpc)
<1>1. Request = Msg(MsgOf(vpc), Request.a, 0) /\ (vpc = "ver" => Request.a = VfVersion)
  BY Zenon DEF Request, Msg, MsgOf
<1>2. Versions.vf = VfVersion
  BY Zenon DEF Versions
<1> QED BY <1>1, <1>2 DEF SideMsg, VfMsg, IsMsg, Msg, MsgOf, VfNotes

LEMMA ThreadKeeps ==
  ASSUME MailInv, VfStart \/ VfSend \/ VfSent \/ VfResponse \/ VfRespTimeout \/ VfDown \/ VfFree \/ VfStopAsync
  PROVE  MailInv'
<1>0. /\ ThreadInv /\ PutInv /\ ReadersInv /\ VersionInv /\ KnownInv
      /\ PutOk(Versions, "vf", put["vf"]) /\ "vf" \in Agents /\ Reg(Versions, csr)
  BY Zenon DEF MailInv, PutInv, ReadersInv, Agents
<1>1. ShutdownStep \in {"down", "free"}
  BY Zenon DEF ShutdownStep
<1>2. CASE VfStart
  <2>1. /\ vpc = "off" /\ vpc' = "ver" /\ vstep' = "send"
        /\ UNCHANGED <<sc, csr, put, worker, tasklet, pfSeen, vfInfo>>
    BY <1>2 DEF VfStart, Goto, respVars, pfVars
  <2>2. vstep # "put"
    BY <1>0, <2>1, Zenon DEF ThreadInv
  <2> QED BY <2>1, <2>2, ThreadMoves, Zenon
<1>3. CASE VfRespTimeout
  <2>1. /\ vstep = "resp" /\ vstep' = "send" /\ (vpc' = vpc \/ vpc' = ShutdownStep)
        /\ UNCHANGED <<sc, csr, put, worker, tasklet, pfSeen, vfInfo>>
    BY <1>3, Zenon DEF VfRespTimeout, Goto, respVars, pfVars
  <2>2. vpc \in {"ver", "blk", "crc", "init", "down"} /\ (vpc \in {"blk", "crc", "init"} => pfSeen.compat # 0)
    BY <1>0, <2>1, Zenon DEF ThreadInv, VersionInv
  <2> QED BY <1>1, <2>1, <2>2, ThreadMoves, Zenon
<1>4. CASE VfDown
  <2>1. /\ vpc = "up" /\ vstep' = "send" /\ vpc' = ShutdownStep
        /\ UNCHANGED <<sc, csr, put, worker, tasklet, pfSeen, vfInfo>>
    BY <1>4 DEF VfDown, Goto, respVars, pfVars
  <2>2. vstep # "put"
    BY <1>0, <2>1, Zenon DEF ThreadInv
  <2> QED BY <1>1, <2>1, <2>2, ThreadMoves, Zenon
<1>5. CASE VfFree
  <2>1. /\ vpc = "free" /\ vstep' = "send" /\ vpc' = "off"
        /\ UNCHANGED <<sc, csr, put, worker, tasklet, pfSeen, vfInfo>>
    BY <1>5, Zenon DEF VfFree, Goto, respVars, pfVars
  <2>2. vstep # "put"
    BY <1>0, <2>1, Zenon DEF ThreadInv
  <2> QED BY <2>1, <2>2, ThreadMoves, Zenon
<1>6. CASE VfStopAsync
  <2>1. /\ \/ vpc = "up" /\ vstep' = "send" /\ vpc' = ShutdownStep
           \/ vpc' = vpc /\ vstep' = vstep
        /\ UNCHANGED <<sc, csr, put, worker, tasklet, pfSeen, vfInfo>>
    BY <1>6, Zenon DEF VfStopAsync, Goto, respVars, pfVars
  <2>2. CASE vpc = "up" /\ vstep' = "send" /\ vpc' = ShutdownStep
    <3>1. vstep # "put"
      BY <1>0, <2>2, Zenon DEF ThreadInv
    <3> QED BY <1>1, <2>1, <2>2, <3>1, ThreadMoves, Zenon
  <2>3. CASE vpc' = vpc /\ vstep' = vstep
    BY <2>1, <2>3, MailStays, Zenon DEF mailVars
  <2> QED BY <2>1, <2>2, <2>3, Zenon
<1>7. CASE VfResponse
  <2>1. /\ vstep = "resp" /\ vstep' = "send"
        /\ UNCHANGED <<sc, csr, put, worker, tasklet, pfSeen, vfInfo>>
        /\ \/ vpc = "ver" /\ Compatible /\ vpc' \in {"blk", "init"}
           \/ vpc \in {"blk", "crc"} /\ vpc' \in {"blk", "crc", "init"}
           \/ vpc' = ShutdownStep
    BY <1>7, Zenon DEF VfResponse, NextByte, Goto, pfVars
  <2>2. (vpc = "ver" /\ Compatible) \/ vpc \in {"blk", "crc"} => pfSeen.compat # 0
    BY <1>0 DEF VersionInv, Compatible, COMPATIBLE, COMPAT_UNKNOWN
  <2> QED BY <1>1, <2>1, <2>2, ThreadMoves, Zenon
<1>8. CASE VfSend
  <2> DEFINE r == PutCall(Request)
  <2>1. /\ vpc \in {"ver", "blk", "crc", "init", "down"} /\ vstep = "send" /\ vstep' = "put"
        /\ put' = [put EXCEPT !["vf"] = r]
        /\ sc' = sc /\ csr' = csr /\ vpc' = vpc /\ worker' = worker /\ tasklet' = tasklet
        /\ pfSeen' = pfSeen /\ vfInfo' = vfInfo
    BY <1>8, Zenon DEF VfSend, respVars, pfVars
  <2>2. SideMsg(Versions, "vf", Request) /\ Request.t = MsgOf(vpc)
    BY <2>1, RequestIs, Zenon
  <2>3. PutOk(Versions, "vf", r) /\ r.msg = Request /\ r.pc = "check"
    <3> HIDE DEF r
    <3> QED BY <1>0, <2>2, Values, Called DEF r
  <2> HIDE DEF r
  <2>4. Versions' = Versions
    BY <2>1, Zenon DEF Versions, PfVersion, VfVersion
  <2>5. PutInv' /\ put'["vf"] = r
    BY <1>0, <2>1, <2>3, <2>4, PutChanges, Zenon
  <2>6. ThreadInv'
    BY <1>0, <2>1, <2>2, <2>3, <2>5, Zenon DEF ThreadInv, Sending
  <2>7. ReadersInv'
    BY <1>0, <2>1, <2>4, Zenon DEF ReadersInv
  <2>8. VersionInv'
    BY <1>0, <2>1 DEF VersionInv, PfVersion, VfVersion
  <2>9. KnownInv'
    BY <1>0, <2>1, <2>3, <2>5, Zenon DEF KnownInv
  <2> QED BY <2>5, <2>6, <2>7, <2>8, <2>9, Zenon DEF MailInv
<1>9. CASE VfSent
  <2>1. /\ vstep = "put" /\ put["vf"].pc = "done" /\ put' = [put EXCEPT !["vf"] = Idle]
        /\ sc' = sc /\ csr' = csr /\ worker' = worker /\ tasklet' = tasklet
        /\ pfSeen' = pfSeen /\ vfInfo' = vfInfo
        /\ \/ vpc' \in {"free", "down"} /\ vstep' = "send"
           \/ vpc = "init" /\ put["vf"].ret = "ok" /\ vpc' = "up" /\ vstep' = "send"
           \/ vpc \in {"ver", "blk", "crc"} /\ vpc' = vpc /\ vstep' = "resp"
    BY <1>1, <1>9 DEF VfSent, Goto, respVars, pfVars
  <2>2. Versions' = Versions
    BY <2>1, Zenon DEF Versions, PfVersion, VfVersion
  <2>3. PutOk(Versions, "vf", Idle) /\ Idle.pc = "off" /\ ~Sending(Idle)
    BY <1>0, Idles, Zenon
  <2>4. PutInv' /\ put'["vf"] = Idle
    BY <1>0, <2>1, <2>2, <2>3, PutChanges, Zenon
  <2>5. ThreadInv'
    BY <1>0, <2>1, <2>3, <2>4, Zenon DEF ThreadInv
  <2>6. ReadersInv'
    BY <1>0, <2>1, <2>2 DEF ReadersInv
  <2>7. VersionInv'
    BY <1>0, <2>1, Zenon DEF VersionInv, PfVersion, VfVersion
  <2>8. vpc = "init" /\ put["vf"].ret = "ok" => ~csr["vf"].int /\ vfInfo.init
    <3> SUFFICES ASSUME vpc = "init", put["vf"].ret = "ok" PROVE ~csr["vf"].int /\ vfInfo.init
      BY Zenon
    <3>1. put["vf"].msg.t = "INIT"
      BY <1>0, <2>1, Zenon DEF ThreadInv, MsgOf
    <3>2. ~csr["vf"].int /\ Recorded(vfInfo.init, put["vf"].msg)
      BY <1>0, <2>1, Zenon DEF KnownInv
    <3> QED BY <3>1, <3>2, Zenon DEF Recorded, VfNotes
  <2>9. KnownInv'
    BY <1>0, <2>1, <2>3, <2>4, <2>8, Zenon DEF KnownInv
  <2> QED BY <2>4, <2>5, <2>6, <2>7, <2>9, Zenon DEF MailInv
<1> QED BY <1>2, <1>3, <1>4, <1>5, <1>6, <1>7, <1>8, <1>9, Zenon

LEMMA CrashKeeps ==
  ASSUME MailInv, VfCrash
  PROVE  MailInv'
<1>1. /\ vpc' = "off" /\ vstep' = "send" /\ put' = [put EXCEPT !["vf"] = Idle] /\ tasklet' = TaskletIdle
      /\ sc' = sc /\ csr' = csr /\ worker' = worker /\ vfInfo' = vfInfo
      /\ pfSeen' = [version |-> 0, compat |-> 0]
  BY Zenon DEF VfCrash, Goto, pfVars
<1>2. "vf" \in Agents /\ PutInv
  BY Zenon DEF Agents, MailInv
<1>3. Versions' = Versions
  BY <1>1, Zenon DEF Versions, PfVersion, VfVersion
<1>4. PutOk(Versions, "vf", Idle) /\ Idle.pc = "off" /\ ~Sending(Idle)
  BY <1>2, Idles, Zenon
<1>5. PutInv' /\ put'["vf"] = Idle
  BY <1>1, <1>2, <1>3, <1>4, PutChanges, Zenon
<1>6. ThreadInv'
  BY <1>1, <1>4, <1>5, Zenon DEF ThreadInv
<1>7. ReadersInv'
  BY <1>1, <1>3, Zenon DEF MailInv, ReadersInv, TaskletIdle
<1>8. VersionInv' /\ KnownInv'
  BY <1>1, <1>4, <1>5, Zenon DEF MailInv, VersionInv, KnownInv
<1> QED BY <1>5, <1>6, <1>7, <1>8, Zenon DEF MailInv


\* The PF's worker goes on, and no sender does.
LEMMA WorkerMoves ==
  ASSUME MailInv, UNCHANGED <<sc, put, vpc, vstep, tasklet, pfSeen, vfInfo>>, worker'.pc # "ack",
         Reg(Versions, csr'),
         AckedNote("vf", csr') => Recorded(vfInfo.init, csr'["vf"].body),
         csr'["vf"].int => csr["vf"].int
  PROVE  MailInv'
<1>1. "pfw" \in Agents /\ PutOk(Versions, "pfw", put["pfw"]) /\ put' = [put EXCEPT !["pfw"] = put["pfw"]]
  BY Zenon DEF MailInv, PutInv, Agents
<1> QED BY <1>1, SenderMoves, Zenon

LEMMA TaskletKeeps ==
  ASSUME MailInv, Tasklet
  PROVE  MailInv'
<1>0. Reg(Versions, csr) /\ KnownInv /\ VersionInv /\ ReadersInv
  BY DEF MailInv, ReadersInv
<1>1. CASE VfIsr
  BY <1>1, MailStays, Zenon DEF VfIsr, mailVars, vfVars, respVars, pfVars
<1>2. CASE TaskletNoAck
  BY <1>2, MailStays, Zenon DEF TaskletNoAck, mailVars, respVars, pfVars
<1>3. CASE TaskletRead
  <2>1. /\ csr["pf"].int /\ tasklet' = [pc |-> "ack", val |-> csr]
        /\ sc' = sc /\ csr' = csr /\ put' = put /\ vpc' = vpc /\ vstep' = vstep
        /\ worker' = worker /\ vfInfo' = vfInfo
        /\ \/ pfSeen' = pfSeen
           \/ /\ csr["pf"].body.t = "VERSION_RESP"
              /\ pfSeen' = [version |-> csr["pf"].body.a, compat |-> csr["pf"].body.b]
    BY <1>3, Zenon DEF TaskletRead, VfHandle, respVars, pfVars
  <2>2. Versions' = Versions
    BY <2>1, Zenon DEF Versions, PfVersion, VfVersion
  <2>3. PutInv' /\ ThreadInv' /\ KnownInv'
    BY <2>1, <2>2, Zenon DEF MailInv, PutInv, ThreadInv, KnownInv
  <2>4. ReadersInv'
    <3>1. tasklet'.val = csr
      BY <2>1, Zenon
    <3> QED BY <1>0, <2>1, <2>2, <3>1, Zenon DEF ReadersInv
  <2>5. csr["pf"].body.t = "VERSION_RESP" =>
          /\ csr["pf"].body.a = PfVersion /\ csr["pf"].body.b \in {COMPATIBLE, COMPAT_UNKNOWN}
          /\ vfInfo.compat_ver = VfVersion
    <3>1. SideMsg(Versions, "pf", csr["pf"].body)
      BY <1>0, <2>1, Values, Zenon DEF Reg
    <3> QED BY <3>1, Zenon DEF SideMsg, PfMsg, BlockResps, PfNotes, Versions
  <2>6. VersionInv'
    BY <1>0, <2>1, <2>5 DEF VersionInv, PfVersion, VfVersion, COMPATIBLE, COMPAT_UNKNOWN
  <2> QED BY <2>3, <2>4, <2>6, Zenon DEF MailInv
<1>4. CASE TaskletAck
  <2> DEFINE c == pfSeen.version >= FastAck /\ ~IsNote(tasklet.val["pf"].body)
  <2>1. /\ tasklet.pc = "ack" /\ csr' = Acked("pf", tasklet.val, c) /\ tasklet' = TaskletIdle
        /\ sc' = sc /\ put' = put /\ vpc' = vpc /\ vstep' = vstep
        /\ worker' = worker /\ vfInfo' = vfInfo /\ pfSeen' = pfSeen
    BY <1>4, Zenon DEF TaskletAck, vfVars, respVars, pfVars
  <2> HIDE DEF c
  <2>2. Reg(Versions, tasklet.val) /\ tasklet.val["pf"].int
    BY <1>0, <2>1, Zenon DEF ReadersInv
  <2>3. /\ Reg(Versions, csr') /\ ~csr'["pf"].int /\ csr'["pf"].body = tasklet.val["pf"].body
        /\ ~csr'["vf"].int
    <3>1. csr' = Acked("pf", tasklet.val, c)
      BY <2>1, Zenon
    <3> QED BY <2>2, <3>1, Values, AckedReg
  <2>4. csr'["pf"].body # InUse
    BY <2>2, <2>3, Values DEF Reg
  <2>5. Versions' = Versions
    BY <2>1 DEF Versions, PfVersion, VfVersion
  <2>6. PutInv' /\ ThreadInv'
    BY <2>1, <2>5, Zenon DEF MailInv, PutInv, ThreadInv
  <2>7. ReadersInv'
    BY <1>0, <2>1, <2>3, <2>5, Zenon DEF ReadersInv, TaskletIdle
  <2>8. VersionInv'
    BY <1>0, <2>1, Zenon DEF VersionInv, PfVersion, VfVersion
  <2>9. ~AckedNote("vf", csr')
    BY <2>4, Values, Zenon DEF AckedNote
  <2>10. KnownInv'
    BY <1>0, <2>1, <2>3, <2>9, Zenon DEF KnownInv
  <2> QED BY <2>6, <2>7, <2>8, <2>10, Zenon DEF MailInv
<1> QED BY <1>1, <1>2, <1>3, <1>4, Zenon DEF Tasklet

LEMMA Answers ==
  ASSUME NEW m, NEW k, k.pf = PfVersion, VfMsg(k, m), m.t = "COMPAT_VER_REQ" => k.known
  PROVE  Response(m) = None \/ SideMsg(k, "pf", Response(m))
<1>1. CASE m.t = "COMPAT_VER_REQ"
  <2>1. Response(m) = Msg("VERSION_RESP", PfVersion, Verdict(m.a))
    BY <1>1, Zenon DEF Response
  <2>2. Verdict(m.a) \in {COMPATIBLE, COMPAT_UNKNOWN}
    BY Zenon DEF Verdict
  <2> HIDE DEF Verdict
  <2> QED BY <1>1, <2>1, <2>2 DEF SideMsg, PfMsg, IsMsg, Msg
<1>2. CASE m.t = "BLOCK_REQ"
  <2>1. Response(m) = BlockByte(m.a)
    BY <1>2 DEF Response
  <2>2. \E t \in BlockResps : \E a : Response(m) = Msg(t, a, 0)
    BY <2>1, Zenon DEF BlockByte, BlockResps
  <2> QED BY <2>2 DEF SideMsg, PfMsg, IsMsg, Msg
<1>3. CASE m.t = "BLOCK_CRC_REQ"
  <2>1. Response(m) = BlockCrc(m.a)
    BY <1>3, Zenon DEF Response
  <2>2. \E t \in BlockResps : \E a : Response(m) = Msg(t, a, 0)
    BY <2>1, Zenon DEF BlockCrc, BlockResps
  <2> QED BY <2>2 DEF SideMsg, PfMsg, IsMsg, Msg
<1>4. CASE m.t \in VfNotes
  BY <1>4 DEF Response, VfNotes
<1> QED BY <1>1, <1>2, <1>3, <1>4, Zenon DEF VfMsg

LEMMA WorkerKeeps ==
  ASSUME MailInv, PfIsr \/ PfIsrDrop \/ Worker
  PROVE  MailInv'
<1>0. Reg(Versions, csr) /\ KnownInv /\ VersionInv /\ ReadersInv /\ ThreadInv /\ PutInv
  BY DEF MailInv, ReadersInv
<1>1. CASE PfIsrDrop
  BY <1>1, MailStays, Zenon DEF PfIsrDrop, mailVars, vfVars, respVars
<1>2. CASE PfIsr \/ WorkerSpurious
  <2>1. /\ UNCHANGED <<sc, csr, put, vpc, vstep, tasklet, pfSeen, vfInfo>>
        /\ worker' = [WorkerIdle EXCEPT !.pc = "read"] \/ worker' = WorkerIdle
    BY <1>2, Zenon DEF PfIsr, WorkerSpurious, vfVars, respVars
  <2>2. worker'.pc # "ack"
    BY <2>1 DEF WorkerIdle
  <2> QED BY <1>0, <2>1, <2>2, WorkerMoves, Zenon DEF KnownInv
<1>3. CASE WorkerUnmask
  <2>1. /\ UNCHANGED <<sc, csr, vpc, vstep, tasklet, pfSeen, vfInfo>> /\ worker' = WorkerIdle
        /\ put' = put \/ put' = [put EXCEPT !["pfw"] = Idle]
    BY <1>3, Zenon DEF WorkerUnmask, vfVars, respVars
  <2>2. worker'.pc # "ack" /\ "pfw" \in Agents
    BY <2>1, Zenon DEF WorkerIdle, Agents
  <2>3. AckedNote("vf", csr) => Recorded(vfInfo.init, csr["vf"].body)
    BY <1>0, Zenon DEF KnownInv
  <2>4. CASE put' = put
    BY <1>0, <2>1, <2>2, <2>3, <2>4, WorkerMoves, Zenon
  <2>5. CASE put' = [put EXCEPT !["pfw"] = Idle]
    <3>1. PutOk(Versions, "pfw", Idle)
      BY <2>2, Idles, Zenon
    <3> QED BY <1>0, <2>1, <2>2, <2>3, <2>5, <3>1, SenderMoves, Zenon
  <2> QED BY <2>1, <2>4, <2>5, Zenon
<1>4. CASE WorkerAck
  <2> DEFINE c == vfInfo.compat_ver >= FastAck /\ ~IsNote(worker.val["vf"].body)
  <2>1. /\ worker.pc = "ack" /\ csr' = Acked("vf", worker.val, c)
        /\ UNCHANGED <<sc, vpc, vstep, tasklet, pfSeen, vfInfo>>
        /\ worker' \in {[WorkerIdle EXCEPT !.pc = "unmask"], [WorkerIdle EXCEPT !.pc = "put"]}
        /\ put' = put \/ (worker.resp # None /\ put' = [put EXCEPT !["pfw"] = PutCall(worker.resp)])
    BY <1>4, Zenon DEF WorkerAck, vfVars, respVars
  <2> HIDE DEF c
  <2>2. /\ Reg(Versions, worker.val) /\ worker.val["vf"].int
        /\ worker.resp = None \/ SideMsg(Versions, "pf", worker.resp)
        /\ Recorded(vfInfo.init, worker.val["vf"].body)
    BY <1>0, <2>1, Zenon DEF ReadersInv, KnownInv
  <2>3. /\ Reg(Versions, csr') /\ ~csr'["vf"].int /\ csr'["vf"].body = worker.val["vf"].body
    <3>1. csr' = Acked("vf", worker.val, c)
      BY <2>1, Zenon
    <3> QED BY <2>2, <3>1, Values, AckedReg
  <2>4. worker'.pc # "ack" /\ "pfw" \in Agents
    BY <2>1, Zenon DEF WorkerIdle, Agents
  <2>5. Recorded(vfInfo.init, csr'["vf"].body)
    BY <2>2, <2>3, Zenon
  <2>6. CASE put' = put
    BY <2>1, <2>3, <2>4, <2>5, <2>6, WorkerMoves, Zenon
  <2>7. CASE worker.resp # None /\ put' = [put EXCEPT !["pfw"] = PutCall(worker.resp)]
    <3> DEFINE r == PutCall(worker.resp)
    <3>1. PutOk(Versions, "pfw", r)
      <4> HIDE DEF r
      <4> QED BY <2>2, <2>4, <2>7, Values, Called, Zenon DEF r
    <3>2. put' = [put EXCEPT !["pfw"] = r]
      BY <2>7, Zenon
    <3> HIDE DEF r
    <3> QED BY <2>1, <2>3, <2>4, <2>5, <3>1, <3>2, SenderMoves, Zenon
  <2> QED BY <2>1, <2>6, <2>7, Zenon
<1>5. CASE WorkerRead
  <2> DEFINE m == csr["vf"].body
  <2>1. /\ csr["vf"].int /\ worker' = [pc |-> "ack", val |-> csr, resp |-> Response(m)]
        /\ vfInfo'.init = (IF m.t \in VfNotes THEN m.t = "INIT" ELSE vfInfo.init)
        /\ vfInfo'.compat_ver = (IF m.t = "COMPAT_VER_REQ" THEN m.a ELSE vfInfo.compat_ver)
        /\ sc' = sc /\ csr' = csr /\ put' = put /\ vpc' = vpc /\ vstep' = vstep
        /\ tasklet' = tasklet /\ pfSeen' = pfSeen
    BY <1>5, Zenon DEF WorkerRead, vfVars, respVars
  <2>2. SideMsg(Versions, "vf", m)
    BY <1>0, <2>1, Values, Zenon DEF Reg
  <2>3. VfMsg(Versions, m) /\ (m.t = "COMPAT_VER_REQ" => m.a = VfVersion)
    BY <2>2, Zenon DEF SideMsg, VfMsg, VfNotes, Versions
  <2> HIDE DEF m
  <2>4. /\ Versions'.pf = Versions.pf /\ Versions'.vf = Versions.vf
        /\ Versions.known => Versions'.known
        /\ m.t = "COMPAT_VER_REQ" => Versions'.known
    BY <2>1, <2>3, Zenon DEF Versions, PfVersion, VfVersion
  <2>5. /\ \A s, x : SideMsg(Versions, s, x) => SideMsg(Versions', s, x)
        /\ \A v : Reg(Versions, v) => Reg(Versions', v)
        /\ \A a, q : PutOk(Versions, a, q) => PutOk(Versions', a, q)
    <3> HIDE DEF Versions
    <3> QED BY <2>4, Learns, Zenon
  <2>6. PutInv' /\ ThreadInv'
    BY <1>0, <2>1, <2>5, Zenon DEF PutInv, ThreadInv
  <2>7. Response(m) = None \/ SideMsg(Versions', "pf", Response(m))
    <3>1. VfMsg(Versions', m)
      BY <2>3, <2>4, Zenon DEF VfMsg
    <3>2. Versions'.pf = PfVersion
      BY <2>1, Zenon DEF Versions, PfVersion
    <3> QED BY <2>4, <3>1, <3>2, Answers, Zenon
  <2>8. ReadersInv'
    <3>1. worker'.pc = "ack" /\ worker'.val = csr /\ worker'.resp = Response(m)
      BY <2>1, Zenon
    <3> QED BY <1>0, <2>1, <2>5, <2>7, <3>1, Zenon DEF ReadersInv
  <2>9. VersionInv'
    BY <1>0, <2>1, <2>3, Zenon DEF VersionInv, PfVersion, VfVersion
  <2>10. KnownInv'
    <3>1. worker'.val = csr /\ ~AckedNote("vf", csr')
      BY <2>1, Zenon DEF AckedNote
    <3>2. Recorded(vfInfo'.init, m)
      BY <2>1 DEF Recorded
    <3> QED BY <1>0, <2>1, <3>1, <3>2, Zenon DEF KnownInv, m
  <2> QED BY <2>6, <2>8, <2>9, <2>10, Zenon DEF MailInv
<1> QED BY <1>1, <1>2, <1>3, <1>4, <1>5, Zenon DEF Worker

LEMMA NotifyKeeps ==
  ASSUME MailInv, NotifyDone \/ \E n \in PfNotes : NotifyStart(n)
  PROVE  MailInv'
<1>0. Reg(Versions, csr) /\ (AckedNote("vf", csr) => Recorded(vfInfo.init, csr["vf"].body)) /\ "pfn" \in Agents
  BY Zenon DEF MailInv, ReadersInv, KnownInv, Agents
<1>1. CASE NotifyDone
  <2>1. UNCHANGED <<sc, csr, vpc, vstep, tasklet, pfSeen, vfInfo, worker>> /\ put' = [put EXCEPT !["pfn"] = Idle]
    BY <1>1, Zenon DEF NotifyDone, vfVars, respVars, pfVars
  <2>2. PutOk(Versions, "pfn", Idle)
    BY <1>0, Idles, Zenon
  <2> QED BY <1>0, <2>1, <2>2, SenderMoves, Zenon
<1>2. ASSUME NEW n \in PfNotes, NotifyStart(n) PROVE MailInv'
  <2> DEFINE r == PutCall(Msg(n, 0, 0))
  <2>1. UNCHANGED <<sc, csr, vpc, vstep, tasklet, pfSeen, vfInfo, worker>> /\ put' = [put EXCEPT !["pfn"] = r]
    BY <1>2, Zenon DEF NotifyStart, vfVars, respVars, pfVars
  <2>2. SideMsg(Versions, "pf", Msg(n, 0, 0))
    BY Zenon DEF SideMsg, PfMsg, IsMsg, Msg
  <2>3. PutOk(Versions, "pfn", r)
    <3> HIDE DEF r
    <3> QED BY <1>0, <2>2, Values, Called, Zenon DEF r
  <2> HIDE DEF r
  <2> QED BY <1>0, <2>1, <2>3, SenderMoves, Zenon
<1> QED BY <1>1, <1>2, Zenon

LEMMA MailInit ==
  ASSUME Init
  PROVE  MailInv
<1>1. /\ csr = Clean /\ put = [a \in Agents |-> Idle] /\ vpc = "off" /\ vstep = "send"
      /\ tasklet = TaskletIdle /\ worker = WorkerIdle /\ pfSeen = [version |-> 0, compat |-> 0]
  BY DEF Init
<1>2. Reg(Versions, csr) /\ ~AckedNote("vf", csr)
  <2>1. csr = [h \in Sides |-> csr[h]] /\ \A h \in Sides : csr[h] = Half(None, FALSE)
    BY <1>1, Zenon DEF Clean
  <2>2. IsHalf(Half(None, FALSE)) /\ Half(None, FALSE).body = None /\ ~Half(None, FALSE).int
    BY Values, Zenon DEF Half, IsHalf
  <2>3. None # InUse /\ \A h \in Sides : Other(h) \in Sides
    BY Values
  <2> HIDE DEF Half
  <2>4. "vf" \in Sides
    BY Zenon DEF Sides
  <2> QED BY <2>1, <2>2, <2>3, <2>4, Zenon DEF Reg, IsReg, AckedNote
<1>3. \A a \in Agents : PutOk(Versions, a, Idle) /\ Idle.pc = "off" /\ ~Sending(Idle)
  BY Idles, Zenon
<1>4. put["vf"] = Idle
  BY <1>1, Zenon DEF Agents
<1>5. PutInv
  BY <1>1, <1>3, Zenon DEF PutInv
<1>6. ThreadInv
  BY <1>1, <1>3, <1>4, Zenon DEF ThreadInv, Agents
<1>7. ReadersInv
  BY <1>1, <1>2, Zenon DEF ReadersInv, WorkerIdle, TaskletIdle
<1>8. VersionInv /\ KnownInv
  BY <1>1, <1>2, <1>3, <1>4 DEF VersionInv, KnownInv, WorkerIdle, Agents
<1> QED BY <1>5, <1>6, <1>7, <1>8, Zenon DEF MailInv


-----------------------------------------------------------------------------
(* Theorems about every scenario.                                            *)

LEMMA MailStep ==
  ASSUME MailInv, [Next]_vars
  PROVE  MailInv'
<1>1. CASE UNCHANGED vars
  BY <1>1, MailStays, Zenon DEF vars, mailVars, vfVars, respVars, pfVars
<1>2. CASE Next
  BY Zenon, <1>2, ThreadKeeps, CrashKeeps, TaskletKeeps, WorkerKeeps, NotifyKeeps, PutStepKeeps
  DEF Next, VfThread
<1> QED BY <1>1, <1>2, Zenon

\* What the two drivers put into the register and read from it, over any
\* interleaving, timeout, overwritten message and death of the guest.
THEOREM MailInvariant == Spec => []MailInv
<1> QED BY MailInit, MailStep, PTL DEF Spec

\* A VF that is up is known to the PF: adf_vf2pf_init returned 0 only after the
\* PF's worker set vf_info->init.
THEOREM UpMeansKnown == Spec => []UpIsKnown
<1>1. MailInv => UpIsKnown
  BY Zenon DEF MailInv, KnownInv, UpIsKnown
<1> QED BY <1>1, MailInvariant, PTL

\* A VF past the version exchange knows the PF's version and is known by its
\* own, whatever the two versions are and whichever answers were late.
THEOREM VersionsAreAgreed == Spec => []VersionsAgreed
<1>1. MailInv => VersionsAgreed
  BY Zenon DEF MailInv, VersionInv, VersionsAgreed
<1> QED BY <1>1, MailInvariant, PTL

\* INIT and SHUTDOWN, when adf_iov_notify returned 0 for them, are in the PF's
\* record of the VF.
VfNotesRecorded ==
  put["vf"].pc = "done" /\ put["vf"].ret = "ok" /\ put["vf"].msg.t \in VfNotes
    => vfInfo.init = (put["vf"].msg.t = "INIT")
THEOREM VfNotesAreRecorded == Spec => []VfNotesRecorded
<1>1. MailInv => VfNotesRecorded
  BY Zenon DEF MailInv, KnownInv, Recorded, VfNotesRecorded
<1> QED BY <1>1, MailInvariant, PTL

-----------------------------------------------------------------------------
(* What the PF announces.                                                    *)

IsPfNote(v) == v["pf"].body.t \in PfNotes

\* An acknowledgement that the notifier can take for its own comes from a bottom
\* half that had the announcement in hand since the notifier started, or later.
SeenInv ==
  /\ note = "none" => put["pfn"].pc = "off"
  /\ Sending(put["pfw"]) => put["pfw"].msg.t \notin PfNotes
  /\ Sending(put["pfn"]) => put["pfn"].msg.t \in PfNotes
  /\ worker.pc = "ack" => worker.resp.t \notin PfNotes
  /\ tasklet.pc = "ack" /\ IsPfNote(tasklet.val) => tasklet.val["pf"].body.t \in seen
  /\ put["pfn"].pc = "wait" /\ AckedNote("pf", csr) => csr["pf"].body.t \in seen
  /\ put["pfn"].pc \in {"clear", "done"} /\ put["pfn"].ret = "ok" => put["pfn"].msg.t \in seen

LEMMA SeenStays ==
  ASSUME SeenInv, UNCHANGED <<csr, put, worker, tasklet, note, seen>>
  PROVE  SeenInv'
  BY Zenon DEF SeenInv, IsPfNote

LEMMA SeenPut ==
  ASSUME MailInv, SeenInv, NEW a \in Agents, PutStep(a) \/ PutTimeout(a)
  PROVE  SeenInv'
<1> DEFINE s == SideOf(a)
           q == put[a]
<1>1. PICK r : PutDone(a, s, q, r)
  BY PutEffect, Zenon
<1>2. UNCHANGED <<tasklet, worker, note, seen>>
  <2>1. CASE PutCheck(a) \/ PutWrite(a)
    BY <2>1, Zenon DEF PutCheck, PutWrite, pfVars, noteVars
  <2>2. CASE PutAcked(a) \/ PutTimeout(a) \/ PutClear(a)
    BY <2>2, Zenon DEF PutAcked, PutTimeout, PutClear, pfVars, noteVars
  <2> QED BY <2>1, <2>2, Zenon DEF PutStep
<1>3. /\ s \in Sides /\ a \in {"vf", "pfw", "pfn"} /\ (s = "vf" <=> a = "vf")
      /\ put = [b \in Agents |-> put[b]] /\ SideMsg(Versions, s, q.msg) /\ q.pc # "off"
      /\ q.pc = "clear" => q.val[Other(s)].body = InUse
      /\ Other("pf") = "vf" /\ Other("vf") = "pf"
  BY <1>1, Values, Zenon DEF MailInv, PutInv, PutOk, PutDone, Sending, Agents
<1>4. put' = [put EXCEPT ![a] = r] /\ r.msg = q.msg /\ Sending(r) /\ Sending(q)
  BY <1>1, Zenon DEF PutDone
<1>5. put'[a] = r /\ \A b \in Agents \ {a} : put'[b] = put[b]
  BY <1>3, <1>4, Zenon
<1>7. \/ csr' = csr /\ (Looked(q, r) \/ Judged(s, q, r, csr))
      \/ Wrote(s, q, r, csr')
      \/ Cleared(s, q, r, csr')
  BY <1>1, Zenon DEF PutDone
<1> HIDE DEF s, q
<1>8. put'["pfn"].pc = "wait" /\ AckedNote("pf", csr') => csr'["pf"].body.t \in seen
  <2>1. Wrote(s, q, r, csr') \/ Cleared(s, q, r, csr') => ~AckedNote("pf", csr')
    BY <1>3, Values DEF Wrote, Cleared, AckedNote, IsNote, VfNotes, PfNotes, Sides
  <2>2. Looked(q, r) \/ Judged(s, q, r, csr) => r.pc # "wait"
    BY Zenon DEF Looked, Judged
  <2>3. put'["pfn"] = r \/ put'["pfn"] = put["pfn"]
    BY <1>5, Zenon DEF Agents
  <2> QED BY <1>7, <2>1, <2>2, <2>3, Zenon DEF SeenInv
<1>9. put'["pfn"].pc \in {"clear", "done"} /\ put'["pfn"].ret = "ok" => put'["pfn"].msg.t \in seen
  <2>1. CASE a # "pfn"
    BY <1>5, <2>1, Zenon DEF SeenInv, Agents
  <2>2. CASE a = "pfn" /\ r.pc \in {"clear", "done"} /\ r.ret = "ok"
    <3>1. q = put["pfn"] /\ s = "pf" /\ put'["pfn"] = r
      BY <1>5, <2>2, Values, Zenon DEF q, s
    <3>2. ~Looked(q, r) /\ ~Wrote(s, q, r, csr')
      BY <2>2, Zenon DEF Looked, Wrote
    <3>3. CASE Judged(s, q, r, csr)
      <4>1. IsNote(q.msg) => csr["pf"].body = q.msg /\ AckedNote("pf", csr)
        BY <2>2, <3>1, <3>3, Zenon DEF Judged
      <4>2. CASE IsNote(q.msg)
        <5>1. put["pfn"].pc = "wait"
          BY <3>1, <3>3, Zenon DEF Judged
        <5> QED BY <1>4, <3>1, <4>1, <4>2, <5>1, Zenon DEF SeenInv
      <4>3. IsNote(q.msg)
        BY <1>4, <3>1, Zenon DEF SeenInv, IsNote
      <4> QED BY <4>2, <4>3, Zenon
    <3>4. CASE Cleared(s, q, r, csr')
      BY <1>4, <2>2, <3>1, <3>4, Zenon DEF Cleared, SeenInv
    <3> QED BY <1>7, <3>2, <3>3, <3>4, Zenon
  <2> QED BY <1>5, <2>1, <2>2, Zenon
<1>10. /\ Sending(put'["pfw"]) => put'["pfw"].msg.t \notin PfNotes
       /\ Sending(put'["pfn"]) => put'["pfn"].msg.t \in PfNotes
  <2>1. \A b \in Agents : Sending(put'[b]) => Sending(put[b]) /\ put'[b].msg = put[b].msg
    BY <1>4, <1>5, Zenon DEF q
  <2> QED BY <2>1, Zenon DEF SeenInv, Agents
<1>11. note = "none" => put'["pfn"].pc = "off"
  <2>1. note = "none" => a # "pfn"
    BY <1>3, Zenon DEF SeenInv, q
  <2> QED BY <1>5, <2>1, Zenon DEF SeenInv, Agents
<1> QED BY <1>2, <1>8, <1>9, <1>10, <1>11, Zenon DEF SeenInv

LEMMA SeenThread ==
  ASSUME MailInv, SeenInv, VfStart \/ VfSend \/ VfSent \/ VfResponse \/ VfRespTimeout \/ VfDown \/ VfFree \/ VfStopAsync \/ VfCrash
  PROVE  SeenInv'
<1>1. /\ UNCHANGED <<csr, worker, note, seen>>
      /\ tasklet' = tasklet \/ tasklet' = TaskletIdle
      /\ put' = put \/ \E r : put' = [put EXCEPT !["vf"] = r] /\ r.pc \in {"check", "off"}
  <2>1. CASE VfStart \/ VfResponse \/ VfRespTimeout \/ VfDown \/ VfFree \/ VfStopAsync
    BY <2>1 DEF VfStart, VfResponse, VfRespTimeout, VfDown, VfFree, VfStopAsync, pfVars, noteVars
  <2>2. CASE VfSend
    <3>1. put' = [put EXCEPT !["vf"] = PutCall(Request)] /\ UNCHANGED <<csr, worker, note, seen, tasklet>>
      BY <2>2, Zenon DEF VfSend, pfVars, noteVars
    <3>2. PutCall(Request).pc = "check"
      BY Zenon DEF PutCall, Idle
    <3> QED BY <3>1, <3>2, Zenon
  <2>3. CASE VfSent \/ VfCrash
    <3>1. /\ put' = [put EXCEPT !["vf"] = Idle] /\ UNCHANGED <<csr, worker, note, seen>>
          /\ tasklet' = tasklet \/ tasklet' = TaskletIdle
      BY <2>3 DEF VfSent, VfCrash, pfVars, noteVars
    <3>2. Idle.pc = "off"
      BY Zenon DEF Idle
    <3> QED BY <3>1, <3>2, Zenon
  <2> QED BY <2>1, <2>2, <2>3, Zenon
<1>2. put = [b \in Agents |-> put[b]] /\ {"vf", "pfw", "pfn"} = Agents
  BY DEF MailInv, PutInv, Agents
<1>3. put'["pfw"] = put["pfw"] /\ put'["pfn"] = put["pfn"]
  BY <1>1, <1>2
<1>4. tasklet'.pc = "ack" => tasklet' = tasklet
  BY <1>1 DEF TaskletIdle
<1> QED BY <1>1, <1>3, <1>4 DEF SeenInv, IsPfNote

LEMMA SeenTasklet ==
  ASSUME MailInv, SeenInv, Tasklet
  PROVE  SeenInv'
<1>1. CASE VfIsr \/ TaskletNoAck
  BY <1>1, SeenStays, Zenon DEF VfIsr, TaskletNoAck, pfVars, noteVars
<1>2. CASE TaskletRead
  <2>1. /\ UNCHANGED <<csr, put, worker, note>> /\ tasklet' = [pc |-> "ack", val |-> csr]
        /\ seen' = seen \/ seen' = seen \cup {csr["pf"].body.t}
        /\ IsPfNote(csr) => csr["pf"].body.t \in seen'
    BY <1>2 DEF TaskletRead, VfHandle, IsPfNote, PfNotes, BlockResps, pfVars, noteVars
  <2>2. tasklet'.val = csr /\ seen \subseteq seen'
    BY <2>1, Zenon
  <2> QED BY <2>1, <2>2, Zenon DEF SeenInv
<1>3. CASE TaskletAck
  <2> DEFINE c == pfSeen.version >= FastAck /\ ~IsNote(tasklet.val["pf"].body)
  <2>1. /\ tasklet.pc = "ack" /\ csr' = Acked("pf", tasklet.val, c) /\ tasklet' = TaskletIdle
        /\ UNCHANGED <<put, worker, note, seen>>
    BY <1>3, Zenon DEF TaskletAck, pfVars, noteVars
  <2> HIDE DEF c
  <2>2. Reg(Versions, tasklet.val) /\ tasklet.val["pf"].int
    BY <2>1, Zenon DEF MailInv, ReadersInv
  <2>3. csr'["pf"].body = tasklet.val["pf"].body
    <3>1. csr' = Acked("pf", tasklet.val, c)
      BY <2>1, Zenon
    <3> QED BY <2>2, <3>1, Values, AckedReg
  <2>4. AckedNote("pf", csr') => IsPfNote(tasklet.val)
    <3>1. SideMsg(Versions, "pf", tasklet.val["pf"].body)
      BY <2>2, Values, Zenon DEF Reg
    <3>2. tasklet.val["pf"].body.t \notin VfNotes
      BY <3>1, Zenon DEF SideMsg, PfMsg, BlockResps, PfNotes, VfNotes
    <3> QED BY <2>3, <3>2, Zenon DEF AckedNote, IsNote, IsPfNote
  <2>5. tasklet'.pc # "ack"
    BY <2>1, Zenon DEF TaskletIdle
  <2> QED BY <2>1, <2>3, <2>4, <2>5, Zenon DEF SeenInv
<1> QED BY <1>1, <1>2, <1>3, Zenon DEF Tasklet

LEMMA SeenWorker ==
  ASSUME MailInv, SeenInv, PfIsr \/ PfIsrDrop \/ Worker
  PROVE  SeenInv'
<1>0. put = [b \in Agents |-> put[b]] /\ {"vf", "pfw", "pfn"} = Agents
  BY Zenon DEF MailInv, PutInv, Agents
<1>1. CASE PfIsrDrop
  BY <1>1, SeenStays, Zenon DEF PfIsrDrop, noteVars
<1>2. CASE PfIsr \/ WorkerSpurious \/ WorkerUnmask
  <2>1. /\ UNCHANGED <<csr, tasklet, note, seen>>
        /\ worker' = [WorkerIdle EXCEPT !.pc = "read"] \/ worker' = WorkerIdle
        /\ put' = put \/ put' = [put EXCEPT !["pfw"] = Idle]
    BY <1>2 DEF PfIsr, WorkerSpurious, WorkerUnmask, noteVars
  <2>2. worker'.pc # "ack" /\ Idle.pc = "off" /\ ~Sending(Idle)
    BY <2>1 DEF WorkerIdle, Idle, Sending
  <2> HIDE DEF Idle
  <2>3. /\ put'["pfn"] = put["pfn"]
        /\ put'["pfw"] = put["pfw"] \/ put'["pfw"] = Idle
    BY <1>0, <2>1, Zenon
  <2> QED BY <2>1, <2>2, <2>3, Zenon DEF SeenInv, IsPfNote
<1>3. CASE WorkerAck
  <2> DEFINE c == vfInfo.compat_ver >= FastAck /\ ~IsNote(worker.val["vf"].body)
             r == PutCall(worker.resp)
  <2>1. /\ worker.pc = "ack" /\ csr' = Acked("vf", worker.val, c)
        /\ UNCHANGED <<tasklet, note, seen>>
        /\ worker' \in {[WorkerIdle EXCEPT !.pc = "unmask"], [WorkerIdle EXCEPT !.pc = "put"]}
        /\ put' = put \/ put' = [put EXCEPT !["pfw"] = r]
    BY <1>3, Zenon DEF WorkerAck, noteVars
  <2>2. worker'.pc # "ack" /\ r.pc = "check" /\ r.msg = worker.resp
    BY <2>1 DEF WorkerIdle, PutCall, Idle
  <2> HIDE DEF c, r
  <2>3. Reg(Versions, worker.val) /\ worker.val["vf"].int
    BY <2>1, Zenon DEF MailInv, ReadersInv
  <2>4. csr'["vf"].body = worker.val["vf"].body /\ csr'["pf"].body \in {worker.val["pf"].body, None}
    <3>1. csr' = Acked("vf", worker.val, c)
      BY <2>1, Zenon
    <3> QED BY <2>3, <3>1, Values, AckedReg
  <2>5. csr'["vf"].body # InUse
    BY <2>3, <2>4, Values DEF Reg
  <2>6. ~AckedNote("pf", csr')
    BY <2>5, Values, Zenon DEF AckedNote
  <2>7. /\ put'["pfn"] = put["pfn"]
        /\ put'["pfw"] = put["pfw"] \/ put'["pfw"] = r
    BY <1>0, <2>1
  <2> QED BY <2>1, <2>2, <2>6, <2>7 DEF SeenInv
<1>4. CASE WorkerRead
  <2> DEFINE m == csr["vf"].body
  <2>1. /\ csr["vf"].int /\ worker' = [pc |-> "ack", val |-> csr, resp |-> Response(m)]
        /\ UNCHANGED <<csr, put, tasklet, note, seen>>
    BY <1>4, Zenon DEF WorkerRead, noteVars
  <2>2. Response(m).t \notin PfNotes
    <3>1. CASE m.t \in {"COMPAT_VER_REQ", "BLOCK_REQ", "BLOCK_CRC_REQ"}
      BY <3>1 DEF Response, BlockByte, BlockCrc, Msg, PfNotes
    <3>2. CASE m.t \notin {"COMPAT_VER_REQ", "BLOCK_REQ", "BLOCK_CRC_REQ"}
      BY <3>2, Zenon DEF Response, None, Msg, PfNotes
    <3> QED BY <3>1, <3>2, Zenon
  <2>3. worker'.val = csr /\ worker'.resp = Response(m)
    BY <2>1, Zenon
  <2> HIDE DEF m
  <2> QED BY <2>1, <2>2, <2>3 DEF SeenInv
<1> QED BY <1>1, <1>2, <1>3, <1>4, Zenon DEF Worker

LEMMA SeenNotify ==
  ASSUME MailInv, SeenInv, NotifyDone \/ \E n \in PfNotes : NotifyStart(n)
  PROVE  SeenInv'
<1>0. put = [b \in Agents |-> put[b]] /\ {"vf", "pfw", "pfn"} = Agents
  BY Zenon DEF MailInv, PutInv, Agents
<1>1. CASE NotifyDone
  <2>1. UNCHANGED <<csr, tasklet, worker, seen>> /\ put' = [put EXCEPT !["pfn"] = Idle]
    BY <1>1, Zenon DEF NotifyDone, pfVars
  <2>2. Idle.pc = "off" /\ ~Sending(Idle)
    BY Zenon DEF Idle, Sending
  <2> HIDE DEF Idle
  <2>3. put'["pfn"] = Idle /\ put'["pfw"] = put["pfw"]
    BY <1>0, <2>1, Zenon
  <2> QED BY <2>1, <2>2, <2>3, Zenon DEF SeenInv
<1>2. ASSUME NEW n \in PfNotes, NotifyStart(n) PROVE SeenInv'
  <2> DEFINE r == PutCall(Msg(n, 0, 0))
  <2>1. /\ note' = n /\ put' = [put EXCEPT !["pfn"] = r]
        /\ seen' = (seen \ {n}) \cup ({n} \cap Handling)
        /\ UNCHANGED <<csr, tasklet, worker>>
    BY <1>2, Zenon DEF NotifyStart, pfVars
  <2>2. r.pc = "check" /\ r.msg.t = n
    BY Zenon DEF PutCall, Idle, Msg
  <2> HIDE DEF r
  <2>3. put'["pfn"] = r /\ put'["pfw"] = put["pfw"]
    BY <1>0, <2>1, Zenon
  <2>4. tasklet.pc = "ack" /\ IsPfNote(tasklet.val) => tasklet.val["pf"].body.t \in seen'
    <3> SUFFICES ASSUME tasklet.pc = "ack", IsPfNote(tasklet.val)
                 PROVE  tasklet.val["pf"].body.t \in seen'
      BY Zenon
    <3>1. tasklet.val["pf"].body.t \in seen
      BY Zenon DEF SeenInv
    <3>2. Handling = {tasklet.val["pf"].body.t}
      BY Zenon DEF Handling
    <3> QED BY <2>1, <3>1, <3>2, Zenon
  <2>5. n # "none"
    BY DEF PfNotes
  <2> QED BY <2>1, <2>2, <2>3, <2>4, <2>5, Zenon DEF SeenInv
<1> QED BY <1>1, <1>2, Zenon

\* A notification for which adf_iov_notify returns 0 took effect on the other
\* side since the notifier started, or was being acknowledged there when it did:
\* with any number of notifications, retries, timeouts and lives of the VF.
THEOREM NotificationsAreHandled == Spec => []NotificationHandled
<1>1. Init => SeenInv
  <2> SUFFICES ASSUME Init PROVE SeenInv
    BY Zenon
  <2>1. /\ put = [a \in Agents |-> Idle]
        /\ tasklet = TaskletIdle /\ worker = WorkerIdle
    BY Zenon DEF Init
  <2>2. \A a \in Agents : put[a].pc = "off" /\ ~Sending(put[a])
    BY <2>1, Zenon DEF Idle, Sending
  <2>3. tasklet.pc # "ack" /\ worker.pc # "ack" /\ "pfn" \in Agents /\ "pfw" \in Agents
    BY <2>1, Zenon DEF TaskletIdle, WorkerIdle, Agents
  <2> QED BY <2>2, <2>3, Zenon DEF SeenInv
<1>2. MailInv /\ SeenInv /\ [Next]_vars => SeenInv'
  <2> SUFFICES ASSUME MailInv, SeenInv, [Next]_vars PROVE SeenInv'
    BY Zenon
  <2>1. CASE UNCHANGED vars
    BY <2>1, SeenStays, Zenon DEF vars, pfVars, noteVars
  <2>2. CASE Next
    BY <2>2, SeenThread, SeenTasklet, SeenWorker, SeenNotify, SeenPut, Zenon DEF Next, VfThread
  <2> QED BY <2>1, <2>2, Zenon
<1>3. MailInv /\ SeenInv => NotificationHandled
  <2> SUFFICES ASSUME MailInv, SeenInv, NEW a \in Agents, put[a].pc = "done", put[a].ret = "ok"
               PROVE  /\ put[a].msg.t \in VfNotes => vfInfo.init = (put[a].msg.t = "INIT")
                      /\ put[a].msg.t \in PfNotes => put[a].msg.t \in seen
    BY Zenon DEF NotificationHandled
  <2>1. SideMsg(Versions, SideOf(a), put[a].msg) /\ Sending(put[a])
    BY Zenon DEF MailInv, PutInv, PutOk, Sending
  <2>2. CASE a = "vf"
    <3>1. put[a].msg.t \notin PfNotes
      BY <2>1, <2>2, Values, Zenon DEF SideMsg, VfMsg, VfNotes, PfNotes
    <3> QED BY <2>2, <3>1, Zenon DEF MailInv, KnownInv, Recorded
  <2>3. CASE a # "vf"
    <3>1. put[a].msg.t \notin VfNotes
      BY <2>1, <2>3, Values DEF SideMsg, PfMsg, BlockResps, VfNotes, PfNotes, Agents
    <3> QED BY <2>1, <2>3, <3>1, Zenon DEF SeenInv, Agents
  <2> QED BY <2>2, <2>3, Zenon
<1> QED BY <1>1, <1>2, <1>3, MailInvariant, PTL DEF Spec
-----------------------------------------------------------------------------
(* Everything is in time.                                                    *)

\* The VF's thread waits for a response, or will when adf_iov_put returns.
Awaiting ==
  /\ vpc \in {"ver", "blk", "crc"}
  /\ \/ vstep = "resp"
     \/ /\ vstep = "put" /\ put["vf"].pc \in {"wait", "clear", "done"}
        /\ put["vf"].pc = "done" => put["vf"].ret = "ok"

\* The response to the thread's request.
Due == Response(Request)

\* The response has not been seen.
Owed == Awaiting /\ completion = 0 /\ ~csr["vf"].int

\* Who is at work.
ActorInv ==
  /\ AllInTime /\ notes = 0 /\ put["pfn"].pc = "off" /\ stopWork = FALSE
  /\ pfMasked <=> worker.pc # "idle"
  /\ worker.pc \in {"idle", "read", "ack", "put", "unmask"}
  /\ worker.pc = "put" <=> Sending(put["pfw"])
  /\ Sending(put["pfw"]) => ~IsNote(put["pfw"].msg)
  /\ vfIrq \in [on : BOOLEAN, masked : BOOLEAN, sched : BOOLEAN] /\ (vfIrq.on <=> vpc # "off")
  /\ vpc # "off" => (vfIrq.masked <=> vfIrq.sched \/ tasklet.pc = "ack")
  /\ vstep = "put" => put["vf"].msg = Request

\* The register belongs to one side at a time.
LineInv ==
  /\ csr["vf"].int => put["vf"].pc = "wait" /\ csr = Sent("vf", put["vf"].msg)
  /\ worker.pc \in {"read", "ack"} => csr["vf"].int
  /\ worker.pc = "ack" => worker.val = csr /\ worker.resp = Due
  /\ csr["pf"].int => put["pfw"].pc = "wait" /\ csr = Sent("pf", put["pfw"].msg) /\ vpc # "off"
  /\ vfIrq.sched => csr["pf"].int /\ tasklet.pc = "idle"
  /\ tasklet.pc = "idle" \/ (tasklet.pc = "ack" /\ csr["pf"].int /\ tasklet.val = csr)
  /\ \A a \in Agents : put[a].pc = "write" =>
       csr[SideOf(a)].body # InUse /\ ~csr["vf"].int /\ ~csr["pf"].int
  /\ \A a \in Agents : put[a].pc = "clear" =>
       /\ put[a].ret = "ok" /\ ~csr["vf"].int /\ ~csr["pf"].int
       /\ \A h \in Sides : put[a].val[h].body = csr[h].body
  /\ csr["pf"].body = InUse => put["vf"].pc \in {"wait", "clear"} /\ csr["vf"].body # InUse
  /\ csr["vf"].body = InUse => put["pfw"].pc \in {"wait", "clear"}
  /\ put["vf"].pc = "wait" /\ IsNote(put["vf"].msg) /\ ~csr["vf"].int =>
       csr = Acked("vf", Sent("vf", put["vf"].msg), FALSE)

\* The response is the one to the request of the thread.
AnswerInv ==
  /\ completion \in {0, 1}
  /\ put["pfw"].pc \in {"check", "write"} => Owed /\ put["pfw"].msg = Due
  /\ csr["pf"].int /\ tasklet.pc = "idle" => Owed /\ csr["pf"].body = Due
  /\ completion = 1 =>
       /\ Awaiting /\ ~csr["vf"].int /\ put["pfw"].pc \notin {"check", "write"}
       /\ csr["pf"].int => tasklet.pc = "ack"
       /\ vpc \in {"blk", "crc"} => vresp = [type |-> Due.t, byte |-> Due.a]

\* The first n bytes of the block.
Prefix(b, n) == b \in Seq(Nat) /\ Len(b) = n /\ \A i \in 1..n : b[i] = Block[i]

BlockInv ==
  /\ vpc = "blk" => vidx \in 0..(Payload(Block) + 1) /\ Prefix(buf, vidx)
  /\ vpc = "crc" => Prefix(buf, Payload(Block) + 2) /\ vidx = Payload(Block) + 1
  /\ vpc = "ver" => buf = <<>>
  /\ vpc \in {"init", "up"} /\ pfSeen.version >= Capabilities => Prefix(buf, Payload(Block) + 2)

TimeInv == ActorInv /\ LineInv /\ AnswerInv /\ BlockInv

Collided(s, q, v) == IsNote(q.msg) /\ Lower(s, v) # Acked(s, Sent(s, q.msg), FALSE)

LEMMA LineFacts ==
  ASSUME MailInv, LineInv
  PROVE  /\ csr["vf"].int => /\ put["vf"].pc = "wait" /\ csr["vf"].body = put["vf"].msg
                             /\ csr["pf"].body = InUse /\ ~csr["pf"].int
         /\ csr["pf"].int => /\ put["pfw"].pc = "wait" /\ csr["pf"].body = put["pfw"].msg
                             /\ csr["vf"].body = InUse /\ ~csr["vf"].int /\ vpc # "off"
         /\ \A a \in Agents : Sending(put[a]) => put[a].msg \notin {None, InUse} /\ IsMsg(put[a].msg)
         /\ put["vf"].pc = "wait" /\ IsNote(put["vf"].msg) /\ ~csr["vf"].int =>
              csr["vf"].body = put["vf"].msg /\ csr["pf"].body = InUse /\ ~csr["pf"].int
<1>1. \A a \in Agents : Sending(put[a]) => SideMsg(Versions, SideOf(a), put[a].msg)
  BY Zenon DEF MailInv, PutInv, PutOk, Sending
<1>2. \A a \in Agents : put[a].pc = "wait" => Sending(put[a])
  BY Zenon DEF Sending
<1>3. {"vf", "pfw"} \subseteq Agents
  BY Zenon DEF Agents
<1>4. ASSUME NEW m, SideMsg(Versions, "vf", m), csr = Sent("vf", m)
      PROVE  csr["vf"].body = m /\ csr["pf"].body = InUse /\ ~csr["pf"].int
  BY <1>4, SentReg, Values
<1>5. ASSUME NEW m, SideMsg(Versions, "pf", m), csr = Sent("pf", m)
      PROVE  csr["pf"].body = m /\ csr["vf"].body = InUse /\ ~csr["vf"].int
  BY <1>5, SentReg, Values
<1>6. ASSUME NEW m, SideMsg(Versions, "vf", m), csr = Acked("vf", Sent("vf", m), FALSE)
      PROVE  csr["vf"].body = m /\ csr["pf"].body = InUse /\ ~csr["pf"].int
  <2> DEFINE u == Sent("vf", m)
  <2>1. Reg(Versions, u) /\ u["vf"].body = m /\ u["pf"].body = InUse /\ ~u["pf"].int
    <3> HIDE DEF u
    <3> QED BY <1>6, SentReg, Values DEF u
  <2>2. csr = Lower("vf", u)
    BY <1>6 DEF Acked, Lower
  <2> HIDE DEF u
  <2>3. "vf" \in Sides /\ Other("vf") = "pf"
    BY Values
  <2>4. csr["vf"].body = u["vf"].body /\ csr["pf"] = u["pf"]
    BY <2>1, <2>2, <2>3, Lowered
  <2> QED BY <2>1, <2>4, Zenon
<1>7. csr["vf"].int => /\ put["vf"].pc = "wait" /\ csr["vf"].body = put["vf"].msg
                       /\ csr["pf"].body = InUse /\ ~csr["pf"].int
  BY <1>1, <1>2, <1>3, <1>4, Values, Zenon DEF LineInv
<1>8. csr["pf"].int => /\ put["pfw"].pc = "wait" /\ csr["pf"].body = put["pfw"].msg
                       /\ csr["vf"].body = InUse /\ ~csr["vf"].int /\ vpc # "off"
  BY <1>1, <1>2, <1>3, <1>5, Values, Zenon DEF LineInv
<1>9. \A a \in Agents : Sending(put[a]) => put[a].msg \notin {None, InUse} /\ IsMsg(put[a].msg)
  BY <1>1, Messages, Zenon
<1>10. put["vf"].pc = "wait" /\ IsNote(put["vf"].msg) /\ ~csr["vf"].int =>
         csr["vf"].body = put["vf"].msg /\ csr["pf"].body = InUse /\ ~csr["pf"].int
  BY <1>1, <1>2, <1>3, <1>6, Values, Zenon DEF LineInv
<1> QED BY <1>7, <1>8, <1>9, <1>10, Zenon

\* A sender that nothing collided with judges what it read.
\* An acknowledged call goes on to give its half of the register back.
Settled(s, q, v, r) ==
  /\ r.msg = q.msg /\ r.ret = "ok"
  /\ v[Other(s)].body = InUse => r.pc = "clear" /\ \A h \in Sides : r.val[h].body = v[h].body
  /\ v[Other(s)].body # InUse => r.pc = "done"

LEMMA InTimeOutcome ==
  ASSUME NEW a \in Agents, NEW q, PutOk(Versions, a, q), q.pc = "wait", NEW v, Reg(Versions, v),
         ~Collided(SideOf(a), q, v), NEW r, r = PutOutcome(q, SideOf(a), v, "ok")
  PROVE  Settled(SideOf(a), q, v, r)
<1> DEFINE s == SideOf(a)
           l == Lower(s, v)
<1>1. s \in Sides /\ IsPut(q)
  BY Values, Zenon DEF PutOk
<1> HIDE DEF s
<1>2. /\ l[s].body = v[s].body /\ l[Other(s)] = v[Other(s)]
  <2> HIDE DEF l
  <2> QED BY <1>1, Lowered DEF l
<1>3. r = IF v[Other(s)].body = InUse THEN [q EXCEPT !.pc = "clear", !.val = l, !.ret = "ok"]
                                      ELSE PutReturn(q, "ok")
  BY Zenon DEF PutOutcome, Collided, Lower, s
<1> HIDE DEF l
<1>4. CASE v[Other(s)].body = InUse
  <2>1. r = [q EXCEPT !.pc = "clear", !.val = l, !.ret = "ok"]
    BY <1>3, <1>4
  <2>2. r.msg = q.msg /\ r.pc = "clear" /\ r.val = l /\ r.ret = "ok"
    BY <1>1, <2>1, Zenon DEF IsPut
  <2>3. \A h \in Sides : h = s \/ h = Other(s)
    BY <1>1, Values, Zenon
  <2> QED BY <1>2, <1>4, <2>2, <2>3, Zenon DEF s, Settled
<1>5. CASE v[Other(s)].body # InUse
  <2>1. r = [q EXCEPT !.pc = "done", !.ret = "ok", !.val = Clean]
    BY <1>3, <1>5 DEF PutReturn
  <2>2. r.msg = q.msg /\ r.pc = "done" /\ r.ret = "ok"
    BY <1>1, <2>1, Zenon DEF IsPut
  <2> QED BY <1>5, <2>2, Zenon DEF s, Settled
<1> QED BY <1>4, <1>5, Zenon

LEMMA HalfSet ==
  ASSUME NEW m, NEW b, NEW c
  PROVE  [Half(m, b) EXCEPT !.int = c] = Half(m, c)
  BY DEF Half

LEMMA SentEqual ==
  ASSUME NEW m, NEW s \in Sides
  PROVE  Lower(s, Acked(s, Sent(s, m), FALSE)) = Acked(s, Sent(s, m), FALSE)
<1> DEFINE v == [h \in Sides |-> IF h = s THEN Half(m, FALSE) ELSE Half(InUse, FALSE)]
<1>1. Acked(s, Sent(s, m), FALSE) = v
  <2>1. Acked(s, Sent(s, m), FALSE) = Lower(s, Sent(s, m))
    BY DEF Acked, Lower
  <2>2. [Half(m, TRUE) EXCEPT !.int = FALSE] = Half(m, FALSE)
    BY HalfSet, Zenon
  <2>3. Lower(s, Sent(s, m)) = [Sent(s, m) EXCEPT ![s] = Half(m, FALSE)]
    <3>1. Sent(s, m)[s] = Half(m, TRUE)
      BY Zenon DEF Sent
    <3> QED BY <2>2, <3>1, Zenon DEF Lower
  <2> QED BY <2>1, <2>3, Zenon DEF Sent
<1>2. Lower(s, v) = v
  <2>1. [Half(m, FALSE) EXCEPT !.int = FALSE] = Half(m, FALSE)
    BY HalfSet, Zenon
  <2>2. v[s] = Half(m, FALSE) /\ v = [h \in Sides |-> v[h]]
    OBVIOUS
  <2> HIDE DEF v
  <2>3. Lower(s, v) = [v EXCEPT ![s] = Half(m, FALSE)]
    BY <2>1, <2>2, Zenon DEF Lower
  <2> QED BY <2>2, <2>3, Zenon
<1> QED BY <1>1, <1>2, Zenon

\* Nothing collides with a notification that is acknowledged.
LEMMA NoCollision ==
  ASSUME MailInv, ActorInv, LineInv, NEW a \in {"vf", "pfw"}, put[a].pc = "wait", ~csr[SideOf(a)].int
  PROVE  ~Collided(SideOf(a), put[a], csr)
<1>1. CASE a = "pfw"
  BY <1>1, Zenon DEF ActorInv, Sending, Collided
<1>2. CASE a = "vf"
  <2>1. IsNote(put["vf"].msg) => csr = Acked("vf", Sent("vf", put["vf"].msg), FALSE)
    BY <1>2, Values, Zenon DEF LineInv
  <2> QED BY <1>2, <2>1, SentEqual, Values, ZenonT(60) DEF Collided
<1> QED BY <1>1, <1>2, Zenon


LEMMA DueStays ==
  ASSUME sc' = sc, vpc' = vpc, vidx' = vidx
  PROVE  Due' = Due /\ Request' = Request
<1>1. Request' = Request
  BY Zenon DEF Request, VfVersion
<1> QED BY <1>1, Zenon DEF Due, Response, Verdict, PfVersion

\* What no sender changes.
senderFrame == <<sc, vpc, vstep, vidx, buf, stopWork, completion, vresp, pfSeen, vfIrq, tasklet,
                 pfMasked, worker, notes>>

LEMMA SenderFrame ==
  ASSUME NEW a \in Agents, PutStep(a) \/ PutTimeout(a)
  PROVE  UNCHANGED senderFrame
<1>1. CASE PutCheck(a) \/ PutWrite(a)
  BY <1>1, Zenon DEF PutCheck, PutWrite, vfVars, respVars, pfVars, noteVars, senderFrame
<1>2. CASE PutAcked(a) \/ PutTimeout(a) \/ PutClear(a)
  BY <1>2, Zenon DEF PutAcked, PutTimeout, PutClear, vfVars, respVars, pfVars, noteVars, senderFrame
<1> QED BY <1>1, <1>2, Zenon DEF PutStep

LEMMA FrameActor ==
  ASSUME MailInv, TimeInv, UNCHANGED senderFrame, NEW a \in {"vf", "pfw"}, NEW r, r.msg = put[a].msg,
         Sending(put[a]), Sending(r), put' = [put EXCEPT ![a] = r]
  PROVE  /\ ActorInv' /\ BlockInv' /\ Due' = Due /\ Request' = Request
         /\ put'[a] = r /\ \A b \in Agents \ {a} : put'[b] = put[b]
<1>1. /\ sc' = sc /\ vpc' = vpc /\ vstep' = vstep /\ vidx' = vidx /\ buf' = buf /\ stopWork' = stopWork
      /\ pfSeen' = pfSeen /\ vfIrq' = vfIrq /\ tasklet' = tasklet /\ pfMasked' = pfMasked
      /\ worker' = worker /\ notes' = notes
  BY Zenon DEF senderFrame
<1>2. Due' = Due /\ Request' = Request
  BY <1>1, DueStays, Zenon
<1>3. put'[a] = r /\ \A b \in Agents \ {a} : put'[b] = put[b]
  BY Zenon DEF MailInv, PutInv, Agents
<1>4. {"vf", "pfw", "pfn"} = Agents
  BY Zenon DEF Agents
<1>5. \A b \in Agents : (Sending(put'[b]) <=> Sending(put[b])) /\ put'[b].msg = put[b].msg
  BY <1>3, Zenon
<1>6. put'["pfn"] = put["pfn"]
  BY <1>3, <1>4, Zenon
<1>7. ActorInv'
  BY <1>1, <1>2, <1>4, <1>5, <1>6, Zenon DEF TimeInv, ActorInv, AllInTime
<1>8. BlockInv'
  BY <1>1, Zenon DEF TimeInv, BlockInv
<1> QED BY <1>2, <1>3, <1>7, <1>8, Zenon

LEMMA TimeCheck ==
  ASSUME MailInv, TimeInv, NEW a \in {"vf", "pfw"}, PutCheck(a)
  PROVE  TimeInv'
<1> DEFINE s == SideOf(a)
           q == put[a]
           r == IF csr[s].body = InUse THEN PutReturn(q, "again") ELSE [q EXCEPT !.pc = "write"]
<1>1. q.pc = "check" /\ put' = [put EXCEPT ![a] = r] /\ csr' = csr /\ UNCHANGED senderFrame
  <2>1. a \in Agents /\ put = [b \in Agents |-> put[b]]
    BY Zenon DEF Agents, MailInv, PutInv
  <2>2. UNCHANGED senderFrame
    BY <2>1, SenderFrame, Zenon DEF PutStep
  <2> QED BY <2>1, <2>2, Zenon DEF PutCheck
<1>2. Sending(q) /\ IsPut(q) /\ PutOk(Versions, a, q) /\ a \in Agents
  BY <1>1, Zenon DEF Sending, MailInv, PutInv, PutOk, Agents
<1>3. /\ r.msg = q.msg /\ Sending(r) /\ r.pc \notin {"wait", "clear"} /\ (r.pc = "done" => r.ret = "again")
      /\ r.pc = "write" => csr[s].body # InUse
  <2>1. CASE csr[s].body = InUse
    <3>1. r = PutReturn(q, "again")
      BY <2>1, Zenon
    <3> HIDE DEF r, q
    <3>2. r.msg = q.msg /\ Sending(r) /\ (r.pc = "check" \/ (r.pc = "done" /\ r.ret = "again"))
      BY <1>2, <3>1, Returned
    <3> QED BY <3>2, Zenon
  <2>2. CASE csr[s].body # InUse
    <3>1. r = [q EXCEPT !.pc = "write"]
      BY <2>2, Zenon
    <3> HIDE DEF r, q
    <3>2. r.msg = q.msg /\ Sending(r) /\ r.pc = "write"
      BY <1>2, <3>1, Moved
    <3> QED BY <2>2, <3>2, Zenon
  <2> QED BY <2>1, <2>2, Zenon
<1> HIDE DEF r, s
<1>4. /\ ActorInv' /\ BlockInv' /\ Due' = Due /\ Request' = Request
      /\ put'[a] = r /\ \A b \in Agents \ {a} : put'[b] = put[b]
  BY <1>1, <1>2, <1>3, FrameActor, Zenon
<1>5. /\ sc' = sc /\ vpc' = vpc /\ vstep' = vstep /\ completion' = completion /\ vresp' = vresp
      /\ vfIrq' = vfIrq /\ tasklet' = tasklet /\ worker' = worker
  BY <1>1, Zenon DEF senderFrame
<1>6. {"vf", "pfw", "pfn"} = Agents /\ (a = "vf" => s = "vf") /\ (a = "pfw" => s = "pf")
  BY Values, Zenon DEF Agents, s
<1>7. /\ csr["vf"].int => put["vf"].pc = "wait" /\ csr["pf"].body = InUse /\ ~csr["pf"].int
      /\ csr["pf"].int => put["pfw"].pc = "wait" /\ csr["vf"].body = InUse /\ ~csr["vf"].int
  BY LineFacts, Zenon DEF TimeInv
<1>8. LineInv'
  <2>1. \A b \in Agents : put'[b].pc = "write" =>
          csr'[SideOf(b)].body # InUse /\ ~csr'["vf"].int /\ ~csr'["pf"].int
    <3>1. r.pc = "write" => csr[s].body # InUse /\ ~csr["vf"].int /\ ~csr["pf"].int
      BY <1>1, <1>3, <1>6, <1>7, Zenon
    <3> QED BY <1>1, <1>4, <3>1 DEF TimeInv, LineInv, s
  <2>2. \A b \in Agents : put'[b].pc = "clear" =>
          /\ put'[b].ret = "ok" /\ ~csr'["vf"].int /\ ~csr'["pf"].int
          /\ \A h \in Sides : put'[b].val[h].body = csr'[h].body
    BY <1>1, <1>3, <1>4, ZenonT(60) DEF TimeInv, LineInv
  <2>3. /\ put'["vf"] = put["vf"] \/ (put["vf"].pc = "check" /\ put'["vf"].pc # "wait")
        /\ put'["pfw"] = put["pfw"] \/ (put["pfw"].pc = "check" /\ put'["pfw"].pc # "wait")
    BY <1>1, <1>3, <1>4, <1>6
  <2> QED BY <1>1, <1>4, <1>5, <2>1, <2>2, <2>3, Zenon DEF TimeInv, LineInv
<1>9. AnswerInv'
  <2>1. CASE a = "vf"
    <3>1. put'["pfw"] = put["pfw"] /\ put'["vf"] = r
      BY <1>4, <1>6, <2>1, Zenon
    <3>2. ~Awaiting /\ completion = 0
      BY <1>1, <2>1, Zenon DEF TimeInv, AnswerInv, Awaiting, ActorInv, MailInv, ThreadInv, Sending
    <3> QED BY <1>1, <1>4, <1>5, <3>1, <3>2, Zenon DEF TimeInv, AnswerInv, Owed
  <2>2. CASE a = "pfw"
    <3>1. put'["pfw"] = r /\ put'["vf"] = put["vf"]
      BY <1>4, <1>6, <2>2, Zenon
    <3>2. Awaiting' <=> Awaiting
      BY <1>5, <3>1, Zenon DEF Awaiting
    <3>3. Owed /\ put["pfw"].msg = Due
      BY <1>1, <2>2 DEF TimeInv, AnswerInv
    <3> QED BY <1>1, <1>3, <1>4, <1>5, <2>2, <3>1, <3>2, <3>3, Zenon DEF TimeInv, AnswerInv, Owed
  <2> QED BY <2>1, <2>2, Zenon
<1> QED BY <1>4, <1>8, <1>9, Zenon DEF TimeInv


\* While the PF owes a response, the VF is not about to write.
LEMMA OwedFacts ==
  ASSUME MailInv, TimeInv, Awaiting
  PROVE  /\ put["vf"].pc \notin {"check", "write"} /\ vpc # "off"
         /\ put["vf"].pc = "wait" => ~IsNote(put["vf"].msg)
<1>1. put["vf"].pc \in {"check", "write", "wait"} => vstep = "put"
  BY DEF MailInv, ThreadInv, Sending
<1>2. put["vf"].pc \notin {"check", "write"} /\ vpc \in {"ver", "blk", "crc"}
  BY <1>1 DEF Awaiting
<1>3. ~IsNote(Request)
  BY <1>2, Zenon DEF Request, Msg, IsNote, VfNotes, PfNotes
<1> QED BY <1>1, <1>2, <1>3 DEF TimeInv, ActorInv

LEMMA TimeWrite ==
  ASSUME MailInv, TimeInv, NEW a \in {"vf", "pfw"}, PutWrite(a)
  PROVE  TimeInv'
<1> DEFINE s == SideOf(a)
           q == put[a]
           r == [q EXCEPT !.pc = "wait"]
<1>1. q.pc = "write" /\ put' = [put EXCEPT ![a] = r] /\ csr' = Sent(s, q.msg) /\ UNCHANGED senderFrame
  <2>1. a \in Agents /\ put = [b \in Agents |-> put[b]]
    BY DEF Agents, MailInv, PutInv
  <2>2. UNCHANGED senderFrame
    BY <2>1, SenderFrame, Zenon DEF PutStep
  <2> QED BY <2>1, <2>2, Zenon DEF PutWrite
<1>2. Sending(q) /\ PutOk(Versions, a, q) /\ a \in Agents /\ SideMsg(Versions, s, q.msg) /\ s \in Sides
  BY <1>1, Values, Zenon DEF Sending, MailInv, PutInv, PutOk, Agents
<1>3. r.msg = q.msg /\ Sending(r) /\ r.pc = "wait"
  <2>1. r = [q EXCEPT !.pc = "wait"]
    BY Zenon
  <2> HIDE DEF r, q
  <2> QED BY <1>2, <2>1, Moved
<1> HIDE DEF r, s
<1>4. /\ ActorInv' /\ BlockInv' /\ Due' = Due /\ Request' = Request
      /\ put'[a] = r /\ \A b \in Agents \ {a} : put'[b] = put[b]
  BY <1>1, <1>2, <1>3, FrameActor, Zenon
<1>5. /\ sc' = sc /\ vpc' = vpc /\ vstep' = vstep /\ completion' = completion /\ vresp' = vresp
      /\ vfIrq' = vfIrq /\ tasklet' = tasklet /\ worker' = worker
  BY <1>1, Zenon DEF senderFrame
<1>6. {"vf", "pfw", "pfn"} = Agents /\ (a = "vf" => s = "vf") /\ (a = "pfw" => s = "pf")
  BY Values DEF Agents, s
<1>7. csr[s].body # InUse /\ ~csr["vf"].int /\ ~csr["pf"].int
  BY <1>1, <1>2, Zenon DEF TimeInv, LineInv, s
<1>8. /\ csr'[s].body = q.msg /\ csr'[s].int /\ csr'[Other(s)].body = InUse /\ ~csr'[Other(s)].int
      /\ q.msg # InUse
  <2>1. csr' = Sent(s, q.msg)
    BY <1>1, Zenon
  <2> HIDE DEF q
  <2>2. SideMsg(Versions, s, q.msg) /\ s \in Sides
    BY <1>2, Zenon DEF s
  <2>3. q.msg # InUse
    BY <2>2, Messages, Zenon
  <2>4. /\ csr'[s].body = q.msg /\ csr'[s].int /\ csr'[Other(s)].body = InUse /\ ~csr'[Other(s)].int
    BY <2>1, <2>2, SentReg
  <2> QED BY <2>3, <2>4, Zenon
<1>9. /\ worker.pc \notin {"read", "ack"} /\ ~vfIrq.sched /\ tasklet.pc = "idle" /\ put["pfn"].pc = "off"
  BY <1>7, ZenonT(60) DEF TimeInv, LineInv, ActorInv
<1>10. \A b \in Agents : put[b].pc = "clear" => csr[Other(SideOf(b))].body = InUse
  <2> SUFFICES ASSUME NEW b \in Agents, put[b].pc = "clear" PROVE csr[Other(SideOf(b))].body = InUse
    BY Zenon
  <2>1. PutOk(Versions, b, put[b]) /\ SideOf(b) \in Sides
    BY Values, Zenon DEF MailInv, PutInv
  <2>2. put[b].val[Other(SideOf(b))].body = InUse
    BY <2>1, Zenon DEF PutOk
  <2>3. \A h \in Sides : put[b].val[h].body = csr[h].body
    BY Zenon DEF TimeInv, LineInv
  <2>4. Other(SideOf(b)) \in Sides
    BY <2>1, Values, Zenon
  <2> QED BY <2>2, <2>3, <2>4, Zenon
<1>11. CASE a = "vf"
  <2>1. put'["pfw"] = put["pfw"] /\ put'["vf"] = r /\ put'["pfn"].pc = "off" /\ s = "vf" /\ q = put["vf"]
    BY <1>4, <1>6, <1>9, <1>11, Zenon
  <2>2. csr'["vf"].body = q.msg /\ csr'["vf"].int /\ csr'["pf"].body = InUse /\ ~csr'["pf"].int
    BY <1>8, <2>1, Values, Zenon
  <2>3. ~Awaiting
    BY <1>1, <2>1, OwedFacts, Zenon
  <2>4. completion = 0 /\ put["pfw"].pc \notin {"check", "write"}
    BY <2>3, Zenon DEF TimeInv, AnswerInv, Owed
  <2>5. put["pfw"].pc # "clear"
    BY <1>6, <1>7, <1>10, <2>1, Values
  <2>6. \A b \in Agents : put'[b].pc \notin {"write", "clear"}
    BY <1>3, <1>6, <2>1, <2>4, <2>5, Zenon
  <2>7. LineInv'
    BY <1>1, <1>3, <1>5, <1>8, <1>9, <2>1, <2>2, <2>6, Zenon DEF LineInv
  <2>8. AnswerInv'
    BY <1>5, <2>1, <2>2, <2>4 DEF AnswerInv
  <2> QED BY <1>4, <2>7, <2>8 DEF TimeInv
<1>12. CASE a = "pfw"
  <2>1. put'["vf"] = put["vf"] /\ put'["pfw"] = r /\ put'["pfn"].pc = "off" /\ s = "pf" /\ q = put["pfw"]
    BY <1>4, <1>6, <1>9, <1>12, Zenon
  <2>2. csr'["pf"].body = q.msg /\ csr'["pf"].int /\ csr'["vf"].body = InUse /\ ~csr'["vf"].int
    BY <1>8, <2>1, Values
  <2>3. Owed /\ q.msg = Due
    BY <1>1, <2>1, Zenon DEF TimeInv, AnswerInv
  <2>4. /\ put["vf"].pc # "write" /\ vpc # "off"
        /\ put["vf"].pc = "wait" => ~IsNote(put["vf"].msg)
    BY <2>3, OwedFacts, Zenon DEF Owed
  <2>5. put["vf"].pc # "clear"
    BY <1>6, <1>7, <1>10, <2>1, Values, ZenonT(60)
  <2>6. \A b \in Agents : put'[b].pc \notin {"write", "clear"}
    BY <1>3, <1>6, <2>1, <2>4, <2>5, Zenon
  <2>7. LineInv'
    BY <1>1, <1>3, <1>5, <1>8, <1>9, <2>1, <2>2, <2>4, <2>6, Zenon DEF LineInv
  <2>8. Awaiting'
    BY <1>5, <2>1, <2>3, Zenon DEF Owed, Awaiting
  <2>9. AnswerInv'
    BY <1>3, <1>4, <1>5, <1>9, <2>1, <2>2, <2>3, <2>8 DEF AnswerInv, Owed
  <2> QED BY <1>4, <2>7, <2>9, Zenon DEF TimeInv
<1> QED BY <1>11, <1>12

LEMMA TimeAcked ==
  ASSUME MailInv, TimeInv, NEW a \in {"vf", "pfw"}, PutAcked(a)
  PROVE  TimeInv'
<1> DEFINE s == SideOf(a)
           q == put[a]
           r == PutOutcome(q, s, csr, "ok")
<1>1. q.pc = "wait" /\ ~csr[s].int /\ put' = [put EXCEPT ![a] = r] /\ csr' = csr /\ UNCHANGED senderFrame
  <2>1. a \in Agents /\ put = [b \in Agents |-> put[b]]
    BY DEF Agents, MailInv, PutInv
  <2>2. UNCHANGED senderFrame
    BY <2>1, SenderFrame, Zenon DEF PutStep
  <2> QED BY <2>1, <2>2 DEF PutAcked
<1>2. Sending(q) /\ PutOk(Versions, a, q) /\ a \in Agents /\ Reg(Versions, csr)
  BY <1>1, Values, Zenon DEF Sending, MailInv, PutInv, ReadersInv, Agents
<1>3. /\ r.msg = q.msg /\ r.ret = "ok"
      /\ csr[Other(s)].body = InUse => r.pc = "clear" /\ \A h \in Sides : r.val[h].body = csr[h].body
      /\ csr[Other(s)].body # InUse => r.pc = "done"
  <2>1. ~Collided(s, q, csr)
    BY <1>1, NoCollision DEF TimeInv
  <2>2. r = PutOutcome(q, SideOf(a), csr, "ok")
    OBVIOUS
  <2> HIDE DEF r, q
  <2>3. PutOk(Versions, a, q) /\ q.pc = "wait" /\ Reg(Versions, csr) /\ ~Collided(SideOf(a), q, csr) /\ a \in Agents
    BY <1>1, <1>2, <2>1, Zenon
  <2>4. Settled(SideOf(a), q, csr, r)
    BY <2>2, <2>3, InTimeOutcome, Zenon
  <2> QED BY <2>4, Zenon DEF Settled
<1> HIDE DEF r, s
<1>4. Sending(r) /\ r.pc \in {"clear", "done"}
  BY <1>3, Zenon DEF Sending
<1>5. /\ ActorInv' /\ BlockInv' /\ Due' = Due /\ Request' = Request
      /\ put'[a] = r /\ \A b \in Agents \ {a} : put'[b] = put[b]
  BY <1>1, <1>2, <1>3, <1>4, FrameActor, Zenon
<1>6. /\ sc' = sc /\ vpc' = vpc /\ vstep' = vstep /\ completion' = completion /\ vresp' = vresp
      /\ vfIrq' = vfIrq /\ tasklet' = tasklet /\ worker' = worker
  BY <1>1, Zenon DEF senderFrame
<1>7. {"vf", "pfw", "pfn"} = Agents /\ (a = "vf" => s = "vf") /\ (a = "pfw" => s = "pf")
  BY Values, Zenon DEF Agents, s
<1>8. /\ csr["vf"].int => put["vf"].pc = "wait" /\ csr["vf"].body = put["vf"].msg
      /\ csr["pf"].int => put["pfw"].pc = "wait" /\ csr["pf"].body = put["pfw"].msg
      /\ \A b \in Agents : Sending(put[b]) => put[b].msg # InUse
  BY LineFacts, Zenon DEF TimeInv
<1>9. r.pc = "clear" => ~csr["vf"].int /\ ~csr["pf"].int
  <2>1. put["vf"].pc = "wait" => put["vf"].msg # InUse
    BY <1>7, <1>8, Zenon DEF Sending
  <2>2. put["pfw"].pc = "wait" => put["pfw"].msg # InUse
    BY <1>7, <1>8, Zenon DEF Sending
  <2> QED BY <1>1, <1>3, <1>7, <1>8, <2>1, <2>2, Values
<1>10. LineInv'
  <2>1. \A b \in Agents : put'[b].pc = "write" =>
          csr'[SideOf(b)].body # InUse /\ ~csr'["vf"].int /\ ~csr'["pf"].int
    BY <1>1, <1>4, <1>5, ZenonT(60) DEF TimeInv, LineInv
  <2>2. \A b \in Agents : put'[b].pc = "clear" =>
          /\ put'[b].ret = "ok" /\ ~csr'["vf"].int /\ ~csr'["pf"].int
          /\ \A h \in Sides : put'[b].val[h].body = csr'[h].body
    <3> SUFFICES ASSUME NEW b \in Agents, put'[b].pc = "clear"
                 PROVE  /\ put'[b].ret = "ok" /\ ~csr'["vf"].int /\ ~csr'["pf"].int
                        /\ \A h \in Sides : put'[b].val[h].body = csr'[h].body
      BY Zenon
    <3>1. LineInv /\ csr' = csr
      BY <1>1, Zenon DEF TimeInv
    <3>2. CASE b = a
      <4>1. put'[b] = r
        BY <1>5, <3>2, Zenon
      <4>2. r.pc = "clear"
        BY <4>1, Zenon
      <4>3. csr[Other(s)].body = InUse
        <5>1. "clear" # "done"
          BY Zenon
        <5> QED BY <1>3, <4>2, <5>1, Zenon
      <4> QED BY <1>3, <1>9, <3>1, <4>1, <4>2, <4>3, Zenon
    <3>3. CASE b # a
      <4>1. put'[b] = put[b]
        BY <1>5, <3>3, Zenon
      <4> QED BY <3>1, <4>1, Zenon DEF LineInv
    <3> QED BY <3>2, <3>3, Zenon
  <2>3. CASE a = "vf"
    <3>1. put'["pfw"] = put["pfw"] /\ put'["vf"] = r /\ ~csr["vf"].int
      BY <1>1, <1>5, <1>7, <2>3, Zenon
    <3>2. csr["pf"].body = InUse => r.pc = "clear"
      BY <1>3, <1>7, <2>3, Values, Zenon
    <3> QED BY <1>1, <1>4, <1>5, <1>6, <2>1, <2>2, <3>1, <3>2, Zenon DEF TimeInv, LineInv
  <2>4. CASE a = "pfw"
    <3>1. put'["vf"] = put["vf"] /\ put'["pfw"] = r /\ ~csr["pf"].int
      BY <1>1, <1>5, <1>7, <2>4, Zenon
    <3>2. csr["vf"].body = InUse => r.pc = "clear"
      BY <1>3, <1>7, <2>4, Values, ZenonT(60)
    <3> QED BY <1>1, <1>4, <1>5, <1>6, <2>1, <2>2, <3>1, <3>2, Zenon DEF TimeInv, LineInv
  <2> QED BY <2>3, <2>4, ZenonT(60)
<1>11. AnswerInv'
  <2>1. Awaiting => Awaiting'
    BY <1>3, <1>4, <1>5, <1>6, <1>7 DEF Awaiting
  <2>2. put'["pfw"].pc \in {"check", "write"} => put'["pfw"] = put["pfw"]
    BY <1>4, <1>5, <1>7, Zenon
  <2> QED BY <1>1, <1>5, <1>6, <2>1, <2>2, Zenon DEF TimeInv, AnswerInv, Owed
<1> QED BY <1>5, <1>10, <1>11, Zenon DEF TimeInv

LEMMA TimeClear ==
  ASSUME MailInv, TimeInv, NEW a \in {"vf", "pfw"}, PutClear(a)
  PROVE  TimeInv'
<1> DEFINE s == SideOf(a)
           q == put[a]
           r == PutReturn(q, q.ret)
<1>1. q.pc = "clear" /\ put' = [put EXCEPT ![a] = r] /\ csr' = NoUse(s, q.val) /\ UNCHANGED senderFrame
  <2>1. a \in Agents /\ put = [b \in Agents |-> put[b]]
    BY DEF Agents, MailInv, PutInv
  <2>2. UNCHANGED senderFrame
    BY <2>1, SenderFrame, Zenon DEF PutStep
  <2> QED BY <2>1, <2>2 DEF PutClear
<1>2. /\ Sending(q) /\ PutOk(Versions, a, q) /\ a \in Agents /\ s \in Sides
      /\ Reg(Versions, q.val) /\ ~q.val[s].int /\ q.val[Other(s)].body = InUse
      /\ q.ret = "ok" /\ ~csr["vf"].int /\ ~csr["pf"].int
      /\ \A h \in Sides : q.val[h].body = csr[h].body
  <2>1. Sending(q) /\ a \in Agents /\ s \in Sides
    BY <1>1, Values, Zenon DEF Sending, Agents
  <2>2. PutOk(Versions, a, q)
    BY <2>1, Zenon DEF MailInv, PutInv
  <2>3. Reg(Versions, q.val) /\ ~q.val[s].int /\ q.val[Other(s)].body = InUse
    BY <1>1, <2>2, Zenon DEF PutOk
  <2>4. LineInv
    BY Zenon DEF TimeInv
  <2>5. /\ q.ret = "ok" /\ ~csr["vf"].int /\ ~csr["pf"].int
        /\ \A h \in Sides : q.val[h].body = csr[h].body
    BY <1>1, <2>1, <2>4, Zenon DEF LineInv
  <2> QED BY <2>1, <2>2, <2>3, <2>5, Zenon
<1>3. r.msg = q.msg /\ Sending(r) /\ r.pc = "done" /\ r.ret = "ok"
  <2>1. r = PutReturn(q, "ok")
    BY <1>2, ZenonT(60)
  <2>2. r = [q EXCEPT !.pc = "done", !.ret = "ok", !.val = Clean]
    BY <2>1 DEF PutReturn
  <2> HIDE DEF r, q
  <2>3. IsPut(q)
    BY <1>2 DEF PutOk
  <2>4. r.msg = q.msg /\ r.pc = "done" /\ r.ret = "ok"
    BY <2>2, <2>3, Zenon DEF IsPut
  <2> QED BY <2>4, Zenon DEF Sending
<1>4. csr'[s].body = csr[s].body /\ ~csr'[s].int /\ csr'[Other(s)].body = None /\ ~csr'[Other(s)].int
  <2>1. ~q.val[Other(s)].int
    BY <1>2, Values, ZenonT(60) DEF Reg
  <2>2. csr' = NoUse(s, q.val)
    BY <1>1, Zenon
  <2> HIDE DEF q, s
  <2>3. csr'[s] = q.val[s] /\ csr'[Other(s)].body = None /\ ~csr'[Other(s)].int
    <3>1. Reg(Versions, q.val) /\ s \in Sides
      BY <1>2, Zenon
    <3> QED BY <2>1, <2>2, <3>1, NoUseReg
  <2> QED BY <1>2, <2>3, Zenon
<1> HIDE DEF r, s
<1>5. /\ ActorInv' /\ BlockInv' /\ Due' = Due /\ Request' = Request
      /\ put'[a] = r /\ \A b \in Agents \ {a} : put'[b] = put[b]
  BY <1>1, <1>2, <1>3, FrameActor, Zenon
<1>6. /\ sc' = sc /\ vpc' = vpc /\ vstep' = vstep /\ completion' = completion /\ vresp' = vresp
      /\ vfIrq' = vfIrq /\ tasklet' = tasklet /\ worker' = worker
  BY <1>1, Zenon DEF senderFrame
<1>7. {"vf", "pfw", "pfn"} = Agents /\ (a = "vf" => s = "vf") /\ (a = "pfw" => s = "pf")
  BY Values, Zenon DEF Agents, s
<1>8. /\ worker.pc \notin {"read", "ack"} /\ ~vfIrq.sched /\ tasklet.pc = "idle" /\ put["pfn"].pc = "off"
  BY <1>2, ZenonT(60) DEF TimeInv, LineInv, ActorInv
<1>9. \A b \in Agents : put[b].pc = "clear" => csr[Other(SideOf(b))].body = InUse
  <2> SUFFICES ASSUME NEW b \in Agents, put[b].pc = "clear" PROVE csr[Other(SideOf(b))].body = InUse
    BY Zenon
  <2>1. PutOk(Versions, b, put[b]) /\ SideOf(b) \in Sides
    BY Values, Zenon DEF MailInv, PutInv
  <2>2. put[b].val[Other(SideOf(b))].body = InUse
    BY <2>1, Zenon DEF PutOk
  <2>3. \A h \in Sides : put[b].val[h].body = csr[h].body
    BY Zenon DEF TimeInv, LineInv
  <2>4. Other(SideOf(b)) \in Sides
    BY <2>1, Values, Zenon
  <2> QED BY <2>2, <2>3, <2>4, Zenon
<1>10. None # InUse
  BY Values, Zenon
<1>11. AnswerInv'
  <2>1. Awaiting => Awaiting'
    BY <1>3, <1>5, <1>6, <1>7, ZenonT(60) DEF Awaiting
  <2>2. put'["pfw"].pc \in {"check", "write"} => put'["pfw"] = put["pfw"]
    BY <1>3, <1>5, <1>7, Zenon
  <2>3. ~csr'["pf"].int /\ ~csr'["vf"].int
    BY <1>2, <1>4, <1>7, Values, Zenon
  <2> QED BY <1>5, <1>6, <2>1, <2>2, <2>3, Zenon DEF TimeInv, AnswerInv, Owed
<1>12. CASE a = "vf"
  <2>1. put'["pfw"] = put["pfw"] /\ put'["vf"] = r /\ put'["pfn"].pc = "off" /\ s = "vf" /\ csr["pf"].body = InUse
    BY <1>1, <1>5, <1>7, <1>8, <1>9, <1>12, Values, ZenonT(60)
  <2>2. csr'["vf"].body = csr["vf"].body /\ ~csr'["vf"].int /\ csr'["pf"].body = None /\ ~csr'["pf"].int
    BY <1>4, <2>1, Values, Zenon
  <2>3. put["pfw"].pc # "write"
    BY <1>7, <2>1, Values, Zenon DEF TimeInv, LineInv
  <2>4. put["pfw"].pc = "clear" => csr["vf"].body = InUse
    BY <1>7, <1>9, Values, Zenon
  <2>5. csr["vf"].body # InUse
    BY <2>1, Zenon DEF TimeInv, LineInv
  <2>6. \A b \in Agents : put'[b].pc \notin {"write", "clear"}
    BY <1>3, <1>7, <2>1, <2>3, <2>4, <2>5, Zenon
  <2>7. LineInv'
    BY <1>3, <1>6, <1>8, <1>10, <2>1, <2>2, <2>5, <2>6, Zenon DEF LineInv
  <2> QED BY <1>5, <1>11, <2>7, Zenon DEF TimeInv
<1>13. CASE a = "pfw"
  <2>1. put'["vf"] = put["vf"] /\ put'["pfw"] = r /\ put'["pfn"].pc = "off" /\ s = "pf" /\ csr["vf"].body = InUse
    BY <1>1, <1>5, <1>7, <1>8, <1>9, <1>13, Values
  <2>2. csr'["pf"].body = csr["pf"].body /\ ~csr'["pf"].int /\ csr'["vf"].body = None /\ ~csr'["vf"].int
    BY <1>4, <2>1, Values, Zenon
  <2>3. put["vf"].pc # "write"
    BY <1>7, <2>1, Values, ZenonT(60) DEF TimeInv, LineInv
  <2>4. put["vf"].pc # "clear" /\ csr["pf"].body # InUse
    <3>1. csr["pf"].body # InUse
      BY <2>1, Zenon DEF TimeInv, LineInv
    <3>2. put["vf"].pc = "clear" => csr["pf"].body = InUse
      BY <1>7, <1>9, Values, Zenon
    <3> QED BY <3>1, <3>2, Zenon
  <2>5. ~(put["vf"].pc = "wait" /\ IsNote(put["vf"].msg))
    BY <1>2, <2>4, LineFacts, Zenon DEF TimeInv
  <2>6. \A b \in Agents : put'[b].pc \notin {"write", "clear"}
    BY <1>3, <1>7, <2>1, <2>3, <2>4, Zenon
  <2>7. LineInv'
    BY <1>3, <1>6, <1>8, <1>10, <2>1, <2>2, <2>4, <2>5, <2>6, Zenon DEF LineInv
  <2> QED BY <1>5, <1>11, <2>7, Zenon DEF TimeInv
<1> QED BY <1>12, <1>13, Zenon


LEMMA TimePut ==
  ASSUME MailInv, TimeInv, NEW a \in Agents, PutStep(a) \/ PutTimeout(a)
  PROVE  TimeInv'
<1>1. a \in {"vf", "pfw"}
  <2>1. put["pfn"].pc = "off"
    BY Zenon DEF TimeInv, ActorInv
  <2>2. put[a].pc # "off"
    BY DEF PutStep, PutCheck, PutWrite, PutAcked, PutClear, PutTimeout
  <2> QED BY <2>1, <2>2, Zenon DEF Agents
<1>2. ~PutTimeout(a)
  <2> SUFFICES ASSUME PutTimeout(a) PROVE FALSE
    BY Zenon
  <2>1. csr[SideOf(a)].int /\ NoAckComing(SideOf(a))
    BY Zenon DEF PutTimeout, TimeInv, ActorInv, AllInTime, Faults
  <2>2. CASE a = "vf"
    BY <2>1, <2>2, Values, Zenon DEF NoAckComing, TimeInv, ActorInv
  <2>3. CASE a = "pfw"
    <3>1. csr["pf"].int /\ ~vfIrq.on
      BY <2>1, <2>3, Values, Zenon DEF NoAckComing
    <3>2. vpc # "off"
      BY <3>1, LineFacts DEF TimeInv
    <3> QED BY <3>1, <3>2, Zenon DEF TimeInv, ActorInv
  <2> QED BY <1>1, <2>2, <2>3, Zenon
<1> QED BY <1>1, <1>2, TimeCheck, TimeWrite, TimeAcked, TimeClear, Zenon DEF PutStep

\* The thread goes on while no response is owed to it.
LEMMA ThreadLeaves ==
  ASSUME MailInv, TimeInv, sc' = sc, csr' = csr, worker' = worker, tasklet' = tasklet, vresp' = vresp,
         put' = put \/ put' = [put EXCEPT !["vf"] = Idle], put["vf"].pc \in {"off", "done"},
         vstep' = "send", completion' = 0, put["pfw"].pc \notin {"check", "write"},
         csr["pf"].int => tasklet.pc = "ack" /\ vpc' # "off", vfIrq'.sched => vfIrq.sched
  PROVE  LineInv' /\ AnswerInv'
<1>1. Idle.pc = "off"
  BY DEF Idle
<1> HIDE DEF Idle
<1>2. put'["vf"].pc \in {"off", "done"} /\ \A b \in Agents \ {"vf"} : put'[b] = put[b]
  BY <1>1, Zenon DEF MailInv, PutInv, Agents
<1>3. "pfw" \in Agents /\ "vf" \in Agents /\ put'["pfw"] = put["pfw"]
  BY <1>2, Zenon DEF Agents
<1>4. ~csr["vf"].int
  BY Zenon DEF TimeInv, LineInv
<1>5. worker.pc \notin {"read", "ack"}
  BY <1>4, Zenon DEF TimeInv, LineInv
<1>6. csr["pf"].body # InUse
  BY Zenon DEF TimeInv, LineInv
<1>7. /\ \A b \in Agents : put'[b].pc = "write" =>
           csr'[SideOf(b)].body # InUse /\ ~csr'["vf"].int /\ ~csr'["pf"].int
      /\ \A b \in Agents : put'[b].pc = "clear" =>
           /\ put'[b].ret = "ok" /\ ~csr'["vf"].int /\ ~csr'["pf"].int
           /\ \A h \in Sides : put'[b].val[h].body = csr'[h].body
  <2>1. \A b \in Agents : put'[b].pc \in {"write", "clear"} => put'[b] = put[b]
    BY <1>2, Zenon
  <2>2. /\ \A b \in Agents : put[b].pc = "write" =>
             csr[SideOf(b)].body # InUse /\ ~csr["vf"].int /\ ~csr["pf"].int
        /\ \A b \in Agents : put[b].pc = "clear" =>
             /\ put[b].ret = "ok" /\ ~csr["vf"].int /\ ~csr["pf"].int
             /\ \A h \in Sides : put[b].val[h].body = csr[h].body
    BY Zenon DEF TimeInv, LineInv
  <2>3. \A b \in Agents : put'[b].pc = "write" =>
          csr'[SideOf(b)].body # InUse /\ ~csr'["vf"].int /\ ~csr'["pf"].int
    BY <2>1, <2>2, Zenon
  <2>4. ASSUME NEW b \in Agents, put'[b].pc = "clear"
        PROVE  /\ put'[b].ret = "ok" /\ ~csr'["vf"].int /\ ~csr'["pf"].int
               /\ \A h \in Sides : put'[b].val[h].body = csr'[h].body
    <3>1. put'[b] = put[b] /\ put[b].pc = "clear"
      BY <2>1, <2>4, Zenon
    <3> QED BY <2>2, <3>1, ZenonT(60)
  <2> QED BY <2>3, <2>4, Zenon
<1>8. LineInv'
  BY <1>2, <1>3, <1>4, <1>5, <1>6, <1>7, Zenon DEF TimeInv, LineInv
<1>9. AnswerInv'
  <2>1. completion' \in {0, 1} /\ completion' # 1
    OBVIOUS
  <2>2. put'["pfw"].pc \notin {"check", "write"} /\ (csr'["pf"].int => tasklet'.pc = "ack")
    BY <1>3
  <2>3. "ack" # "idle"
    OBVIOUS
  <2> QED BY <2>1, <2>2, <2>3, Zenon DEF AnswerInv
<1> QED BY <1>8, <1>9

\* Nothing is owed to a thread that does not wait.
LEMMA NothingOwed ==
  ASSUME TimeInv, ~Awaiting
  PROVE  completion = 0 /\ put["pfw"].pc \notin {"check", "write"} /\ (csr["pf"].int => tasklet.pc = "ack")
  BY Zenon DEF TimeInv, AnswerInv, Owed, LineInv

\* The thread that does not wait is not in adf_iov_put, or it is told of a failure.
LEMMA ThreadAt ==
  ASSUME MailInv
  PROVE  /\ vstep # "put" => put["vf"].pc = "off"
         /\ vstep = "send" => ~Awaiting
<1>1. PutOk(Versions, "vf", put["vf"])
  BY Zenon DEF MailInv, PutInv, Agents
<1> QED BY <1>1, Zenon DEF MailInv, ThreadInv, PutOk, Awaiting

LEMMA BlockLength ==
  /\ Payload(Block) \in Nat /\ Payload(Block) + 2 <= Len(Block) /\ Block \in Seq(Nat) /\ Len(Block) >= 2
  /\ Block[2] = Len(Block) - 2 /\ Len(Block) \in Nat
  /\ Block[2] <= V3Length => Payload(Block) + 2 = Len(Block)
<1>1. Block \in Seq(Nat) /\ Len(Block) \in Nat /\ Len(Block) >= 2
  BY BlockAssumption
<1>2. Block[2] \in Nat
  BY <1>1
<1>3. Block[2] = Len(Block) - 2
  BY <1>1, <1>2, BlockAssumption
<1>4. ASSUME NEW n \in Nat, NEW l \in Nat, NEW p, n = l - 2, p = IF n < 12 THEN n ELSE 12
      PROVE  p \in Nat /\ p + 2 <= l /\ (n <= 12 => p + 2 = l)
  BY <1>4
<1>5. Payload(Block) = IF Block[2] < 12 THEN Block[2] ELSE 12
  BY DEF Payload, V3Length
<1>6. V3Length = 12
  BY Zenon DEF V3Length
<1> HIDE DEF Payload
<1> QED BY <1>1, <1>2, <1>3, <1>4, <1>5, <1>6, Zenon


threadFrame == <<sc, csr, worker, tasklet, pfMasked, notes, stopWork, vresp, pfSeen>>

LEMMA ThreadActor ==
  ASSUME MailInv, TimeInv, UNCHANGED <<sc, worker, tasklet, pfMasked, notes, stopWork>>,
         NEW r, put' = put \/ put' = [put EXCEPT !["vf"] = r],
         vstep' = "put" => put'["vf"].msg = Request',
         vfIrq' \in [on : BOOLEAN, masked : BOOLEAN, sched : BOOLEAN], vfIrq'.on <=> vpc' # "off",
         vpc' # "off" => (vfIrq'.masked <=> vfIrq'.sched \/ tasklet.pc = "ack")
  PROVE  ActorInv' /\ put'["pfw"] = put["pfw"] /\ put'["pfn"] = put["pfn"]
<1>1. put'["pfw"] = put["pfw"] /\ put'["pfn"] = put["pfn"]
  BY Zenon DEF MailInv, PutInv, Agents
<1>2. sc' = sc /\ worker' = worker /\ tasklet' = tasklet /\ pfMasked' = pfMasked /\ notes' = notes /\ stopWork' = stopWork
  BY Zenon
<1>3. AllInTime' /\ notes' = 0 /\ put'["pfn"].pc = "off" /\ stopWork' = FALSE
  BY <1>1, <1>2, Zenon DEF TimeInv, ActorInv, AllInTime
<1>4. /\ pfMasked' <=> worker'.pc # "idle"
      /\ worker'.pc \in {"idle", "read", "ack", "put", "unmask"}
      /\ worker'.pc = "put" <=> Sending(put'["pfw"])
      /\ Sending(put'["pfw"]) => ~IsNote(put'["pfw"].msg)
  BY <1>1, <1>2 DEF TimeInv, ActorInv
<1>5. ActorInv'
  BY <1>2, <1>3, <1>4, Zenon DEF ActorInv
<1> QED BY <1>1, <1>5, Zenon

\* The thread goes to another place, and the interrupt stays as it was.
LEMMA ThreadGoes ==
  ASSUME MailInv, TimeInv, UNCHANGED threadFrame, vfIrq' = vfIrq, completion' = 0,
         put' = put \/ put' = [put EXCEPT !["vf"] = Idle], put["vf"].pc \in {"off", "done"},
         vstep' = "send", put["pfw"].pc \notin {"check", "write"},
         csr["pf"].int => tasklet.pc = "ack", vpc # "off", vpc' # "off"
  PROVE  ActorInv' /\ LineInv' /\ AnswerInv'
<1>1. /\ sc' = sc /\ csr' = csr /\ worker' = worker /\ tasklet' = tasklet /\ pfMasked' = pfMasked
      /\ notes' = notes /\ stopWork' = stopWork /\ vresp' = vresp
  BY DEF threadFrame
<1>2. /\ vfIrq' \in [on : BOOLEAN, masked : BOOLEAN, sched : BOOLEAN] /\ (vfIrq'.on <=> vpc' # "off")
      /\ vpc' # "off" => (vfIrq'.masked <=> vfIrq'.sched \/ tasklet.pc = "ack")
  BY Zenon DEF TimeInv, ActorInv
<1>3. ActorInv'
  BY <1>1, <1>2, ThreadActor, Zenon
<1>4. LineInv' /\ AnswerInv'
  BY <1>1, ThreadLeaves
<1> QED BY <1>3, <1>4, Zenon

LEMMA TimeMoves ==
  ASSUME MailInv, TimeInv, VfRespTimeout \/ VfDown
  PROVE  TimeInv'
<1>1. ShutdownStep \in {"down", "free"}
  BY Zenon DEF ShutdownStep
<1>2. CASE VfDown
  <2>1. /\ vpc = "up" /\ vstep' = "send" /\ vpc' = ShutdownStep /\ put' = put /\ completion' = completion
        /\ vfIrq' = vfIrq /\ UNCHANGED threadFrame
    BY <1>2 DEF VfDown, Goto, respVars, pfVars, noteVars, threadFrame
  <2>2. ~Awaiting /\ vstep = "send"
    BY <2>1 DEF Awaiting, MailInv, ThreadInv
  <2>3. put["vf"].pc = "off"
    BY <2>2, ThreadAt, Zenon
  <2>4. completion = 0 /\ put["pfw"].pc \notin {"check", "write"} /\ (csr["pf"].int => tasklet.pc = "ack")
    BY <2>2, NothingOwed, Zenon
  <2>5. ActorInv' /\ LineInv' /\ AnswerInv'
    BY <1>1, <2>1, <2>3, <2>4, ThreadGoes, Zenon
  <2>6. BlockInv'
    BY <1>1, <2>1, Zenon DEF BlockInv
  <2> QED BY <2>5, <2>6, Zenon DEF TimeInv
<1>3. CASE VfRespTimeout
  <2>1. /\ vstep = "resp" /\ completion = 0 /\ NoResponseComing
        /\ vstep' = "send" /\ put' = put /\ completion' = completion
        /\ vfIrq' = vfIrq /\ UNCHANGED threadFrame /\ buf' = buf
        /\ (vpc' = vpc /\ vidx' = vidx) \/ vpc' = ShutdownStep
    BY <1>3, Zenon DEF VfRespTimeout, Goto, respVars, pfVars, noteVars, threadFrame, TimeInv, ActorInv, AllInTime, Faults
  <2>2. put["vf"].pc = "off" /\ vpc \in {"ver", "blk", "crc", "init", "down"}
    BY <2>1, ThreadAt, Zenon DEF MailInv, ThreadInv
  <2>3. vfIrq.on
    BY <2>2, Zenon DEF TimeInv, ActorInv
  <2>4. worker.pc = "idle" /\ ~csr["pf"].int
    BY <2>1, <2>3, Zenon DEF NoResponseComing
  <2>5. put["pfw"].pc \notin {"check", "write"}
    BY <2>4, Zenon DEF TimeInv, ActorInv, Sending
  <2>6. ActorInv' /\ LineInv' /\ AnswerInv'
    BY <1>1, <2>1, <2>2, <2>4, <2>5, ThreadGoes, Zenon
  <2>7. BlockInv'
    BY <1>1, <2>1, <2>2 DEF TimeInv, BlockInv, threadFrame
  <2> QED BY <2>6, <2>7 DEF TimeInv
<1> QED BY <1>2, <1>3

LEMMA TimeStart ==
  ASSUME MailInv, TimeInv, VfStart \/ VfFree
  PROVE  TimeInv'
<1>1. CASE VfStart
  <2>1. /\ vpc = "off" /\ vstep' = "send" /\ vpc' = "ver" /\ put' = put /\ completion' = completion
        /\ vfIrq' = [on |-> TRUE, masked |-> FALSE, sched |-> FALSE] /\ UNCHANGED threadFrame /\ buf' = <<>>
    BY <1>1, Zenon DEF VfStart, Goto, respVars, pfVars, noteVars, threadFrame
  <2>2. ~Awaiting /\ vstep = "send"
    BY <2>1, Zenon DEF Awaiting, MailInv, ThreadInv
  <2>3. put["vf"].pc = "off"
    BY <2>2, ThreadAt, Zenon
  <2>4. completion = 0 /\ put["pfw"].pc \notin {"check", "write"} /\ ~csr["pf"].int
    BY <2>1, <2>2, NothingOwed, LineFacts, Zenon DEF TimeInv
  <2>5. /\ sc' = sc /\ csr' = csr /\ worker' = worker /\ tasklet' = tasklet /\ pfMasked' = pfMasked
        /\ notes' = notes /\ stopWork' = stopWork /\ vresp' = vresp
    BY <2>1, Zenon DEF threadFrame
  <2>6. /\ vfIrq' \in [on : BOOLEAN, masked : BOOLEAN, sched : BOOLEAN] /\ vfIrq'.on
        /\ ~vfIrq'.masked /\ ~vfIrq'.sched
    BY <2>1, Zenon
  <2>7. tasklet.pc # "ack"
    BY <2>4, Zenon DEF TimeInv, LineInv
  <2>8. ActorInv'
    BY <2>1, <2>5, <2>6, <2>7, ThreadActor, Zenon
  <2>9. LineInv' /\ AnswerInv'
    BY <2>1, <2>3, <2>4, <2>5, <2>6, ThreadLeaves, Zenon
  <2>10. BlockInv'
    BY <2>1, Zenon DEF BlockInv
  <2> QED BY <2>8, <2>9, <2>10, Zenon DEF TimeInv
<1>2. CASE VfFree
  <2>1. /\ vpc = "free" /\ TaskletDone /\ vstep' = "send" /\ vpc' = "off" /\ put' = put /\ completion' = completion
        /\ vfIrq' = [vfIrq EXCEPT !.on = FALSE] /\ UNCHANGED threadFrame
    BY <1>2, Zenon DEF VfFree, Goto, respVars, pfVars, noteVars, threadFrame
  <2>2. ~Awaiting /\ vstep = "send"
    BY <2>1, Zenon DEF Awaiting, MailInv, ThreadInv
  <2>3. put["vf"].pc = "off"
    BY <2>2, ThreadAt
  <2>4. completion = 0 /\ put["pfw"].pc \notin {"check", "write"} /\ ~csr["pf"].int
    BY <2>1, <2>2, NothingOwed DEF TaskletDone
  <2>5. /\ sc' = sc /\ csr' = csr /\ worker' = worker /\ tasklet' = tasklet /\ pfMasked' = pfMasked
        /\ notes' = notes /\ stopWork' = stopWork /\ vresp' = vresp
    BY <2>1 DEF threadFrame
  <2>6. /\ vfIrq' \in [on : BOOLEAN, masked : BOOLEAN, sched : BOOLEAN] /\ ~vfIrq'.on
        /\ vfIrq'.sched => vfIrq.sched
    BY <2>1, Zenon DEF TimeInv, ActorInv
  <2>7. ActorInv'
    BY <2>1, <2>5, <2>6, ThreadActor, Zenon
  <2>8. LineInv' /\ AnswerInv'
    BY <2>1, <2>3, <2>4, <2>5, <2>6, ThreadLeaves, Zenon
  <2>9. BlockInv'
    BY <2>1, Zenon DEF BlockInv
  <2> QED BY <2>7, <2>8, <2>9 DEF TimeInv
<1> QED BY <1>1, <1>2, Zenon

LEMMA TimeSend ==
  ASSUME MailInv, TimeInv, VfSend
  PROVE  TimeInv'
<1> DEFINE r == PutCall(Request)
<1>1. /\ vstep = "send" /\ vstep' = "put" /\ put' = [put EXCEPT !["vf"] = r] /\ vpc' = vpc /\ vidx' = vidx
      /\ vpc \in {"ver", "blk", "crc", "init", "down"} /\ buf' = buf
      /\ completion' = completion /\ vfIrq' = vfIrq /\ UNCHANGED threadFrame
  BY DEF VfSend, respVars, pfVars, noteVars, threadFrame
<1>2. r.msg = Request /\ r.pc = "check"
  BY DEF PutCall, Idle
<1> HIDE DEF r
<1>3. /\ sc' = sc /\ csr' = csr /\ worker' = worker /\ tasklet' = tasklet /\ pfMasked' = pfMasked
      /\ notes' = notes /\ stopWork' = stopWork /\ vresp' = vresp /\ pfSeen' = pfSeen
  BY <1>1 DEF threadFrame
<1>4. Request' = Request /\ Due' = Due
  BY <1>1, <1>3, DueStays, Zenon
<1>5. put'["vf"] = r
  BY <1>1, Zenon DEF MailInv, PutInv, Agents
<1>6. /\ vfIrq' \in [on : BOOLEAN, masked : BOOLEAN, sched : BOOLEAN] /\ (vfIrq'.on <=> vpc' # "off")
      /\ vpc' # "off" => (vfIrq'.masked <=> vfIrq'.sched \/ tasklet.pc = "ack")
  BY <1>1, Zenon DEF TimeInv, ActorInv
<1>7. ActorInv' /\ put'["pfw"] = put["pfw"] /\ put'["pfn"] = put["pfn"]
  BY <1>1, <1>2, <1>3, <1>4, <1>5, <1>6, ThreadActor, Zenon
<1>8. put["vf"].pc = "off" /\ ~Awaiting
  BY <1>1, ThreadAt, Zenon
<1>9. completion = 0 /\ put["pfw"].pc \notin {"check", "write"} /\ (csr["pf"].int => tasklet.pc = "ack")
  BY <1>8, NothingOwed, Zenon
<1>10. LineInv'
  <2>1. \A b \in Agents : put'[b].pc \in {"write", "clear"} => put'[b] = put[b]
    BY <1>2, <1>5, <1>7, Zenon DEF Agents
  <2> QED BY <1>1, <1>2, <1>3, <1>4, <1>5, <1>7, <1>8, <2>1, ZenonT(60) DEF TimeInv, LineInv
<1>11. AnswerInv'
  <2>1. completion \in {0, 1}
    BY Zenon DEF TimeInv, AnswerInv
  <2>2. completion' \in {0, 1} /\ completion' # 1
    BY <1>1, <1>9, <2>1
  <2>3. put'["pfw"].pc \notin {"check", "write"} /\ (csr'["pf"].int => tasklet'.pc = "ack")
    BY <1>3, <1>7, <1>9, Zenon
  <2>4. tasklet'.pc = "ack" => tasklet'.pc # "idle"
    OBVIOUS
  <2> QED BY <2>2, <2>3, <2>4, Zenon DEF AnswerInv
<1>12. BlockInv'
  BY <1>1, <1>3, Zenon DEF TimeInv, BlockInv
<1> QED BY <1>7, <1>10, <1>11, <1>12 DEF TimeInv

LEMMA TimeSent ==
  ASSUME MailInv, TimeInv, VfSent
  PROVE  TimeInv'
<1>1. /\ vstep = "put" /\ put["vf"].pc = "done" /\ put' = [put EXCEPT !["vf"] = Idle] /\ buf' = buf
      /\ completion' = completion /\ vfIrq' = vfIrq /\ UNCHANGED threadFrame
      /\ \/ /\ vpc \notin {"ver", "blk", "crc"} \/ put["vf"].ret # "ok"
            /\ vstep' = "send" /\ (vpc' \in {"down", "free"} \/ (vpc = "init" /\ vpc' = "up"))
         \/ /\ vpc \in {"ver", "blk", "crc"} /\ put["vf"].ret = "ok"
            /\ vpc' = vpc /\ vidx' = vidx /\ vstep' = "resp"
  BY Zenon DEF VfSent, Goto, ShutdownStep, respVars, pfVars, noteVars, threadFrame
<1>2. vpc # "off"
  BY <1>1, Zenon DEF MailInv, ThreadInv
<1>3. CASE /\ vpc \notin {"ver", "blk", "crc"} \/ put["vf"].ret # "ok"
           /\ vstep' = "send" /\ (vpc' \in {"down", "free"} \/ (vpc = "init" /\ vpc' = "up"))
  <2>1. ~Awaiting
    BY <1>1, <1>3, Zenon DEF Awaiting
  <2>2. completion = 0 /\ put["pfw"].pc \notin {"check", "write"} /\ (csr["pf"].int => tasklet.pc = "ack")
    BY <2>1, NothingOwed, Zenon
  <2>3. ActorInv' /\ LineInv' /\ AnswerInv'
    BY <1>1, <1>2, <1>3, <2>2, ThreadGoes, Zenon
  <2>4. BlockInv'
    BY <1>1, <1>3, Zenon DEF TimeInv, BlockInv, threadFrame
  <2> QED BY <2>3, <2>4, Zenon DEF TimeInv
<1>4. CASE /\ vpc \in {"ver", "blk", "crc"} /\ put["vf"].ret = "ok"
           /\ vpc' = vpc /\ vidx' = vidx /\ vstep' = "resp"
  <2>1. /\ sc' = sc /\ csr' = csr /\ worker' = worker /\ tasklet' = tasklet /\ pfMasked' = pfMasked
        /\ notes' = notes /\ stopWork' = stopWork /\ vresp' = vresp /\ pfSeen' = pfSeen
    BY <1>1 DEF threadFrame
  <2>2. Request' = Request /\ Due' = Due
    BY <1>4, <2>1, DueStays, Zenon
  <2>3. /\ vfIrq' \in [on : BOOLEAN, masked : BOOLEAN, sched : BOOLEAN] /\ (vfIrq'.on <=> vpc' # "off")
        /\ vpc' # "off" => (vfIrq'.masked <=> vfIrq'.sched \/ tasklet.pc = "ack")
    BY <1>1, <1>4, Zenon DEF TimeInv, ActorInv
  <2>4. put'["vf"].pc = "off"
    BY <1>1, Zenon DEF MailInv, PutInv, Agents, Idle
  <2>5. ActorInv' /\ put'["pfw"] = put["pfw"] /\ put'["pfn"] = put["pfn"]
    BY <1>1, <1>4, <2>1, <2>3, ThreadActor, Zenon
  <2>6. Awaiting'
    BY <1>4, Zenon DEF Awaiting
  <2>7. LineInv'
    <3>1. \A b \in Agents : put'[b].pc \in {"write", "clear"} => put'[b] = put[b]
      BY <2>4, <2>5, ZenonT(60) DEF Agents
    <3> QED BY <1>1, <1>4, <2>1, <2>2, <2>4, <2>5, <3>1, ZenonT(60) DEF TimeInv, LineInv
  <2>8. AnswerInv'
    BY <1>1, <1>4, <2>1, <2>2, <2>5, <2>6, ZenonT(60) DEF TimeInv, AnswerInv, Owed
  <2>9. BlockInv'
    BY <1>1, <1>4, <2>1, Zenon DEF TimeInv, BlockInv
  <2> QED BY <2>5, <2>7, <2>8, <2>9, Zenon DEF TimeInv
<1> QED BY <1>1, <1>3, <1>4, Zenon


LEMMA OneMore ==
  ASSUME NEW n \in Nat
  PROVE  /\ \A i \in 1..(n + 1) : i = n + 1 \/ i \in 1..n
         /\ n + 1 >= 2 => 2 \in 1..(n + 1)
  OBVIOUS

\* A block the VF read one byte further.
LEMMA NextPrefix ==
  ASSUME NEW n \in Nat, n <= Payload(Block) + 1, NEW b, Prefix(b, n), NEW c, c = Append(b, Block[n + 1])
  PROVE  /\ Prefix(c, n + 1) /\ Len(c) = n + 1
         /\ n + 1 >= 2 => Payload(c) = Payload(Block)
<1>1. n + 1 \in 1..Len(Block) /\ Block \in Seq(Nat) /\ Len(Block) \in Nat
  BY BlockLength
<1>2. Block[n + 1] \in Nat
  BY <1>1
<1>3. b \in Seq(Nat) /\ Len(b) = n /\ \A i \in 1..n : b[i] = Block[i]
  BY Zenon DEF Prefix
<1>4. c \in Seq(Nat) /\ Len(c) = n + 1
  BY <1>2, <1>3
<1>5. \A i \in 1..(n + 1) : c[i] = Block[i]
  <2> SUFFICES ASSUME NEW i \in 1..(n + 1) PROVE c[i] = Block[i]
    BY Zenon
  <2>1. CASE i = n + 1
    BY <1>2, <1>3, <2>1
  <2>2. CASE i \in 1..n
    BY <1>2, <1>3, <2>2
  <2> QED BY <2>1, <2>2, OneMore, Zenon
<1>6. n + 1 >= 2 => c[2] = Block[2]
  BY <1>5, OneMore, Zenon
<1> QED BY <1>4, <1>5, <1>6, Zenon DEF Prefix, Payload

LEMMA DueIs ==
  /\ vpc = "ver" => Due = Msg("VERSION_RESP", PfVersion, Verdict(VfVersion))
  /\ vpc = "blk" => Due = BlockByte(vidx)
  /\ vpc = "crc" => Due = BlockCrc(vidx)
<1>1. Request = Msg(MsgOf(vpc), Request.a, 0) \/ vpc \notin {"ver", "blk", "crc"}
  BY DEF Request, Msg, MsgOf
<1>2. CASE vpc = "ver"
  BY <1>2, Zenon DEF Due, Request, Response, Msg
<1>3. CASE vpc = "blk"
  <2>1. Request.t = "BLOCK_REQ" /\ Request.a = vidx
    BY <1>3, Zenon DEF Request, Msg
  <2> QED BY <1>3, <2>1 DEF Due, Response
<1>4. CASE vpc = "crc"
  <2>1. Request.t = "BLOCK_CRC_REQ" /\ Request.a = vidx
    BY <1>4 DEF Request, Msg
  <2> QED BY <1>4, <2>1, Zenon DEF Due, Response
<1> QED BY <1>2, <1>3, <1>4, Zenon

\* While the thread reads the block, the byte it is owed is there.
LEMMA DueByte ==
  ASSUME TimeInv, vpc = "blk"
  PROVE  Due.t = "BLOCK_DATA" /\ Due.a = Block[vidx + 1] /\ vidx \in Nat /\ vidx <= Payload(Block) + 1
<1>1. vidx \in 0..(Payload(Block) + 1) /\ Payload(Block) \in Nat
  BY BlockLength DEF TimeInv, BlockInv
<1>2. vidx \in Nat /\ vidx <= Payload(Block) + 1
  BY <1>1
<1>3. ~(vidx >= Block[2] + 2)
  <2>1. Block[2] + 2 = Len(Block) /\ Payload(Block) + 2 <= Len(Block) /\ Len(Block) \in Nat
    BY BlockLength
  <2> QED BY <1>1, <1>2, <2>1
<1>4. Due = Msg("BLOCK_DATA", Block[vidx + 1], 0)
  BY <1>3, DueIs DEF BlockByte
<1> QED BY <1>2, <1>4, Zenon DEF Msg

LEMMA TimeResponse ==
  ASSUME MailInv, TimeInv, VfResponse
  PROVE  TimeInv'
<1>1. /\ vstep = "resp" /\ completion > 0 /\ completion' = completion - 1 /\ vstep' = "send"
      /\ put' = put /\ vfIrq' = vfIrq /\ UNCHANGED threadFrame
  BY Zenon DEF VfResponse, NextByte, Goto, pfVars, noteVars, threadFrame
<1>2. ShutdownStep \in {"down", "free"}
  BY Zenon DEF ShutdownStep
<1>3. \/ vpc = "ver" /\ buf' = buf /\ vpc' = "blk" /\ vidx' = 0
      \/ vpc = "ver" /\ vpc' = "init" /\ ~(pfSeen.version >= Capabilities)
      \/ vpc = "blk" /\ vresp.type = "BLOCK_DATA" /\ buf' = Append(buf, vresp.byte) /\ NextByte(buf')
      \/ vpc = "crc" /\ buf' = buf /\ vpc' = "init"
      \/ vpc' = ShutdownStep
  BY Zenon DEF VfResponse, Goto
<1>4. completion = 1 /\ completion' = 0
  BY <1>1 DEF TimeInv, AnswerInv
<1>5. /\ Awaiting /\ put["pfw"].pc \notin {"check", "write"} /\ (csr["pf"].int => tasklet.pc = "ack")
      /\ vpc \in {"blk", "crc"} => vresp = [type |-> Due.t, byte |-> Due.a]
  BY <1>4, Zenon DEF TimeInv, AnswerInv
<1>6. put["vf"].pc = "off" /\ vpc # "off"
  BY <1>1, ThreadAt, Zenon DEF MailInv, ThreadInv
<1>7. vpc' \in {"blk", "crc", "init", "down", "free"}
  BY <1>2, <1>3, Zenon DEF NextByte, Goto
<1>8. ActorInv' /\ LineInv' /\ AnswerInv'
  BY <1>1, <1>4, <1>5, <1>6, <1>7, ThreadGoes, Zenon
<1>9. BlockInv'
  <2>1. pfSeen' = pfSeen
    BY <1>1, Zenon DEF threadFrame
  <2>2. CASE vpc = "ver" /\ buf' = buf /\ vpc' = "blk" /\ vidx' = 0
    <3>1. buf' = <<>>
      BY <2>2, Zenon DEF TimeInv, BlockInv
    <3>2. 0 \in 0..(Payload(Block) + 1)
      BY BlockLength
    <3> QED BY <2>2, <3>1, <3>2 DEF BlockInv, Prefix
  <2>3. CASE vpc = "ver" /\ vpc' = "init" /\ ~(pfSeen.version >= Capabilities)
    BY <2>1, <2>3, Zenon DEF BlockInv
  <2>4. CASE vpc = "blk" /\ vresp.type = "BLOCK_DATA" /\ buf' = Append(buf, vresp.byte) /\ NextByte(buf')
    <3>1. vresp.byte = Block[vidx + 1] /\ vidx \in Nat /\ vidx <= Payload(Block) + 1
      BY <1>5, <2>4, DueByte
    <3>2. Prefix(buf, vidx)
      BY <2>4, Zenon DEF TimeInv, BlockInv
    <3>3. buf' = Append(buf, Block[vidx + 1])
      BY <2>4, <3>1, Zenon
    <3>4. /\ Prefix(buf', vidx + 1) /\ Len(buf') = vidx + 1
          /\ vidx + 1 >= 2 => Payload(buf') = Payload(Block)
      BY <3>1, <3>2, <3>3, NextPrefix, Zenon
    <3>5. Payload(Block) \in Nat
      BY BlockLength, Zenon
    <3>6. CASE Len(buf') < 2 \/ Len(buf') - 2 < Payload(buf')
      <4>1. vpc' = "blk" /\ vidx' = Len(buf')
        BY <2>4, <3>6, Zenon DEF NextByte, Goto
      <4>2. vidx' \in 0..(Payload(Block) + 1)
        BY <3>1, <3>4, <3>5, <3>6, <4>1
      <4> QED BY <3>4, <4>1, <4>2, Zenon DEF BlockInv
    <3>7. CASE ~(Len(buf') < 2 \/ Len(buf') - 2 < Payload(buf'))
      <4>1. vpc' = "crc" /\ vidx' = Payload(buf') + 1
        BY <2>4, <3>7 DEF NextByte, Goto
      <4>2. Payload(buf') = Payload(Block) /\ vidx + 1 = Payload(Block) + 2
        BY <3>1, <3>4, <3>5, <3>7
      <4> QED BY <3>4, <4>1, <4>2, Zenon DEF BlockInv
    <3> QED BY <3>6, <3>7, Zenon
  <2>5. CASE vpc = "crc" /\ buf' = buf /\ vpc' = "init"
    BY <2>5, Zenon DEF TimeInv, BlockInv
  <2>6. CASE vpc' = ShutdownStep
    BY <1>2, <2>6 DEF BlockInv
  <2> QED BY <1>3, <2>2, <2>3, <2>4, <2>5, <2>6, Zenon
<1> QED BY <1>8, <1>9, Zenon DEF TimeInv


\* What neither the PF's interrupt nor its worker changes.
workerFrame == <<sc, vpc, vstep, vidx, buf, stopWork, completion, vresp, pfSeen, vfIrq, tasklet, notes>>

LEMMA WorkerActor ==
  ASSUME MailInv, TimeInv, UNCHANGED workerFrame,
         put'["vf"] = put["vf"], put'["pfn"] = put["pfn"],
         pfMasked' <=> worker'.pc # "idle", worker'.pc \in {"idle", "read", "ack", "put", "unmask"},
         worker'.pc = "put" <=> Sending(put'["pfw"]), Sending(put'["pfw"]) => ~IsNote(put'["pfw"].msg)
  PROVE  ActorInv' /\ BlockInv' /\ Due' = Due
<1>1. /\ sc' = sc /\ vpc' = vpc /\ vstep' = vstep /\ vidx' = vidx /\ buf' = buf /\ stopWork' = stopWork
      /\ pfSeen' = pfSeen /\ vfIrq' = vfIrq /\ tasklet' = tasklet /\ notes' = notes
  BY Zenon DEF workerFrame
<1>2. put'["vf"] = put["vf"] /\ put'["pfn"] = put["pfn"]
  BY Zenon
<1>3. Due' = Due /\ Request' = Request
  BY <1>1, DueStays, Zenon
<1>4. AllInTime' /\ notes' = 0 /\ put'["pfn"].pc = "off" /\ stopWork' = FALSE
  BY <1>1, <1>2, Zenon DEF TimeInv, ActorInv, AllInTime
<1>5. /\ vfIrq' \in [on : BOOLEAN, masked : BOOLEAN, sched : BOOLEAN] /\ (vfIrq'.on <=> vpc' # "off")
      /\ vpc' # "off" => (vfIrq'.masked <=> vfIrq'.sched \/ tasklet'.pc = "ack")
      /\ vstep' = "put" => put'["vf"].msg = Request'
  BY <1>1, <1>2, <1>3, Zenon DEF TimeInv, ActorInv
<1>6. ActorInv'
  BY <1>4, <1>5, Zenon DEF ActorInv
<1>7. BlockInv'
  BY <1>1, Zenon DEF TimeInv, BlockInv
<1> QED BY <1>2, <1>3, <1>6, <1>7, Zenon

\* A message of the VF in the register is the thread's request.
LEMMA VfSays ==
  ASSUME MailInv, TimeInv, csr["vf"].int
  PROVE  /\ csr["vf"].body = Request /\ vstep = "put" /\ put["vf"].pc = "wait" /\ completion = 0
         /\ put["vf"].msg = Request
         /\ put["pfw"].pc \notin {"check", "write"}
         /\ csr["pf"].body = InUse /\ ~csr["pf"].int /\ csr["vf"].body # InUse
<1>1. put["vf"].pc = "wait" /\ csr["vf"].body = put["vf"].msg /\ csr["pf"].body = InUse /\ ~csr["pf"].int
  BY LineFacts, Zenon DEF TimeInv
<1>2. vstep = "put"
  BY <1>1, Zenon DEF MailInv, ThreadInv, Sending
<1>3. csr["vf"].body = Request /\ put["vf"].msg = Request
  BY <1>1, <1>2, Zenon DEF TimeInv, ActorInv
<1>4. completion = 0 /\ put["pfw"].pc \notin {"check", "write"}
  BY Zenon DEF TimeInv, AnswerInv, Owed
<1>5. csr["vf"].body # InUse
  BY <1>1, ZenonT(60) DEF TimeInv, LineInv
<1> QED BY <1>1, <1>2, <1>3, <1>4, <1>5, Zenon

\* The VF's request has a response, a notification has none.
LEMMA DueSome ==
  ASSUME MailInv, vstep = "put"
  PROVE  /\ Due # None => vpc \in {"ver", "blk", "crc"} /\ ~IsNote(Due)
         /\ Due = None => IsNote(Request)
         /\ vpc \in {"ver", "blk", "crc"} => ~IsNote(Request)
<1>1. vpc \in {"ver", "blk", "crc", "init", "down"}
  BY Zenon DEF MailInv, ThreadInv
<1>2. CASE vpc \in {"ver", "blk", "crc"}
  <2>1. Due.t \in {"VERSION_RESP", "BLOCK_DATA", "BLOCK_CRC", "BLOCK_ERROR"}
    BY <1>2, DueIs DEF Msg, BlockByte, BlockCrc
  <2>2. ~IsNote(Due) /\ Due # None
    BY <2>1, Values, Zenon DEF IsNote, VfNotes, PfNotes
  <2>3. ~IsNote(Request)
    BY <1>2, Zenon DEF Request, Msg, IsNote, VfNotes, PfNotes
  <2> QED BY <1>2, <2>2, <2>3
<1>3. CASE vpc \in {"init", "down"}
  <2>1. Request.t \in {"INIT", "SHUTDOWN"}
    BY <1>3, Zenon DEF Request, Msg
  <2>2. Due = None /\ IsNote(Request)
    BY <2>1 DEF Due, Response, IsNote, VfNotes
  <2> QED BY <1>3, <2>2
<1> QED BY <1>1, <1>2, <1>3


LEMMA TimeWorks ==
  ASSUME MailInv, TimeInv, PfIsr \/ PfIsrDrop \/ WorkerRead \/ WorkerSpurious \/ WorkerUnmask
  PROVE  TimeInv'
<1>1. csr' = csr /\ UNCHANGED workerFrame
  BY Zenon DEF PfIsr, PfIsrDrop, WorkerRead, WorkerSpurious, WorkerUnmask, vfVars, respVars, noteVars, workerFrame
<1>2. ~PfIsrDrop /\ ~WorkerSpurious
  <2>1. ~PfIsrDrop
    BY Zenon DEF PfIsrDrop, Faults, TimeInv, ActorInv, AllInTime
  <2>2. ~WorkerSpurious
    BY Zenon DEF WorkerSpurious, TimeInv, LineInv
  <2> QED BY <2>1, <2>2, Zenon
<1>3. ASSUME put'["pfw"] = put["pfw"] \/ (put["pfw"].pc = "done" /\ put'["pfw"].pc = "off"),
             put'["vf"] = put["vf"], put'["pfn"] = put["pfn"], Due' = Due,
             worker'.pc \in {"read", "ack"} => csr["vf"].int,
             worker'.pc = "ack" => worker'.val = csr /\ worker'.resp = Due
      PROVE  LineInv' /\ AnswerInv'
  <2>1. /\ vpc' = vpc /\ vstep' = vstep /\ completion' = completion /\ vresp' = vresp
        /\ vfIrq' = vfIrq /\ tasklet' = tasklet
    BY <1>1, Zenon DEF workerFrame
  <2>2. Agents = {"vf", "pfw", "pfn"}
    BY Zenon DEF Agents
  <2>3. \A b \in Agents : put'[b].pc \in {"write", "clear"} => put'[b] = put[b]
    BY <1>3, <2>2, Zenon
  <2>4. LineInv'
    <3>1. /\ \A b \in Agents : put'[b].pc = "write" =>
               csr'[SideOf(b)].body # InUse /\ ~csr'["vf"].int /\ ~csr'["pf"].int
          /\ \A b \in Agents : put'[b].pc = "clear" =>
               /\ put'[b].ret = "ok" /\ ~csr'["vf"].int /\ ~csr'["pf"].int
               /\ \A h \in Sides : put'[b].val[h].body = csr'[h].body
      BY <1>1, <2>3, Zenon DEF TimeInv, LineInv
    <3>2. put["pfw"].pc = "done" => csr["vf"].body # InUse /\ ~csr["pf"].int
      BY Zenon DEF TimeInv, LineInv
    <3>3. /\ csr'["vf"].int => put'["vf"].pc = "wait" /\ csr' = Sent("vf", put'["vf"].msg)
          /\ csr'["pf"].int => /\ put'["pfw"].pc = "wait" /\ csr' = Sent("pf", put'["pfw"].msg)
                               /\ vpc' # "off"
      BY <1>1, <1>3, <2>1, <3>2, Zenon DEF TimeInv, LineInv
    <3>4. /\ worker'.pc \in {"read", "ack"} => csr'["vf"].int
          /\ worker'.pc = "ack" => worker'.val = csr' /\ worker'.resp = Due'
      BY <1>1, <1>3, Zenon
    <3>5. /\ vfIrq'.sched => csr'["pf"].int /\ tasklet'.pc = "idle"
          /\ tasklet'.pc = "idle" \/ (tasklet'.pc = "ack" /\ csr'["pf"].int /\ tasklet'.val = csr')
      BY <1>1, <2>1, Zenon DEF TimeInv, LineInv
    <3>6. /\ csr'["pf"].body = InUse => put'["vf"].pc \in {"wait", "clear"} /\ csr'["vf"].body # InUse
          /\ csr'["vf"].body = InUse => put'["pfw"].pc \in {"wait", "clear"}
      BY <1>1, <1>3, <3>2, Zenon DEF TimeInv, LineInv
    <3>7. put'["vf"].pc = "wait" /\ IsNote(put'["vf"].msg) /\ ~csr'["vf"].int =>
               csr' = Acked("vf", Sent("vf", put'["vf"].msg), FALSE)
      <4>1. csr' = csr /\ put'["vf"] = put["vf"]
        BY <1>1, <1>3, Zenon
      <4> QED BY <4>1, Zenon DEF TimeInv, LineInv
    <3> QED BY <3>1, <3>3, <3>4, <3>5, <3>6, <3>7, Zenon DEF LineInv
  <2>5. Awaiting' <=> Awaiting
    BY <1>3, <2>1, Zenon DEF Awaiting
  <2>6. AnswerInv'
    BY <1>1, <1>3, <2>1, <2>5, Zenon DEF TimeInv, AnswerInv, Owed
  <2> QED BY <2>4, <2>6, Zenon
<1>4. CASE PfIsr
  <2>1. csr["vf"].int /\ ~pfMasked /\ pfMasked' = TRUE /\ worker'.pc = "read" /\ put' = put
    BY <1>4, Zenon DEF PfIsr, WorkerIdle
  <2>2. ~Sending(put["pfw"])
    BY <2>1, Zenon DEF TimeInv, ActorInv
  <2>3. ActorInv' /\ BlockInv' /\ Due' = Due
    BY <1>1, <2>1, <2>2, WorkerActor, Zenon
  <2> QED BY <1>3, <2>1, <2>3, Zenon DEF TimeInv
<1>5. CASE WorkerRead
  <2>1. /\ worker.pc = "read" /\ csr["vf"].int /\ put' = put /\ pfMasked' = pfMasked
        /\ worker' = [pc |-> "ack", val |-> csr, resp |-> Response(csr["vf"].body)]
    BY <1>5, Zenon DEF WorkerRead
  <2>2. worker'.pc = "ack" /\ worker'.val = csr /\ worker'.resp = Response(csr["vf"].body)
    BY <2>1, Zenon
  <2>3. ~Sending(put["pfw"]) /\ pfMasked
    BY <2>1, Zenon DEF TimeInv, ActorInv
  <2>4. ActorInv' /\ BlockInv' /\ Due' = Due
    BY <1>1, <2>1, <2>2, <2>3, WorkerActor, Zenon
  <2>5. worker'.resp = Due
    BY <2>1, <2>2, VfSays, Zenon DEF Due
  <2> QED BY <1>3, <2>1, <2>2, <2>4, <2>5, Zenon DEF TimeInv
<1>6. CASE WorkerUnmask
  <2>1. /\ worker' = WorkerIdle /\ pfMasked' = FALSE
        /\ \/ worker.pc = "unmask" /\ put' = put
           \/ put["pfw"].pc = "done" /\ put' = [put EXCEPT !["pfw"] = Idle]
    BY <1>6, Zenon DEF WorkerUnmask
  <2>2. worker'.pc = "idle"
    BY <2>1, Zenon DEF WorkerIdle
  <2>3. CASE worker.pc = "unmask" /\ put' = put
    <3>1. ~Sending(put["pfw"])
      BY <2>3, Zenon DEF TimeInv, ActorInv
    <3>2. ActorInv' /\ BlockInv' /\ Due' = Due
      BY <1>1, <2>1, <2>2, <2>3, <3>1, WorkerActor, Zenon
    <3> QED BY <1>3, <2>2, <2>3, <3>2, Zenon DEF TimeInv
  <2>4. CASE put["pfw"].pc = "done" /\ put' = [put EXCEPT !["pfw"] = Idle]
    <3>1. Idle.pc = "off" /\ ~Sending(Idle)
      BY Idles, Zenon DEF Agents
    <3> HIDE DEF Idle
    <3>2. put'["pfw"] = Idle /\ put'["vf"] = put["vf"] /\ put'["pfn"] = put["pfn"]
      BY <2>4, Zenon DEF MailInv, PutInv, Agents
    <3>3. ActorInv' /\ BlockInv' /\ Due' = Due
      <4>1. /\ pfMasked' <=> worker'.pc # "idle"
            /\ worker'.pc \in {"idle", "read", "ack", "put", "unmask"}
            /\ worker'.pc = "put" <=> Sending(put'["pfw"])
            /\ Sending(put'["pfw"]) => ~IsNote(put'["pfw"].msg)
        BY <2>1, <2>2, <3>1, <3>2
      <4> QED BY <1>1, <3>2, <4>1, WorkerActor, Zenon
    <3> QED BY <1>3, <2>2, <2>4, <3>1, <3>2, <3>3, Zenon DEF TimeInv
  <2> QED BY <2>1, <2>3, <2>4, Zenon
<1> QED BY <1>2, <1>4, <1>5, <1>6, Zenon

LEMMA TimeAnswers ==
  ASSUME MailInv, TimeInv, WorkerAck
  PROVE  TimeInv'
<1> DEFINE c == vfInfo.compat_ver >= FastAck /\ ~IsNote(worker.val["vf"].body)
<1>1. /\ worker.pc = "ack" /\ pfMasked' = pfMasked /\ UNCHANGED workerFrame
      /\ csr' = Acked("vf", worker.val, c)
      /\ \/ worker.resp = None /\ worker'.pc = "unmask" /\ put' = put
         \/ /\ worker.resp # None /\ worker'.pc = "put"
            /\ put' = [put EXCEPT !["pfw"] = PutCall(worker.resp)]
  BY Zenon DEF WorkerAck, WorkerIdle, vfVars, respVars, noteVars, workerFrame
<1>2. csr["vf"].int /\ worker.val = csr /\ worker.resp = Due /\ ~Sending(put["pfw"]) /\ pfMasked
  BY <1>1, Zenon DEF TimeInv, LineInv, ActorInv
<1>3. /\ csr["vf"].body = Request /\ vstep = "put" /\ put["vf"].pc = "wait" /\ completion = 0
      /\ put["vf"].msg = Request
      /\ csr["pf"].body = InUse /\ ~csr["pf"].int /\ csr["vf"].body # InUse
  BY <1>2, VfSays
<1>4. /\ Due # None => vpc \in {"ver", "blk", "crc"} /\ ~IsNote(Due)
      /\ Due = None => IsNote(Request)
      /\ vpc \in {"ver", "blk", "crc"} => ~IsNote(Request)
  BY <1>3, DueSome, Zenon
<1>5. IsNote(Request) => csr' = Acked("vf", Sent("vf", put["vf"].msg), FALSE)
  <2>1. IsNote(Request) => ~c
    BY <1>2, <1>3, Zenon
  <2>2. csr = Sent("vf", put["vf"].msg)
    BY <1>2, Zenon DEF TimeInv, LineInv
  <2> HIDE DEF c
  <2>3. csr' = Acked("vf", csr, c)
    BY <1>1, <1>2, Zenon
  <2> QED BY <2>1, <2>2, <2>3, Zenon DEF Acked
<1>6. ~csr'["vf"].int /\ csr'["vf"].body = csr["vf"].body /\ ~csr'["pf"].int
  <2> HIDE DEF c
  <2>1. csr' = Acked("vf", csr, c)
    BY <1>1, <1>2
  <2>2. Reg(Versions, csr) /\ csr["vf"].int /\ "vf" \in Sides /\ Other("vf") = "pf"
    BY <1>2, Values, Zenon DEF MailInv, ReadersInv
  <2> QED BY <2>1, <2>2, AckedReg
<1> HIDE DEF c
<1>7. /\ vpc' = vpc /\ vstep' = vstep /\ completion' = completion /\ vresp' = vresp
      /\ vfIrq' = vfIrq /\ tasklet' = tasklet
  BY <1>1, Zenon DEF workerFrame
<1>8. ~vfIrq.sched /\ tasklet.pc = "idle"
  BY <1>3, Zenon DEF TimeInv, LineInv
<1>9. Agents = {"vf", "pfw", "pfn"} /\ put["pfn"].pc = "off" /\ put["pfw"].pc = "off"
  BY <1>2 DEF Agents, TimeInv, ActorInv, MailInv, PutInv, PutOk
<1>10. CASE worker.resp = None /\ worker'.pc = "unmask" /\ put' = put
  <2>1. ActorInv' /\ BlockInv' /\ Due' = Due
    BY <1>1, <1>2, <1>10, WorkerActor, Zenon
  <2>2. \A b \in Agents : put'[b].pc \notin {"check", "write", "clear"}
    BY <1>3, <1>9, <1>10, Zenon
  <2>3. LineInv'
    <3>1. csr' = Acked("vf", Sent("vf", put'["vf"].msg), FALSE)
      BY <1>2, <1>4, <1>5, <1>10, Zenon
    <3>2. /\ csr'["pf"].body = InUse => put'["vf"].pc \in {"wait", "clear"} /\ csr'["vf"].body # InUse
          /\ csr'["vf"].body = InUse => put'["pfw"].pc \in {"wait", "clear"}
      BY <1>3, <1>6, <1>10, Zenon
    <3>3. worker'.pc \notin {"read", "ack"} /\ worker'.pc # "ack" /\ tasklet'.pc = "idle" /\ ~vfIrq'.sched
      BY <1>7, <1>8, <1>10, Zenon
    <3>4. \A b \in Agents : put'[b].pc # "write" /\ put'[b].pc # "clear"
      BY <2>2, Zenon
    <3> QED BY <1>6, <3>1, <3>2, <3>3, <3>4, Zenon DEF LineInv
  <2>4. AnswerInv'
    <3>1. completion' = 0
      BY <1>3, <1>7, Zenon
    <3>2. completion' \in {0, 1} /\ completion' # 1
      BY <3>1
    <3>3. put'["pfw"].pc = "off" /\ ~csr'["pf"].int
      BY <1>6, <1>9, <1>10, Zenon
    <3> QED BY <3>2, <3>3, Zenon DEF AnswerInv
  <2> QED BY <2>1, <2>3, <2>4, Zenon DEF TimeInv
<1>11. CASE /\ worker.resp # None /\ worker'.pc = "put"
            /\ put' = [put EXCEPT !["pfw"] = PutCall(worker.resp)]
  <2> DEFINE r == PutCall(Due)
  <2>1. r.pc = "check" /\ r.msg = Due
    BY Zenon DEF PutCall, Idle
  <2>2. put' = [put EXCEPT !["pfw"] = r]
    BY <1>2, <1>11, Zenon
  <2> HIDE DEF r
  <2>3. put'["pfw"] = r /\ put'["vf"] = put["vf"] /\ put'["pfn"] = put["pfn"]
    BY <2>2, Zenon DEF MailInv, PutInv, Agents
  <2>4. vpc \in {"ver", "blk", "crc"} /\ ~IsNote(Due) /\ ~IsNote(Request)
    BY <1>2, <1>4, <1>11, Zenon
  <2>5. Sending(r) /\ ~IsNote(r.msg)
    BY <2>1, <2>4, Zenon DEF Sending
  <2>6. ActorInv' /\ BlockInv' /\ Due' = Due
    <3>1. /\ pfMasked' <=> worker'.pc # "idle"
          /\ worker'.pc \in {"idle", "read", "ack", "put", "unmask"}
          /\ worker'.pc = "put" <=> Sending(put'["pfw"])
          /\ Sending(put'["pfw"]) => ~IsNote(put'["pfw"].msg)
      BY <1>1, <1>2, <1>11, <2>3, <2>5, Zenon
    <3> QED BY <1>1, <2>3, <3>1, WorkerActor, Zenon
  <2>7. \A b \in Agents : put'[b].pc \notin {"write", "clear"}
    BY <1>3, <1>9, <2>1, <2>3, Zenon
  <2>8. LineInv'
    <3>1. ~IsNote(put'["vf"].msg)
      BY <1>3, <2>3, <2>4, Zenon
    <3>2. /\ csr'["pf"].body = InUse => put'["vf"].pc \in {"wait", "clear"} /\ csr'["vf"].body # InUse
          /\ csr'["vf"].body = InUse => put'["pfw"].pc \in {"wait", "clear"}
      BY <1>3, <1>6, <2>3, Zenon
    <3>3. worker'.pc \notin {"read", "ack"} /\ worker'.pc # "ack" /\ tasklet'.pc = "idle" /\ ~vfIrq'.sched
      BY <1>7, <1>8, <1>11, Zenon
    <3>4. \A b \in Agents : put'[b].pc # "write" /\ put'[b].pc # "clear"
      BY <2>7, Zenon
    <3> QED BY <1>6, <3>1, <3>2, <3>3, <3>4, Zenon DEF LineInv
  <2>9. Owed'
    BY <1>3, <1>6, <1>7, <2>3, <2>4, Zenon DEF Owed, Awaiting
  <2>10. AnswerInv'
    <3>1. completion' = 0
      BY <1>3, <1>7, Zenon
    <3>2. completion' \in {0, 1} /\ completion' # 1
      BY <3>1
    <3>3. put'["pfw"].msg = Due' /\ ~csr'["pf"].int
      BY <1>6, <2>1, <2>3, <2>6, Zenon
    <3> QED BY <2>9, <3>2, <3>3, Zenon DEF AnswerInv
  <2> QED BY <2>6, <2>8, <2>10, Zenon DEF TimeInv
<1> QED BY <1>1, <1>10, <1>11, Zenon


\* What neither the VF's interrupt nor its tasklet changes.
taskletFrame == <<sc, put, vpc, vstep, vidx, buf, worker, pfMasked, notes>>

LEMMA TaskletActor ==
  ASSUME MailInv, TimeInv, UNCHANGED taskletFrame, stopWork' = stopWork,
         vfIrq' \in [on : BOOLEAN, masked : BOOLEAN, sched : BOOLEAN], vfIrq'.on <=> vfIrq.on,
         vpc # "off" => (vfIrq'.masked <=> vfIrq'.sched \/ tasklet'.pc = "ack")
  PROVE  ActorInv' /\ Due' = Due
<1>1. /\ sc' = sc /\ put' = put /\ vpc' = vpc /\ vstep' = vstep /\ vidx' = vidx /\ worker' = worker
      /\ pfMasked' = pfMasked /\ notes' = notes
  BY Zenon DEF taskletFrame
<1>2. Due' = Due /\ Request' = Request
  BY <1>1, DueStays, Zenon
<1>3. AllInTime' /\ notes' = 0 /\ put'["pfn"].pc = "off" /\ stopWork' = FALSE
  BY <1>1, Zenon DEF TimeInv, ActorInv, AllInTime
<1>4. /\ pfMasked' <=> worker'.pc # "idle"
      /\ worker'.pc \in {"idle", "read", "ack", "put", "unmask"}
      /\ worker'.pc = "put" <=> Sending(put'["pfw"])
      /\ Sending(put'["pfw"]) => ~IsNote(put'["pfw"].msg)
      /\ vstep' = "put" => put'["vf"].msg = Request'
  BY <1>1, <1>2, Zenon DEF TimeInv, ActorInv
<1>5. /\ vfIrq'.on <=> vpc' # "off"
      /\ vpc' # "off" => (vfIrq'.masked <=> vfIrq'.sched \/ tasklet'.pc = "ack")
  BY <1>1, Zenon DEF TimeInv, ActorInv
<1>6. ActorInv'
  BY <1>3, <1>4, <1>5, Zenon DEF ActorInv
<1> QED BY <1>2, <1>6, Zenon

\* A message of the PF in the register keeps every other writer out.
LEMMA PfSays ==
  ASSUME MailInv, TimeInv, csr["pf"].int
  PROVE  /\ put["pfw"].pc = "wait" /\ csr["pf"].body = put["pfw"].msg /\ csr["pf"].body # InUse
         /\ csr["vf"].body = InUse /\ ~csr["vf"].int /\ vpc # "off"
         /\ worker.pc \notin {"read", "ack"}
         /\ \A a \in Agents : put[a].pc # "write" /\ put[a].pc # "clear"
         /\ ~(put["vf"].pc = "wait" /\ IsNote(put["vf"].msg))
<1>1. /\ put["pfw"].pc = "wait" /\ csr["pf"].body = put["pfw"].msg
      /\ csr["vf"].body = InUse /\ ~csr["vf"].int /\ vpc # "off"
      /\ \A a \in Agents : Sending(put[a]) => put[a].msg # InUse
      /\ put["vf"].pc = "wait" /\ IsNote(put["vf"].msg) /\ ~csr["vf"].int => ~csr["pf"].int
  BY LineFacts, Zenon DEF TimeInv
<1>2. put["pfw"].msg # InUse
  BY <1>1, Zenon DEF Sending, Agents
<1>3. worker.pc \notin {"read", "ack"}
  BY <1>1, Zenon DEF TimeInv, LineInv
<1>4. \A a \in Agents : put[a].pc # "write" /\ put[a].pc # "clear"
  BY Zenon DEF TimeInv, LineInv
<1> QED BY <1>1, <1>2, <1>3, <1>4, Zenon

LEMMA TimeIsr ==
  ASSUME MailInv, TimeInv, VfIsr
  PROVE  TimeInv'
<1>1. /\ vfIrq.on /\ ~vfIrq.masked /\ csr["pf"].int /\ csr' = csr /\ UNCHANGED taskletFrame
      /\ stopWork' = stopWork /\ pfSeen' = pfSeen /\ vresp' = vresp /\ completion' = completion
      /\ tasklet' = tasklet /\ vfIrq' = [vfIrq EXCEPT !.masked = TRUE, !.sched = TRUE]
  BY DEF VfIsr, vfVars, respVars, pfVars, noteVars, taskletFrame
<1>2. /\ sc' = sc /\ put' = put /\ vpc' = vpc /\ vstep' = vstep /\ vidx' = vidx /\ worker' = worker
      /\ buf' = buf
  BY <1>1 DEF taskletFrame
<1>3. /\ vfIrq' \in [on : BOOLEAN, masked : BOOLEAN, sched : BOOLEAN] /\ (vfIrq'.on <=> vfIrq.on)
      /\ vfIrq'.masked /\ vfIrq'.sched
  BY <1>1, Zenon DEF TimeInv, ActorInv
<1>4. vpc # "off"
  BY <1>1, PfSays, Zenon
<1>5. tasklet.pc # "ack"
  BY <1>1, <1>4, Zenon DEF TimeInv, ActorInv
<1>6. tasklet.pc = "idle"
  BY <1>5, Zenon DEF TimeInv, LineInv
<1>7. ActorInv' /\ Due' = Due
  BY <1>1, <1>3, TaskletActor
<1>8. LineInv'
  BY <1>1, <1>2, <1>6, <1>7, Zenon DEF TimeInv, LineInv
<1>9. AnswerInv'
  BY <1>1, <1>2, <1>7, Zenon DEF TimeInv, AnswerInv, Owed, Awaiting
<1>10. BlockInv'
  BY <1>1, <1>2 DEF TimeInv, BlockInv
<1> QED BY <1>7, <1>8, <1>9, <1>10, Zenon DEF TimeInv

LEMMA TimeRead ==
  ASSUME MailInv, TimeInv, TaskletRead
  PROVE  TimeInv'
<1>1. /\ vfIrq.sched /\ tasklet.pc = "idle" /\ csr["pf"].int /\ csr' = csr /\ UNCHANGED taskletFrame
      /\ tasklet' = [pc |-> "ack", val |-> csr] /\ vfIrq' = [vfIrq EXCEPT !.sched = FALSE]
      /\ VfHandle(csr["pf"].body)
  BY DEF TaskletRead, pfVars, noteVars, taskletFrame
<1>2. /\ sc' = sc /\ put' = put /\ vpc' = vpc /\ vstep' = vstep /\ vidx' = vidx /\ worker' = worker
      /\ buf' = buf
  BY <1>1, Zenon DEF taskletFrame
<1>3. Owed /\ csr["pf"].body = Due
  BY <1>1, Zenon DEF TimeInv, AnswerInv
<1>4. vpc \in {"ver", "blk", "crc"} /\ completion = 0
  BY <1>3, Zenon DEF Owed, Awaiting
<1>5. /\ vpc = "ver" => Due.t = "VERSION_RESP"
      /\ vpc \in {"blk", "crc"} => Due.t \in BlockResps
  <2>1. BlockByte(vidx).t \in BlockResps
    BY DEF Msg, BlockByte, BlockResps
  <2>2. BlockCrc(vidx).t \in BlockResps
    BY DEF Msg, BlockCrc, BlockResps
  <2>3. Msg("VERSION_RESP", PfVersion, Verdict(VfVersion)).t = "VERSION_RESP"
    BY DEF Msg
  <2> QED BY <2>1, <2>2, <2>3, DueIs, Zenon
<1>6. Due.t \in {"VERSION_RESP"} \cup BlockResps
  BY <1>4, <1>5, Zenon
<1>7. /\ stopWork' = stopWork /\ completion' = completion + 1
      /\ Due.t \in BlockResps => vresp' = [type |-> Due.t, byte |-> Due.a]
  BY <1>1, <1>3, <1>6, Zenon DEF VfHandle, BlockResps, respVars
<1>8. completion' = 1
  BY <1>4, <1>7
<1>9. tasklet'.pc = "ack" /\ tasklet'.val = csr
  BY <1>1, Zenon
<1>10. /\ vfIrq' \in [on : BOOLEAN, masked : BOOLEAN, sched : BOOLEAN] /\ (vfIrq'.on <=> vfIrq.on)
       /\ ~vfIrq'.sched /\ (vfIrq'.masked <=> vfIrq.masked)
  BY <1>1, Zenon DEF TimeInv, ActorInv
<1>11. /\ put["pfw"].pc = "wait" /\ ~csr["vf"].int /\ vpc # "off"
  BY <1>1, PfSays, Zenon
<1>12. vfIrq'.masked
  BY <1>1, <1>10, <1>11, Zenon DEF TimeInv, ActorInv
<1>13. ActorInv' /\ Due' = Due
  BY <1>1, <1>7, <1>9, <1>10, <1>12, TaskletActor
<1>14. LineInv'
  BY <1>1, <1>2, <1>9, <1>10, <1>13, Zenon DEF TimeInv, LineInv
<1>15. AnswerInv'
  <2>1. Awaiting'
    BY <1>2, <1>3, Zenon DEF Owed, Awaiting
  <2> QED BY <1>1, <1>2, <1>5, <1>7, <1>8, <1>9, <1>11, <1>13, <2>1, Zenon DEF AnswerInv
<1>16. BlockInv'
  BY <1>2, <1>4 DEF TimeInv, BlockInv
<1> QED BY <1>13, <1>14, <1>15, <1>16, Zenon DEF TimeInv

LEMMA TimeTaskletAck ==
  ASSUME MailInv, TimeInv, TaskletAck
  PROVE  TimeInv'
<1> DEFINE c == pfSeen.version >= FastAck /\ ~IsNote(tasklet.val["pf"].body)
<1>1. /\ tasklet.pc = "ack" /\ csr' = Acked("pf", tasklet.val, c) /\ UNCHANGED taskletFrame
      /\ stopWork' = stopWork /\ pfSeen' = pfSeen /\ vresp' = vresp /\ completion' = completion
      /\ tasklet'.pc = "idle" /\ vfIrq' = [vfIrq EXCEPT !.masked = FALSE]
  BY Zenon DEF TaskletAck, TaskletIdle, vfVars, respVars, pfVars, noteVars, taskletFrame
<1> HIDE DEF c
<1>2. /\ sc' = sc /\ put' = put /\ vpc' = vpc /\ vstep' = vstep /\ vidx' = vidx /\ worker' = worker
      /\ buf' = buf
  BY <1>1, Zenon DEF taskletFrame
<1>3. csr["pf"].int /\ tasklet.val = csr /\ ~vfIrq.sched
  BY <1>1, Zenon DEF TimeInv, LineInv
<1>4. /\ put["pfw"].pc = "wait" /\ csr["pf"].body # InUse
      /\ csr["vf"].body = InUse /\ ~csr["vf"].int /\ vpc # "off"
      /\ worker.pc \notin {"read", "ack"}
      /\ \A a \in Agents : put[a].pc # "write" /\ put[a].pc # "clear"
      /\ ~(put["vf"].pc = "wait" /\ IsNote(put["vf"].msg))
  BY <1>3, PfSays, Zenon
<1>5. /\ ~csr'["pf"].int /\ csr'["pf"].body = csr["pf"].body /\ ~csr'["vf"].int
  <2>1. csr' = Acked("pf", csr, c)
    BY <1>1, <1>3, Zenon
  <2>2. Reg(Versions, csr) /\ csr["pf"].int /\ "pf" \in Sides /\ Other("pf") = "vf"
    BY <1>3, Values, Zenon DEF MailInv, ReadersInv
  <2> QED BY <2>1, <2>2, AckedReg
<1>6. /\ vfIrq' \in [on : BOOLEAN, masked : BOOLEAN, sched : BOOLEAN] /\ (vfIrq'.on <=> vfIrq.on)
      /\ ~vfIrq'.sched /\ ~vfIrq'.masked
  BY <1>1, <1>3, Zenon DEF TimeInv, ActorInv
<1>7. ActorInv' /\ Due' = Due
  BY <1>1, <1>6, TaskletActor, Zenon
<1>8. LineInv'
  <2>1. csr'["pf"].body # InUse /\ put'["pfw"].pc \in {"wait", "clear"}
    BY <1>2, <1>4, <1>5, Zenon
  <2>2. worker'.pc \notin {"read", "ack"} /\ worker'.pc # "ack"
    BY <1>2, <1>4, Zenon
  <2> QED BY <1>1, <1>2, <1>4, <1>5, <1>6, <2>1, <2>2, Zenon DEF LineInv
<1>9. AnswerInv'
  <2>1. Awaiting' <=> Awaiting
    BY <1>2, Zenon DEF Awaiting
  <2> QED BY <1>1, <1>2, <1>4, <1>5, <1>7, <2>1 DEF TimeInv, AnswerInv
<1>10. BlockInv'
  BY <1>1, <1>2 DEF TimeInv, BlockInv
<1> QED BY <1>7, <1>8, <1>9, <1>10, Zenon DEF TimeInv


TimedInv == AllInTime => TimeInv

LEMMA ScenarioKept ==
  ASSUME [Next]_vars
  PROVE  sc' = sc
<1>1. CASE UNCHANGED vars
  BY <1>1, Zenon DEF vars
<1>2. CASE VfStart \/ VfThread \/ VfRespTimeout \/ VfDown \/ VfCrash
  BY <1>2, Zenon DEF VfStart, VfThread, VfSend, VfSent, VfResponse, VfFree, VfStopAsync, VfRespTimeout, VfDown, VfCrash
<1>3. CASE Tasklet \/ PfIsr \/ PfIsrDrop \/ Worker
  BY <1>3, Zenon DEF Tasklet, VfIsr, TaskletRead, TaskletNoAck, TaskletAck, PfIsr, PfIsrDrop, Worker, WorkerRead,
    WorkerSpurious, WorkerAck, WorkerUnmask
<1>4. CASE (\E n \in PfNotes : NotifyStart(n)) \/ NotifyDone
  BY <1>4, Zenon DEF NotifyStart, NotifyDone
<1>5. CASE \E a \in Agents : PutStep(a) \/ PutTimeout(a)
  BY <1>5 DEF PutStep, PutCheck, PutWrite, PutAcked, PutClear, PutTimeout
<1> QED BY <1>1, <1>2, <1>3, <1>4, <1>5, Zenon DEF Next

LEMMA TimeInit ==
  ASSUME Init, AllInTime
  PROVE  TimeInv
<1>1. /\ csr = Clean /\ put = [a \in Agents |-> Idle] /\ vpc = "off" /\ vstep = "send"
      /\ stopWork = FALSE /\ completion = 0 /\ tasklet = TaskletIdle
      /\ vfIrq = [on |-> FALSE, masked |-> TRUE, sched |-> FALSE]
      /\ pfMasked = FALSE /\ worker = WorkerIdle /\ notes = 0
  BY ZenonT(60) DEF Init
<1>2. \A h \in Sides : csr[h].body = None /\ ~csr[h].int
  BY <1>1, Zenon DEF Clean, Half
<1>3. \A a \in Agents : put[a].pc = "off" /\ ~Sending(put[a])
  BY <1>1, Idles, Zenon
<1>4. worker.pc = "idle" /\ tasklet.pc = "idle"
  BY <1>1 DEF WorkerIdle, TaskletIdle
<1>5. vfIrq \in [on : BOOLEAN, masked : BOOLEAN, sched : BOOLEAN] /\ ~vfIrq.on /\ ~vfIrq.sched
  BY <1>1, Zenon
<1>6. "vf" \in Agents /\ "pfw" \in Agents /\ "pfn" \in Agents /\ "vf" \in Sides /\ "pf" \in Sides /\ None # InUse
  BY Values, Zenon DEF Agents
<1>7. ActorInv
  BY <1>1, <1>3, <1>4, <1>5, <1>6 DEF ActorInv
<1>8. LineInv
  <2>1. csr["vf"].body # InUse /\ csr["pf"].body # InUse /\ ~csr["vf"].int /\ ~csr["pf"].int
    BY <1>2, <1>6
  <2>2. \A a \in Agents : put[a].pc # "write" /\ put[a].pc # "clear" /\ put[a].pc # "wait"
    BY <1>3, Zenon
  <2>3. worker.pc \notin {"read", "ack"} /\ worker.pc # "ack"
    BY <1>4, Zenon
  <2> QED BY <1>4, <1>5, <1>6, <2>1, <2>2, <2>3, Zenon DEF LineInv
<1>9. AnswerInv
  <2>1. completion \in {0, 1} /\ completion # 1
    BY <1>1
  <2>2. put["pfw"].pc \notin {"check", "write"} /\ ~csr["pf"].int
    BY <1>2, <1>3, <1>6
  <2> QED BY <2>1, <2>2, Zenon DEF AnswerInv
<1>10. BlockInv
  BY <1>1, Zenon DEF BlockInv
<1> QED BY <1>7, <1>8, <1>9, <1>10, Zenon DEF TimeInv

\* What never happens while everything is in time.
LEMMA TimeExcludes ==
  ASSUME MailInv, TimeInv
  PROVE  ~VfCrash /\ ~VfStopAsync /\ ~TaskletNoAck /\ ~NotifyDone /\ \A n \in PfNotes : ~NotifyStart(n)
<1>1. Faults = {} /\ MaxNotes = 0 /\ notes = 0 /\ put["pfn"].pc = "off" /\ stopWork = FALSE
  BY Zenon DEF TimeInv, ActorInv, AllInTime, Faults, MaxNotes
<1>2. ~VfCrash /\ ~VfStopAsync
  BY <1>1, Zenon DEF VfCrash, VfStopAsync
<1>3. vfIrq.sched => csr["pf"].int
  BY Zenon DEF TimeInv, LineInv
<1>4. ~TaskletNoAck
  BY <1>1, <1>3, Zenon DEF TaskletNoAck
<1>5. ~NotifyDone /\ \A n \in PfNotes : ~NotifyStart(n)
  BY <1>1 DEF NotifyDone, NotifyStart
<1> QED BY <1>2, <1>4, <1>5, Zenon

LEMMA TimeStep ==
  ASSUME MailInv, TimeInv, Next
  PROVE  TimeInv'
<1>1. ~VfCrash /\ ~VfStopAsync /\ ~TaskletNoAck /\ ~NotifyDone /\ \A n \in PfNotes : ~NotifyStart(n)
  BY TimeExcludes
<1>2. CASE VfStart \/ VfFree
  BY <1>2, TimeStart, Zenon
<1>3. CASE VfSend
  BY <1>3, TimeSend, Zenon
<1>4. CASE VfSent
  BY <1>4, TimeSent
<1>5. CASE VfResponse
  BY <1>5, TimeResponse, Zenon
<1>6. CASE VfRespTimeout \/ VfDown
  BY <1>6, TimeMoves, Zenon
<1>7. CASE VfIsr
  BY <1>7, TimeIsr, Zenon
<1>8. CASE TaskletRead
  BY <1>8, TimeRead, Zenon
<1>9. CASE TaskletAck
  BY <1>9, TimeTaskletAck, Zenon
<1>10. CASE PfIsr \/ PfIsrDrop \/ WorkerRead \/ WorkerSpurious \/ WorkerUnmask
  BY <1>10, TimeWorks
<1>11. CASE WorkerAck
  BY <1>11, TimeAnswers
<1>12. CASE \E a \in Agents : PutStep(a) \/ PutTimeout(a)
  BY <1>12, TimePut, Zenon
<1> QED BY Zenon, <1>1, <1>2, <1>3, <1>4, <1>5, <1>6, <1>7, <1>8, <1>9, <1>10, <1>11, <1>12
        DEF Next, VfThread, Tasklet, Worker

LEMMA TimeStays ==
  ASSUME TimeInv, UNCHANGED vars
  PROVE  TimeInv'
<1>1. /\ sc' = sc /\ csr' = csr /\ put' = put /\ vpc' = vpc /\ vstep' = vstep /\ vidx' = vidx /\ buf' = buf
      /\ stopWork' = stopWork /\ completion' = completion /\ vresp' = vresp /\ pfSeen' = pfSeen
      /\ vfIrq' = vfIrq /\ tasklet' = tasklet /\ pfMasked' = pfMasked /\ worker' = worker /\ notes' = notes
  BY Zenon DEF vars, vfVars, respVars, pfVars, noteVars
<1>2. Due' = Due /\ Request' = Request
  BY <1>1, DueStays
<1>3. ActorInv'
  BY <1>1, <1>2, Zenon DEF TimeInv, ActorInv, AllInTime
<1>4. LineInv'
  BY <1>1, <1>2, Zenon DEF TimeInv, LineInv
<1>5. AnswerInv' /\ BlockInv'
  BY <1>1, <1>2, Zenon DEF TimeInv, AnswerInv, Owed, Awaiting, BlockInv
<1> QED BY <1>3, <1>4, <1>5, Zenon DEF TimeInv

\* Where every answer is in time and the PF sends nothing of its own, the
\* register belongs to one side at a time, and what the PF has under way is the
\* response to the request the VF's thread waits for.
THEOREM TimedInvariant == Spec => []TimedInv
<1>1. Init => TimedInv
  BY TimeInit, Zenon DEF TimedInv
<1>2. MailInv /\ TimedInv /\ [Next]_vars => TimedInv'
  <2> SUFFICES ASSUME MailInv, TimedInv, [Next]_vars, AllInTime' PROVE TimeInv'
    BY Zenon DEF TimedInv
  <2>1. TimeInv
    BY ScenarioKept DEF AllInTime, TimedInv
  <2> QED BY <2>1, TimeStep, TimeStays, Zenon
<1> QED BY <1>1, <1>2, MailInvariant, PTL DEF Spec

\* The in-use pattern stands in the register only while its owner is in
\* __adf_iov_putmsg, so no side is locked out.
THEOREM InUseIsOwned == Spec => []InUseOwned
<1>1. TimedInv => InUseOwned
  <2> SUFFICES ASSUME TimedInv, AllInTime, NEW side \in Sides, csr[Other(side)].body = InUse
               PROVE  \E a \in Agents : SideOf(a) = side /\ put[a].pc \in {"wait", "clear"}
    BY Zenon DEF InUseOwned
  <2>1. /\ csr["pf"].body = InUse => put["vf"].pc \in {"wait", "clear"}
        /\ csr["vf"].body = InUse => put["pfw"].pc \in {"wait", "clear"}
    BY Zenon DEF TimedInv, TimeInv, LineInv
  <2> QED BY <2>1, Values, Zenon DEF Agents
<1> QED BY <1>1, TimedInvariant, PTL

\* The VF's wait is ended by the one response to the request it sent, and by
\* none that an earlier request left behind.
THEOREM ResponsesFit == Spec => []ResponseFits
<1>1. TimedInv => ResponseFits
  <2> SUFFICES ASSUME TimedInv, AllInTime, vstep = "resp", completion > 0
               PROVE  /\ completion = 1
                      /\ vpc = "blk" => vresp = [type |-> "BLOCK_DATA", byte |-> Block[vidx + 1]]
    BY Zenon DEF ResponseFits
  <2>1. TimeInv
    BY Zenon DEF TimedInv
  <2>2. completion = 1
    <3>1. completion \in {0, 1}
      BY <2>1, Zenon DEF TimeInv, AnswerInv
    <3> QED BY <3>1
  <2>3. vpc = "blk" => vresp = [type |-> Due.t, byte |-> Due.a]
    BY <2>1, <2>2 DEF TimeInv, AnswerInv
  <2> QED BY <2>1, <2>2, <2>3, DueByte, Zenon
<1> QED BY <1>1, TimedInvariant, PTL

\* adf_iov_put writes no message over one that is not yet acknowledged.
THEOREM NothingOverwritten == Spec => NoOverwrite
<1>1. MailInv /\ TimedInv /\ [Next]_vars =>
        [\A a \in Agents : AllInTime /\ PutWrite(a) => ~csr[Other(SideOf(a))].int]_vars
  <2> SUFFICES ASSUME TimedInv, NEW a \in Agents, AllInTime, PutWrite(a)
               PROVE  ~csr[Other(SideOf(a))].int
    BY Zenon
  <2>1. put[a].pc = "write"
    BY Zenon DEF PutWrite
  <2>2. ~csr["vf"].int /\ ~csr["pf"].int
    BY <2>1, ZenonT(60) DEF TimedInv, TimeInv, LineInv
  <2> QED BY <2>2, Values, Zenon DEF Agents
<1> QED BY <1>1, MailInvariant, TimedInvariant, PTL DEF Spec, NoOverwrite

\* Where every answer is in time, the capability block the VF took is the PF's
\* byte for byte, without help of the CRC: all of it, or its first
\* ADF_VF2PF_CAPABILITIES_V3_LENGTH bytes when the VF's buffer holds no more.
BlockInTime ==
  AllInTime /\ vpc \in {"init", "up"} /\ pfSeen.version >= Capabilities
    => buf = SubSeq(Block, 1, Payload(Block) + 2)
THEOREM BlockIsRead == Spec => []BlockInTime
<1>1. TimedInv => BlockInTime
  <2> SUFFICES ASSUME TimedInv, AllInTime, vpc \in {"init", "up"}, pfSeen.version >= Capabilities
               PROVE  buf = SubSeq(Block, 1, Payload(Block) + 2)
    BY Zenon DEF BlockInTime
  <2> DEFINE n == Payload(Block) + 2
  <2>1. Prefix(buf, n)
    BY Zenon DEF TimedInv, TimeInv, BlockInv
  <2>2. n \in Nat /\ n <= Len(Block) /\ Block \in Seq(Nat)
    BY BlockLength
  <2> HIDE DEF n
  <2>3. /\ SubSeq(Block, 1, n) \in Seq(Nat) /\ Len(SubSeq(Block, 1, n)) = n
        /\ \A i \in 1..n : SubSeq(Block, 1, n)[i] = Block[i]
    BY <2>2
  <2>4. buf = SubSeq(Block, 1, n)
    BY <2>1, <2>3 DEF Prefix
  <2> QED BY <2>4, Zenon DEF n
<1> QED BY <1>1, TimedInvariant, PTL
=============================================================================
