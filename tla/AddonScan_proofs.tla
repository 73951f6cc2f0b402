-------------------------- MODULE AddonScan_proofs --------------------------
(***************************************************************************)
(* Proofs about AddonScan.                                                 *)
(***************************************************************************)
EXTENDS AddonScan, SequenceTheorems, TLAPS

Notes == [release : Releases, revision : 1..MaxRevision, kind : {"deployed", "deleted"}]

(***************************************************************************)
(* The notifications in q lead the snapshot from revision cur of release r *)
(* to revision dep: after the last deletion, the one at k or one that was  *)
(* handled already (k = 0), nothing is newer than dep, and dep is among    *)
(* what is yet to come, unless it is there.                                *)
(***************************************************************************)
Since(q, r, dep, k) ==
  \A i \in k + 1..Len(q) :
    q[i].release = r => q[i].kind = "deployed" /\ q[i].revision <= dep

ComesAfter(q, r, dep, k) ==
  \E i \in k + 1..Len(q) :
    q[i].release = r /\ q[i].kind = "deployed" /\ q[i].revision = dep

LeadsFrom(q, r, cur, dep, k) ==
  /\ k = 0 => cur <= dep
  /\ k # 0 => q[k].release = r /\ q[k].kind = "deleted"
  /\ Since(q, r, dep, k)
  /\ \/ k = 0 /\ cur = dep
     \/ dep = 0
     \/ ComesAfter(q, r, dep, k)

Leads(q, r, cur, dep) == \E k \in 0..Len(q) : LeadsFrom(q, r, cur, dep, k)

Follows ==
  \A r \in Releases \ missed : Leads(pending[NamespaceOf[r]], r, current[r], deployed[r])

\* An informer is notified of the releases of its namespace only.
Homed ==
  \A n \in Namespaces : \A i \in 1..Len(pending[n]) : NamespaceOf[pending[n][i].release] = n

(***************************************************************************)
(* What has been sent, whatever has become of it.  It never shrinks: what  *)
(* is lost, and what the control plane forgets, is noted as unsure.        *)
(***************************************************************************)
Told == gateway \cup unsure \cup {r \in Releases : OnWire(r, wire)}

\* The checksum is of a snapshot that was sent, and will be.
Sent ==
  /\ lastSum \subseteq Told
  /\ \A x \in Reporters : /\ at[x] = "record" => addons[x] \subseteq Told
                          /\ at[x] \in {"compare", "send"} => addons[x] # {}

\* Somebody is about to report r.
Underway(r) ==
  \E x \in Reporters : at[x] = "collect" \/ (at[x] \in {"compare", "send"} /\ r \in addons[x])

Covered == \A r \in Snapshot : r \in Told \/ Underway(r)

IInv == TypeOK /\ DOMAIN pending = Namespaces /\ Homed /\ Follows /\ Sent /\ Covered

----------------------------------------------------------------------------
(***************************************************************************)
(* The notifications of a release.                                         *)
(***************************************************************************)
LEMMA Concatenated ==
  ASSUME NEW S, NEW q \in Seq(S), NEW notes \in Seq(S)
  PROVE  LET v == q \o notes
         IN /\ v \in Seq(S) /\ Len(v) = Len(q) + Len(notes)
            /\ Len(q) \in Nat /\ Len(notes) \in Nat
            /\ \A i \in 1..Len(q) : v[i] = q[i]
            /\ \A j \in 1..Len(notes) : v[Len(q) + j] = notes[j]
            /\ \A i \in Len(q) + 1..Len(v) : i - Len(q) \in 1..Len(notes)
                                             /\ v[i] = notes[i - Len(q)]
  <1> DEFINE v == q \o notes
  <1>1. /\ v \in Seq(S) /\ Len(v) = Len(q) + Len(notes)
        /\ \A i \in 1..Len(q) + Len(notes) :
             v[i] = IF i <= Len(q) THEN q[i] ELSE notes[i - Len(q)]
    BY ConcatProperties, Zenon
  <1>2. Len(q) \in Nat /\ Len(notes) \in Nat
    BY LenProperties
  <1> HIDE DEF v
  <1>3. \A i \in 1..Len(q) : v[i] = q[i]
    BY <1>1, <1>2
  <1>4. ASSUME NEW j \in 1..Len(notes) PROVE v[Len(q) + j] = notes[j]
    <2>1. /\ Len(q) + j \in 1..Len(q) + Len(notes) /\ ~(Len(q) + j <= Len(q))
          /\ (Len(q) + j) - Len(q) = j
      BY <1>2
    <2>2. v[Len(q) + j] = notes[(Len(q) + j) - Len(q)]
      BY <1>1, <2>1, Zenon
    <2> QED BY <2>1, <2>2
  <1>5. \A i \in Len(q) + 1..Len(v) : i - Len(q) \in 1..Len(notes) /\ v[i] = notes[i - Len(q)]
    BY <1>1, <1>2
  <1> QED BY <1>1, <1>2, <1>3, <1>4, <1>5 DEF v

\* Notifications of other releases.
LEMMA LeadsOther ==
  ASSUME NEW q \in Seq(Notes), NEW notes \in Seq(Notes), NEW r, NEW cur \in Nat, NEW dep \in Nat,
         Leads(q, r, cur, dep), \A j \in 1..Len(notes) : notes[j].release # r
  PROVE  Leads(q \o notes, r, cur, dep)
  <1> DEFINE v == q \o notes
  <1>1. /\ Len(v) = Len(q) + Len(notes) /\ Len(q) \in Nat /\ Len(notes) \in Nat
        /\ \A i \in 1..Len(q) : v[i] = q[i]
        /\ \A i \in Len(q) + 1..Len(v) : v[i].release # r
    BY Concatenated
  <1> HIDE DEF v
  <1>2. PICK k \in 0..Len(q) : LeadsFrom(q, r, cur, dep, k)
    BY DEF Leads
  <1>3. Since(v, r, dep, k)
    <2>1. Since(q, r, dep, k)
      BY <1>2 DEF LeadsFrom
    <2>2. ASSUME NEW i \in k + 1..Len(v), v[i].release = r
          PROVE  v[i].kind = "deployed" /\ v[i].revision <= dep
      <3>1. i \in k + 1..Len(q) /\ v[i] = q[i]
        BY <1>1, <1>2, <2>2
      <3> QED BY <2>1, <2>2, <3>1 DEF Since
    <2> QED BY <2>2 DEF Since
  <1>4. ComesAfter(q, r, dep, k) => ComesAfter(v, r, dep, k)
    BY <1>1 DEF ComesAfter
  <1>5. LeadsFrom(v, r, cur, dep, k) /\ k \in 0..Len(v)
    BY <1>1, <1>2, <1>3, <1>4 DEF LeadsFrom
  <1> QED BY <1>5 DEF Leads, v

\* helm deploys the next revision.
LEMMA LeadsDeploy ==
  ASSUME NEW q \in Seq(Notes), NEW notes \in Seq(Notes), NEW r, NEW cur \in Nat, NEW dep \in Nat,
         Leads(q, r, cur, dep), Len(notes) > 0,
         notes[1].release = r, notes[1].kind = "deployed", notes[1].revision = dep + 1,
         \A j \in 1..Len(notes) : notes[j].kind = "deployed" /\ notes[j].revision <= dep + 1
  PROVE  Leads(q \o notes, r, cur, dep + 1)
  <1> DEFINE v == q \o notes
  <1>1. /\ Len(v) = Len(q) + Len(notes) /\ Len(q) \in Nat /\ Len(notes) \in Nat
        /\ \A i \in 1..Len(q) : v[i] = q[i]
        /\ \A i \in Len(q) + 1..Len(v) : v[i].kind = "deployed" /\ v[i].revision <= dep + 1
        /\ v[Len(q) + 1] = notes[1]
    BY Concatenated
  <1> HIDE DEF v
  <1>2. PICK k \in 0..Len(q) : LeadsFrom(q, r, cur, dep, k)
    BY DEF Leads
  <1>3. ASSUME NEW i \in k + 1..Len(v), v[i].release = r
        PROVE  v[i].kind = "deployed" /\ v[i].revision <= dep + 1
    <2>1. CASE i <= Len(q)
      <3>1. i \in k + 1..Len(q) /\ v[i] = q[i]
        BY <1>1, <2>1
      <3>2. q[i].kind = "deployed" /\ q[i].revision <= dep
        BY <1>2, <1>3, <3>1 DEF LeadsFrom, Since
      <3>3. q[i].revision \in Nat
        <4>1. q[i] \in Notes
          BY <3>1, ElementOfSeq
        <4>2. q[i].revision \in 1..MaxRevision
          BY <4>1 DEF Notes
        <4> QED BY <4>2
      <3> QED BY <3>1, <3>2, <3>3
    <2>2. CASE ~(i <= Len(q))
      BY <1>1, <1>2, <2>2
    <2> QED BY <2>1, <2>2
  <1>4. ComesAfter(v, r, dep + 1, k)
    <2>1. Len(q) + 1 \in k + 1..Len(v)
      BY <1>1, <1>2
    <2> QED BY <1>1, <2>1 DEF ComesAfter
  <1>5. LeadsFrom(v, r, cur, dep + 1, k) /\ k \in 0..Len(v)
    BY <1>1, <1>2, <1>3, <1>4 DEF LeadsFrom, Since
  <1> QED BY <1>5 DEF Leads, v

\* The Secret of the release is deleted.
LEMMA LeadsDelete ==
  ASSUME NEW q \in Seq(Notes), NEW note \in Notes, NEW r, NEW cur,
         note.release = r, note.kind = "deleted"
  PROVE  Leads(q \o <<note>>, r, cur, 0)
  <1> DEFINE v == q \o <<note>>
  <1>1. <<note>> \in Seq(Notes) /\ Len(<<note>>) = 1 /\ <<note>>[1] = note
    OBVIOUS
  <1>2. Len(v) = Len(q) + 1 /\ Len(q) \in Nat /\ v[Len(q) + 1] = note
    BY <1>1, Concatenated
  <1> HIDE DEF v
  <1>3. LeadsFrom(v, r, cur, 0, Len(v)) /\ Len(v) \in 0..Len(v)
    BY <1>2 DEF LeadsFrom, Since
  <1> QED BY <1>3 DEF Leads, v

\* applyLabels and onDelete, for the first notification.
Handled(note, r, cur) ==
  IF note.release # r THEN cur
  ELSE IF note.kind = "deleted" THEN 0
  ELSE IF note.revision > cur THEN note.revision ELSE cur

LEMMA LeadsTail ==
  ASSUME NEW q \in Seq(Notes), q # <<>>, NEW r, NEW cur \in Nat, NEW dep \in Nat,
         Leads(q, r, cur, dep)
  PROVE  Leads(Tail(q), r, Handled(Head(q), r, cur), dep)
  <1> DEFINE h == Head(q)
             t == Tail(q)
             new == Handled(h, r, cur)
  <1>1. /\ h \in Notes /\ t \in Seq(Notes) /\ Len(q) \in Nat /\ Len(t) = Len(q) - 1
        /\ h = q[1] /\ Len(q) > 0 /\ \A i \in 1..Len(t) : t[i] = q[i + 1]
    BY HeadTailProperties, EmptySeq
  <1> HIDE DEF h, t
  <1>2. h.revision \in Nat /\ h.kind \in {"deployed", "deleted"}
    BY <1>1, ScanAssumption DEF Notes
  <1>3. new \in Nat
    BY <1>2 DEF Handled
  <1>4. PICK k \in 0..Len(q) : LeadsFrom(q, r, cur, dep, k)
    BY DEF Leads
  <1>5. \A i \in 2..Len(q) : i - 1 \in 1..Len(t) /\ t[i - 1] = q[i]
    BY <1>1
  <1>6. CASE k = 0
    <2>1. h.release = r => h.kind = "deployed" /\ h.revision <= dep
      BY <1>1, <1>4, <1>6 DEF LeadsFrom, Since
    <2>2. cur <= dep
      BY <1>4, <1>6 DEF LeadsFrom
    <2>3. new <= dep /\ (cur = dep => new = dep)
      BY <1>2, <2>1, <2>2 DEF Handled
    <2>4. Since(t, r, dep, 0)
      <3> SUFFICES ASSUME NEW i \in 1..Len(t), t[i].release = r
                   PROVE  t[i].kind = "deployed" /\ t[i].revision <= dep
        BY DEF Since
      <3>1. i + 1 \in 1..Len(q) /\ t[i] = q[i + 1]
        BY <1>1
      <3> QED BY <1>4, <1>6, <3>1 DEF LeadsFrom, Since
    <2>5. ComesAfter(q, r, dep, 0) => ComesAfter(t, r, dep, 0) \/ new = dep
      <3>1. ASSUME ComesAfter(q, r, dep, 0) PROVE ComesAfter(t, r, dep, 0) \/ new = dep
        <4>1. PICK i \in 1..Len(q) :
                q[i].release = r /\ q[i].kind = "deployed" /\ q[i].revision = dep
          BY <3>1 DEF ComesAfter
        <4>2. CASE i = 1
          BY <1>1, <2>2, <4>1, <4>2 DEF Handled
        <4>3. CASE i # 1
          <5>1. i - 1 \in 0 + 1..Len(t) /\ t[i - 1] = q[i]
            BY <1>5, <4>3
          <5> QED BY <4>1, <5>1 DEF ComesAfter
        <4> QED BY <4>2, <4>3
      <3> QED BY <3>1
    <2>6. LeadsFrom(t, r, new, dep, 0)
      BY <1>4, <1>6, <2>3, <2>4, <2>5 DEF LeadsFrom
    <2>7. 0 \in 0..Len(t)
      BY <1>1
    <2> HIDE DEF new
    <2>8. Leads(t, r, new, dep)
      BY <2>6, <2>7 DEF Leads
    <2> QED BY <2>8 DEF new, h, t
  <1>7. CASE k # 0
    <2>1. q[k].release = r /\ q[k].kind = "deleted" /\ Since(q, r, dep, k)
          /\ (dep = 0 \/ ComesAfter(q, r, dep, k))
      BY <1>4, <1>7 DEF LeadsFrom
    <2>2. Since(t, r, dep, k - 1)
      <3> SUFFICES ASSUME NEW i \in (k - 1) + 1..Len(t), t[i].release = r
                   PROVE  t[i].kind = "deployed" /\ t[i].revision <= dep
        BY DEF Since
      <3>1. i + 1 \in k + 1..Len(q) /\ t[i] = q[i + 1]
        BY <1>1, <1>7
      <3> QED BY <2>1, <3>1 DEF Since
    <2>3. ComesAfter(q, r, dep, k) => ComesAfter(t, r, dep, k - 1)
      <3>1. ASSUME ComesAfter(q, r, dep, k) PROVE ComesAfter(t, r, dep, k - 1)
        <4>1. PICK i \in k + 1..Len(q) :
                q[i].release = r /\ q[i].kind = "deployed" /\ q[i].revision = dep
          BY <3>1 DEF ComesAfter
        <4>2. i - 1 \in (k - 1) + 1..Len(t) /\ t[i - 1] = q[i]
          BY <1>1, <1>5, <1>7, <4>1
        <4> QED BY <4>1, <4>2 DEF ComesAfter
      <3> QED BY <3>1
    <2>4. k = 1 => new = 0
      BY <1>1, <2>1 DEF Handled
    <2>5. k # 1 => t[k - 1] = q[k]
      BY <1>5, <1>7
    <2>6. k - 1 \in 0..Len(t)
      BY <1>1, <1>7
    <2>7. LeadsFrom(t, r, new, dep, k - 1)
      BY <1>7, <2>1, <2>2, <2>3, <2>4, <2>5 DEF LeadsFrom
    <2> HIDE DEF new
    <2>8. Leads(t, r, new, dep)
      BY <2>6, <2>7 DEF Leads
    <2> QED BY <2>8 DEF new, h, t
  <1> QED BY <1>6, <1>7

\* Once everything is handled, the snapshot has what is deployed.
LEMMA LeadsEnd ==
  ASSUME NEW r, NEW cur \in Nat, NEW dep \in Nat, Leads(<<>>, r, cur, dep)
  PROVE  cur = dep
  <1>1. Len(<<>>) = 0
    OBVIOUS
  <1>2. PICK k \in 0..0 : LeadsFrom(<<>>, r, cur, dep, k)
    BY <1>1, Zenon DEF Leads
  <1>3. k = 0 /\ ~ComesAfter(<<>>, r, dep, k)
    BY <1>1 DEF ComesAfter
  <1> QED BY <1>2, <1>3 DEF LeadsFrom

----------------------------------------------------------------------------
(***************************************************************************)
(* The wire.                                                               *)
(***************************************************************************)
LEMMA WireAppend ==
  ASSUME NEW w \in Seq(Reportable), NEW e \in Reportable
  PROVE  LET v == Append(w, e)
         IN /\ v \in Seq(Reportable) /\ Len(v) = Len(w) + 1 /\ Len(w) \in Nat
            /\ \A r : OnWire(r, v) <=> OnWire(r, w) \/ r \in e
  <1> DEFINE v == Append(w, e)
  <1>1. /\ v \in Seq(Reportable) /\ Len(v) = Len(w) + 1 /\ Len(w) \in Nat
        /\ v[Len(v)] = e /\ \A i \in 1..Len(w) : v[i] = w[i]
    BY AppendProperties
  <1> HIDE DEF v
  <1>2. \A r : OnWire(r, v) <=> OnWire(r, w) \/ r \in e
    BY <1>1 DEF OnWire
  <1> QED BY <1>1, <1>2 DEF v

LEMMA WireTail ==
  ASSUME NEW w \in Seq(Reportable), w # <<>>
  PROVE  /\ Head(w) \in Reportable /\ Tail(w) \in Seq(Reportable)
         /\ Len(w) \in Nat /\ Len(Tail(w)) = Len(w) - 1
         /\ \A r : OnWire(r, w) <=> r \in Head(w) \/ OnWire(r, Tail(w))
  <1> DEFINE h == Head(w)
             t == Tail(w)
  <1>1. /\ h \in Reportable /\ t \in Seq(Reportable) /\ Len(w) \in Nat /\ Len(t) = Len(w) - 1
        /\ h = w[1] /\ Len(w) > 0 /\ \A i \in 1..Len(t) : t[i] = w[i + 1]
    BY HeadTailProperties, EmptySeq
  <1> HIDE DEF h, t
  <1>2. \A i \in 2..Len(w) : i - 1 \in 1..Len(t) /\ t[i - 1] = w[i]
    BY <1>1
  <1>3. ASSUME NEW r PROVE OnWire(r, w) <=> r \in h \/ OnWire(r, t)
    <2>1. ASSUME NEW i \in 1..Len(w), r \in w[i] PROVE r \in h \/ OnWire(r, t)
      <3>1. CASE i = 1
        BY <1>1, <2>1, <3>1
      <3>2. CASE i # 1
        <4>1. i - 1 \in 1..Len(t) /\ t[i - 1] = w[i]
          BY <1>1, <1>2, <3>2
        <4> QED BY <2>1, <4>1 DEF OnWire
      <3> QED BY <3>1, <3>2
    <2>2. ASSUME NEW i \in 1..Len(t), r \in t[i] PROVE OnWire(r, w)
      <3>1. i + 1 \in 1..Len(w) /\ w[i + 1] = t[i]
        BY <1>1
      <3> QED BY <2>2, <3>1 DEF OnWire
    <2>3. r \in h => OnWire(r, w)
      BY <1>1 DEF OnWire
    <2> QED BY <2>1, <2>2, <2>3 DEF OnWire
  <1> QED BY <1>1, <1>3 DEF h, t

\* The pump of an ended session takes the second event.
LEMMA WireSecond ==
  ASSUME NEW w \in Seq(Reportable), Len(w) > 1
  PROVE  LET v == <<Head(w)>> \o Tail(Tail(w))
         IN v \in Seq(Reportable) /\ Len(v) = Len(w) - 1
  <1>1. w # <<>> /\ Head(w) \in Reportable /\ Len(w) \in Nat
        /\ Tail(w) \in Seq(Reportable) /\ Len(Tail(w)) = Len(w) - 1
    BY HeadTailProperties, EmptySeq
  <1>2. Tail(w) # <<>>
    <2>1. Len(Tail(w)) # 0
      BY <1>1
    <2> QED BY <1>1, <2>1, EmptySeq
  <1>3. Tail(Tail(w)) \in Seq(Reportable) /\ Len(Tail(Tail(w))) = Len(w) - 2
    BY <1>1, <1>2, HeadTailProperties
  <1>4. <<Head(w)>> \in Seq(Reportable) /\ Len(<<Head(w)>>) = 1
    BY <1>1
  <1> QED BY <1>1, <1>3, <1>4, ConcatProperties

\* What the steps of the uplink that lose events do to the wire.
LEMMA LossShrinks ==
  ASSUME TypeOK,
         \/ U!Lose \/ U!Break
         \/ \E s \in SessionIds : U!StragglerEnds(s) \/ U!End(s)
  PROVE  wire' \in Seq(Reportable) /\ Len(wire') <= Capacity
  <1>1. wire \in Seq(Reportable) /\ Len(wire) <= Capacity /\ Len(wire) \in Nat
    BY DEF TypeOK
  <1>2. CASE UNCHANGED wire
    BY <1>1, <1>2
  <1>3. CASE wire # <<>> /\ wire' = Tail(wire)
    <2>1. wire' \in Seq(Reportable) /\ Len(wire') = Len(wire) - 1
      BY <1>1, <1>3, WireTail
    <2> QED BY <1>1, <2>1, ScanAssumption
  <1>4. CASE Len(wire) > 1 /\ wire' = <<Head(wire)>> \o Tail(Tail(wire))
    <2>1. wire' \in Seq(Reportable) /\ Len(wire') = Len(wire) - 1
      BY <1>1, <1>4, WireSecond
    <2> QED BY <1>1, <2>1, ScanAssumption
  <1> QED BY <1>2, <1>3, <1>4 DEF U!Lose, U!Break, U!StragglerEnds, U!End, U!Interrupt

----------------------------------------------------------------------------
(***************************************************************************)
(* The invariant is inductive.                                             *)
(***************************************************************************)
LEMMA InitIInv == Init => IInv
  <1> SUFFICES ASSUME Init PROVE IInv
    OBVIOUS
  <1>1. TypeOK
    <2>1. budget \in [Faults -> Nat]
      BY ScanAssumption DEF Init, Bound, Faults
    <2>2. \A n \in Namespaces : pending[n] \in Seq(Notes)
      <3>1. <<>> \in Seq(Notes) /\ pending = [n \in Namespaces |-> <<>>]
        BY DEF Init
      <3> QED BY <3>1
    <2>3. at \in [Reporters -> {"idle", "collect", "compare", "send", "record"}]
      <3>1. at = [x \in Reporters |-> IF x = "run" THEN "collect" ELSE "idle"]
        BY DEF Init
      <3> QED BY <3>1, Zenon
    <2>4. wire \in Seq(Reportable) /\ Len(wire) <= Capacity
      BY ScanAssumption DEF Init, U!UplinkInit
    <2>5. deployed \in [Releases -> 0..MaxRevision] /\ current \in [Releases -> 0..MaxRevision]
      BY ScanAssumption DEF Init
    <2> QED BY <2>1, <2>2, <2>3, <2>4, <2>5 DEF Init, TypeOK, U!UplinkInit, Notes
  <1>2. DOMAIN pending = Namespaces
    BY DEF Init
  <1>3. Follows
    <2> SUFFICES ASSUME NEW r \in Releases PROVE Leads(<<>>, r, 0, 0)
      BY ScanAssumption DEF Init, Follows
    <2>1. Len(<<>>) = 0
      OBVIOUS
    <2>2. LeadsFrom(<<>>, r, 0, 0, 0)
      BY <2>1 DEF LeadsFrom, Since
    <2>3. 0 \in 0..Len(<<>>)
      BY <2>1
    <2> QED BY <2>2, <2>3 DEF Leads
  <1>4. Sent
    BY DEF Init, Sent
  <1>5. Covered
    BY DEF Init, Covered, Snapshot
  <1>6. Homed
    <2>1. \A n \in Namespaces : pending[n] = <<>>
      BY DEF Init
    <2> QED BY <2>1 DEF Homed
  <1> QED BY <1>1, <1>2, <1>3, <1>4, <1>5, <1>6 DEF IInv

LEMMA SpendType ==
  ASSUME TypeOK, NEW k \in Faults, Spend(k)
  PROVE  budget' \in [Faults -> Nat]
  BY DEF TypeOK, Spend

LEMMA NotifyType ==
  ASSUME IInv, NEW r \in Releases, NEW notes \in Seq(Notes), Notify(r, notes)
  PROVE  /\ DOMAIN pending' = Namespaces
         /\ \A n \in Namespaces : pending'[n] \in Seq(Notes)
         /\ pending'[NamespaceOf[r]] = pending[NamespaceOf[r]] \o notes
         /\ \A n \in Namespaces \ {NamespaceOf[r]} : pending'[n] = pending[n]
  <1>1. NamespaceOf[r] \in Namespaces /\ DOMAIN pending = Namespaces
        /\ \A n \in Namespaces : pending[n] \in Seq(Notes)
    BY ScanAssumption DEF IInv, TypeOK, Notes
  <1>2. pending' = [pending EXCEPT ![NamespaceOf[r]] = pending[NamespaceOf[r]] \o notes]
    BY DEF Notify
  <1>3. pending[NamespaceOf[r]] \o notes \in Seq(Notes)
    BY <1>1, ConcatProperties
  <1> QED BY <1>1, <1>2, <1>3

Labels == {"idle", "collect", "compare", "send", "record"}

LEMMA NextTypes == ASSUME IInv, [Next]_vars PROVE TypeOK' /\ DOMAIN pending' = Namespaces
  <1> DEFINE Typed == TypeOK /\ DOMAIN pending = Namespaces
  <1> SUFFICES Typed'
    OBVIOUS
  <1>0. Typed
    BY DEF IInv
  <1>1. ASSUME NEW x \in Reporters, Collect(x) PROVE Typed'
    <2>1. at' \in [Reporters -> Labels]
      BY <1>0, <1>1 DEF Collect, Goto, TypeOK, Labels
    <2>2. addons' \in [Reporters -> SUBSET Releases]
      BY <1>0, <1>1 DEF Collect, Snapshot, TypeOK
    <2> QED BY <1>0, <1>1, <2>1, <2>2 DEF Collect, TypeOK, uplinkVars, scanVars, Labels
  <1>2. ASSUME NEW x \in Reporters, Compare(x) PROVE Typed'
    <2>1. at' \in [Reporters -> Labels]
      BY <1>0, <1>2 DEF Compare, Return, Goto, TypeOK, Labels
    <2>2. addons' \in [Reporters -> SUBSET Releases]
      BY <1>0, <1>2 DEF Compare, Return, TypeOK
    <2> QED BY <1>0, <1>2, <2>1, <2>2 DEF Compare, TypeOK, uplinkVars, scanVars, Labels
  <1>3. ASSUME NEW x \in Reporters, Send(x) PROVE Typed'
    <2>1. at' \in [Reporters -> Labels]
      BY <1>0, <1>3 DEF Send, Goto, TypeOK, Labels
    <2>2. addons[x] \in Reportable
      <3>1. addons[x] # {}
        BY <1>3 DEF Send, IInv, Sent
      <3>2. addons[x] \subseteq Releases
        BY <1>0 DEF TypeOK
      <3> QED BY <3>1, <3>2 DEF Reportable
    <2>3. wire' \in Seq(Reportable) /\ Len(wire') = Len(wire) + 1 /\ Len(wire) \in Nat
      BY <1>0, <1>3, <2>2, WireAppend DEF Send, U!Queue, TypeOK
    <2>4. Len(wire') <= Capacity
      BY <1>3, <2>3, ScanAssumption DEF Send, U!Queue
    <2> QED BY <1>0, <1>3, <2>1, <2>3, <2>4 DEF Send, U!Queue, TypeOK, scanVars, Labels
  <1>4. ASSUME NEW x \in Reporters, Record(x) PROVE Typed'
    <2>1. at' \in [Reporters -> Labels]
      BY <1>0, <1>4 DEF Record, Return, Goto, TypeOK, Labels
    <2>2. addons' \in [Reporters -> SUBSET Releases] /\ lastSum' \subseteq Releases
      BY <1>0, <1>4 DEF Record, Return, Sum, TypeOK
    <2> QED BY <1>0, <1>4, <2>1, <2>2 DEF Record, TypeOK, uplinkVars, scanVars, Labels
  <1>5. ASSUME NEW n \in Namespaces, Notice(n) PROVE Typed'
    <2>0. n \in Reporters /\ pending[n] \in Seq(Notes) /\ pending[n] # <<>>
      BY <1>0, <1>5 DEF Notice, Reporters, TypeOK, Notes
    <2>1. at' \in [Reporters -> Labels]
      BY <1>0, <1>5, <2>0 DEF Notice, Goto, TypeOK, Labels
    <2>2. Head(pending[n]) \in Notes /\ Tail(pending[n]) \in Seq(Notes)
      BY <2>0, HeadTailProperties
    <2>3. Head(pending[n]).revision \in 0..MaxRevision /\ Head(pending[n]).release \in Releases
      BY <2>2, ScanAssumption DEF Notes
    <2>4. current' \in [Releases -> 0..MaxRevision]
      <3> DEFINE note == Head(pending[n])
      <3>1. \/ UNCHANGED current
            \/ current' = [current EXCEPT ![note.release] = note.revision]
            \/ current' = [current EXCEPT ![note.release] = 0]
        BY <1>5 DEF Notice
      <3>2. 0 \in 0..MaxRevision /\ current \in [Releases -> 0..MaxRevision]
        BY <1>0, ScanAssumption DEF TypeOK
      <3> HIDE DEF note
      <3>3. note.revision \in 0..MaxRevision /\ note.release \in Releases
        BY <2>3 DEF note
      <3> QED BY <3>1, <3>2, <3>3
    <2>5. DOMAIN pending' = Namespaces /\ \A m \in Namespaces : pending'[m] \in Seq(Notes)
      <3>1. pending' = [pending EXCEPT ![n] = Tail(pending[n])]
        BY <1>5 DEF Notice
      <3>2. \A m \in Namespaces : pending[m] \in Seq(Notes)
        BY <1>0 DEF TypeOK, Notes
      <3> QED BY <1>0, <2>2, <3>1, <3>2
    <2> QED BY <1>0, <1>5, <2>1, <2>4, <2>5 DEF Notice, TypeOK, uplinkVars, Labels, Notes
  <1>6. ASSUME NEW r \in Releases, Deploy(r) \/ Uninstall(r) \/ UninstallMarked(r) \/ DeployUnwatched(r)
        PROVE  Typed'
    <2>1. budget' \in [Faults -> Nat]
      BY <1>0, <1>6, SpendType DEF Deploy, Uninstall, UninstallMarked, DeployUnwatched, Faults
    <2>3. deployed[r] \in 0..MaxRevision /\ deployed \in [Releases -> 0..MaxRevision]
      BY <1>0 DEF TypeOK
    <2>2. deployed' \in [Releases -> 0..MaxRevision]
      <3>1. CASE Deploy(r) \/ DeployUnwatched(r)
        <4>1. deployed[r] + 1 \in 0..MaxRevision
          BY <2>3, <3>1, ScanAssumption DEF Deploy, DeployUnwatched
        <4>2. deployed' = [deployed EXCEPT ![r] = deployed[r] + 1]
          BY <3>1 DEF Deploy, DeployUnwatched
        <4> QED BY <2>3, <4>1, <4>2
      <3>2. CASE Uninstall(r) \/ UninstallMarked(r)
        <4>1. deployed' = [deployed EXCEPT ![r] = 0] /\ 0 \in 0..MaxRevision
          BY <3>2, ScanAssumption DEF Uninstall, UninstallMarked
        <4> QED BY <2>3, <4>1
      <3> QED BY <1>6, <3>1, <3>2
    <2>4. ASSUME NEW i \in 1..MaxRevision, NEW k \in {"deployed", "deleted"}
          PROVE  Seen(r, i, k) \in Notes /\ <<Seen(r, i, k)>> \in Seq(Notes)
      <3>1. Seen(r, i, k) \in Notes
        BY DEF Seen, Notes
      <3> QED BY <3>1
    <2>5. DOMAIN pending' = Namespaces /\ \A m \in Namespaces : pending'[m] \in Seq(Notes)
      <3>1. CASE Deploy(r)
        <4>1. deployed[r] + 1 \in 1..MaxRevision
          BY <2>3, <3>1, ScanAssumption DEF Deploy
        <4>2. CASE Notify(r, <<Seen(r, deployed[r] + 1, "deployed")>>)
          BY <2>4, <4>1, <4>2, NotifyType
        <4>3. CASE deployed[r] # 0 /\ Notify(r, <<Seen(r, deployed[r] + 1, "deployed"),
                                                  Seen(r, deployed[r], "deployed")>>)
          <5>1. deployed[r] \in 1..MaxRevision
            BY <2>3, <4>3, ScanAssumption
          <5>2. <<Seen(r, deployed[r] + 1, "deployed"), Seen(r, deployed[r], "deployed")>> \in Seq(Notes)
            BY <2>4, <4>1, <5>1
          <5> QED BY <4>3, <5>2, NotifyType
        <4> QED BY <3>1, <4>2, <4>3 DEF Deploy
      <3>2. CASE Uninstall(r)
        <4>1. deployed[r] \in 1..MaxRevision
          BY <2>3, <3>2, ScanAssumption DEF Uninstall
        <4> QED BY <2>4, <3>2, <4>1, NotifyType DEF Uninstall
      <3>3. CASE UninstallMarked(r)
        BY <1>0, <3>3 DEF UninstallMarked, TypeOK, Notes
      <3>4. CASE DeployUnwatched(r)
        <4>1. deployed[r] \in 1..MaxRevision /\ deployed[r] + 1 \in 1..MaxRevision
          BY <2>3, <3>4, ScanAssumption DEF DeployUnwatched
        <4>2. <<Seen(r, deployed[r] + 1, "deployed"), Seen(r, deployed[r], "deleted")>> \in Seq(Notes)
          BY <2>4, <4>1
        <4> QED BY <3>4, <4>2, NotifyType DEF DeployUnwatched
      <3> QED BY <1>6, <3>1, <3>2, <3>3, <3>4
    <2>6. /\ UNCHANGED <<link, wire, stragglers, gateway, current, lastSum, at, addons, unsure>>
          /\ missed' \subseteq missed \cup {r}
      BY <1>6 DEF Deploy, Uninstall, UninstallMarked, DeployUnwatched, uplinkVars, reportVars
    <2> QED BY <1>0, <2>1, <2>2, <2>5, <2>6 DEF TypeOK, Notes
  <1>7. CASE Reconnect
    <2>1. at' \in [Reporters -> Labels]
      BY <1>0, <1>7 DEF Reconnect, Goto, TypeOK, Labels
    <2> QED BY <1>0, <1>7, <2>1 DEF Reconnect, U!Open, TypeOK, scanVars, Labels
  <1>8. CASE Start
    BY <1>0, <1>8, SpendType DEF Start, U!Start, TypeOK, scanVars, reportVars, Faults
  <1>9. CASE Deliver
    <2>1. wire \in Seq(Reportable) /\ Len(wire) <= Capacity /\ wire # <<>> /\ wire' = Tail(wire)
      BY <1>0, <1>9 DEF Deliver, U!Deliver, TypeOK
    <2>2. wire' \in Seq(Reportable) /\ Len(wire') <= Capacity /\ Head(wire) \in Reportable
      <3>1. wire' \in Seq(Reportable) /\ Len(wire') = Len(wire) - 1 /\ Len(wire) \in Nat
            /\ Head(wire) \in Reportable
        BY <2>1, WireTail
      <3> QED BY <2>1, <3>1, ScanAssumption
    <2>3. gateway' \subseteq Releases
      BY <1>0, <1>9, <2>2 DEF Deliver, U!Deliver, Learn, Reportable, TypeOK
    <2> QED BY <1>0, <1>9, <2>2, <2>3 DEF Deliver, U!Deliver, TypeOK, scanVars, reportVars
  <1>10. CASE Lose \/ Break \/ End
    <2>1. wire' \in Seq(Reportable) /\ Len(wire') <= Capacity
      BY <1>0, <1>10, LossShrinks DEF Lose, Break, End
    <2>2. budget' \in [Faults -> Nat]
      BY <1>0, <1>10, SpendType DEF Lose, Break, End, TypeOK, Faults
    <2>3. link' \in {"down", "opening", "up", "broken"} /\ stragglers' \subseteq SessionIds
          /\ UNCHANGED gateway
      BY <1>0, <1>10
         DEF Lose, Break, End, U!Lose, U!Break, U!StragglerEnds, U!End, TypeOK
    <2>4. unsure' \subseteq Releases
      BY <1>0, <1>10 DEF Lose, Break, End, LostNow, TypeOK
    <2> QED BY <1>0, <1>10, <2>1, <2>2, <2>3, <2>4
            DEF Lose, Break, End, TypeOK, scanVars, reportVars
  <1>11. CASE Restart
    BY <1>0, <1>11, SpendType DEF Restart, TypeOK, scanVars, reportVars, Faults
  <1>12. CASE UNCHANGED vars
    BY <1>0, <1>12 DEF vars, uplinkVars, scanVars, reportVars, TypeOK
  <1> QED BY <1>1, <1>2, <1>3, <1>4, <1>5, <1>6, <1>7, <1>8, <1>9, <1>10, <1>11, <1>12
          DEF Next, Reporter

----------------------------------------------------------------------------
(***************************************************************************)
(* The snapshot and helm.                                                  *)
(***************************************************************************)
\* What a namespace is notified of about r leaves the other releases alone.
LEMMA NotifyFollows ==
  ASSUME IInv, NEW r \in Releases, NEW notes \in Seq(Notes), Notify(r, notes),
         \A j \in 1..Len(notes) : notes[j].release = r,
         UNCHANGED current, missed \subseteq missed',
         \A q \in Releases \ {r} : deployed'[q] = deployed[q],
         r \notin missed' => Leads(pending[NamespaceOf[r]] \o notes, r, current[r], deployed'[r])
  PROVE  Follows'
  <1> SUFFICES ASSUME NEW q \in Releases, q \notin missed'
               PROVE  Leads(pending'[NamespaceOf[q]], q, current[q], deployed'[q])
    BY DEF Follows
  <1>1. /\ Leads(pending[NamespaceOf[q]], q, current[q], deployed[q])
        /\ NamespaceOf[q] \in Namespaces /\ NamespaceOf[r] \in Namespaces
        /\ pending[NamespaceOf[r]] \in Seq(Notes)
        /\ current[q] \in Nat /\ deployed[q] \in Nat
    <2>1. Leads(pending[NamespaceOf[q]], q, current[q], deployed[q])
      BY DEF IInv, Follows
    <2>2. NamespaceOf[q] \in Namespaces /\ NamespaceOf[r] \in Namespaces
      BY ScanAssumption
    <2>3. pending[NamespaceOf[r]] \in Seq(Notes)
      BY <2>2 DEF IInv, TypeOK, Notes
    <2>4. current[q] \in Nat /\ deployed[q] \in Nat
      BY ScanAssumption DEF IInv, TypeOK
    <2> QED BY <2>1, <2>2, <2>3, <2>4
  <1>2. CASE q = r
    BY <1>2, NotifyType
  <1>3. CASE q # r /\ NamespaceOf[q] = NamespaceOf[r]
    <2>1. Leads(pending[NamespaceOf[r]], q, current[q], deployed[q])
          /\ \A j \in 1..Len(notes) : notes[j].release # q
      BY <1>1, <1>3
    <2>2. Leads(pending[NamespaceOf[r]] \o notes, q, current[q], deployed[q])
      BY <1>1, <2>1, LeadsOther
    <2>3. pending'[NamespaceOf[q]] = pending[NamespaceOf[r]] \o notes /\ deployed'[q] = deployed[q]
      <3>1. pending'[NamespaceOf[r]] = pending[NamespaceOf[r]] \o notes
        BY NotifyType
      <3> QED BY <1>3, <3>1
    <2> QED BY <2>2, <2>3
  <1>4. CASE NamespaceOf[q] # NamespaceOf[r]
    <2>1. pending'[NamespaceOf[q]] = pending[NamespaceOf[q]] /\ deployed'[q] = deployed[q]
      BY <1>1, <1>4, NotifyType
    <2> QED BY <1>1, <2>1
  <1> QED BY <1>2, <1>3, <1>4

LEMMA NotifyHomed ==
  ASSUME IInv, NEW r \in Releases, NEW notes \in Seq(Notes), Notify(r, notes),
         \A j \in 1..Len(notes) : notes[j].release = r
  PROVE  Homed'
  <1> DEFINE q == pending[NamespaceOf[r]]
             v == q \o notes
  <1>1. q \in Seq(Notes) /\ NamespaceOf[r] \in Namespaces
    BY ScanAssumption DEF IInv, TypeOK, Notes
  <1>2. /\ Len(v) = Len(q) + Len(notes) /\ Len(q) \in Nat /\ Len(notes) \in Nat
        /\ \A i \in 1..Len(q) : v[i] = q[i]
        /\ \A i \in Len(q) + 1..Len(v) : v[i].release = r
    BY <1>1, Concatenated
  <1>3. pending'[NamespaceOf[r]] = v /\ \A n \in Namespaces \ {NamespaceOf[r]} : pending'[n] = pending[n]
    BY NotifyType
  <1>4. \A i \in 1..Len(q) : NamespaceOf[q[i].release] = NamespaceOf[r]
    BY <1>1 DEF IInv, Homed
  <1> HIDE DEF q, v
  <1>5. \A i \in 1..Len(v) : NamespaceOf[v[i].release] = NamespaceOf[r]
    BY <1>2, <1>4
  <1>6. ASSUME NEW n \in Namespaces, n # NamespaceOf[r]
        PROVE  \A i \in 1..Len(pending'[n]) : NamespaceOf[pending'[n][i].release] = n
    BY <1>3, <1>6 DEF IInv, Homed
  <1>7. ASSUME NEW n \in Namespaces
        PROVE  \A i \in 1..Len(pending'[n]) : NamespaceOf[pending'[n][i].release] = n
    BY <1>3, <1>5, <1>6
  <1> QED BY <1>7 DEF Homed

LEMMA DeployFollows == ASSUME IInv, NEW r \in Releases, Deploy(r) PROVE Follows'
  <1> DEFINE dep == deployed[r]
             q == pending[NamespaceOf[r]]
             new == Seen(r, dep + 1, "deployed")
             old == Seen(r, dep, "deployed")
  <1>1. dep \in Nat /\ dep + 1 \in 1..MaxRevision /\ deployed' = [deployed EXCEPT ![r] = dep + 1]
        /\ UNCHANGED <<current, missed>> /\ current[r] \in Nat /\ MaxRevision \in Nat
    BY ScanAssumption DEF Deploy, IInv, TypeOK
  <1>2. deployed'[r] = dep + 1 /\ \A p \in Releases \ {r} : deployed'[p] = deployed[p]
    BY <1>1 DEF IInv, TypeOK
  <1>3. q \in Seq(Notes) /\ (r \notin missed => Leads(q, r, current[r], dep))
    BY ScanAssumption DEF IInv, Follows, TypeOK, Notes
  <1>4. new \in Notes /\ new.release = r /\ new.kind = "deployed" /\ new.revision = dep + 1
    BY <1>1 DEF Seen, Notes
  <1>5. dep # 0 => old \in Notes /\ old.release = r /\ old.kind = "deployed" /\ old.revision = dep
    <2>1. dep # 0 => dep \in 1..MaxRevision
      BY <1>1
    <2> QED BY <2>1 DEF Seen, Notes
  <1> HIDE DEF dep, q, new, old
  <1>6. CASE Notify(r, <<new>>)
    <2> DEFINE notes == <<new>>
    <2>1. notes \in Seq(Notes) /\ Len(notes) = 1 /\ notes[1] = new
      BY <1>4
    <2> HIDE DEF notes
    <2>2. \A j \in 1..Len(notes) : notes[j] = new
      BY <2>1
    <2>3. /\ \A j \in 1..Len(notes) : notes[j].release = r
          /\ \A j \in 1..Len(notes) : notes[j].kind = "deployed" /\ notes[j].revision <= dep + 1
      BY <1>1, <1>4, <2>2
    <2>4. r \notin missed => Leads(q \o notes, r, current[r], dep + 1)
      <3>1. Len(notes) > 0 /\ notes[1].release = r /\ notes[1].kind = "deployed"
            /\ notes[1].revision = dep + 1
        BY <1>4, <2>1
      <3> QED BY <1>1, <1>3, <2>1, <2>3, <3>1, LeadsDeploy
    <2>5. Notify(r, notes)
      BY <1>6 DEF notes
    <2> QED BY <1>1, <1>2, <2>1, <2>3, <2>4, <2>5, NotifyFollows DEF q
  <1>7. CASE dep # 0 /\ Notify(r, <<new, old>>)
    <2> DEFINE notes == <<new, old>>
    <2>1. notes \in Seq(Notes) /\ Len(notes) = 2 /\ notes[1] = new /\ notes[2] = old
      BY <1>4, <1>5, <1>7
    <2> HIDE DEF notes
    <2>2. \A j \in 1..Len(notes) : notes[j] \in {new, old}
      BY <2>1
    <2>3. /\ \A j \in 1..Len(notes) : notes[j].release = r
          /\ \A j \in 1..Len(notes) : notes[j].kind = "deployed" /\ notes[j].revision <= dep + 1
      <3>1. ASSUME NEW x \in {new, old}
            PROVE  x.release = r /\ x.kind = "deployed" /\ x.revision <= dep + 1
        BY <1>1, <1>4, <1>5, <1>7
      <3> QED BY <2>2, <3>1
    <2>4. r \notin missed => Leads(q \o notes, r, current[r], dep + 1)
      <3>1. Len(notes) > 0 /\ notes[1].release = r /\ notes[1].kind = "deployed"
            /\ notes[1].revision = dep + 1
        BY <1>4, <2>1
      <3> QED BY <1>1, <1>3, <2>1, <2>3, <3>1, LeadsDeploy
    <2>5. Notify(r, notes)
      BY <1>7 DEF notes
    <2> QED BY <1>1, <1>2, <2>1, <2>3, <2>4, <2>5, NotifyFollows DEF q
  <1> QED BY <1>6, <1>7 DEF Deploy, dep, new, old

LEMMA UninstallFollows == ASSUME IInv, NEW r \in Releases, Uninstall(r) PROVE Follows'
  <1> DEFINE q == pending[NamespaceOf[r]]
             note == Seen(r, deployed[r], "deleted")
             notes == <<note>>
  <1>1. deployed[r] \in 1..MaxRevision /\ deployed' = [deployed EXCEPT ![r] = 0]
        /\ UNCHANGED <<current, missed>> /\ Notify(r, notes)
    BY ScanAssumption DEF Uninstall, IInv, TypeOK
  <1>2. deployed'[r] = 0 /\ \A p \in Releases \ {r} : deployed'[p] = deployed[p]
    BY <1>1 DEF IInv, TypeOK
  <1>3. q \in Seq(Notes)
    BY ScanAssumption DEF IInv, TypeOK, Notes
  <1>4. note \in Notes /\ note.release = r /\ note.kind = "deleted"
    BY <1>1 DEF Seen, Notes
  <1> HIDE DEF note, q
  <1>5. notes \in Seq(Notes) /\ Len(notes) = 1 /\ notes[1] = note
    BY <1>4
  <1>6. Leads(q \o notes, r, current[r], 0)
    BY <1>3, <1>4, LeadsDelete
  <1> HIDE DEF notes
  <1>7. \A j \in 1..Len(notes) : notes[j].release = r
    BY <1>4, <1>5
  <1> QED BY <1>1, <1>2, <1>5, <1>6, <1>7, NotifyFollows DEF q

LEMMA DeployUnwatchedFollows == ASSUME IInv, NEW r \in Releases, DeployUnwatched(r) PROVE Follows'
  <1> DEFINE new == Seen(r, deployed[r] + 1, "deployed")
             old == Seen(r, deployed[r], "deleted")
             notes == <<new, old>>
  <1>1. /\ deployed[r] \in 1..MaxRevision /\ deployed[r] + 1 \in 1..MaxRevision
        /\ deployed' = [deployed EXCEPT ![r] = deployed[r] + 1]
        /\ UNCHANGED current /\ missed' = missed \cup {r} /\ Notify(r, notes)
    BY ScanAssumption DEF DeployUnwatched, IInv, TypeOK
  <1>2. \A p \in Releases \ {r} : deployed'[p] = deployed[p]
    BY <1>1 DEF IInv, TypeOK
  <1>3. new \in Notes /\ new.release = r /\ old \in Notes /\ old.release = r
    BY <1>1 DEF Seen, Notes
  <1> HIDE DEF new, old
  <1>4. notes \in Seq(Notes) /\ Len(notes) = 2 /\ notes[1] = new /\ notes[2] = old
    BY <1>3
  <1> HIDE DEF notes
  <1>5. \A j \in 1..Len(notes) : notes[j].release = r
    BY <1>3, <1>4
  <1> QED BY <1>1, <1>2, <1>4, <1>5, NotifyFollows

LEMMA NoticeFollows == ASSUME IInv, NEW n \in Namespaces, Notice(n) PROVE Follows'
  <1> DEFINE note == Head(pending[n])
  <1>1. /\ pending[n] \in Seq(Notes) /\ pending[n] # <<>> /\ DOMAIN pending = Namespaces
        /\ pending' = [pending EXCEPT ![n] = Tail(pending[n])] /\ UNCHANGED <<deployed, missed>>
        /\ current \in [Releases -> 0..MaxRevision] /\ deployed \in [Releases -> 0..MaxRevision]
    BY DEF Notice, IInv, TypeOK, Notes
  <1>2. note \in Notes
    BY <1>1, HeadTailProperties
  <1>3. note.release \in Releases /\ note.revision \in Nat /\ note.kind \in {"deployed", "deleted"}
    BY <1>2, ScanAssumption DEF Notes
  <1>4. \/ /\ note.kind = "deployed" /\ note.revision > current[note.release]
           /\ current' = [current EXCEPT ![note.release] = note.revision]
        \/ /\ note.kind = "deployed" /\ ~(note.revision > current[note.release])
           /\ UNCHANGED current
        \/ /\ note.kind = "deleted"
           /\ current' = [current EXCEPT ![note.release] = 0]
    BY DEF Notice, Newer
  <1> HIDE DEF note
  <1>5. \A r \in Releases : current'[r] = Handled(note, r, current[r])
    BY <1>1, <1>3, <1>4 DEF Handled
  <1>6. \A r \in Releases : r # note.release => current'[r] = current[r]
    BY <1>5 DEF Handled
  <1>7. SUFFICES ASSUME NEW r \in Releases \ missed
                 PROVE  Leads(pending'[NamespaceOf[r]], r, current'[r], deployed[r])
    BY <1>1 DEF Follows
  <1>8. /\ Leads(pending[NamespaceOf[r]], r, current[r], deployed[r])
        /\ NamespaceOf[r] \in Namespaces /\ current[r] \in Nat /\ deployed[r] \in Nat
    BY <1>1, ScanAssumption DEF IInv, Follows
  <1>9. CASE NamespaceOf[r] = n
    <2>1. Leads(Tail(pending[n]), r, Handled(note, r, current[r]), deployed[r])
      BY <1>1, <1>8, <1>9, LeadsTail DEF note
    <2>2. pending'[NamespaceOf[r]] = Tail(pending[n])
      BY <1>1, <1>9
    <2> QED BY <1>5, <2>1, <2>2
  <1>10. CASE NamespaceOf[r] # n
    <2>1. pending'[NamespaceOf[r]] = pending[NamespaceOf[r]]
      BY <1>1, <1>8, <1>10
    <2>2. NamespaceOf[note.release] = n
      <3>1. Len(pending[n]) \in Nat \ {0} /\ note = pending[n][1]
        BY <1>1, HeadTailProperties, EmptySeq DEF note
      <3> QED BY <3>1 DEF IInv, Homed
    <2> QED BY <1>6, <1>8, <1>10, <2>1, <2>2
  <1> QED BY <1>9, <1>10

LEMMA NextFollows == ASSUME IInv, [Next]_vars PROVE Follows'
  <1>1. CASE UNCHANGED scanVars
    BY <1>1 DEF IInv, Follows, scanVars
  <1>2. ASSUME NEW r \in Releases, UninstallMarked(r) PROVE Follows'
    <2>1. UNCHANGED <<pending, current>> /\ missed' = missed \cup {r}
          /\ deployed' = [deployed EXCEPT ![r] = 0]
      BY <1>2 DEF UninstallMarked
    <2>2. \A q \in Releases \ missed' : deployed'[q] = deployed[q]
      BY <2>1 DEF IInv, TypeOK
    <2> QED BY <2>1, <2>2 DEF IInv, Follows
  <1> QED BY <1>1, <1>2, DeployFollows, UninstallFollows, DeployUnwatchedFollows, NoticeFollows
          DEF Next, Reporter, Collect, Compare, Send, Record, Reconnect, Start, Deliver, Lose,
              Break, End, Restart, vars

LEMMA NextHomed == ASSUME IInv, [Next]_vars PROVE Homed'
  <1>1. CASE UNCHANGED pending
    BY <1>1 DEF IInv, Homed
  <1>2. ASSUME NEW n \in Namespaces, Notice(n) PROVE Homed'
    <2>1. /\ pending[n] \in Seq(Notes) /\ pending[n] # <<>> /\ DOMAIN pending = Namespaces
          /\ pending' = [pending EXCEPT ![n] = Tail(pending[n])]
      BY <1>2 DEF Notice, IInv, TypeOK, Notes
    <2>2. Len(Tail(pending[n])) = Len(pending[n]) - 1 /\ Len(pending[n]) \in Nat
          /\ \A i \in 1..Len(Tail(pending[n])) : Tail(pending[n])[i] = pending[n][i + 1]
      BY <2>1, HeadTailProperties
    <2>3. \A i \in 1..Len(Tail(pending[n])) : NamespaceOf[Tail(pending[n])[i].release] = n
      <3>1. \A i \in 1..Len(Tail(pending[n])) : i + 1 \in 1..Len(pending[n])
        BY <2>2
      <3> QED BY <2>2, <3>1 DEF IInv, Homed
    <2>4. ASSUME NEW m \in Namespaces, m # n PROVE pending'[m] = pending[m]
      BY <2>1, <2>4
    <2>5. pending'[n] = Tail(pending[n])
      BY <2>1
    <2>6. ASSUME NEW m \in Namespaces
          PROVE  \A i \in 1..Len(pending'[m]) : NamespaceOf[pending'[m][i].release] = m
      <3>1. CASE m = n
        BY <2>3, <2>5, <3>1
      <3>2. CASE m # n
        BY <2>4, <3>2 DEF IInv, Homed
      <3> QED BY <3>1, <3>2
    <2> QED BY <2>6 DEF Homed
  <1>3. ASSUME NEW r \in Releases, Deploy(r) \/ Uninstall(r) \/ DeployUnwatched(r)
        PROVE  Homed'
    <2> DEFINE dep == deployed[r]
               new == Seen(r, dep + 1, "deployed")
               old == Seen(r, dep, "deployed")
               gone == Seen(r, dep, "deleted")
    <2>1. dep \in 0..MaxRevision /\ MaxRevision \in Nat
      BY ScanAssumption DEF IInv, TypeOK
    <2>2. dep + 1 \in 1..MaxRevision => new \in Notes /\ new.release = r
      BY DEF Seen, Notes
    <2>3. dep \in 1..MaxRevision => /\ old \in Notes /\ old.release = r
                                    /\ gone \in Notes /\ gone.release = r
      BY DEF Seen, Notes
    <2>4. \/ dep + 1 \in 1..MaxRevision /\ Notify(r, <<new>>)
          \/ dep + 1 \in 1..MaxRevision /\ dep \in 1..MaxRevision /\ Notify(r, <<new, old>>)
          \/ dep \in 1..MaxRevision /\ Notify(r, <<gone>>)
          \/ dep + 1 \in 1..MaxRevision /\ dep \in 1..MaxRevision /\ Notify(r, <<new, gone>>)
      BY <1>3, <2>1 DEF Deploy, Uninstall, DeployUnwatched
    <2> HIDE DEF dep, new, old, gone
    <2>5. ASSUME NEW a \in Notes, a.release = r, Notify(r, <<a>>) PROVE Homed'
      <3> DEFINE notes == <<a>>
      <3>1. notes \in Seq(Notes) /\ Len(notes) = 1 /\ notes[1] = a /\ Notify(r, notes)
        BY <2>5
      <3> HIDE DEF notes
      <3>2. \A j \in 1..Len(notes) : notes[j].release = r
        BY <2>5, <3>1
      <3> QED BY <3>1, <3>2, NotifyHomed
    <2>6. ASSUME NEW a \in Notes, NEW b \in Notes, a.release = r, b.release = r, Notify(r, <<a, b>>)
          PROVE  Homed'
      <3> DEFINE notes == <<a, b>>
      <3>1. notes \in Seq(Notes) /\ Len(notes) = 2 /\ notes[1] = a /\ notes[2] = b /\ Notify(r, notes)
        BY <2>6
      <3> HIDE DEF notes
      <3>2. \A j \in 1..Len(notes) : notes[j].release = r
        BY <2>6, <3>1
      <3> QED BY <3>1, <3>2, NotifyHomed
    <2> QED BY <2>2, <2>3, <2>4, <2>5, <2>6
  <1> QED BY <1>1, <1>2, <1>3
          DEF Next, Reporter, Collect, Compare, Send, Record, UninstallMarked, Reconnect, Start,
              Deliver, Lose, Break, End, Restart, vars, scanVars

----------------------------------------------------------------------------
(***************************************************************************)
(* The reports.                                                            *)
(***************************************************************************)
LEMMA LossTold ==
  ASSUME UNCHANGED gateway, unsure' = unsure \cup LostNow PROVE Told \subseteq Told'
  BY DEF Told, LostNow

\* What has been sent never shrinks.
LEMMA NextTold == ASSUME IInv, [Next]_vars PROVE Told \subseteq Told'
  <1>1. wire \in Seq(Reportable)
    BY DEF IInv, TypeOK
  <1>2. CASE UNCHANGED <<gateway, unsure, wire>>
    BY <1>2 DEF Told
  <1>3. ASSUME NEW x \in Reporters, Send(x) PROVE Told \subseteq Told'
    <2>1. addons[x] \in Reportable
      <3>1. addons[x] # {}
        BY <1>3 DEF Send, IInv, Sent
      <3>2. addons[x] \subseteq Releases
        BY DEF IInv, TypeOK
      <3> QED BY <3>1, <3>2 DEF Reportable
    <2>2. \A r : OnWire(r, wire') <=> OnWire(r, wire) \/ r \in addons[x]
      BY <1>1, <1>3, <2>1, WireAppend DEF Send, U!Queue
    <2>3. unsure' = unsure \ addons[x] /\ UNCHANGED gateway
      BY <1>3 DEF Send, U!Queue
    <2> QED BY <2>1, <2>2, <2>3 DEF Told, Reportable
  <1>4. CASE Deliver
    <2>1. wire # <<>> /\ wire' = Tail(wire) /\ gateway' = gateway \cup Head(wire) /\ UNCHANGED unsure
      BY <1>4 DEF Deliver, U!Deliver, Learn
    <2>2. \A r : OnWire(r, wire) <=> r \in Head(wire) \/ OnWire(r, wire')
      BY <1>1, <2>1, WireTail
    <2> QED BY <2>1, <2>2 DEF Told
  <1>5. CASE Lose \/ Break
    <2>1. UNCHANGED gateway /\ unsure' = unsure \cup LostNow
      BY <1>5 DEF Lose, Break, U!Lose, U!Break, U!StragglerEnds, U!End
    <2> QED BY <2>1, LossTold
  <1>6. CASE Restart
    <2>1. UNCHANGED wire /\ unsure' = unsure \cup {r \in gateway : ~OnWire(r, wire)}
          /\ gateway \subseteq Releases
      BY <1>6 DEF Restart, IInv, TypeOK
    <2> QED BY <2>1 DEF Told
  <1>7. CASE End
    BY <1>2, <1>7 DEF End, U!End, U!Interrupt
  <1> QED BY <1>2, <1>3, <1>4, <1>5, <1>6, <1>7
          DEF Next, Reporter, Collect, Compare, Record, Notice, Deploy, Uninstall, UninstallMarked,
              DeployUnwatched, Reconnect, Start, U!Open, U!Start, vars, uplinkVars

LEMMA NextSent == ASSUME IInv, [Next]_vars PROVE Sent'
  <1>0. Told \subseteq Told' /\ Sent /\ at \in [Reporters -> Labels]
        /\ addons \in [Reporters -> SUBSET Releases]
    BY NextTold DEF IInv, TypeOK, Labels
  <1>1. CASE UNCHANGED <<lastSum, at, addons>>
    BY <1>0, <1>1 DEF Sent
  <1>2. ASSUME NEW x \in Reporters, Collect(x) PROVE Sent'
    BY <1>0, <1>2 DEF Collect, Goto, Sent
  <1>3. ASSUME NEW x \in Reporters, Compare(x) PROVE Sent'
    BY <1>0, <1>3 DEF Compare, Return, Goto, Sent
  <1>4. ASSUME NEW x \in Reporters, Send(x) PROVE Sent'
    <2>1. addons[x] \subseteq Told'
      <3>1. addons[x] # {} /\ addons[x] \subseteq Releases
        BY <1>0, <1>4 DEF Send, Sent
      <3>2. addons[x] \in Reportable
        BY <3>1 DEF Reportable
      <3>3. \A r \in addons[x] : OnWire(r, wire')
        BY <1>4, <3>2, WireAppend DEF Send, U!Queue, IInv, TypeOK
      <3> QED BY <3>1, <3>3 DEF Told
    <2>2. /\ lastSum' = lastSum /\ addons' = addons
          /\ at' = [at EXCEPT ![x] = "record"]
      BY <1>4 DEF Send, Goto
    <2> QED BY <1>0, <2>1, <2>2 DEF Sent
  <1>5. ASSUME NEW x \in Reporters, Record(x) PROVE Sent'
    <2>1. /\ lastSum' = addons[x] /\ at[x] = "record" /\ at' = [at EXCEPT ![x] = "idle"]
          /\ addons' = [addons EXCEPT ![x] = {}]
      BY <1>5 DEF Record, Return, Goto, Sum
    <2>2. lastSum' \subseteq Told'
      BY <1>0, <2>1 DEF Sent
    <2> QED BY <1>0, <2>1, <2>2 DEF Sent
  <1>6. ASSUME NEW n \in Namespaces, Notice(n) PROVE Sent'
    <2>1. UNCHANGED <<lastSum, addons>> /\ (UNCHANGED at \/ at' = [at EXCEPT ![n] = "collect"])
      BY <1>6 DEF Notice, Goto
    <2>2. n \in Reporters
      BY DEF Reporters
    <2> QED BY <1>0, <2>1, <2>2 DEF Sent
  <1>7. CASE Reconnect
    BY <1>0, <1>7 DEF Reconnect, Goto, Sent
  <1> QED BY <1>1, <1>2, <1>3, <1>4, <1>5, <1>6, <1>7
          DEF Next, Reporter, Deploy, Uninstall, UninstallMarked, DeployUnwatched, Start, Deliver,
              Lose, Break, End, Restart, vars, reportVars

LEMMA NextCovered == ASSUME IInv, [Next]_vars PROVE Covered'
  <1>0. Told \subseteq Told' /\ at \in [Reporters -> Labels]
        /\ addons \in [Reporters -> SUBSET Releases] /\ current \in [Releases -> 0..MaxRevision]
    BY NextTold DEF IInv, TypeOK, Labels
  <1>1. \A r \in Snapshot : r \in Told' \/ Underway(r)
    BY <1>0 DEF IInv, Covered
  <1>2. CASE UNCHANGED <<current, at, addons>>
    BY <1>1, <1>2 DEF Covered, Snapshot, Underway
  <1>3. ASSUME \E x \in Reporters : at'[x] = "collect" PROVE Covered'
    BY <1>3 DEF Covered, Underway
  <1>4. ASSUME NEW x \in Reporters, Collect(x) PROVE Covered'
    <2>1. /\ addons' = [addons EXCEPT ![x] = Snapshot] /\ Snapshot' = Snapshot
          /\ at' = [at EXCEPT ![x] = IF Snapshot = {} THEN "idle" ELSE "compare"]
      BY <1>4 DEF Collect, Goto, Snapshot, scanVars
    <2> SUFFICES ASSUME NEW r \in Snapshot PROVE Underway(r)'
      BY <2>1 DEF Covered
    <2>2. at'[x] = "compare" /\ addons'[x] = Snapshot
      BY <1>0, <2>1
    <2> QED BY <2>2 DEF Underway
  <1>5. ASSUME NEW x \in Reporters, Compare(x) PROVE Covered'
    <2>1. Snapshot' = Snapshot /\ at[x] = "compare"
      BY <1>5 DEF Compare, Snapshot, scanVars
    <2> SUFFICES ASSUME NEW r \in Snapshot, r \notin Told' PROVE Underway(r)'
      BY <2>1 DEF Covered
    <2>2. PICK y \in Reporters : \/ at[y] = "collect"
                                 \/ at[y] \in {"compare", "send"} /\ r \in addons[y]
      BY <1>1 DEF Underway
    <2>3. CASE y # x
      <3>1. at'[y] = at[y] /\ addons'[y] = addons[y]
        BY <1>0, <1>5, <2>3 DEF Compare, Return, Goto
      <3> QED BY <2>2, <3>1 DEF Underway
    <2>4. CASE y = x
      <3>1. r \in addons[x]
        BY <2>1, <2>2, <2>4
      <3>2. addons[x] # lastSum
        BY <1>0, <3>1 DEF IInv, Sent
      <3>3. at'[x] = "send" /\ addons'[x] = addons[x]
        BY <1>0, <1>5, <3>2 DEF Compare, Goto
      <3> QED BY <3>1, <3>3 DEF Underway
    <2> QED BY <2>3, <2>4
  <1>6. ASSUME NEW x \in Reporters, Send(x) PROVE Covered'
    <2>1. Snapshot' = Snapshot /\ at[x] = "send" /\ addons' = addons
          /\ at' = [at EXCEPT ![x] = "record"]
      BY <1>6 DEF Send, Goto, Snapshot, scanVars
    <2>2. addons[x] \subseteq Told'
      <3>1. addons'[x] \subseteq Told'
        BY <1>0, <2>1, NextSent DEF Sent
      <3> QED BY <2>1, <3>1
    <2> SUFFICES ASSUME NEW r \in Snapshot, r \notin Told' PROVE Underway(r)'
      BY <2>1 DEF Covered
    <2>3. PICK y \in Reporters : \/ at[y] = "collect"
                                 \/ at[y] \in {"compare", "send"} /\ r \in addons[y]
      BY <1>1 DEF Underway
    <2>4. y # x
      BY <2>1, <2>2, <2>3
    <2>5. at'[y] = at[y] /\ addons'[y] = addons[y]
      BY <1>0, <2>1, <2>4
    <2> QED BY <2>3, <2>5 DEF Underway
  <1>7. ASSUME NEW x \in Reporters, Record(x) PROVE Covered'
    <2>1. Snapshot' = Snapshot /\ at[x] = "record"
      BY <1>7 DEF Record, Snapshot, scanVars
    <2> SUFFICES ASSUME NEW r \in Snapshot, r \notin Told' PROVE Underway(r)'
      BY <2>1 DEF Covered
    <2>2. PICK y \in Reporters : \/ at[y] = "collect"
                                 \/ at[y] \in {"compare", "send"} /\ r \in addons[y]
      BY <1>1 DEF Underway
    <2>3. y # x
      BY <2>1, <2>2
    <2>4. at'[y] = at[y] /\ addons'[y] = addons[y]
      BY <1>0, <1>7, <2>3 DEF Record, Return, Goto
    <2> QED BY <2>2, <2>4 DEF Underway
  <1>8. ASSUME NEW n \in Namespaces, Notice(n) PROVE Covered'
    <2>1. n \in Reporters
      BY DEF Reporters
    <2>2. CASE at' = [at EXCEPT ![n] = "collect"]
      BY <1>0, <1>3, <2>1, <2>2
    <2>3. CASE UNCHANGED <<current, at>>
      BY <1>2, <1>8, <2>3 DEF Notice
    <2>4. ASSUME NEW r, current' = [current EXCEPT ![r] = 0], UNCHANGED at PROVE Covered'
      <3>1. Snapshot' \subseteq Snapshot /\ UNCHANGED addons
        BY <1>0, <1>8, <2>4 DEF Notice, Snapshot
      <3> QED BY <1>1, <2>4, <3>1 DEF Covered, Underway
    <2> QED BY <1>8, <2>2, <2>3, <2>4 DEF Notice, Goto
  <1>9. CASE Reconnect
    <2>1. "callback" \in Reporters /\ at' = [at EXCEPT !["callback"] = "collect"]
      BY <1>9 DEF Reconnect, Goto, Reporters
    <2> QED BY <1>0, <1>3, <2>1
  <1> QED BY <1>2, <1>4, <1>5, <1>6, <1>7, <1>8, <1>9
          DEF Next, Reporter, Deploy, Uninstall, UninstallMarked, DeployUnwatched, Start, Deliver,
              Lose, Break, End, Restart, vars, reportVars, scanVars

----------------------------------------------------------------------------
(***************************************************************************)
(* The invariant holds: for any number of namespaces and releases, however *)
(* often helm changes them and sessions break.                             *)
(***************************************************************************)
THEOREM Invariance == Spec => []IInv
  <1>1. IInv /\ [Next]_vars => IInv'
    BY NextTypes, NextHomed, NextFollows, NextSent, NextCovered DEF IInv
  <1> QED BY InitIInv, <1>1, PTL DEF Spec

(***************************************************************************)
(* The variables keep their types: what report sends is never empty, and   *)
(* the send queue never outgrows its capacity.                             *)
(***************************************************************************)
THEOREM TypeCorrect == Spec => []TypeOK
  <1>1. IInv => TypeOK
    BY DEF IInv
  <1> QED BY Invariance, <1>1, PTL

(***************************************************************************)
(* applyLabels and onDelete: once its informer has caught up, a release is *)
(* in the snapshot exactly as helm has it, however late its old revision   *)
(* was seen again, unless a change was hidden from the handlers.           *)
(***************************************************************************)
THEOREM SnapshotIsHelms == Spec => []SnapshotFollowsHelm
  <1>1. IInv => SnapshotFollowsHelm
    <2> SUFFICES ASSUME IInv, NEW r \in Releases, pending[NamespaceOf[r]] = <<>>, r \notin missed
                 PROVE  current[r] = deployed[r]
      BY DEF SnapshotFollowsHelm
    <2>1. Leads(<<>>, r, current[r], deployed[r]) /\ current[r] \in Nat /\ deployed[r] \in Nat
      BY ScanAssumption DEF IInv, Follows, TypeOK
    <2> QED BY <2>1, LeadsEnd
  <1> QED BY Invariance, <1>1, PTL

(***************************************************************************)
(* report: what was discovered has been reported once the reporters are    *)
(* idle and the wire is empty, however the reports of the informers, of    *)
(* Run and of Reset overlapped, unless it was lost or forgotten on the     *)
(* way.                                                                    *)
(***************************************************************************)
THEOREM DiscoveriesAreReported == Spec => []DiscoveriesReported
  <1>1. IInv => DiscoveriesReported
    <2> SUFFICES ASSUME IInv, \A x \in Reporters : at[x] = "idle", wire = <<>>
                 PROVE  Snapshot \subseteq gateway \cup unsure
      BY DEF DiscoveriesReported
    <2>1. \A r : ~Underway(r)
      BY DEF Underway
    <2>2. \A r : ~OnWire(r, wire)
      BY DEF OnWire
    <2> QED BY <2>1, <2>2 DEF IInv, Covered, Told
  <1> QED BY Invariance, <1>1, PTL
=============================================================================
