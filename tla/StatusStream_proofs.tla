------------------------ MODULE StatusStream_proofs ------------------------
(***************************************************************************)
(* Proofs about StatusStream.                                              *)
(***************************************************************************)
EXTENDS StatusStream, SequenceTheorems, TLAPS

Updates == [object : Objects, update : UpdateSet]

----------------------------------------------------------------------------
(***************************************************************************)
(* What the operators return.                                              *)
(***************************************************************************)
\* mapStatus is total: every content has one of the known healths and syncs.
LEMMA ReportType ==
  ASSUME NEW c \in Contents \cup {Gone}
  PROVE  Report(c) \in UpdateSet
  <1>1. CASE c = Gone
    BY <1>1 DEF Report, Missing, UpdateSet, Healths, Syncs
  <1>2. CASE c # Gone
    <2>1. c \in Contents
      BY <1>2
    <2>2. HealthOf(c) \in Healths
      <3>1. \A x \in DOMAIN HealthNames : HealthNames[x] \in Healths
        BY DEF HealthNames, Healths
      <3> QED BY <3>1 DEF HealthOf, Healths
    <2>3. SyncOf(c) \in Syncs
      <3>1. \A x \in DOMAIN SyncNames : SyncNames[x] \in Syncs
        BY DEF SyncNames, Syncs
      <3> QED BY <3>1 DEF SyncOf, Syncs
    <2> QED BY <1>2, <2>1, <2>2, <2>3 DEF Report, UpdateSet
  <1> QED BY <1>1, <1>2

LEMMA WireAppend ==
  ASSUME NEW w \in Seq(Updates), NEW o \in Objects, NEW u \in UpdateSet
  PROVE  LET v == Append(w, [object |-> o, update |-> u])
         IN /\ v \in Seq(Updates) /\ Len(v) = Len(w) + 1
            /\ OnWire(o, v) /\ LastOnWire(o, u, v)
            /\ \A q \in Objects \ {o} : OnWire(q, v) <=> OnWire(q, w)
            /\ \A q \in Objects \ {o} : \A x : LastOnWire(q, x, w) => LastOnWire(q, x, v)
  <1> DEFINE e == [object |-> o, update |-> u]
             v == Append(w, e)
  <1>1. e \in Updates
    BY DEF Updates
  <1>2. /\ v \in Seq(Updates) /\ Len(v) = Len(w) + 1 /\ Len(w) \in Nat
        /\ v[Len(v)] = e /\ \A i \in 1..Len(w) : v[i] = w[i]
    BY <1>1, AppendProperties
  <1> HIDE DEF v
  <1>3. OnWire(o, v) /\ LastOnWire(o, u, v)
    BY <1>2 DEF OnWire, LastOnWire
  <1>4. \A q \in Objects \ {o} : OnWire(q, v) <=> OnWire(q, w)
    BY <1>2 DEF OnWire
  <1>5. ASSUME NEW q \in Objects \ {o}, NEW x, LastOnWire(q, x, w)
        PROVE  LastOnWire(q, x, v)
    <2>1. PICK i \in 1..Len(w) : /\ w[i] = [object |-> q, update |-> x]
                                 /\ \A j \in i+1..Len(w) : w[j].object # q
      BY <1>5 DEF LastOnWire
    <2>2. i \in 1..Len(v) /\ v[i] = [object |-> q, update |-> x]
      BY <1>2, <2>1
    <2>3. ASSUME NEW j \in i+1..Len(v) PROVE v[j].object # q
      <3>1. CASE j = Len(v)
        BY <1>2, <3>1
      <3>2. CASE j # Len(v)
        <4>1. j \in 1..Len(w) /\ j \in i+1..Len(w)
          BY <1>2, <3>2
        <4> QED BY <1>2, <2>1, <4>1
      <3> QED BY <3>1, <3>2
    <2> QED BY <2>2, <2>3 DEF LastOnWire
  <1> QED BY <1>2, <1>3, <1>4, <1>5 DEF v

LEMMA WireTail ==
  ASSUME NEW w \in Seq(Updates), w # <<>>, NEW o \in Objects
  PROVE  LET h == Head(w)
             t == Tail(w)
         IN /\ h \in Updates /\ t \in Seq(Updates) /\ Len(t) = Len(w) - 1
            /\ OnWire(o, w) <=> h.object = o \/ OnWire(o, t)
            /\ \A u : LastOnWire(o, u, w) /\ OnWire(o, t) => LastOnWire(o, u, t)
            /\ \A u : LastOnWire(o, u, w) /\ ~OnWire(o, t) => h = [object |-> o, update |-> u]
  <1> DEFINE h == Head(w)
             t == Tail(w)
  <1>1. /\ h \in Updates /\ t \in Seq(Updates) /\ Len(w) \in Nat /\ Len(t) = Len(w) - 1
        /\ h = w[1] /\ Len(w) > 0 /\ \A i \in 1..Len(t) : t[i] = w[i + 1]
    BY HeadTailProperties, EmptySeq
  <1> HIDE DEF h, t
  <1>2. \A i \in 2..Len(w) : i - 1 \in 1..Len(t) /\ t[i - 1] = w[i]
    BY <1>1
  <1>3. OnWire(o, w) <=> h.object = o \/ OnWire(o, t)
    BY <1>1, <1>2 DEF OnWire
  <1>4. ASSUME NEW u, LastOnWire(o, u, w), OnWire(o, t)
        PROVE  LastOnWire(o, u, t)
    <2>1. PICK i \in 1..Len(w) : /\ w[i] = [object |-> o, update |-> u]
                                 /\ \A j \in i+1..Len(w) : w[j].object # o
      BY <1>4 DEF LastOnWire
    <2>2. PICK k \in 1..Len(t) : t[k].object = o
      BY <1>4 DEF OnWire
    <2>3. k + 1 \in 1..Len(w) /\ w[k + 1].object = o
      BY <1>1, <2>2
    <2>4. i # 1
      BY <2>1, <2>3
    <2>5. i - 1 \in 1..Len(t) /\ t[i - 1] = [object |-> o, update |-> u]
      BY <1>2, <2>1, <2>4, <1>1
    <2>6. \A j \in (i - 1) + 1..Len(t) : t[j].object # o
      BY <1>1, <2>1
    <2> QED BY <2>5, <2>6 DEF LastOnWire
  <1>5. ASSUME NEW u, LastOnWire(o, u, w), ~OnWire(o, t)
        PROVE  h = [object |-> o, update |-> u]
    <2>1. PICK i \in 1..Len(w) : w[i] = [object |-> o, update |-> u]
      BY <1>5 DEF LastOnWire
    <2>2. i = 1
      BY <1>1, <1>2, <1>5, <2>1 DEF OnWire
    <2> QED BY <1>1, <2>1, <2>2
  <1> QED BY <1>1, <1>3, <1>4, <1>5 DEF h, t

\* The pump of an ended session takes the second event.
LEMMA WireSecond ==
  ASSUME NEW w \in Seq(Updates), Len(w) > 1
  PROVE  LET v == <<Head(w)>> \o Tail(Tail(w))
         IN /\ v \in Seq(Updates) /\ Len(v) = Len(w) - 1
            /\ \A o \in Objects : OnWire(o, v) => OnWire(o, w)
  <1> DEFINE t == Tail(Tail(w))
             v == <<Head(w)>> \o t
  <1>1. w # <<>> /\ Head(w) = w[1] /\ Head(w) \in Updates /\ Len(w) \in Nat
    BY HeadTailProperties, EmptySeq
  <1>2. Tail(w) \in Seq(Updates) /\ Len(Tail(w)) = Len(w) - 1
        /\ \A i \in 1..Len(Tail(w)) : Tail(w)[i] = w[i + 1]
    BY <1>1, HeadTailProperties
  <1>3. Tail(w) # <<>>
    <2>1. Len(Tail(w)) # 0
      BY <1>1, <1>2
    <2> QED BY <1>2, <2>1, EmptySeq
  <1>4. t \in Seq(Updates) /\ Len(t) = Len(w) - 2 /\ \A i \in 1..Len(t) : t[i] = w[i + 2]
    BY <1>1, <1>2, <1>3, HeadTailProperties
  <1> HIDE DEF t
  <1>5. <<Head(w)>> \in Seq(Updates) /\ Len(<<Head(w)>>) = 1 /\ <<Head(w)>>[1] = w[1]
    BY <1>1
  <1>6. /\ v \in Seq(Updates) /\ Len(v) = Len(w) - 1
        /\ \A i \in 1..Len(v) : v[i] = IF i = 1 THEN w[1] ELSE t[i - 1]
    BY <1>1, <1>4, <1>5, ConcatProperties
  <1> HIDE DEF v
  <1>7. \A i \in 1..Len(v) : \E j \in 1..Len(w) : v[i] = w[j]
    <2> SUFFICES ASSUME NEW i \in 1..Len(v) PROVE \E j \in 1..Len(w) : v[i] = w[j]
      OBVIOUS
    <2>1. CASE i = 1
      BY <1>1, <1>6, <2>1
    <2>2. CASE i # 1
      BY <1>1, <1>4, <1>6, <2>2
    <2> QED BY <2>1, <2>2
  <1>8. \A o \in Objects : OnWire(o, v) => OnWire(o, w)
    BY <1>7 DEF OnWire
  <1> QED BY <1>6, <1>8 DEF v, t

----------------------------------------------------------------------------
(***************************************************************************)
(* The inductive invariant.                                                *)
(***************************************************************************)
(***************************************************************************)
(* The dedupe map and the handler of o: a checksum on record is that of    *)
(* the last update queued, except between a send and its record, when the  *)
(* handler has that update in hand.                                        *)
(***************************************************************************)
Handling(o) ==
  /\ doing[o] # "record" => lastSum[o] \in {NoSum, queued[o]}
  /\ doing[o] = "delete" => lastSum[o] = NoSum
  /\ doing[o] = "record" => hand[o] = queued[o]
  /\ doing[o] # "idle" => hand[o] \in UpdateSet

(***************************************************************************)
(* The present state of o is the last of what its informer has yet to      *)
(* handle, or in the handler's hand, or queued, if o was not replaced.     *)
(***************************************************************************)
Latest(o) == o \notin replaced =>
  /\ pending[o] # <<>> => pending[o][Len(pending[o])] = cluster[o]
  /\ pending[o] = <<>> /\ doing[o] \in {"send", "delete"} => hand[o] = Report(cluster[o])
  /\ pending[o] = <<>> /\ doing[o] \in {"idle", "record"} => queued[o] = Report(cluster[o])

\* The last update queued for o is the last on the wire, or has arrived, or
\* is lost or forgotten.
Carried(o) ==
  \/ o \in unsure
  \/ OnWire(o, wire) /\ LastOnWire(o, queued[o], wire)
  \/ ~OnWire(o, wire) /\ gateway[o] = queued[o]

Handles == \A o \in Objects : Handling(o)
Follows == \A o \in Objects : Latest(o)
Carries == \A o \in Objects : Carried(o)

IInv == TypeOK /\ Handles /\ Follows /\ Carries

LEMMA InitIInv == Init => IInv
  <1> SUFFICES ASSUME Init PROVE IInv
    OBVIOUS
  <1>1. TypeOK
    <2>1. budget \in [Faults -> Nat]
      BY StatusAssumption DEF Init, Bound, Faults
    <2>2. pending \in [Objects -> Seq(Contents \cup {Gone})]
      BY DEF Init
    <2> QED BY <2>1, <2>2, StatusAssumption DEF Init, TypeOK, U!UplinkInit
  <1>2. Handles
    BY DEF Init, Handles, Handling
  <1>3. Follows
    BY DEF Init, Follows, Latest
  <1>4. Carries
    <2>1. \A o \in Objects : ~OnWire(o, <<>>)
      BY DEF OnWire
    <2>2. wire = <<>> /\ \A o \in Objects : gateway[o] = queued[o]
      BY DEF Init, U!UplinkInit
    <2> QED BY <2>1, <2>2 DEF Carries, Carried
  <1> QED BY <1>1, <1>2, <1>3, <1>4 DEF IInv

LEMMA SpendType ==
  ASSUME TypeOK, NEW k \in Faults, Spend(k)
  PROVE  budget' \in [Faults -> Nat]
  BY DEF TypeOK, Spend

\* What the steps of the uplink that lose events do to the wire.
Shrinks ==
  /\ wire' \in Seq(Updates) /\ Len(wire') <= Capacity
  /\ \A o \in Objects : OnWire(o, wire') => OnWire(o, wire)

LEMMA TailShrinks ==
  ASSUME TypeOK, wire # <<>>, wire' = Tail(wire)
  PROVE  Shrinks
  <1>1. wire \in Seq(Updates) /\ Len(wire) <= Capacity /\ Len(wire) \in Nat
    BY DEF TypeOK, Updates
  <1>2. wire' \in Seq(Updates) /\ Len(wire') = Len(wire) - 1
    BY <1>1, HeadTailProperties
  <1>3. \A o \in Objects : OnWire(o, wire') => OnWire(o, wire)
    BY <1>1, WireTail
  <1> QED BY <1>1, <1>2, <1>3, StatusAssumption DEF Shrinks

LEMMA LossShrinks ==
  ASSUME TypeOK,
         \/ U!Lose \/ U!Break
         \/ \E s \in SessionIds : U!StragglerEnds(s) \/ U!End(s)
  PROVE  Shrinks
  <1>1. wire \in Seq(Updates) /\ Len(wire) <= Capacity /\ Len(wire) \in Nat
    BY DEF TypeOK, Updates
  <1>2. CASE UNCHANGED wire
    BY <1>1, <1>2 DEF Shrinks
  <1>3. CASE wire # <<>> /\ wire' = Tail(wire)
    BY <1>3, TailShrinks
  <1>4. CASE Len(wire) > 1 /\ wire' = <<Head(wire)>> \o Tail(Tail(wire))
    <2>1. /\ wire' \in Seq(Updates) /\ Len(wire') = Len(wire) - 1
          /\ \A o \in Objects : OnWire(o, wire') => OnWire(o, wire)
      BY <1>1, <1>4, WireSecond
    <2> QED BY <1>1, <2>1, StatusAssumption DEF Shrinks
  <1> QED BY <1>2, <1>3, <1>4 DEF U!Lose, U!Break, U!StragglerEnds, U!End, U!Interrupt

----------------------------------------------------------------------------
(***************************************************************************)
(* The types.                                                              *)
(***************************************************************************)
LEMMA NextTypes == ASSUME IInv, [Next]_vars PROVE TypeOK'
  <1> USE DEF IInv, TypeOK, uplinkVars, reporterUnchanged
  <1>1. ASSUME NEW o \in Objects, Take(o) PROVE TypeOK'
    <2>1. /\ Head(pending[o]) \in Contents \cup {Gone}
          /\ Tail(pending[o]) \in Seq(Contents \cup {Gone})
      BY <1>1, HeadTailProperties DEF Take
    <2>2. Report(Head(pending[o])) \in UpdateSet
      BY <2>1, ReportType
    <2>3. pending' \in [Objects -> Seq(Contents \cup {Gone})]
      BY <1>1, <2>1 DEF Take
    <2>4. doing' \in [Objects -> {"idle", "send", "record", "delete"}]
      BY <1>1 DEF Take
    <2>5. hand' \in [Objects -> UpdateSet \cup {Unknown}]
      <3>1. hand' = hand \/ hand' = [hand EXCEPT ![o] = Report(Head(pending[o]))]
        BY <1>1 DEF Take
      <3> QED BY <2>2, <3>1
    <2>6. lastSum' \in [Objects -> UpdateSet \cup {NoSum}]
      BY <1>1 DEF Take, Pruned
    <2> QED BY <1>1, <2>3, <2>4, <2>5, <2>6 DEF Take
  <1>2. ASSUME NEW o \in Objects, Send(o) PROVE TypeOK'
    <2>1. hand[o] \in UpdateSet
      BY <1>2 DEF Send, Handles, Handling
    <2>2. /\ wire' \in Seq([object : Objects, update : UpdateSet])
          /\ Len(wire') = Len(wire) + 1 /\ Len(wire) \in Nat
      BY <1>2, <2>1, WireAppend DEF Send, U!Queue, Updates
    <2>3. Len(wire') <= Capacity
      BY <1>2, <2>2, StatusAssumption DEF Send, U!Queue
    <2> QED BY <1>2, <2>1, <2>2, <2>3 DEF Send, U!Queue
  <1>3. ASSUME NEW o \in Objects, Record(o) PROVE TypeOK'
    BY <1>3 DEF Record, Handles, Handling
  <1>4. ASSUME NEW o \in Objects, NEW c \in Contents \cup {Gone}, Change(o, c) PROVE TypeOK'
    <2>1. budget' \in [Faults -> Nat]
      BY <1>4, SpendType DEF Change, Faults
    <2>2. pending' \in [Objects -> Seq(Contents \cup {Gone})]
      BY <1>4, AppendProperties DEF Change
    <2> QED BY <1>4, <2>1, <2>2 DEF Change
  <1>13. ASSUME NEW o \in Objects, Replace(o) PROVE TypeOK'
    <2>1. budget' \in [Faults -> Nat]
      BY <1>13, SpendType DEF Replace, Faults
    <2> QED BY <1>13, <2>1 DEF Replace, streamerVars
  <1>5. CASE Reconnect
    BY <1>5 DEF Reconnect, Reset, U!Open
  <1>6. CASE Start
    BY <1>6, SpendType DEF Start, U!Start, Faults
  <1>7. CASE Deliver
    <2>1. wire \in Seq(Updates) /\ wire # <<>> /\ wire' = Tail(wire)
      BY <1>7 DEF Deliver, U!Deliver, Updates
    <2>2. Head(wire) \in Updates /\ Shrinks
      BY <2>1, HeadTailProperties, TailShrinks
    <2>3. gateway' \in [Objects -> UpdateSet \cup {Unknown}]
      BY <1>7, <2>2 DEF Deliver, U!Deliver, Observe, Updates
    <2> QED BY <1>7, <2>2, <2>3 DEF Deliver, U!Deliver, Shrinks, Updates
  <1>8. CASE Lose
    <2>1. Shrinks
      BY <1>8, LossShrinks DEF Lose
    <2> QED BY <1>8, <2>1 DEF Lose, U!Lose, U!StragglerEnds, LostNow, Shrinks, Updates
  <1>9. CASE Break
    <2>1. Shrinks /\ budget' \in [Faults -> Nat]
      BY <1>9, LossShrinks, SpendType DEF Break, Faults
    <2> QED BY <1>9, <2>1 DEF Break, U!Break, U!End, LostNow, Shrinks, Updates
  <1>10. CASE End
    <2>1. Shrinks
      BY <1>10, LossShrinks DEF End
    <2> QED BY <1>10, <2>1 DEF End, U!End, Shrinks, Updates
  <1>11. CASE Restart
    BY <1>11, SpendType DEF Restart, Faults
  <1>12. CASE UNCHANGED vars
    BY <1>12 DEF vars, streamerVars
  <1> QED BY <1>1, <1>2, <1>3, <1>4, <1>5, <1>6, <1>7, <1>8, <1>9, <1>10, <1>11, <1>12, <1>13
         DEF Next

----------------------------------------------------------------------------
(***************************************************************************)
(* The dedupe map.                                                         *)
(***************************************************************************)
LEMMA NextHandles == ASSUME IInv, [Next]_vars PROVE Handles'
  <1> USE DEF IInv, TypeOK, Handles, Handling, uplinkVars, reporterUnchanged
  <1>1. ASSUME NEW o \in Objects, Take(o) PROVE Handles'
    <2>1. Head(pending[o]) \in Contents \cup {Gone}
      BY <1>1, HeadTailProperties DEF Take
    <2>2. Report(Head(pending[o])) \in UpdateSet
      BY <2>1, ReportType
    <2>3. Handling(o)'
      BY <1>1, <2>2 DEF Take, Pruned
    <2>4. ASSUME NEW q \in Objects, q # o PROVE Handling(q)'
      BY <1>1, <2>4 DEF Take, Pruned
    <2> QED BY <2>3, <2>4
  <1>2. ASSUME NEW o \in Objects, Send(o) PROVE Handles'
    BY <1>2 DEF Send
  <1>3. ASSUME NEW o \in Objects, Record(o) PROVE Handles'
    BY <1>3 DEF Record
  <1>4. ASSUME NEW o \in Objects, NEW c \in Contents \cup {Gone}, Change(o, c) PROVE Handles'
    BY <1>4 DEF Change
  <1>5. CASE Reconnect
    BY <1>5 DEF Reconnect, Reset
  <1>6. CASE UNCHANGED <<doing, hand, lastSum, queued>>
    BY <1>6
  <1> QED BY <1>1, <1>2, <1>3, <1>4, <1>5, <1>6
        DEF Next, Replace, Start, Deliver, Lose, Break, End, Restart, vars, streamerVars

----------------------------------------------------------------------------
(***************************************************************************)
(* The present state of an object.                                         *)
(***************************************************************************)
LEMMA TakeFollows ==
  ASSUME IInv, NEW o \in Objects, o \notin replaced, Take(o) PROVE Latest(o)'
  <1> DEFINE c == Head(pending[o])
             t == Tail(pending[o])
  <1>1. pending[o] \in Seq(Contents \cup {Gone}) /\ pending[o] # <<>> /\ doing[o] = "idle"
    BY DEF IInv, TypeOK, Take
  <1>2. /\ c \in Contents \cup {Gone} /\ t \in Seq(Contents \cup {Gone})
        /\ c = pending[o][1] /\ Len(pending[o]) \in Nat \ {0} /\ Len(t) = Len(pending[o]) - 1
        /\ \A i \in 1..Len(t) : t[i] = pending[o][i + 1]
    BY <1>1, HeadTailProperties, EmptySeq
  <1>3. pending'[o] = t /\ UNCHANGED <<cluster, queued>>
    BY DEF Take, IInv, TypeOK
  <1>4. pending[o][Len(pending[o])] = cluster[o]
    BY <1>1 DEF IInv, Follows, Latest
  <1>5. CASE t # <<>>
    <2>1. Len(t) \in Nat \ {0}
      BY <1>2, <1>5, EmptySeq
    <2> HIDE DEF t
    <2>2. t[Len(t)] = pending[o][Len(t) + 1] /\ Len(t) + 1 = Len(pending[o])
      <3>1. Len(t) \in 1..Len(t)
        BY <2>1
      <3>2. t[Len(t)] = pending[o][Len(t) + 1]
        BY <1>2, <3>1, Zenon
      <3> QED BY <1>2, <2>1, <3>2
    <2>3. t[Len(t)] = cluster[o]
      BY <1>4, <2>2
    <2> QED BY <1>3, <1>5, <2>3 DEF Latest
  <1>6. CASE t = <<>>
    <2> HIDE DEF c, t
    <2>1. Len(pending[o]) = 1
      <3>1. Len(t) = 0
        BY <1>6
      <3> QED BY <1>2, <3>1
    <2>2. c = cluster[o]
      BY <1>2, <1>4, <2>1
    <2>3. CASE c # Gone /\ Suppressed(o, Report(c)) /\ UNCHANGED doing
      <3>1. lastSum[o] = queued[o]
        BY <1>1, <1>2, <2>3, SumAssumption DEF Suppressed, IInv, Handles, Handling
      <3> QED BY <1>1, <1>3, <1>6, <2>2, <2>3, <3>1 DEF Suppressed, Latest
    <2>4. CASE doing'[o] \in {"send", "delete"} /\ hand'[o] = Report(c)
      BY <1>3, <1>6, <2>2, <2>4 DEF Latest
    <2> QED BY <2>3, <2>4 DEF Take, IInv, TypeOK, c
  <1> QED BY <1>5, <1>6

LEMMA NextFollows == ASSUME IInv, [Next]_vars PROVE Follows'
  <1> USE DEF IInv, TypeOK, Follows, uplinkVars, reporterUnchanged
  <1>1. ASSUME NEW o \in Objects, Take(o) PROVE Follows'
    <2>1. Latest(o)'
      BY <1>1, TakeFollows DEF Take, Latest
    <2>2. ASSUME NEW q \in Objects, q # o PROVE Latest(q)'
      BY <1>1, <2>2 DEF Take, Latest
    <2> QED BY <2>1, <2>2
  <1>2. ASSUME NEW o \in Objects, Send(o) PROVE Follows'
    BY <1>2 DEF Send, Latest
  <1>3. ASSUME NEW o \in Objects, Record(o) PROVE Follows'
    BY <1>3 DEF Record, Latest
  <1>4. ASSUME NEW o \in Objects, NEW c \in Contents \cup {Gone}, Change(o, c) PROVE Follows'
    <2>1. /\ pending'[o] # <<>> /\ pending'[o][Len(pending'[o])] = c /\ cluster'[o] = c
      <3>1. pending[o] \in Seq(Contents \cup {Gone})
        OBVIOUS
      <3>2. pending'[o] = Append(pending[o], c) /\ cluster'[o] = c
        BY <1>4 DEF Change
      <3> QED BY <3>1, <3>2, AppendProperties
    <2>2. Latest(o)'
      BY <2>1 DEF Latest
    <2>3. ASSUME NEW q \in Objects, q # o PROVE Latest(q)'
      BY <1>4, <2>3 DEF Change, Latest
    <2> QED BY <2>2, <2>3
  <1>5. CASE UNCHANGED <<cluster, pending, doing, hand, queued, replaced>>
    BY <1>5 DEF Latest
  <1>6. ASSUME NEW o \in Objects, Replace(o) PROVE Follows'
    BY <1>6 DEF Replace, streamerVars, Latest
  <1> QED BY <1>1, <1>2, <1>3, <1>4, <1>5, <1>6
        DEF Next, Reconnect, Start, Deliver, Lose, Break, End, Restart, vars, streamerVars

----------------------------------------------------------------------------
(***************************************************************************)
(* The last update queued.                                                 *)
(***************************************************************************)
\* A step that loses events says so.
LEMMA LossCarries ==
  ASSUME IInv, Shrinks, unsure' = unsure \cup LostNow, UNCHANGED <<gateway, queued>>
  PROVE  Carries'
  <1> SUFFICES ASSUME NEW o \in Objects, o \notin unsure' PROVE Carried(o)'
    BY DEF Carries, Carried
  <1>1. o \notin unsure /\ Carried(o)
    BY DEF IInv, Carries
  <1>2. CASE OnWire(o, wire)
    <2>1. LastOnWire(o, queued[o], wire')
      BY <1>2 DEF LostNow
    <2>2. OnWire(o, wire')
      BY <2>1 DEF LastOnWire, OnWire
    <2> QED BY <2>1, <2>2 DEF Carried
  <1>3. CASE ~OnWire(o, wire)
    BY <1>1, <1>3 DEF Shrinks, Carried
  <1> QED BY <1>2, <1>3

LEMMA NextCarries == ASSUME IInv, [Next]_vars PROVE Carries'
  <1> USE DEF uplinkVars, reporterUnchanged
  <1>0. wire \in Seq(Updates)
    BY DEF IInv, TypeOK, Updates
  <1>1. CASE UNCHANGED <<wire, gateway, queued, unsure>>
    BY <1>1 DEF IInv, Carries, Carried
  <1>2. ASSUME NEW o \in Objects, Send(o) PROVE Carries'
    <2>1. hand[o] \in UpdateSet
      BY <1>2 DEF Send, IInv, Handles, Handling
    <2>2. /\ wire' = Append(wire, [object |-> o, update |-> hand[o]])
          /\ UNCHANGED gateway /\ unsure' = unsure \ {o}
          /\ queued'[o] = hand[o] /\ \A q \in Objects \ {o} : queued'[q] = queued[q]
      BY <1>2 DEF Send, U!Queue, IInv, TypeOK
    <2>3. Carried(o)'
      BY <1>0, <2>1, <2>2, WireAppend DEF Carried
    <2>4. ASSUME NEW q \in Objects, q # o PROVE Carried(q)'
      <3>1. Carried(q)
        BY DEF IInv, Carries
      <3>2. /\ OnWire(q, wire') <=> OnWire(q, wire)
            /\ LastOnWire(q, queued[q], wire) => LastOnWire(q, queued[q], wire')
        BY <1>0, <2>1, <2>2, <2>4, WireAppend
      <3> QED BY <2>2, <2>4, <3>1, <3>2 DEF Carried
    <2> QED BY <2>3, <2>4 DEF Carries
  <1>3. CASE Deliver
    <2> DEFINE h == Head(wire)
    <2>1. /\ wire # <<>> /\ wire' = Tail(wire) /\ UNCHANGED <<queued, unsure>>
          /\ gateway' = [gateway EXCEPT ![h.object] = h.update]
      BY <1>3 DEF Deliver, U!Deliver, Observe
    <2>2. h \in Updates
      BY <1>0, <2>1, WireTail, HeadTailProperties
    <2>3. ASSUME NEW o \in Objects PROVE Carried(o)'
      <3>1. Carried(o)
        BY DEF IInv, Carries
      <3>2. CASE OnWire(o, wire')
        <4>1. OnWire(o, wire)
          BY <1>0, <2>1, <3>2, WireTail
        <4>2. CASE LastOnWire(o, queued[o], wire)
          <5>1. LastOnWire(o, queued[o], wire')
            BY <1>0, <2>1, <3>2, <4>2, WireTail
          <5> QED BY <2>1, <3>2, <5>1 DEF Carried
        <4> QED BY <2>1, <3>1, <4>1, <4>2 DEF Carried
      <3>3. CASE ~OnWire(o, wire') /\ OnWire(o, wire) /\ LastOnWire(o, queued[o], wire)
        <4>1. h = [object |-> o, update |-> queued[o]]
          BY <1>0, <2>1, <3>3, WireTail
        <4>2. gateway'[o] = queued[o]
          BY <2>1, <4>1 DEF IInv, TypeOK
        <4> QED BY <2>1, <3>3, <4>2 DEF Carried
      <3>4. CASE ~OnWire(o, wire') /\ ~OnWire(o, wire) /\ gateway[o] = queued[o]
        <4>1. h.object # o
          BY <1>0, <2>1, <3>4, WireTail
        <4>2. gateway'[o] = gateway[o]
          BY <2>1, <2>2, <4>1 DEF IInv, TypeOK
        <4> QED BY <2>1, <3>4, <4>2 DEF Carried
      <3> QED BY <2>1, <3>1, <3>2, <3>3, <3>4 DEF Carried
    <2> QED BY <2>3 DEF Carries
  <1>4. CASE Lose
    <2>1. Shrinks
      BY <1>4, LossShrinks DEF Lose, IInv
    <2> QED BY <1>4, <2>1, LossCarries DEF Lose, U!Lose, U!StragglerEnds
  <1>5. CASE Break
    <2>1. Shrinks
      BY <1>5, LossShrinks DEF Break, IInv
    <2> QED BY <1>5, <2>1, LossCarries DEF Break, U!Break, U!End
  <1>6. CASE Restart
    <2>1. /\ gateway' = [o \in Objects |-> Unknown] /\ UNCHANGED <<wire, queued>>
          /\ unsure' = unsure \cup {o \in Objects : queued[o] # Unknown /\ ~OnWire(o, wire)}
      BY <1>6 DEF Restart
    <2> QED BY <2>1 DEF IInv, Carries, Carried
  <1>7. CASE End
    BY <1>1, <1>7 DEF End, U!End, U!Interrupt
  <1> QED BY <1>1, <1>2, <1>3, <1>4, <1>5, <1>6, <1>7
        DEF Next, Take, Record, Change, Replace, Reconnect, Start, U!Open, U!Start, vars

----------------------------------------------------------------------------
\* The inductive invariant: from the informer's notification to the control plane,
\* some place holds the last status of every object.
THEOREM Invariance == Spec => []IInv
  <1>1. IInv /\ [Next]_vars => IInv'
    BY NextTypes, NextHandles, NextFollows, NextCarries DEF IInv
  <1> QED BY InitIInv, <1>1, PTL DEF Spec

(***************************************************************************)
(* The variables keep their types; mapStatus maps every status to a known  *)
(* health and sync.                                                        *)
(***************************************************************************)
THEOREM TypeCorrect == Spec => []TypeOK
  <1>1. IInv => TypeOK
    BY DEF IInv
  <1> QED BY Invariance, <1>1, PTL

(***************************************************************************)
(* What emit suppresses was queued last, with Reset, deletes and broken    *)
(* sessions between any two of its critical sections.                      *)
(***************************************************************************)
THEOREM SuppressedWasSent == Spec => []DedupeSound
  <1>1. IInv => DedupeSound
    BY DEF IInv, Handles, Handling, DedupeSound
  <1> QED BY Invariance, <1>1, PTL

(***************************************************************************)
(* An object whose informer is idle and which has nothing on the wire is   *)
(* known to the control plane as it is, unless its last update was lost or *)
(* forgotten or it was replaced unseen: for any number of objects, changes *)
(* and broken sessions.                                                    *)
(***************************************************************************)
THEOREM SettledObjectsAreKnown == Spec => []SettledIsKnown
  <1>1. IInv => SettledIsKnown
    BY DEF IInv, Follows, Latest, Carries, Carried, Settled, SettledIsKnown
  <1> QED BY Invariance, <1>1, PTL
=============================================================================
