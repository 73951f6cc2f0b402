------------------------ MODULE CapabilitySync_proofs ------------------------
(***************************************************************************)
(* Proofs about CapabilitySync.                                            *)
(***************************************************************************)
EXTENDS CapabilitySync, SequenceTheorems, FiniteSetTheorems, WellFoundedInduction, TLAPS

Events(o) == [gone : BOOLEAN, object : ContentsOf(o)]

----------------------------------------------------------------------------
(***************************************************************************)
(* What the watchers hand to Run.                                          *)
(***************************************************************************)
\* A change that puts object o on record as it is in the cluster.
Settles(e, o) ==
  /\ e.cap.name = o
  /\ cluster[o] = Gone /\ o \in Crds => e.action = "DELETE" /\ e.anyVersion
  /\ cluster[o] # Gone =>
       /\ e.cap = Capability(o, cluster[o])
       /\ ~e.anyVersion
       /\ e.action = IF Classify(cluster[o]) = "IGNORE" THEN "DELETE" ELSE "UPSERT"

\* Object o is on record as it is.
OnRecord(o) ==
  LET entries == {c \in snapshot : c.name = o}
  IN /\ cluster[o] = Gone /\ o \in Crds => entries = {}
     /\ cluster[o] # Gone =>
          {c \in entries : c.version = Version(o, cluster[o])}
            = {c \in {Capability(o, cluster[o])} : c.mode # "IGNORE"}

LEMMA ApplySettles ==
  ASSUME NEW o \in Names, NEW e, Settles(e, o), snapshot' = Apply(snapshot, e), UNCHANGED cluster
  PROVE  OnRecord(o)'
  <1>1. CASE cluster[o] = Gone
    <2>1. o \in Crds => Apply(snapshot, e) = {c \in snapshot : Key(c) # Key(e.cap) /\ c.name # o}
      BY <1>1 DEF Settles, Apply
    <2> QED BY <1>1, <2>1 DEF OnRecord
  <1>2. CASE cluster[o] # Gone
    <2> DEFINE cap == Capability(o, cluster[o])
    <2>1. e.cap = cap /\ ~e.anyVersion
          /\ e.action = IF Classify(cluster[o]) = "IGNORE" THEN "DELETE" ELSE "UPSERT"
      BY <1>2 DEF Settles
    <2>2. cap.name = o /\ cap.version = Version(o, cluster[o]) /\ cap.mode = Classify(cluster[o])
      BY DEF Capability
    <2> HIDE DEF cap
    <2>3. CASE Classify(cluster[o]) = "IGNORE"
      <3>1. snapshot' = {c \in snapshot : Key(c) # Key(cap)}
        BY <2>1, <2>3 DEF Apply
      <3> QED BY <1>2, <2>2, <2>3, <3>1 DEF OnRecord, Key, cap
    <2>4. CASE Classify(cluster[o]) # "IGNORE"
      <3>1. snapshot' = {c \in snapshot : Key(c) # Key(cap)} \cup {cap}
        BY <2>1, <2>4 DEF Apply
      <3> QED BY <1>2, <2>2, <2>4, <3>1 DEF OnRecord, Key, cap
    <2> QED BY <2>3, <2>4
  <1> QED BY <1>1, <1>2

LEMMA ApplyOther ==
  ASSUME NEW o \in Names, NEW e, e.cap.name # o, snapshot' = Apply(snapshot, e), UNCHANGED cluster,
         OnRecord(o)
  PROVE  OnRecord(o)'
  <1>1. \A c \in snapshot : c.name = o => Key(c) # Key(e.cap)
    BY DEF Key
  <1>2. {c \in snapshot' : c.name = o} = {c \in snapshot : c.name = o}
    BY <1>1 DEF Apply
  <1> QED BY <1>2 DEF OnRecord

----------------------------------------------------------------------------
(***************************************************************************)
(* The inductive invariant.                                                *)
(***************************************************************************)
\* The types of what the watchers and Run share.
Typed ==
  /\ DOMAIN cluster = Names /\ \A o \in Names : cluster[o] \in ContentsOf(o) \cup {Gone}
  /\ DOMAIN pending = Names /\ \A o \in Names : pending[o] \in Seq(Events(o))
  /\ merged \in Seq(Changes)

\* The last event of an object that is yet to be handled tells what it is now.
Latest(o) ==
  pending[o] # <<>> =>
    LET event == pending[o][Len(pending[o])]
    IN /\ event.gone <=> cluster[o] = Gone
       /\ cluster[o] # Gone => event.object = cluster[o]

\* No change in m from k + 1 on is about o.
Silent(m, o, k) == \A j \in k + 1..Len(m) : m[j].cap.name # o

(***************************************************************************)
(* An object the events of which have been handled is on record as it is,  *)
(* or the last change about it that is on its way to Run puts it there.    *)
(***************************************************************************)
Arrives(o) ==
  \/ Silent(merged, o, 0) /\ OnRecord(o)
  \/ \E k \in 1..Len(merged) : Settles(merged[k], o) /\ Silent(merged, o, k)

Follows ==
  \A o \in Names : Latest(o) /\ (pending[o] = <<>> /\ o \notin unfetched => Arrives(o))

\* What is ignored is on record nowhere, and not on its way.
Hidden ==
  /\ \A c \in snapshot : c.mode # "IGNORE"
  /\ \A k \in 1..Len(merged) : merged[k].action = "UPSERT" => merged[k].cap.mode # "IGNORE"

IInv == Typed /\ Follows /\ Hidden

LEMMA InitIInv == Init => IInv
  <1> SUFFICES ASSUME Init PROVE IInv
    OBVIOUS
  <1>0. Len(<<>>) = 0
    OBVIOUS
  <1>1. merged = <<>> /\ snapshot = {}
    BY DEF Init
  <1>2. ASSUME NEW o \in Names
        PROVE  /\ cluster[o] \in ContentsOf(o) \cup {Gone}
               /\ cluster[o] = Gone => pending[o] = <<>>
               /\ cluster[o] # Gone => pending[o] = <<[gone |-> FALSE, object |-> cluster[o]]>>
    BY DEF Init
  <1>3. Typed
    <2>1. ASSUME NEW o \in Names PROVE pending[o] \in Seq(Events(o))
      <3>1. cluster[o] # Gone => [gone |-> FALSE, object |-> cluster[o]] \in Events(o)
        BY <1>2 DEF Events
      <3>2. CASE cluster[o] = Gone
        <4>1. pending[o] = <<>>
          BY <1>2, <3>2
        <4> QED BY <4>1
      <3>3. CASE cluster[o] # Gone
        <4> DEFINE event == [gone |-> FALSE, object |-> cluster[o]]
        <4>1. pending[o] = <<event>> /\ event \in Events(o)
          BY <1>2, <3>1, <3>3
        <4> HIDE DEF event
        <4> QED BY <4>1
      <3> QED BY <3>2, <3>3
    <2>2. DOMAIN cluster = Names /\ DOMAIN pending = Names /\ merged \in Seq(Changes)
      BY <1>1 DEF Init
    <2> QED BY <1>2, <2>1, <2>2 DEF Typed
  <1>4. ASSUME NEW o \in Names PROVE Latest(o)
    <2>1. CASE cluster[o] = Gone
      BY <1>2, <2>1 DEF Latest
    <2>2. CASE cluster[o] # Gone
      <3> DEFINE event == [gone |-> FALSE, object |-> cluster[o]]
      <3>1. pending[o] = <<event>> /\ ~event.gone /\ event.object = cluster[o]
        BY <1>2, <2>2
      <3> HIDE DEF event
      <3>2. pending[o][Len(pending[o])] = event
        BY <3>1
      <3> QED BY <2>2, <3>1, <3>2 DEF Latest
    <2> QED BY <2>1, <2>2
  <1>5. ASSUME NEW o \in Names, pending[o] = <<>> PROVE Arrives(o)
    <2>1. cluster[o] = Gone
      <3> DEFINE event == [gone |-> FALSE, object |-> cluster[o]]
      <3>1. cluster[o] # Gone => <<>> = <<event>>
        BY <1>2, <1>5
      <3> HIDE DEF event
      <3>2. Len(<<>>) # Len(<<event>>)
        OBVIOUS
      <3> QED BY <3>1, <3>2
    <2>2. Silent(merged, o, 0)
      BY <1>0, <1>1 DEF Silent
    <2>3. OnRecord(o)
      BY <1>1, <2>1 DEF OnRecord
    <2> QED BY <2>2, <2>3 DEF Arrives
  <1>6. Hidden
    BY <1>0, <1>1 DEF Hidden
  <1> QED BY <1>3, <1>4, <1>5, <1>6 DEF IInv, Follows

----------------------------------------------------------------------------
(***************************************************************************)
(* What the watchers send.                                                 *)
(***************************************************************************)
LEMMA EmitType ==
  ASSUME NEW o \in Names, NEW c \in ContentsOf(o), NEW action \in {"UPSERT", "DELETE"}
  PROVE  LET e == Emit(o, c, action)
         IN /\ e \in Changes /\ e.cap = Capability(o, c) /\ e.cap.name = o /\ ~e.anyVersion
            /\ e.action = IF Classify(c) = "IGNORE" THEN "DELETE" ELSE action
            /\ e.action = "UPSERT" => e.cap.mode # "IGNORE"
  <1> DEFINE cap == Capability(o, c)
             e == Emit(o, c, action)
  <1>1. cap \in Caps
    BY CapabilityAssumption DEF Caps, ContentsOf, Names
  <1>2. cap.name = o /\ cap.mode = Classify(c)
    BY DEF Capability
  <1> HIDE DEF cap
  <1>3. /\ e.cap = cap /\ e.anyVersion = FALSE
        /\ e.action = IF Classify(c) = "IGNORE" THEN "DELETE" ELSE action
        /\ e = [cap |-> cap, action |-> e.action, anyVersion |-> FALSE]
    BY DEF Emit, cap
  <1> HIDE DEF e
  <1>4. e.action \in {"UPSERT", "DELETE"}
    BY <1>3
  <1>5. e \in Changes
    BY <1>1, <1>3, <1>4 DEF Changes
  <1> QED BY <1>2, <1>3, <1>5 DEF e, cap

LEMMA NameOnlyDeleteType ==
  ASSUME NEW o \in Crds
  PROVE  LET e == NameOnlyDelete(o)
         IN e \in Changes /\ e.cap.name = o /\ e.action = "DELETE" /\ e.anyVersion
  BY DEF NameOnlyDelete, Changes

\* A change joins those on their way.
LEMMA Forwarded ==
  ASSUME NEW m \in Seq(Changes), NEW e \in Changes
  PROVE  LET v == Append(m, e)
         IN /\ v \in Seq(Changes) /\ Len(v) = Len(m) + 1 /\ Len(m) \in Nat
            /\ v[Len(v)] = e /\ \A i \in 1..Len(m) : v[i] = m[i]
            /\ \A o : e.cap.name # o => \A k \in 0..Len(m) : Silent(m, o, k) => Silent(v, o, k)
            /\ \A o : Silent(v, o, Len(v))
  <1> DEFINE v == Append(m, e)
  <1>1. /\ v \in Seq(Changes) /\ Len(v) = Len(m) + 1 /\ Len(m) \in Nat
        /\ v[Len(v)] = e /\ \A i \in 1..Len(m) : v[i] = m[i]
    BY AppendProperties
  <1> HIDE DEF v
  <1>2. \A o : e.cap.name # o => \A k \in 0..Len(m) : Silent(m, o, k) => Silent(v, o, k)
    BY <1>1 DEF Silent
  <1>3. \A o : Silent(v, o, Len(v))
    BY <1>1 DEF Silent
  <1> QED BY <1>1, <1>2, <1>3 DEF v

----------------------------------------------------------------------------
(***************************************************************************)
(* The invariant is inductive.                                             *)
(***************************************************************************)
\* A change about o leaves the other objects as they are.
LEMMA ForwardArrives ==
  ASSUME Typed, NEW o \in Names, NEW e \in Changes, e.cap.name = o, merged' = Append(merged, e),
         UNCHANGED <<cluster, snapshot>>
  PROVE  /\ \A q \in Names \ {o} : Arrives(q) => Arrives(q)'
         /\ Settles(e, o) => Arrives(o)'
  <1>1. merged \in Seq(Changes)
    BY DEF Typed
  <1>2. /\ Len(merged') = Len(merged) + 1 /\ Len(merged) \in Nat /\ merged'[Len(merged')] = e
        /\ \A i \in 1..Len(merged) : merged'[i] = merged[i]
    BY <1>1, Forwarded
  <1>3. \A q : e.cap.name # q => \A k \in 0..Len(merged) : Silent(merged, q, k) => Silent(merged', q, k)
    BY <1>1, Forwarded
  <1>4. Silent(merged', o, Len(merged'))
    BY <1>1, Forwarded
  <1>5. ASSUME NEW q \in Names \ {o}, Arrives(q) PROVE Arrives(q)'
    <2>1. CASE Silent(merged, q, 0) /\ OnRecord(q)
      <3>1. Silent(merged', q, 0)
        BY <1>2, <1>3, <2>1
      <3>2. OnRecord(q)'
        BY <2>1 DEF OnRecord
      <3> QED BY <3>1, <3>2 DEF Arrives
    <2>2. ASSUME NEW k \in 1..Len(merged), Settles(merged[k], q), Silent(merged, q, k)
          PROVE  Arrives(q)'
      <3>1. k \in 1..Len(merged') /\ merged'[k] = merged[k] /\ Silent(merged', q, k)
        BY <1>2, <1>3, <2>2
      <3>2. Settles(merged[k], q)'
        BY <2>2, <3>1 DEF Settles
      <3> QED BY <3>1, <3>2 DEF Arrives
    <2> QED BY <1>5, <2>1, <2>2 DEF Arrives
  <1>6. ASSUME Settles(e, o) PROVE Arrives(o)'
    <2>1. Settles(merged[Len(merged)], o)'
      BY <1>2, <1>6 DEF Settles
    <2>2. Len(merged') \in 1..Len(merged')
      BY <1>2
    <2> QED BY <1>4, <2>1, <2>2 DEF Arrives
  <1> QED BY <1>5, <1>6

LEMMA ForwardHidden ==
  ASSUME Typed, Hidden, NEW e \in Changes, e.action = "UPSERT" => e.cap.mode # "IGNORE",
         merged' = Append(merged, e), UNCHANGED snapshot
  PROVE  Hidden' /\ merged' \in Seq(Changes)
  <1>1. merged \in Seq(Changes)
    BY DEF Typed
  <1>2. /\ Len(merged') = Len(merged) + 1 /\ Len(merged) \in Nat /\ merged'[Len(merged')] = e
        /\ merged' \in Seq(Changes) /\ \A i \in 1..Len(merged) : merged'[i] = merged[i]
    BY <1>1, Forwarded
  <1>3. \A k \in 1..Len(merged') : k \in 1..Len(merged) \/ k = Len(merged')
    BY <1>2
  <1> QED BY <1>2, <1>3 DEF Hidden

\* What is left of the events of o when the first is handled.
LEMMA Handled ==
  ASSUME IInv, NEW o \in Names, pending[o] # <<>>, pending' = [pending EXCEPT ![o] = Tail(@)],
         UNCHANGED cluster
  PROVE  /\ Head(pending[o]) \in Events(o)
         /\ DOMAIN pending' = Names /\ \A q \in Names : pending'[q] \in Seq(Events(q))
         /\ \A q \in Names \ {o} : pending'[q] = pending[q]
         /\ \A q \in Names : Latest(q)'
         /\ pending'[o] = <<>> => /\ Head(pending[o]).gone <=> cluster[o] = Gone
                                  /\ cluster[o] # Gone => Head(pending[o]).object = cluster[o]
  <1> DEFINE q == pending[o]
             t == Tail(q)
             h == Head(q)
  <1>1. q \in Seq(Events(o)) /\ q # <<>> /\ DOMAIN pending = Names
    BY DEF IInv, Typed
  <1>2. /\ h \in Events(o) /\ t \in Seq(Events(o)) /\ h = q[1] /\ Len(q) \in Nat \ {0}
        /\ Len(t) = Len(q) - 1 /\ \A i \in 1..Len(t) : t[i] = q[i + 1]
    BY <1>1, HeadTailProperties, EmptySeq
  <1>3. pending'[o] = t /\ DOMAIN pending' = Names
        /\ \A p \in Names \ {o} : pending'[p] = pending[p]
    BY <1>1
  <1>4. \A p \in Names : pending'[p] \in Seq(Events(p))
    BY <1>2, <1>3 DEF IInv, Typed
  <1>5. LET event == q[Len(q)]
        IN (event.gone <=> cluster[o] = Gone) /\ (cluster[o] # Gone => event.object = cluster[o])
    BY <1>1 DEF IInv, Follows, Latest
  <1>6. \A p \in Names \ {o} : Latest(p)'
    BY <1>3 DEF IInv, Follows, Latest
  <1> HIDE DEF t, h, q
  <1>7. CASE t = <<>>
    <2>1. Len(t) = 0
      BY <1>7
    <2>2. Len(q) = 1
      BY <1>2, <2>1
    <2>3. h = q[Len(q)]
      BY <1>2, <2>2
    <2>4. Latest(o)'
      BY <1>3, <1>7 DEF Latest
    <2> QED BY <1>2, <1>3, <1>4, <1>5, <1>6, <2>3, <2>4 DEF q, h
  <1>8. CASE t # <<>>
    <2>1. Len(t) \in 1..Len(t)
      BY <1>2, <1>8, EmptySeq
    <2>2. t[Len(t)] = q[Len(t) + 1]
      BY <1>2, <2>1, Zenon
    <2>3. Len(t) + 1 = Len(q)
      BY <1>2
    <2>4. t[Len(t)] = q[Len(q)]
      BY <2>2, <2>3
    <2>5. Latest(o)'
      BY <1>3, <1>5, <2>4 DEF Latest
    <2> QED BY <1>2, <1>3, <1>4, <1>6, <1>8, <2>5 DEF q, h
  <1> QED BY <1>7, <1>8

LEMMA HandleEventInductive == ASSUME IInv, NEW o \in Names, HandleEvent(o) PROVE IInv'
  <1> DEFINE event == Head(pending[o])
  <1>1. /\ pending[o] # <<>> /\ pending' = [pending EXCEPT ![o] = Tail(@)]
        /\ UNCHANGED <<cluster, snapshot>>
    BY DEF HandleEvent
  <1>2. /\ event \in Events(o)
        /\ DOMAIN pending' = Names /\ \A q \in Names : pending'[q] \in Seq(Events(q))
        /\ \A q \in Names \ {o} : pending'[q] = pending[q]
        /\ \A q \in Names : Latest(q)'
    BY <1>1, Handled
  <1>3. pending'[o] = <<>> => /\ event.gone <=> cluster[o] = Gone
                              /\ cluster[o] # Gone => event.object = cluster[o]
    BY <1>1, Handled
  <1>4. Typed /\ Hidden /\ cluster[o] \in ContentsOf(o) \cup {Gone}
    BY DEF IInv, Typed
  <1>5. \A q \in Names \ {o} : pending[q] = <<>> /\ q \notin unfetched => Arrives(q)
    BY DEF IInv, Follows
  <1> HIDE DEF event
  \* A change is forwarded.
  <1>6. ASSUME NEW e \in Changes, e.cap.name = o, e.action = "UPSERT" => e.cap.mode # "IGNORE",
               merged' = Append(merged, e), \A q \in Names \ {o} : q \in unfetched => q \in unfetched',
               pending'[o] = <<>> /\ o \notin unfetched' => Settles(e, o)
        PROVE  IInv'
    <2>1. Hidden' /\ merged' \in Seq(Changes)
      BY <1>1, <1>4, <1>6, ForwardHidden
    <2>2. Typed'
      BY <1>1, <1>2, <1>4, <2>1 DEF Typed
    <2>3. ASSUME NEW q \in Names, pending'[q] = <<>>, q \notin unfetched' PROVE Arrives(q)'
      <3>1. CASE q = o
        BY <1>1, <1>4, <1>6, <2>3, <3>1, ForwardArrives
      <3>2. CASE q # o
        <4>1. Arrives(q)
          BY <1>2, <1>5, <1>6, <2>3, <3>2
        <4> QED BY <1>1, <1>4, <1>6, <3>2, <4>1, ForwardArrives
      <3> QED BY <3>1, <3>2
    <2>4. Follows'
      BY <1>2, <2>3 DEF Follows
    <2> QED BY <2>1, <2>2, <2>4 DEF IInv
  \* Nothing is.
  <1>7. ASSUME UNCHANGED merged, \A q \in Names \ {o} : q \in unfetched => q \in unfetched',
               pending'[o] # <<>> \/ o \in unfetched'
        PROVE  IInv'
    <2>1. Hidden' /\ Typed'
      BY <1>1, <1>2, <1>4, <1>7 DEF Hidden, Typed
    <2>2. ASSUME NEW q \in Names, pending'[q] = <<>>, q \notin unfetched' PROVE Arrives(q)'
      <3>1. q # o
        BY <1>7, <2>2
      <3>2. Arrives(q)
        BY <1>2, <1>5, <1>7, <2>2, <3>1
      <3>3. OnRecord(q) => OnRecord(q)'
        BY <1>1 DEF OnRecord
      <3>4. \A e : Settles(e, q) => Settles(e, q)'
        BY <1>1 DEF Settles
      <3> QED BY <1>7, <3>2, <3>3, <3>4 DEF Arrives
    <2>3. Follows'
      BY <1>2, <2>2 DEF Follows
    <2> QED BY <2>1, <2>3 DEF IInv
  <1>8. CASE o \in Crds /\ ~event.gone /\ GetCrd(o)
    <2>1. CASE cluster[o] # Gone /\ Forward(Emit(o, cluster[o], "UPSERT"))
               /\ unfetched' = unfetched \ {o}
      <3> DEFINE e == Emit(o, cluster[o], "UPSERT")
      <3>1. /\ e \in Changes /\ e.cap = Capability(o, cluster[o]) /\ e.cap.name = o /\ ~e.anyVersion
            /\ e.action = IF Classify(cluster[o]) = "IGNORE" THEN "DELETE" ELSE "UPSERT"
            /\ e.action = "UPSERT" => e.cap.mode # "IGNORE"
        BY <1>4, <2>1, EmitType
      <3>2. merged' = Append(merged, e)
        BY <2>1 DEF Forward
      <3> HIDE DEF e
      <3>3. Settles(e, o)
        BY <2>1, <3>1 DEF Settles
      <3> QED BY <1>6, <2>1, <3>1, <3>2, <3>3
    <2>2. CASE cluster[o] = Gone /\ UNCHANGED <<merged, unfetched>>
      <3>1. pending'[o] # <<>>
        BY <1>3, <1>8, <2>2
      <3> QED BY <1>7, <2>2, <3>1
    <2>3. CASE unfetched' = unfetched \cup {o} /\ UNCHANGED merged
      BY <1>7, <2>3
    <2> QED BY <1>8, <2>1, <2>2, <2>3 DEF GetCrd
  <1>9. CASE o \in Crds /\ event.gone /\ Forward(NameOnlyDelete(o)) /\ unfetched' = unfetched \ {o}
    <2> DEFINE e == NameOnlyDelete(o)
    <2>1. e \in Changes /\ e.cap.name = o /\ e.action = "DELETE" /\ e.anyVersion
      BY <1>9, NameOnlyDeleteType
    <2>2. merged' = Append(merged, e)
      BY <1>9 DEF Forward
    <2> HIDE DEF e
    <2>3. pending'[o] = <<>> => Settles(e, o)
      BY <1>3, <1>9, <2>1 DEF Settles
    <2> QED BY <1>6, <1>9, <2>1, <2>2, <2>3
  <1>10. CASE /\ o \in Providers
              /\ Forward(Emit(o, event.object, IF event.gone THEN "DELETE" ELSE "UPSERT"))
              /\ UNCHANGED unfetched
    <2> DEFINE action == IF event.gone THEN "DELETE" ELSE "UPSERT"
               e == Emit(o, event.object, action)
    <2>1. event.object \in ContentsOf(o) /\ action \in {"UPSERT", "DELETE"}
      BY <1>2 DEF Events
    <2>2. merged' = Append(merged, e)
      BY <1>10 DEF Forward
    <2>3. event.gone \/ action = "UPSERT"
      OBVIOUS
    <2> HIDE DEF action
    <2>4. /\ e \in Changes /\ e.cap = Capability(o, event.object) /\ e.cap.name = o /\ ~e.anyVersion
          /\ e.action = IF Classify(event.object) = "IGNORE" THEN "DELETE" ELSE action
          /\ e.action = "UPSERT" => e.cap.mode # "IGNORE"
      BY <2>1, EmitType
    <2> HIDE DEF e
    <2>5. pending'[o] = <<>> => Settles(e, o)
      <3>1. CASE cluster[o] = Gone
        BY <1>10, <2>4, <3>1, CapabilityAssumption DEF Settles
      <3>2. CASE cluster[o] # Gone
        BY <1>3, <2>3, <2>4, <3>2 DEF Settles
      <3> QED BY <3>1, <3>2
    <2> QED BY <1>6, <1>10, <2>2, <2>4, <2>5
  <1> QED BY <1>8, <1>9, <1>10 DEF HandleEvent, event

LEMMA ChangeInductive ==
  ASSUME IInv, NEW o \in Names, NEW c \in ContentsOf(o) \cup {Gone}, Change(o, c)
  PROVE  IInv'
  <1> DEFINE event == [gone |-> c = Gone, object |-> IF c = Gone THEN cluster[o] ELSE c]
  <1>1. /\ cluster[o] # c /\ cluster' = [cluster EXCEPT ![o] = c]
        /\ pending' = [pending EXCEPT ![o] = Append(pending[o], event)]
        /\ UNCHANGED <<merged, snapshot, unfetched>>
    BY DEF Change, runVars
  <1>2. Typed /\ Hidden /\ cluster[o] \in ContentsOf(o) \cup {Gone} /\ pending[o] \in Seq(Events(o))
    BY DEF IInv, Typed
  <1>3. (IF c = Gone THEN cluster[o] ELSE c) \in ContentsOf(o)
    BY <1>1, <1>2
  <1>4. event \in Events(o)
    BY <1>3 DEF Events
  <1>5. (event.gone <=> c = Gone) /\ (c # Gone => event.object = c)
    OBVIOUS
  <1> HIDE DEF event
  <1>6. cluster'[o] = c /\ pending'[o] = Append(pending[o], event)
        /\ \A q \in Names \ {o} : cluster'[q] = cluster[q] /\ pending'[q] = pending[q]
        /\ DOMAIN cluster' = Names /\ DOMAIN pending' = Names
    BY <1>1, <1>2 DEF Typed
  <1>7. /\ pending'[o] \in Seq(Events(o)) /\ pending'[o] # <<>>
        /\ pending'[o][Len(pending'[o])] = event
    BY <1>2, <1>4, <1>6, AppendProperties
  <1>8. Typed'
    BY <1>1, <1>2, <1>6, <1>7 DEF Typed
  <1>9. Hidden'
    BY <1>1, <1>2 DEF Hidden
  <1>10. Latest(o)'
    BY <1>5, <1>6, <1>7 DEF Latest
  <1>11. ASSUME NEW q \in Names, q # o
         PROVE  Latest(q)' /\ (pending'[q] = <<>> /\ q \notin unfetched' => Arrives(q)')
    <2>1. cluster'[q] = cluster[q] /\ pending'[q] = pending[q]
      BY <1>6, <1>11
    <2>2. Latest(q)'
      BY <2>1 DEF IInv, Follows, Latest
    <2>3. OnRecord(q) => OnRecord(q)'
      BY <1>1, <2>1 DEF OnRecord
    <2>4. \A e : Settles(e, q) => Settles(e, q)'
      BY <2>1 DEF Settles
    <2>5. Arrives(q) => Arrives(q)'
      BY <1>1, <2>3, <2>4 DEF Arrives
    <2> QED BY <1>1, <2>1, <2>2, <2>5 DEF IInv, Follows
  <1>12. Follows'
    BY <1>7, <1>10, <1>11 DEF Follows
  <1> QED BY <1>8, <1>9, <1>12 DEF IInv

LEMMA CollectInductive == ASSUME IInv, Collect PROVE IInv'
  <1> DEFINE h == Head(merged)
  <1>1. /\ merged # <<>> /\ snapshot' = Apply(snapshot, h) /\ merged' = Tail(merged)
        /\ UNCHANGED <<cluster, pending, unfetched>> /\ merged \in Seq(Changes)
    BY DEF Collect, IInv, Typed
  <1>2. /\ h \in Changes /\ h = merged[1] /\ Len(merged) \in Nat \ {0} /\ merged' \in Seq(Changes)
        /\ Len(merged') = Len(merged) - 1 /\ \A i \in 1..Len(merged') : merged'[i] = merged[i + 1]
    BY <1>1, HeadTailProperties, EmptySeq
  <1> HIDE DEF h
  <1>3. ASSUME NEW o \in Names, NEW k \in 1..Len(merged), Silent(merged, o, k)
        PROVE  Silent(merged', o, k - 1)
    <2> SUFFICES ASSUME NEW j \in (k - 1) + 1..Len(merged') PROVE merged'[j].cap.name # o
      BY DEF Silent
    <2>1. j + 1 \in k + 1..Len(merged) /\ merged'[j] = merged[j + 1]
      BY <1>2
    <2> QED BY <1>3, <2>1 DEF Silent
  <1>4. Typed'
    BY <1>1, <1>2 DEF IInv, Typed
  <1>5. Hidden'
    <2>1. \A k \in 1..Len(merged') : merged'[k].action = "UPSERT" => merged'[k].cap.mode # "IGNORE"
      <3>1. \A k \in 1..Len(merged') : k + 1 \in 1..Len(merged) /\ merged'[k] = merged[k + 1]
        BY <1>2
      <3> QED BY <3>1 DEF IInv, Hidden
    <2>2. \A c \in snapshot' : c \in snapshot \/ (h.action = "UPSERT" /\ c = h.cap)
      BY <1>1 DEF Apply
    <2>3. h.action = "UPSERT" => h.cap.mode # "IGNORE"
      <3>1. 1 \in 1..Len(merged)
        BY <1>2
      <3> QED BY <1>2, <3>1 DEF IInv, Hidden
    <2> QED BY <2>1, <2>2, <2>3 DEF IInv, Hidden
  <1>6. ASSUME NEW o \in Names, Arrives(o) PROVE Arrives(o)'
    <2>1. CASE Silent(merged, o, 0) /\ OnRecord(o)
      <3>1. h.cap.name # o /\ Silent(merged, o, 1)
        <4>1. 1 \in 0 + 1..Len(merged) /\ \A j \in 1 + 1..Len(merged) : j \in 0 + 1..Len(merged)
          BY <1>2
        <4> QED BY <1>2, <2>1, <4>1 DEF Silent
      <3>2. 1 \in 1..Len(merged) /\ 1 - 1 = 0
        BY <1>2
      <3>3. Silent(merged', o, 0)
        BY <1>3, <3>1, <3>2
      <3>4. OnRecord(o)'
        BY <1>1, <2>1, <3>1, ApplyOther
      <3> QED BY <3>3, <3>4 DEF Arrives
    <2>2. ASSUME NEW k \in 1..Len(merged), Settles(merged[k], o), Silent(merged, o, k)
          PROVE  Arrives(o)'
      <3>1. Silent(merged', o, k - 1)
        BY <1>3, <2>2
      <3>2. CASE k = 1
        <4>1. OnRecord(o)'
          BY <1>1, <1>2, <2>2, <3>2, ApplySettles
        <4>2. Silent(merged', o, 0)
          BY <3>1, <3>2
        <4> QED BY <4>1, <4>2 DEF Arrives
      <3>3. CASE k # 1
        <4>1. k - 1 \in 1..Len(merged') /\ merged'[k - 1] = merged[k]
          BY <1>2, <3>3
        <4>2. Settles(merged[k - 1], o)'
          BY <1>1, <2>2, <4>1 DEF Settles
        <4> QED BY <3>1, <4>1, <4>2 DEF Arrives
      <3> QED BY <3>2, <3>3
    <2> QED BY <1>6, <2>1, <2>2 DEF Arrives
  <1>7. Follows'
    <2>1. \A o \in Names : Latest(o)'
      BY <1>1 DEF IInv, Follows, Latest
    <2> QED BY <1>1, <1>6, <2>1 DEF IInv, Follows
  <1> QED BY <1>4, <1>5, <1>7 DEF IInv

\* The steps of the uplink and of the senders leave the snapshot alone.
LEMMA OtherStepsInductive ==
  ASSUME IInv, UNCHANGED <<cluster, pending, merged, snapshot, unfetched>> PROVE IInv'
  <1>1. Typed' /\ Hidden'
    BY DEF IInv, Typed, Hidden
  <1>2. ASSUME NEW o \in Names PROVE Latest(o)' /\ (Arrives(o) => Arrives(o)')
    <2>1. Latest(o)'
      BY DEF IInv, Follows, Latest
    <2>2. OnRecord(o) => OnRecord(o)'
      BY DEF OnRecord
    <2>3. \A e : Settles(e, o) => Settles(e, o)'
      BY DEF Settles
    <2> QED BY <2>1, <2>2, <2>3 DEF Arrives
  <1>3. Follows'
    BY <1>2 DEF IInv, Follows
  <1> QED BY <1>1, <1>3 DEF IInv

----------------------------------------------------------------------------
(***************************************************************************)
(* The invariant holds, for any number of objects, contents and changes.   *)
(***************************************************************************)
THEOREM Invariance == Spec => []IInv
  <1>1. ASSUME IInv, [Next]_vars PROVE IInv'
    <2>1. CASE UNCHANGED <<cluster, pending, merged, snapshot, unfetched>>
      BY <1>1, <2>1, OtherStepsInductive
    <2> QED BY <1>1, <2>1, HandleEventInductive, ChangeInductive, CollectInductive
            DEF Next, Flush, SendChunk, ReplayFullState, TakeChecksum, SendReplay, Handshake, Gap, Start,
                Deliver, Lose, Break, End, Rotate, vars, runVars, agentVars
  <1> QED BY InitIInv, <1>1, PTL DEF Spec

(***************************************************************************)
(* apply, and the watchers before it: an object the events of which have   *)
(* been handled is on record as it is in the cluster, not at all if it is  *)
(* ignored, and nothing is left of a CRD that was deleted, unless the GET  *)
(* of its last event failed.                                               *)
(***************************************************************************)
THEOREM SnapshotIsTheClusters == Spec => []SnapshotFollowsCluster
  <1>1. IInv => SnapshotFollowsCluster
    <2> SUFFICES ASSUME IInv, NEW o \in Names, Settled(o), o \notin unfetched
                 PROVE  OnRecord(o)
      BY DEF SnapshotFollowsCluster, OnRecord
    <2>1. Arrives(o) /\ merged \in Seq(Changes)
      BY DEF IInv, Follows, Settled, Typed
    <2>2. DOMAIN merged = 1..Len(merged)
      BY <2>1
    <2>3. \A k \in 1..Len(merged) : ~Settles(merged[k], o)
      BY <2>2 DEF Settled, Settles
    <2> QED BY <2>1, <2>3 DEF Arrives
  <1> QED BY Invariance, <1>1, PTL

(***************************************************************************)
(* emitCapability turns what is ignored into a DELETE: no capability with  *)
(* the mode IGNORE is ever on record, so none is in a replay either.       *)
(***************************************************************************)
THEOREM IgnoredIsHidden == Spec => [](\A c \in snapshot : c.mode # "IGNORE")
  <1>1. IInv => \A c \in snapshot : c.mode # "IGNORE"
    BY DEF IInv, Hidden
  <1> QED BY Invariance, <1>1, PTL

----------------------------------------------------------------------------
(***************************************************************************)
(* Induction without a parameter for the property: a set of numbers, or of *)
(* sequences, that is closed under the next step is the set of all. The    *)
(* numbers come first, from their least-number principle.                  *)
(***************************************************************************)
Less == {p \in Nat \X Nat : p[1] < p[2]}

\* A set of numbers with 0 that is closed under + 1.
LEMMA NatSetInduction ==
  ASSUME NEW S \in SUBSET Nat, 0 \in S, \A n \in S : n + 1 \in S PROVE S = Nat
  <1> SUFFICES ASSUME Nat \ S # {} PROVE FALSE
    OBVIOUS
  <1>1. IsWellFoundedOn(Less, Nat)
    BY NatLessThanWellFounded DEF OpToRel, Less
  <1>2. PICK x \in Nat \ S : \A y \in Nat \ S : <<y, x>> \notin Less
    BY <1>1, WFMin
  <1>3. x - 1 \in Nat /\ x - 1 < x /\ (x - 1) + 1 = x
    BY <1>2
  <1>4. <<x - 1, x>> \in Less
    BY <1>3 DEF Less
  <1>5. x - 1 \in S
    BY <1>2, <1>3, <1>4
  <1> QED BY <1>2, <1>3, <1>5

\* A set of sequences with the empty one that is closed under Append.
LEMMA SeqInduction ==
  ASSUME NEW E, NEW S \in SUBSET Seq(E), <<>> \in S, \A s \in S, e \in E : Append(s, e) \in S
  PROVE  S = Seq(E)
  <1> DEFINE N == {n \in Nat : \A s \in Seq(E) : Len(s) = n => s \in S}
  <1>1. 0 \in N
    BY EmptySeq
  <1>2. ASSUME NEW n \in N PROVE n + 1 \in N
    <2> SUFFICES ASSUME NEW s \in Seq(E), Len(s) = n + 1 PROVE s \in S
      BY <1>2
    <2>1. s # <<>>
      BY <1>2, EmptySeq
    <2>2. PICK t \in Seq(E), e \in E : s = Append(t, e)
      BY <2>1, SequenceEmptyOrAppend
    <2>3. Len(t) = n
      BY <2>2, AppendProperties, LenProperties
    <2>4. t \in S
      BY <1>2, <2>3
    <2> QED BY <2>2, <2>4
  <1> HIDE DEF N
  <1>3. N = Nat
    <2>1. N \in SUBSET Nat BY DEF N
    <2> QED BY <1>1, <1>2, <2>1, NatSetInduction
  <1>4. \A s \in Seq(E) : Len(s) \in N
    BY <1>3, LenProperties
  <1>5. \A s \in Seq(E) : s \in S
    BY <1>4 DEF N
  <1> QED BY <1>5

\* Max is defined by choice, too.
LEMMA MaxOf ==
  ASSUME NEW n \in Nat, NEW t \in SUBSET (1..n), t # {}
  PROVE  Max(t) \in t /\ \A i \in t : i <= Max(t)
  <1> DEFINE N == {k \in Nat : \A u \in SUBSET (1..k) : u # {} => \E m \in u : \A i \in u : m >= i}
  <1>1. 0 \in N
    <2>1. 1..0 = {}
      OBVIOUS
    <2> QED BY <2>1
  <1>2. ASSUME NEW k \in N PROVE k + 1 \in N
    <2> SUFFICES ASSUME NEW u \in SUBSET (1..k + 1), u # {} PROVE \E m \in u : \A i \in u : m >= i
      OBVIOUS
    <2>1. CASE k + 1 \in u
      BY <2>1
    <2>2. CASE k + 1 \notin u
      <3>1. u \in SUBSET (1..k)
        BY <2>2
      <3> QED BY <3>1
    <2> QED BY <2>1, <2>2
  <1> HIDE DEF N
  <1>3. N \in SUBSET Nat
    BY DEF N
  <1>4. N = Nat
    BY <1>1, <1>2, <1>3, NatSetInduction
  <1>5. \E m \in t : \A i \in t : m >= i
    BY <1>4 DEF N
  <1>6. Max(t) \in t /\ \A i \in t : Max(t) >= i
    BY <1>5 DEF Max
  <1> QED BY <1>6

----------------------------------------------------------------------------
(***************************************************************************)
(* Folds. FoldLeft is defined by the choice of a function on sets of       *)
(* indices that satisfies a recursion; nothing is known of the choice      *)
(* until such a function is shown to exist. For steps F from E and X to X  *)
(* it does, so that a fold has the equations of its recursion: Fold is its *)
(* value, and what is known of Fold is proved once for all. A fold of the  *)
(* model is then shown to be a Fold.                                       *)
(***************************************************************************)
\* g is the function that FoldLeft chooses, for steps F from b over s.
Iterates(g, F, X, b, s) ==
  /\ g \in [SUBSET (1..Len(s)) -> X]
  /\ \A t \in SUBSET (1..Len(s)) : g[t] = IF t = {} THEN b ELSE F[s[Max(t)]][g[t \ {Max(t)}]]

\* The indices are taken away from the end.
LEMMA MaxOfPrefix ==
  ASSUME NEW k \in Nat \ {0} PROVE Max(1..k) = k /\ (1..k) \ {k} = 1..k - 1 /\ 1..k # {}
  <1>1. k \in 1..k /\ 1..k \in SUBSET (1..k)
    OBVIOUS
  <1>2. Max(1..k) \in 1..k /\ k <= Max(1..k)
    BY <1>1, MaxOf
  <1> QED BY <1>2

\* By induction: g for one more element is F of g for the others.
LEMMA IterationExists ==
  ASSUME NEW E, NEW X, NEW F \in [E -> [X -> X]], NEW b \in X, NEW s \in Seq(E)
  PROVE  \E g : Iterates(g, F, X, b, s)
  <1> DEFINE S == {r \in Seq(E) : \E g : Iterates(g, F, X, b, r)}
  <1>1. <<>> \in S
    <2> DEFINE g == [t \in SUBSET (1..Len(<<>>)) |-> b]
    <2>1. 1..Len(<<>>) = {}
      OBVIOUS
    <2>2. Iterates(g, F, X, b, <<>>)
      BY <2>1 DEF Iterates
    <2> QED BY <2>2, EmptySeq
  <1>2. ASSUME NEW r \in S, NEW e \in E PROVE Append(r, e) \in S
    <2> DEFINE v == Append(r, e)
               n == Len(r)
    <2>0. PICK g : Iterates(g, F, X, b, r)
      OBVIOUS
    <2>1. g \in [SUBSET (1..n) -> X]
      BY <2>0 DEF Iterates
    <2>2. r \in Seq(E) /\ n \in Nat
      BY LenProperties
    <2>3. v \in Seq(E) /\ Len(v) = n + 1 /\ v[n + 1] = e /\ \A i \in 1..n : v[i] = r[i]
      BY <2>2, AppendProperties
    <2> DEFINE f == [t \in SUBSET (1..n + 1) |->
                       IF n + 1 \in t THEN F[e][g[t \ {n + 1}]] ELSE g[t]]
    <2> HIDE DEF v, n
    <2>4. \A t \in SUBSET (1..n + 1) : t \ {n + 1} \in SUBSET (1..n)
      BY <2>2
    <2>5. \A t \in SUBSET (1..n + 1) : n + 1 \notin t => t \in SUBSET (1..n)
      BY <2>2
    <2>6. f \in [SUBSET (1..n + 1) -> X]
      <3>1. \A t \in SUBSET (1..n + 1) : (IF n + 1 \in t THEN F[e][g[t \ {n + 1}]] ELSE g[t]) \in X
        BY <2>1, <2>4, <2>5
      <3> QED BY <3>1
    <2>7. ASSUME NEW t \in SUBSET (1..n + 1)
          PROVE  f[t] = IF t = {} THEN b ELSE F[v[Max(t)]][f[t \ {Max(t)}]]
      <3>1. CASE n + 1 \in t
        <4>1. Max(t) = n + 1
          <5>1. n + 1 \in Nat /\ t # {}
            BY <2>2, <3>1
          <5>2. Max(t) \in t /\ n + 1 <= Max(t)
            BY <3>1, <5>1, MaxOf
          <5>3. Max(t) \in 1..n + 1
            BY <5>2
          <5> QED BY <2>2, <5>2, <5>3
        <4>2. f[t] = F[e][g[t \ {n + 1}]]
          BY <3>1
        <4>3. t \ {n + 1} \in SUBSET (1..n + 1) /\ n + 1 \notin t \ {n + 1}
          OBVIOUS
        <4>4. f[t \ {n + 1}] = g[t \ {n + 1}]
          BY <4>3
        <4>5. v[Max(t)] = e /\ t # {} /\ f[t \ {Max(t)}] = g[t \ {n + 1}]
          BY <2>3, <3>1, <4>1, <4>4
        <4> HIDE DEF f
        <4> QED BY <4>2, <4>5
      <3>2. CASE n + 1 \notin t
        <4>1. t \in SUBSET (1..n)
          BY <2>5, <3>2
        <4>2. f[t] = g[t]
          BY <3>2
        <4>3. g[t] = IF t = {} THEN b ELSE F[r[Max(t)]][g[t \ {Max(t)}]]
          BY <2>0, <4>1 DEF Iterates, n
        <4>4. CASE t = {}
          BY <4>2, <4>3, <4>4
        <4>5. CASE t # {}
          <5>1. Max(t) \in 1..n
            BY <2>2, <4>1, <4>5, MaxOf
          <5>2. f[t \ {Max(t)}] = g[t \ {Max(t)}]
            BY <3>2
          <5> QED BY <2>3, <4>2, <4>3, <4>5, <5>1, <5>2
        <4> QED BY <4>4, <4>5
      <3> QED BY <3>1, <3>2
    <2>8. Iterates(f, F, X, b, v)
      BY <2>3, <2>6, <2>7 DEF Iterates
    <2> HIDE DEF f
    <2> QED BY <2>3, <2>8 DEF v
  <1>3. S \in SUBSET Seq(E)
    OBVIOUS
  <1> HIDE DEF S
  <1>4. S = Seq(E)
    BY <1>1, <1>2, <1>3, SeqInduction
  <1> QED BY <1>4 DEF S

\* The values on the way from b to the end of s.
IsRun(h, F, X, b, s) ==
  /\ h \in [0..Len(s) -> X] /\ h[0] = b
  /\ \A k \in 1..Len(s) : h[k] = F[s[k]][h[k - 1]]

Fold(F, X, b, s) == CHOOSE v : \E h : IsRun(h, F, X, b, s) /\ v = h[Len(s)]

\* There is one run only.
LEMMA RunIsFold ==
  ASSUME NEW E, NEW X, NEW F \in [E -> [X -> X]], NEW b \in X, NEW s \in Seq(E),
         NEW h, IsRun(h, F, X, b, s)
  PROVE  Fold(F, X, b, s) = h[Len(s)]
  <1>0. Len(s) \in Nat
    BY LenProperties
  <1>1. ASSUME NEW f, IsRun(f, F, X, b, s) PROVE f[Len(s)] = h[Len(s)]
    <2> DEFINE N == {n \in Nat : n <= Len(s) => f[n] = h[n]}
    <2>1. 0 \in N
      BY <1>1 DEF IsRun
    <2>2. ASSUME NEW n \in N PROVE n + 1 \in N
      <3> SUFFICES ASSUME n + 1 <= Len(s) PROVE f[n + 1] = h[n + 1]
        OBVIOUS
      <3>1. n \in Nat /\ n <= Len(s)
        BY <1>0
      <3>2. f[n] = h[n]
        BY <3>1
      <3> HIDE DEF N
      <3>3. n + 1 \in 1..Len(s) /\ (n + 1) - 1 = n
        BY <1>0, <3>1
      <3> QED BY <1>1, <3>2, <3>3 DEF IsRun
    <2>3. N \in SUBSET Nat
      OBVIOUS
    <2> HIDE DEF N
    <2>4. N = Nat
      BY <2>1, <2>2, <2>3, NatSetInduction
    <2> QED BY <1>0, <2>4 DEF N
  <1> DEFINE P(v) == \E f : IsRun(f, F, X, b, s) /\ v = f[Len(s)]
  <1>2. P(h[Len(s)])
    OBVIOUS
  <1>3. \A v : P(v) => v = h[Len(s)]
    BY <1>1
  <1>4. Fold(F, X, b, s) = CHOOSE v : P(v)
    BY DEF Fold
  <1> HIDE DEF P
  <1> QED BY <1>2, <1>3, <1>4

LEMMA IterationRuns ==
  ASSUME NEW E, NEW X, NEW F \in [E -> [X -> X]], NEW b \in X, NEW s \in Seq(E),
         NEW g, Iterates(g, F, X, b, s)
  PROVE  \E h : IsRun(h, F, X, b, s) /\ h[Len(s)] = g[1..Len(s)]
  <1> DEFINE h == [k \in 0..Len(s) |-> g[1..k]]
  <1>0. Len(s) \in Nat
    BY LenProperties
  <1>1. \A k \in 0..Len(s) : 1..k \in SUBSET (1..Len(s))
    BY <1>0
  <1>2. h \in [0..Len(s) -> X]
    BY <1>1 DEF Iterates
  <1>3. h[0] = b
    <2>1. h[0] = g[1..0] /\ 1..0 = {}
      BY <1>0
    <2> QED BY <2>1 DEF Iterates
  <1>4. ASSUME NEW k \in 1..Len(s) PROVE h[k] = F[s[k]][h[k - 1]]
    <2>1. k \in Nat \ {0} /\ k \in 0..Len(s) /\ k - 1 \in 0..Len(s)
      BY <1>0
    <2>2. Max(1..k) = k /\ (1..k) \ {k} = 1..k - 1 /\ 1..k # {}
      BY <2>1, MaxOfPrefix
    <2>3. h[k] = g[1..k] /\ h[k - 1] = g[1..k - 1]
      BY <2>1
    <2>4. g[1..k] = F[s[k]][g[1..k - 1]]
      BY <1>1, <2>1, <2>2 DEF Iterates
    <2> QED BY <2>3, <2>4
  <1>5. h[Len(s)] = g[1..Len(s)]
    BY <1>0
  <1> HIDE DEF h
  <1>6. IsRun(h, F, X, b, s)
    BY <1>2, <1>3, <1>4 DEF IsRun
  <1> QED BY <1>5, <1>6

LEMMA FoldRuns ==
  ASSUME NEW E, NEW X, NEW F \in [E -> [X -> X]], NEW b \in X, NEW s \in Seq(E)
  PROVE  \E h : IsRun(h, F, X, b, s) /\ Fold(F, X, b, s) = h[Len(s)]
  <1>1. PICK g : Iterates(g, F, X, b, s)
    BY IterationExists
  <1>2. PICK h : IsRun(h, F, X, b, s) /\ h[Len(s)] = g[1..Len(s)]
    BY <1>1, IterationRuns
  <1> QED BY <1>2, RunIsFold

LEMMA FoldEmpty ==
  ASSUME NEW E, NEW X, NEW F \in [E -> [X -> X]], NEW b \in X
  PROVE  Fold(F, X, b, <<>>) = b
  <1>1. PICK h : IsRun(h, F, X, b, <<>>) /\ Fold(F, X, b, <<>>) = h[Len(<<>>)]
    <2> DEFINE q == <<>>
    <2>1. q \in Seq(E)
      BY EmptySeq
    <2> HIDE DEF q
    <2>2. \E h : IsRun(h, F, X, b, q) /\ Fold(F, X, b, q) = h[Len(q)]
      BY <2>1, FoldRuns
    <2> QED BY <2>2 DEF q
  <1> QED BY <1>1 DEF IsRun

\* The equations of a recursion.
LEMMA FoldAppend ==
  ASSUME NEW E, NEW X, NEW F \in [E -> [X -> X]], NEW b \in X, NEW s \in Seq(E), NEW e \in E
  PROVE  /\ Fold(F, X, b, s) \in X
         /\ Fold(F, X, b, Append(s, e)) = F[e][Fold(F, X, b, s)]
  <1> DEFINE v == Append(s, e)
             n == Len(s)
  <1>1. PICK h : IsRun(h, F, X, b, s) /\ Fold(F, X, b, s) = h[n]
    BY FoldRuns
  <1>2. n \in Nat
    BY LenProperties
  <1>3. v \in Seq(E) /\ Len(v) = n + 1 /\ v[n + 1] = e /\ \A i \in 1..n : v[i] = s[i]
    BY AppendProperties
  <1>4. h \in [0..n -> X] /\ h[0] = b /\ \A k \in 1..n : h[k] = F[s[k]][h[k - 1]]
    BY <1>1 DEF IsRun
  <1> HIDE DEF v, n
  <1> DEFINE f == [k \in 0..n + 1 |-> IF k = n + 1 THEN F[e][h[n]] ELSE h[k]]
  <1>5. f \in [0..n + 1 -> X] /\ f[0] = b /\ f[n + 1] = F[e][h[n]]
    BY <1>2, <1>4
  <1>6. ASSUME NEW k \in 1..n + 1 PROVE f[k] = F[v[k]][f[k - 1]]
    <2>1. CASE k = n + 1
      <3>1. f[k] = F[e][h[n]] /\ f[k - 1] = h[n] /\ v[k] = e
        BY <1>2, <1>3, <2>1
      <3> QED BY <3>1
    <2>2. CASE k # n + 1
      <3>1. k \in 1..n /\ f[k] = h[k] /\ f[k - 1] = h[k - 1]
        BY <1>2, <2>2
      <3> QED BY <1>3, <1>4, <3>1
    <2> QED BY <2>1, <2>2
  <1> HIDE DEF f
  <1>7. IsRun(f, F, X, b, v)
    BY <1>3, <1>5, <1>6 DEF IsRun
  <1>8. Fold(F, X, b, v) = f[n + 1]
    BY <1>3, <1>7, RunIsFold
  <1> QED BY <1>1, <1>2, <1>4, <1>5, <1>8 DEF v

LEMMA FoldType ==
  ASSUME NEW E, NEW X, NEW F \in [E -> [X -> X]], NEW b \in X, NEW s \in Seq(E)
  PROVE  Fold(F, X, b, s) \in X
  <1>1. PICK h : IsRun(h, F, X, b, s) /\ Fold(F, X, b, s) = h[Len(s)]
    BY FoldRuns
  <1>2. Len(s) \in 0..Len(s)
    BY LenProperties
  <1> QED BY <1>1, <1>2 DEF IsRun

\* A sequence may be folded in two parts.
LEMMA FoldConcat ==
  ASSUME NEW E, NEW X, NEW F \in [E -> [X -> X]], NEW b \in X, NEW s \in Seq(E), NEW t \in Seq(E)
  PROVE  Fold(F, X, b, s \o t) = Fold(F, X, Fold(F, X, b, s), t)
  <1> DEFINE c == Fold(F, X, b, s)
             S == {r \in Seq(E) : Fold(F, X, b, s \o r) = Fold(F, X, c, r)}
  <1>0. c \in X
    BY FoldType
  <1>1. <<>> \in S
    <2>1. s \o <<>> = s /\ <<>> \in Seq(E)
      BY ConcatEmptySeq, EmptySeq
    <2>2. Fold(F, X, c, <<>>) = c
      BY <1>0, FoldEmpty
    <2> QED BY <2>1, <2>2
  <1>2. ASSUME NEW r \in S, NEW e \in E PROVE Append(r, e) \in S
    <2>1. r \in Seq(E) /\ s \o r \in Seq(E) /\ Append(r, e) \in Seq(E)
      BY ConcatProperties, AppendProperties
    <2>2. s \o Append(r, e) = Append(s \o r, e)
      <3>1. Append(r, e) = r \o <<e>> /\ Append(s \o r, e) = (s \o r) \o <<e>>
        BY <2>1, AppendIsConcat, Zenon
      <3>2. <<e>> \in Seq(E)
        OBVIOUS
      <3> QED BY <2>1, <3>1, <3>2, ConcatAssociative
    <2>3. Fold(F, X, b, Append(s \o r, e)) = F[e][Fold(F, X, b, s \o r)]
      <3> DEFINE q == s \o r
      <3>1. q \in Seq(E)
        BY <2>1
      <3> HIDE DEF q
      <3>2. Fold(F, X, b, Append(q, e)) = F[e][Fold(F, X, b, q)]
        BY <3>1, FoldAppend
      <3> QED BY <3>2 DEF q
    <2>4. Fold(F, X, c, Append(r, e)) = F[e][Fold(F, X, c, r)]
      BY <1>0, <2>1, FoldAppend
    <2> QED BY <2>1, <2>2, <2>3, <2>4
  <1>3. S \in SUBSET Seq(E)
    OBVIOUS
  <1> HIDE DEF S
  <1>4. S = Seq(E)
    BY <1>1, <1>2, <1>3, SeqInduction
  <1> QED BY <1>4 DEF S

LEMMA FoldSingle ==
  ASSUME NEW E, NEW X, NEW F \in [E -> [X -> X]], NEW b \in X, NEW e \in E
  PROVE  Fold(F, X, b, <<e>>) = F[e][b]
  <1>1. <<e>> = Append(<<>>, e) /\ <<>> \in Seq(E)
    OBVIOUS
  <1>2. Fold(F, X, b, Append(<<>>, e)) = F[e][Fold(F, X, b, <<>>)]
    <2> DEFINE q == <<>>
    <2>1. q \in Seq(E)
      BY EmptySeq
    <2> HIDE DEF q
    <2>2. Fold(F, X, b, Append(q, e)) = F[e][Fold(F, X, b, q)]
      BY <2>1, FoldAppend
    <2> QED BY <2>2 DEF q
  <1> QED BY <1>1, <1>2, FoldEmpty

\* What a function that FoldLeft has chosen satisfies.
Unfolds(f, F, X, b, s) ==
  /\ f[1..0] = b
  /\ \A k \in 1..Len(s) : f[1..k - 1] \in X => f[1..k] = F[s[k]][f[1..k - 1]]

LEMMA FoldsTo ==
  ASSUME NEW E, NEW X, NEW F \in [E -> [X -> X]], NEW b \in X, NEW s \in Seq(E),
         NEW f, Unfolds(f, F, X, b, s)
  PROVE  f[1..Len(s)] = Fold(F, X, b, s)
  <1> DEFINE n == Len(s)
             h == [k \in 0..n |-> f[1..k]]
             N == {k \in Nat : k <= n => f[1..k] \in X}
  <1>0. n \in Nat /\ s \in [1..n -> E]
    BY LenProperties
  <1> HIDE DEF n
  <1>1. 0 \in N
    BY DEF Unfolds
  <1>2. ASSUME NEW k \in N PROVE k + 1 \in N
    <2> SUFFICES ASSUME k + 1 <= n PROVE f[1..k + 1] \in X
      OBVIOUS
    <2>1. k + 1 \in 1..n /\ (k + 1) - 1 = k /\ f[1..k] \in X
      BY <1>0
    <2>2. f[1..k + 1] = F[s[k + 1]][f[1..k]]
      BY <2>1 DEF n, Unfolds
    <2> QED BY <1>0, <2>1, <2>2
  <1>3. N \in SUBSET Nat
    OBVIOUS
  <1> HIDE DEF N
  <1>4. N = Nat
    BY <1>1, <1>2, <1>3, NatSetInduction
  <1>5. \A k \in 0..n : f[1..k] \in X
    BY <1>0, <1>4 DEF N
  <1>6. h \in [0..n -> X] /\ h[0] = b /\ h[n] = f[1..n]
    BY <1>0, <1>5 DEF Unfolds
  <1>7. ASSUME NEW k \in 1..n PROVE h[k] = F[s[k]][h[k - 1]]
    <2>1. k \in 0..n /\ k - 1 \in 0..n
      BY <1>0
    <2>2. f[1..k] = F[s[k]][f[1..k - 1]]
      BY <1>5, <2>1 DEF n, Unfolds
    <2> QED BY <2>1, <2>2
  <1> HIDE DEF h
  <1>8. IsRun(h, F, X, b, s)
    BY <1>6, <1>7 DEF IsRun, n
  <1>9. Fold(F, X, b, s) = h[n]
    BY <1>8, RunIsFold DEF n
  <1> QED BY <1>6, <1>9 DEF n

----------------------------------------------------------------------------
(***************************************************************************)
(* splitByByteBudget: the bytes of a chunk are the sum of its sizes, and   *)
(* every chunk fits or is a single change.                                 *)
(***************************************************************************)
LEMMA ChangeNames ==
  ASSUME NEW e \in Changes PROVE e.cap.name \in Names /\ SizeOf[e.cap.name] \in Nat \ {0}
  <1>1. e.cap.name \in Names
    <2>1. CASE e.cap \in Caps
      BY <2>1 DEF Caps, Capability, Names
    <2>2. ASSUME NEW o \in Crds, e = NameOnlyDelete(o) PROVE e.cap.name \in Names
      BY <2>2 DEF NameOnlyDelete, Names
    <2> QED BY <2>1, <2>2 DEF Changes
  <1> QED BY <1>1, CapabilityAssumption

AddSize == [e \in Changes |-> [n \in Nat |-> n + SizeOf[e.cap.name]]]

LEMMA AddSizeType == AddSize \in [Changes -> [Nat -> Nat]]
  <1>1. \A e \in Changes, n \in Nat : n + SizeOf[e.cap.name] \in Nat
    BY ChangeNames
  <1> QED BY <1>1 DEF AddSize

LEMMA BytesFold == ASSUME NEW s \in Seq(Changes) PROVE Bytes(s) = Fold(AddSize, Nat, 0, s)
  <1> DEFINE P(i) == i = [t \in SUBSET DOMAIN s |->
                            IF t = {} THEN 0 ELSE i[t \ {Max(t)}] + SizeOf[s[Max(t)].cap.name]]
             it == CHOOSE i : P(i)
  <1>1. PICK g : Iterates(g, AddSize, Nat, 0, s)
    BY AddSizeType, IterationExists
  <1>4. Len(s) \in Nat /\ DOMAIN s = 1..Len(s) /\ s \in [1..Len(s) -> Changes]
    BY LenProperties
  <1>5. P(g)
    <2>1. g \in [SUBSET (1..Len(s)) -> Nat]
      BY <1>1 DEF Iterates
    <2>2. ASSUME NEW t \in SUBSET (1..Len(s)), t # {}
          PROVE  g[t] = g[t \ {Max(t)}] + SizeOf[s[Max(t)].cap.name]
      <3>1. Max(t) \in 1..Len(s)
        BY <1>4, <2>2, MaxOf
      <3>2. s[Max(t)] \in Changes /\ g[t \ {Max(t)}] \in Nat
        BY <1>4, <2>1, <3>1
      <3>3. g[t] = AddSize[s[Max(t)]][g[t \ {Max(t)}]]
        BY <1>1, <2>2 DEF Iterates
      <3> QED BY <3>2, <3>3 DEF AddSize
    <2>3. g[{}] = 0
      BY <1>1 DEF Iterates
    <2> QED BY <1>4, <2>1, <2>2, <2>3
  <1>6. P(it)
    <2> HIDE DEF P
    <2> QED BY <1>5
  <1>7. Bytes(s) = it[1..Len(s)]
    BY <1>4 DEF Bytes, FoldLeft, MapThenFoldSet
  <1>8. it[1..0] = 0
    <2>1. 1..0 = {} /\ {} \in SUBSET DOMAIN s
      OBVIOUS
    <2> QED BY <1>6, <2>1
  <1>9. ASSUME NEW k \in 1..Len(s), it[1..k - 1] \in Nat
        PROVE  it[1..k] = AddSize[s[k]][it[1..k - 1]]
    <2>1. Max(1..k) = k /\ (1..k) \ {k} = 1..k - 1 /\ 1..k # {} /\ 1..k \in SUBSET DOMAIN s
      BY <1>4, MaxOfPrefix
    <2>2. \A t \in SUBSET DOMAIN s :
            t # {} => it[t] = it[t \ {Max(t)}] + SizeOf[s[Max(t)].cap.name]
      BY <1>6
    <2>3. s[k] \in Changes
      BY <1>4
    <2> HIDE DEF it
    <2>4. it[1..k] = it[1..k - 1] + SizeOf[s[k].cap.name]
      BY <2>1, <2>2
    <2>5. \A e \in Changes, n \in Nat : AddSize[e][n] = n + SizeOf[e.cap.name]
      BY DEF AddSize
    <2> QED BY <1>9, <2>3, <2>4, <2>5
  <1> HIDE DEF P, it
  <1>10. it[1..Len(s)] = Fold(AddSize, Nat, 0, s)
    <2> DEFINE X == Nat
               b == 0
    <2>1. Unfolds(it, AddSize, X, b, s) /\ AddSize \in [Changes -> [X -> X]] /\ b \in X
      BY <1>8, <1>9, AddSizeType DEF Unfolds
    <2> HIDE DEF X, b
    <2>2. it[1..Len(s)] = Fold(AddSize, X, b, s)
      BY <2>1, FoldsTo
    <2> QED BY <2>2 DEF X, b
  <1> QED BY <1>7, <1>10

\* The bytes of a chunk.
LEMMA BytesOf ==
  ASSUME NEW s \in Seq(Changes), NEW e \in Changes
  PROVE  Bytes(s) \in Nat /\ Bytes(Append(s, e)) = Bytes(s) + SizeOf[e.cap.name]
  <1> DEFINE X == Nat
             b == 0
  <1>1. AddSize \in [Changes -> [X -> X]] /\ b \in X
    BY AddSizeType
  <1>2. Append(s, e) \in Seq(Changes)
    BY AppendProperties
  <1>3. \A r \in Seq(Changes) : Bytes(r) = Fold(AddSize, X, b, r)
    BY BytesFold
  <1>4. \A n \in X : AddSize[e][n] = n + SizeOf[e.cap.name]
    BY DEF AddSize
  <1> HIDE DEF X, b
  <1>5. /\ Fold(AddSize, X, b, s) \in X
        /\ Fold(AddSize, X, b, Append(s, e)) = AddSize[e][Fold(AddSize, X, b, s)]
    BY <1>1, FoldAppend
  <1>6. Bytes(s) \in X /\ Bytes(Append(s, e)) = Bytes(s) + SizeOf[e.cap.name]
    BY <1>2, <1>3, <1>4, <1>5
  <1> QED BY <1>6 DEF X

LEMMA BytesEmpty == Bytes(<<>>) = 0
  <1> DEFINE none == <<>>
             X == Nat
             b == 0
  <1>1. none \in Seq(Changes)
    BY EmptySeq
  <1>2. AddSize \in [Changes -> [X -> X]] /\ b \in X
    BY AddSizeType
  <1>3. Bytes(none) = Fold(AddSize, X, b, none)
    BY <1>1, BytesFold
  <1> HIDE DEF X, b
  <1>4. Fold(AddSize, X, b, none) = b
    BY <1>2, FoldEmpty
  <1> QED BY <1>3, <1>4 DEF b

\* Chunks that may be sent.
Fit(E) == {c \in Seq(E) : c # <<>> /\ (Bytes(c) <= MaxBatchBytes \/ Len(c) = 1)}

\* The step of splitByByteBudget.
Put(chunks, e) ==
  IF chunks # <<>> /\ ~Full(Last(chunks), e)
  THEN Front(chunks) \o <<Append(Last(chunks), e)>>
  ELSE Append(chunks, <<e>>)

PutStep(E) == [e \in E |-> [chunks \in Seq(Fit(E)) |-> Put(chunks, e)]]

LEMMA FrontLast ==
  ASSUME NEW E, NEW s \in Seq(E), s # <<>>
  PROVE  Front(s) \in Seq(E) /\ Last(s) \in E /\ s = Front(s) \o <<Last(s)>>
  <1>1. Len(s) \in Nat \ {0} /\ s \in [1..Len(s) -> E]
    BY EmptySeq, LenProperties
  <1>2. 1 \in 1..Len(s) /\ Len(s) \in 1..Len(s)
    BY <1>1
  <1>3. SubSeq(s, 1, Len(s)) = SubSeq(s, 1, Len(s) - 1) \o <<s[Len(s)]>>
    BY <1>2, SubSeqRecursiveSecond
  <1>4. SubSeq(s, 1, Len(s)) = s
    BY SubSeqFull
  <1>5. SubSeq(s, 1, Len(s) - 1) \in Seq(E)
    <2>1. 1 \in Int /\ Len(s) - 1 \in Int /\ \A i \in 1..Len(s) - 1 : s[i] \in E
      BY <1>1
    <2> QED BY <2>1, SubSeqProperties
  <1>6. s[Len(s)] \in E
    BY <1>1, <1>2
  <1> QED BY <1>3, <1>4, <1>5, <1>6 DEF Front, Last

\* A change joins the last chunk only if it fits.
LEMMA PutType ==
  ASSUME NEW E \in SUBSET Changes, NEW chunks \in Seq(Fit(E)), NEW e \in E
  PROVE  Put(chunks, e) \in Seq(Fit(E))
  <1>1. CASE chunks # <<>> /\ ~Full(Last(chunks), e)
    <2> DEFINE last == Last(chunks)
               front == Front(chunks)
               v == Append(last, e)
    <2>1. front \in Seq(Fit(E)) /\ last \in Fit(E)
      BY <1>1, FrontLast
    <2>2. last \in Seq(E) /\ last \in Seq(Changes) /\ last # <<>>
      BY <2>1, SeqMonotonic DEF Fit
    <2>3. Bytes(last) + SizeOf[e.cap.name] <= MaxBatchBytes
      <3>1. Bytes(last) \in Nat /\ SizeOf[e.cap.name] \in Nat /\ MaxBatchBytes \in Nat
        BY <2>2, BytesOf, ChangeNames, CapabilityAssumption
      <3> QED BY <1>1, <2>2, <3>1 DEF Full
    <2>4. v \in Seq(E) /\ v # <<>> /\ Bytes(v) <= MaxBatchBytes
      BY <2>2, <2>3, BytesOf, AppendProperties
    <2>5. v \in Fit(E)
      BY <2>4 DEF Fit
    <2>6. Put(chunks, e) = front \o <<v>>
      BY <1>1 DEF Put
    <2> HIDE DEF front, v, last
    <2>7. <<v>> \in Seq(Fit(E))
      BY <2>5
    <2> QED BY <2>1, <2>6, <2>7, ConcatProperties
  <1>2. CASE ~(chunks # <<>> /\ ~Full(Last(chunks), e))
    <2> DEFINE v == <<e>>
    <2>1. v \in Seq(E) /\ v # <<>> /\ Len(v) = 1
      OBVIOUS
    <2>2. Put(chunks, e) = Append(chunks, v)
      BY <1>2 DEF Put
    <2> HIDE DEF v
    <2>3. v \in Fit(E)
      BY <2>1, SeqMonotonic DEF Fit
    <2> QED BY <2>2, <2>3, AppendProperties
  <1> QED BY <1>1, <1>2

LEMMA PutStepType ==
  ASSUME NEW E \in SUBSET Changes PROVE PutStep(E) \in [E -> [Seq(Fit(E)) -> Seq(Fit(E))]]
  BY PutType DEF PutStep

LEMMA SplitFold ==
  ASSUME NEW E \in SUBSET Changes, NEW s \in Seq(E)
  PROVE  SplitByByteBudget(s) = Fold(PutStep(E), Seq(Fit(E)), <<>>, s)
  <1> DEFINE none == <<>>
             X == Seq(Fit(E))
             F == PutStep(E)
             P(i) == i = [t \in SUBSET DOMAIN s |->
                            IF t = {} THEN <<>> ELSE Put(i[t \ {Max(t)}], s[Max(t)])]
             it == CHOOSE i : P(i)
  <1>0. F \in [E -> [X -> X]] /\ none \in X
    BY PutStepType
  <1>1. PICK g : Iterates(g, F, X, none, s)
    <2> HIDE DEF X, none, F
    <2> QED BY <1>0, IterationExists
  <1>4. Len(s) \in Nat /\ DOMAIN s = 1..Len(s) /\ s \in [1..Len(s) -> E]
    BY LenProperties
  <1>5. P(g)
    <2>1. g \in [SUBSET (1..Len(s)) -> X]
      BY <1>1 DEF Iterates
    <2>2. ASSUME NEW t \in SUBSET (1..Len(s)), t # {}
          PROVE  g[t] = Put(g[t \ {Max(t)}], s[Max(t)])
      <3>1. Max(t) \in 1..Len(s)
        BY <1>4, <2>2, MaxOf
      <3>2. s[Max(t)] \in E /\ g[t \ {Max(t)}] \in X
        BY <1>4, <2>1, <3>1
      <3>3. g[t] = F[s[Max(t)]][g[t \ {Max(t)}]]
        BY <1>1, <2>2 DEF Iterates
      <3> QED BY <3>2, <3>3 DEF PutStep
    <2>3. g[{}] = <<>>
      BY <1>1 DEF Iterates
    <2> QED BY <1>4, <2>1, <2>2, <2>3
  <1>6. P(it)
    <2> HIDE DEF P
    <2> QED BY <1>5
  <1>7. SplitByByteBudget(s) = it[1..Len(s)]
    BY <1>4 DEF SplitByByteBudget, FoldLeft, MapThenFoldSet, Put
  <1>8. it[1..0] = none
    <2>1. 1..0 = {} /\ {} \in SUBSET DOMAIN s
      OBVIOUS
    <2> QED BY <1>6, <2>1
  <1>9. ASSUME NEW k \in 1..Len(s), it[1..k - 1] \in X
        PROVE  it[1..k] = F[s[k]][it[1..k - 1]]
    <2>1. Max(1..k) = k /\ (1..k) \ {k} = 1..k - 1 /\ 1..k # {} /\ 1..k \in SUBSET DOMAIN s
      BY <1>4, MaxOfPrefix
    <2>2. it[1..k] = Put(it[1..k - 1], s[k])
      BY <1>6, <2>1
    <2>3. s[k] \in E
      BY <1>4
    <2> QED BY <1>9, <2>2, <2>3 DEF PutStep
  <1> HIDE DEF P, it, X, F
  <1>10. Unfolds(it, F, X, none, s)
    BY <1>8, <1>9 DEF Unfolds
  <1> HIDE DEF none
  <1>11. it[1..Len(s)] = Fold(F, X, none, s)
    BY <1>0, <1>10, FoldsTo
  <1> QED BY <1>7, <1>11 DEF X, none, F

\* No chunk is empty, and every one fits or is a single change.
LEMMA SplitType ==
  ASSUME NEW E \in SUBSET Changes, NEW s \in Seq(E) PROVE SplitByByteBudget(s) \in Seq(Fit(E))
  <1> DEFINE X == Seq(Fit(E))
             F == PutStep(E)
             none == <<>>
  <1>1. F \in [E -> [X -> X]] /\ none \in X
    BY PutStepType
  <1>2. SplitByByteBudget(s) = Fold(F, X, none, s)
    BY SplitFold
  <1> HIDE DEF X, F, none
  <1>3. Fold(F, X, none, s) \in X
    BY <1>1, FoldType
  <1> QED BY <1>2, <1>3 DEF X

LEMMA SplitEmpty == SplitByByteBudget(<<>>) = <<>>
  <1> DEFINE X == Seq(Fit(Changes))
             F == PutStep(Changes)
             none == <<>>
  <1>1. F \in [Changes -> [X -> X]] /\ none \in X
    BY PutStepType
  <1>2. none \in Seq(Changes) /\ SplitByByteBudget(none) = Fold(F, X, none, none)
    BY SplitFold, EmptySeq
  <1> HIDE DEF X, F
  <1>3. \A b \in X : Fold(F, X, b, none) = b
    BY <1>1, FoldEmpty
  <1> QED BY <1>1, <1>2, <1>3

LEMMA SplitAppend ==
  ASSUME NEW s \in Seq(Changes), NEW e \in Changes
  PROVE  SplitByByteBudget(Append(s, e)) = Put(SplitByByteBudget(s), e)
  <1> DEFINE X == Seq(Fit(Changes))
             F == PutStep(Changes)
             none == <<>>
  <1>1. F \in [Changes -> [X -> X]] /\ none \in X
    BY PutStepType
  <1>2. Append(s, e) \in Seq(Changes)
    BY AppendProperties
  <1>3. \A r \in Seq(Changes) : SplitByByteBudget(r) = Fold(F, X, none, r)
    BY SplitFold
  <1>4. \A c \in X : F[e][c] = Put(c, e)
    BY DEF PutStep
  <1> HIDE DEF X, F, none
  <1>5. Fold(F, X, none, s) \in X /\ Fold(F, X, none, Append(s, e)) = F[e][Fold(F, X, none, s)]
    BY <1>1, FoldAppend
  <1> QED BY <1>2, <1>3, <1>4, <1>5

----------------------------------------------------------------------------
(***************************************************************************)
(* apply, for a sequence of changes.                                       *)
(***************************************************************************)
Catalogs == SUBSET Caps

ApplyStep == [e \in Changes |-> [S \in Catalogs |-> Apply(S, e)]]

\* All changes of a batch.
ApplyAll(S, changes) == FoldLeft(Apply, S, changes)

\* Only a DELETE goes by the name alone.
LEMMA UpsertForm ==
  ASSUME NEW e \in Changes, e.action = "UPSERT" PROVE e.cap \in Caps /\ ~e.anyVersion
  <1>1. ASSUME NEW o \in Crds, e = NameOnlyDelete(o) PROVE FALSE
    BY <1>1 DEF NameOnlyDelete
  <1> QED BY <1>1 DEF Changes

LEMMA ApplyType == ASSUME NEW S \in Catalogs, NEW e \in Changes PROVE Apply(S, e) \in Catalogs
  <1>1. e.action = "UPSERT" => e.cap \in Caps
    BY UpsertForm
  <1> QED BY <1>1 DEF Apply, Catalogs

LEMMA ApplyStepType == ApplyStep \in [Changes -> [Catalogs -> Catalogs]]
  BY ApplyType DEF ApplyStep

LEMMA ApplyFold ==
  ASSUME NEW S \in Catalogs, NEW s \in Seq(Changes)
  PROVE  ApplyAll(S, s) = Fold(ApplyStep, Catalogs, S, s)
  <1> DEFINE P(i) == i = [t \in SUBSET DOMAIN s |->
                            IF t = {} THEN S ELSE Apply(i[t \ {Max(t)}], s[Max(t)])]
             it == CHOOSE i : P(i)
  <1>1. PICK g : Iterates(g, ApplyStep, Catalogs, S, s)
    BY ApplyStepType, IterationExists
  <1>2. Len(s) \in Nat /\ DOMAIN s = 1..Len(s) /\ s \in [1..Len(s) -> Changes]
    BY LenProperties
  <1>3. P(g)
    <2>1. g \in [SUBSET (1..Len(s)) -> Catalogs]
      BY <1>1 DEF Iterates
    <2>2. ASSUME NEW t \in SUBSET (1..Len(s)), t # {}
          PROVE  g[t] = Apply(g[t \ {Max(t)}], s[Max(t)])
      <3>1. Max(t) \in 1..Len(s)
        BY <1>2, <2>2, MaxOf
      <3>2. s[Max(t)] \in Changes /\ g[t \ {Max(t)}] \in Catalogs
        BY <1>2, <2>1, <3>1
      <3>3. g[t] = ApplyStep[s[Max(t)]][g[t \ {Max(t)}]]
        BY <1>1, <2>2 DEF Iterates
      <3> QED BY <3>2, <3>3 DEF ApplyStep
    <2>3. g[{}] = S
      BY <1>1 DEF Iterates
    <2> QED BY <1>2, <2>1, <2>2, <2>3
  <1>4. P(it)
    <2> HIDE DEF P
    <2> QED BY <1>3
  <1>5. ApplyAll(S, s) = it[1..Len(s)]
    BY <1>2 DEF ApplyAll, FoldLeft, MapThenFoldSet
  <1>6. it[1..0] = S
    <2>1. 1..0 = {} /\ {} \in SUBSET DOMAIN s
      OBVIOUS
    <2> QED BY <1>4, <2>1
  <1>7. ASSUME NEW k \in 1..Len(s), it[1..k - 1] \in Catalogs
        PROVE  it[1..k] = ApplyStep[s[k]][it[1..k - 1]]
    <2>1. Max(1..k) = k /\ (1..k) \ {k} = 1..k - 1 /\ 1..k # {} /\ 1..k \in SUBSET DOMAIN s
      BY <1>2, MaxOfPrefix
    <2>2. it[1..k] = Apply(it[1..k - 1], s[k])
      BY <1>4, <2>1
    <2>3. s[k] \in Changes
      BY <1>2
    <2> QED BY <1>7, <2>2, <2>3 DEF ApplyStep
  <1> HIDE DEF P, it
  <1>8. Unfolds(it, ApplyStep, Catalogs, S, s)
    BY <1>6, <1>7 DEF Unfolds
  <1>9. it[1..Len(s)] = Fold(ApplyStep, Catalogs, S, s)
    BY <1>8, ApplyStepType, FoldsTo
  <1> QED BY <1>5, <1>9

\* Changes are applied one after the other.
LEMMA ApplyAllOf ==
  ASSUME NEW S \in Catalogs, NEW s \in Seq(Changes)
  PROVE  /\ ApplyAll(S, s) \in Catalogs /\ ApplyAll(S, <<>>) = S
         /\ \A e \in Changes : ApplyAll(S, Append(s, e)) = Apply(ApplyAll(S, s), e)
  <1>1. ApplyAll(S, s) \in Catalogs
    BY ApplyFold, ApplyStepType, FoldType
  <1>2. ApplyAll(S, <<>>) = S
    <2> DEFINE none == <<>>
    <2>1. none \in Seq(Changes)
      BY EmptySeq
    <2>2. Fold(ApplyStep, Catalogs, S, none) = S
      BY ApplyStepType, FoldEmpty
    <2> HIDE DEF none
    <2>3. ApplyAll(S, none) = S
      BY <2>1, <2>2, ApplyFold
    <2> QED BY <2>3 DEF none
  <1>3. ASSUME NEW e \in Changes PROVE ApplyAll(S, Append(s, e)) = Apply(ApplyAll(S, s), e)
    <2>1. Append(s, e) \in Seq(Changes)
      BY AppendProperties
    <2>2. Fold(ApplyStep, Catalogs, S, Append(s, e)) = ApplyStep[e][Fold(ApplyStep, Catalogs, S, s)]
      BY ApplyStepType, FoldAppend
    <2>3. ApplyAll(S, Append(s, e)) = ApplyStep[e][ApplyAll(S, s)]
      BY <2>1, <2>2, ApplyFold
    <2> QED BY <1>1, <2>3 DEF ApplyStep
  <1> QED BY <1>1, <1>2, <1>3

----------------------------------------------------------------------------
(***************************************************************************)
(* What the gateway makes of a sequence of updates.                        *)
(***************************************************************************)
Upserts == [cap : Caps, action : {"UPSERT"}, anyVersion : {FALSE}]

\* What is sent: a replay lists capabilities and nothing else.
Sent == {u \in UpdateSet : u.fullSync => u.changes \in Seq(Upserts)}

Increments == {u \in Sent : ~u.fullSync}

Gateways == [catalog : Catalogs, listed : SUBSET {Key(c) : c \in Caps}, checksum : Catalogs]

ReceiveStep == [u \in Sent |-> [g \in Gateways |-> Receive(g, u)]]

LEMMA UpsertsAreChanges == Upserts \in SUBSET Changes
  BY DEF Upserts, Changes

LEMMA ReceiveType ==
  ASSUME NEW g \in Gateways, NEW u \in Sent
  PROVE  /\ Receive(g, u) \in Gateways
         /\ ~IsTerminal(u) => Receive(g, u).catalog = ApplyAll(g.catalog, u.changes)
         /\ IsTerminal(u) => Receive(g, u).catalog = {c \in g.catalog : Key(c) \in g.listed}
  <1> DEFINE cs == IF IsTerminal(u) \/ ~u.fullSync THEN u.checksum ELSE g.checksum
  <1>1. g.catalog \in Catalogs /\ g.listed \in SUBSET {Key(c) : c \in Caps} /\ g.checksum \in Catalogs
    BY DEF Gateways
  <1>2. u.changes \in Seq(Changes) /\ u.checksum \in Catalogs
    BY DEF Sent, UpdateSet, Catalogs
  <1>0. cs \in Catalogs
    BY <1>1, <1>2
  <1>3. CASE IsTerminal(u)
    <2> DEFINE cat == {c \in g.catalog : Key(c) \in g.listed}
    <2>1. Receive(g, u) = [catalog |-> cat, listed |-> {}, checksum |-> cs]
      BY <1>3, Zenon DEF Receive
    <2>2. cat \in Catalogs
      BY <1>1 DEF Catalogs
    <2> HIDE DEF cat, cs
    <2>3. Receive(g, u) \in Gateways /\ Receive(g, u).catalog = cat
      BY <1>0, <2>1, <2>2 DEF Gateways
    <2> QED BY <1>3, <2>3 DEF cat
  <1>4. CASE ~IsTerminal(u)
    <2> DEFINE cat == ApplyAll(g.catalog, u.changes)
               new == {Key(u.changes[k].cap) : k \in DOMAIN u.changes}
               listed == IF u.fullSync THEN g.listed \cup new ELSE g.listed
    <2>1. Receive(g, u) = [catalog |-> cat, listed |-> listed, checksum |-> cs]
      BY <1>4, Zenon DEF Receive, ApplyAll
    <2>2. cat \in Catalogs
      BY <1>1, <1>2, ApplyAllOf
    <2>3. u.fullSync => new \in SUBSET {Key(c) : c \in Caps}
      <3>1. ASSUME u.fullSync, NEW k \in DOMAIN u.changes PROVE u.changes[k].cap \in Caps
        <4>1. u.changes \in Seq(Upserts)
          BY <3>1 DEF Sent
        <4>2. u.changes[k] \in Upserts
          BY <3>1, <4>1, LenProperties
        <4> QED BY <4>2 DEF Upserts
      <3> QED BY <3>1
    <2>4. listed \in SUBSET {Key(c) : c \in Caps}
      BY <1>1, <2>3
    <2> HIDE DEF cat, listed, cs
    <2>5. Receive(g, u) \in Gateways /\ Receive(g, u).catalog = cat
      BY <1>0, <2>1, <2>2, <2>4 DEF Gateways
    <2> QED BY <1>4, <2>5 DEF cat
  <1> QED BY <1>3, <1>4

LEMMA ReceiveStepType == ReceiveStep \in [Sent -> [Gateways -> Gateways]]
  BY ReceiveType DEF ReceiveStep

LEMMA ReceiveFold ==
  ASSUME NEW b \in Gateways, NEW s \in Seq(Sent)
  PROVE  ReceiveAll(b, s) = Fold(ReceiveStep, Gateways, b, s)
  <1> DEFINE P(i) == i = [t \in SUBSET DOMAIN s |->
                            IF t = {} THEN b ELSE Receive(i[t \ {Max(t)}], s[Max(t)])]
             it == CHOOSE i : P(i)
  <1>1. PICK g : Iterates(g, ReceiveStep, Gateways, b, s)
    BY ReceiveStepType, IterationExists
  <1>2. Len(s) \in Nat /\ DOMAIN s = 1..Len(s) /\ s \in [1..Len(s) -> Sent]
    BY LenProperties
  <1>3. P(g)
    <2>1. g \in [SUBSET (1..Len(s)) -> Gateways]
      BY <1>1 DEF Iterates
    <2>2. ASSUME NEW t \in SUBSET (1..Len(s)), t # {}
          PROVE  g[t] = Receive(g[t \ {Max(t)}], s[Max(t)])
      <3>1. Max(t) \in 1..Len(s)
        BY <1>2, <2>2, MaxOf
      <3>2. s[Max(t)] \in Sent /\ g[t \ {Max(t)}] \in Gateways
        BY <1>2, <2>1, <3>1
      <3>3. g[t] = ReceiveStep[s[Max(t)]][g[t \ {Max(t)}]]
        BY <1>1, <2>2 DEF Iterates
      <3> QED BY <3>2, <3>3 DEF ReceiveStep
    <2>3. g[{}] = b
      BY <1>1 DEF Iterates
    <2> QED BY <1>2, <2>1, <2>2, <2>3
  <1>4. P(it)
    <2> HIDE DEF P
    <2> QED BY <1>3
  <1>5. ReceiveAll(b, s) = it[1..Len(s)]
    <2>1. ReceiveAll(b, s) = it[DOMAIN s]
      BY Zenon DEF ReceiveAll, FoldLeft, MapThenFoldSet
    <2> QED BY <1>2, <2>1
  <1>6. it[1..0] = b
    <2>1. 1..0 = {} /\ {} \in SUBSET DOMAIN s
      OBVIOUS
    <2> QED BY <1>4, <2>1
  <1>7. ASSUME NEW k \in 1..Len(s), it[1..k - 1] \in Gateways
        PROVE  it[1..k] = ReceiveStep[s[k]][it[1..k - 1]]
    <2>1. Max(1..k) = k /\ (1..k) \ {k} = 1..k - 1 /\ 1..k # {} /\ 1..k \in SUBSET DOMAIN s
      BY <1>2, MaxOfPrefix
    <2>2. it[1..k] = Receive(it[1..k - 1], s[k])
      BY <1>4, <2>1
    <2>3. s[k] \in Sent
      BY <1>2
    <2> QED BY <1>7, <2>2, <2>3 DEF ReceiveStep
  <1> HIDE DEF P, it
  <1>8. Unfolds(it, ReceiveStep, Gateways, b, s)
    BY <1>6, <1>7 DEF Unfolds
  <1>9. it[1..Len(s)] = Fold(ReceiveStep, Gateways, b, s)
    BY <1>8, ReceiveStepType, FoldsTo
  <1> QED BY <1>5, <1>9

\* Updates are received one after the other.
LEMMA ReceiveAllOf ==
  ASSUME NEW g \in Gateways, NEW s \in Seq(Sent)
  PROVE  /\ ReceiveAll(g, s) \in Gateways
         /\ ReceiveAll(g, <<>>) = g
         /\ \A u \in Sent : ReceiveAll(g, <<u>>) = Receive(g, u)
         /\ \A t \in Seq(Sent) : ReceiveAll(g, s \o t) = ReceiveAll(ReceiveAll(g, s), t)
         /\ \A u \in Sent : ReceiveAll(g, Append(s, u)) = Receive(ReceiveAll(g, s), u)
  <1>1. ReceiveAll(g, s) \in Gateways
    BY ReceiveFold, ReceiveStepType, FoldType
  <1>2. ReceiveAll(g, <<>>) = g
    <2> DEFINE none == <<>>
    <2>1. none \in Seq(Sent)
      BY EmptySeq
    <2>2. Fold(ReceiveStep, Gateways, g, none) = g
      BY ReceiveStepType, FoldEmpty
    <2> HIDE DEF none
    <2>3. ReceiveAll(g, none) = g
      BY <2>1, <2>2, ReceiveFold
    <2> QED BY <2>3 DEF none
  <1>3. ASSUME NEW u \in Sent PROVE ReceiveAll(g, <<u>>) = Receive(g, u)
    <2> DEFINE one == <<u>>
    <2>1. one \in Seq(Sent)
      OBVIOUS
    <2>2. Fold(ReceiveStep, Gateways, g, one) = ReceiveStep[u][g]
      BY ReceiveStepType, FoldSingle
    <2> HIDE DEF one
    <2>3. ReceiveAll(g, one) = ReceiveStep[u][g]
      BY <2>1, <2>2, ReceiveFold
    <2> QED BY <2>3 DEF one, ReceiveStep
  <1>4. ASSUME NEW t \in Seq(Sent) PROVE ReceiveAll(g, s \o t) = ReceiveAll(ReceiveAll(g, s), t)
    <2>1. s \o t \in Seq(Sent)
      BY ConcatProperties
    <2>2. Fold(ReceiveStep, Gateways, g, s \o t)
            = Fold(ReceiveStep, Gateways, Fold(ReceiveStep, Gateways, g, s), t)
      BY ReceiveStepType, FoldConcat
    <2>3. ReceiveAll(g, s \o t) = Fold(ReceiveStep, Gateways, g, s \o t)
      BY <2>1, ReceiveFold
    <2>4. ReceiveAll(g, s) = Fold(ReceiveStep, Gateways, g, s)
      BY ReceiveFold
    <2>5. ReceiveAll(ReceiveAll(g, s), t) = Fold(ReceiveStep, Gateways, ReceiveAll(g, s), t)
      BY <1>1, ReceiveFold
    <2> QED BY <2>2, <2>3, <2>4, <2>5
  <1>5. ASSUME NEW u \in Sent PROVE ReceiveAll(g, Append(s, u)) = Receive(ReceiveAll(g, s), u)
    <2>1. Append(s, u) \in Seq(Sent)
      BY AppendProperties
    <2>2. Fold(ReceiveStep, Gateways, g, Append(s, u))
            = ReceiveStep[u][Fold(ReceiveStep, Gateways, g, s)]
      BY ReceiveStepType, FoldAppend
    <2>3. ReceiveAll(g, Append(s, u)) = ReceiveStep[u][ReceiveAll(g, s)]
      BY <2>1, <2>2, ReceiveFold
    <2> QED BY <1>1, <2>3 DEF ReceiveStep
  <1> QED BY <1>1, <1>2, <1>3, <1>4, <1>5

----------------------------------------------------------------------------
(***************************************************************************)
(* The updates for the chunks of a batch do what its changes do one by     *)
(* one, wherever the batch is split.                                       *)
(***************************************************************************)
LEMMA FunctionIsSeq ==
  ASSUME NEW T, NEW n \in Nat, NEW v \in [1..n -> T] PROVE v \in Seq(T) /\ Len(v) = n
  <1>1. v \in Seq(T)
    BY Zenon, SeqDef
  <1>2. DOMAIN v = 1..Len(v) /\ Len(v) \in Nat /\ DOMAIN v = 1..n
    BY <1>1, LenProperties
  <1>3. CASE n = 0
    BY <1>2, <1>3
  <1>4. CASE n # 0
    <2>1. n \in 1..Len(v)
      BY <1>2, <1>4
    <2>2. Len(v) \in 1..n
      BY <1>2, <2>1
    <2> QED BY <1>2, <2>1, <2>2
  <1> QED BY <1>3, <1>4

LEMMA UpdatesOf ==
  ASSUME NEW E \in SUBSET Changes, NEW full \in BOOLEAN, full => E = Upserts,
         NEW chunks \in Seq(Seq(E)), NEW cs \in Catalogs
  PROVE  /\ Updates(chunks, full, cs) \in Seq({u \in Sent : u.fullSync = full /\ u.changes \in Seq(E)})
         /\ Len(Updates(chunks, full, cs)) = Len(chunks)
         /\ \A k \in 1..Len(chunks) :
              Updates(chunks, full, cs)[k] = [fullSync |-> full, changes |-> chunks[k], checksum |-> cs]
  <1> DEFINE T == {u \in Sent : u.fullSync = full /\ u.changes \in Seq(E)}
             v == Updates(chunks, full, cs)
  <1>1. Len(chunks) \in Nat /\ DOMAIN chunks = 1..Len(chunks) /\ chunks \in [1..Len(chunks) -> Seq(E)]
    BY LenProperties
  <1>2. v = [k \in 1..Len(chunks) |-> [fullSync |-> full, changes |-> chunks[k], checksum |-> cs]]
    BY <1>1 DEF Updates
  <1>3. ASSUME NEW c \in Seq(E) PROVE [fullSync |-> full, changes |-> c, checksum |-> cs] \in T
    <2>1. c \in Seq(Changes)
      BY SeqMonotonic
    <2>2. [fullSync |-> full, changes |-> c, checksum |-> cs] \in UpdateSet
      BY <2>1 DEF UpdateSet, Catalogs
    <2> QED BY <2>2 DEF Sent
  <1> HIDE DEF T
  <1>4. v \in [1..Len(chunks) -> T]
    BY <1>1, <1>2, <1>3
  <1> HIDE DEF v
  <1>5. v \in Seq(T) /\ Len(v) = Len(chunks)
    BY <1>1, <1>4, FunctionIsSeq
  <1>7. \A k \in 1..Len(chunks) : v[k] = [fullSync |-> full, changes |-> chunks[k], checksum |-> cs]
    BY <1>2
  <1> QED BY <1>5, <1>7 DEF v, T

LEMMA UpdatesAppend ==
  ASSUME NEW E \in SUBSET Changes, NEW full \in BOOLEAN, full => E = Upserts,
         NEW chunks \in Seq(Seq(E)), NEW c \in Seq(E), NEW cs \in Catalogs
  PROVE  Updates(Append(chunks, c), full, cs)
           = Append(Updates(chunks, full, cs), [fullSync |-> full, changes |-> c, checksum |-> cs])
  <1> DEFINE v == Append(chunks, c)
             u == [fullSync |-> full, changes |-> c, checksum |-> cs]
             a == Updates(v, full, cs)
             p == Updates(chunks, full, cs)
             b == Append(p, u)
             n == Len(chunks)
             T == {w \in Sent : w.fullSync = full /\ w.changes \in Seq(E)}
  <1>1. v \in Seq(Seq(E)) /\ Len(v) = n + 1 /\ v[n + 1] = c /\ n \in Nat
        /\ \A i \in 1..n : v[i] = chunks[i]
    BY AppendProperties, LenProperties
  <1>2. a \in Seq(T) /\ Len(a) = Len(v)
        /\ \A k \in 1..Len(v) : a[k] = [fullSync |-> full, changes |-> v[k], checksum |-> cs]
    <2> HIDE DEF v
    <2> QED BY <1>1, UpdatesOf
  <1>3. p \in Seq(T) /\ Len(p) = n
        /\ \A k \in 1..n : p[k] = [fullSync |-> full, changes |-> chunks[k], checksum |-> cs]
    BY UpdatesOf
  <1>4. u \in T
    <2>1. c \in Seq(Changes)
      BY SeqMonotonic
    <2>2. u \in UpdateSet /\ u.fullSync = full /\ u.changes = c
      BY <2>1 DEF UpdateSet, Catalogs
    <2> HIDE DEF u
    <2> QED BY <2>2 DEF Sent
  <1> HIDE DEF v, u, a, p, n, T
  <1>5. b \in Seq(T) /\ Len(b) = n + 1 /\ b[n + 1] = u /\ \A i \in 1..n : b[i] = p[i]
    BY <1>3, <1>4, AppendProperties
  <1>6. \A k \in 1..n + 1 : a[k] = b[k]
    <2>1. ASSUME NEW k \in 1..n PROVE a[k] = b[k]
      <3>0. n \in Nat /\ Len(v) = n + 1
        BY <1>1
      <3>1. k \in 1..Len(v) /\ v[k] = chunks[k]
        <4>1. k \in 1..Len(v)
          BY <3>0
        <4> QED BY <1>1, <4>1, Zenon
      <3>2. a[k] = [fullSync |-> full, changes |-> chunks[k], checksum |-> cs]
        BY <1>2, <3>1
      <3> QED BY <1>3, <1>5, <3>2
    <2>2. a[n + 1] = b[n + 1]
      <3>1. n + 1 \in 1..Len(v) /\ v[n + 1] = c
        BY <1>1
      <3>2. a[n + 1] = [fullSync |-> full, changes |-> c, checksum |-> cs]
        BY <1>2, <3>1
      <3> QED BY <1>5, <3>2 DEF u
    <2>3. \A k \in 1..n + 1 : k \in 1..n \/ k = n + 1
      BY <1>1
    <2> QED BY <2>1, <2>2, <2>3
  <1> HIDE DEF b
  <1>7. a = b
    BY <1>1, <1>2, <1>5, <1>6, SeqEqual
  <1> QED BY <1>7 DEF a, b, v, u, p

LEMMA UpdatesEmpty ==
  ASSUME NEW full \in BOOLEAN, NEW cs \in Catalogs PROVE Updates(<<>>, full, cs) = <<>>
  <1> DEFINE none == <<>>
             T == {u \in Sent : u.fullSync = full /\ u.changes \in Seq(Upserts)}
  <1>1. none \in Seq(Seq(Upserts)) /\ Len(none) = 0
    OBVIOUS
  <1> HIDE DEF none
  <1>2. Updates(none, full, cs) \in Seq(T) /\ Len(Updates(none, full, cs)) = 0
    BY <1>1, UpsertsAreChanges, UpdatesOf
  <1>3. Updates(none, full, cs) = <<>>
    <2> HIDE DEF T
    <2> QED BY <1>2, EmptySeq
  <1> QED BY <1>3 DEF none

Increment(c, cs) == [fullSync |-> FALSE, changes |-> c, checksum |-> cs]

LEMMA IncrementType ==
  ASSUME NEW c \in Seq(Changes), NEW cs \in Catalogs
  PROVE  /\ Increment(c, cs) \in Increments /\ Increment(c, cs) \in Sent
         /\ ~IsTerminal(Increment(c, cs)) /\ Increment(c, cs).changes = c
  BY DEF Increment, Increments, Sent, UpdateSet, IsTerminal, Catalogs

LEMMA ReceiveIncrement ==
  ASSUME NEW g \in Gateways, NEW p \in Seq(Sent), NEW c \in Seq(Changes), NEW cs \in Catalogs
  PROVE  ReceiveAll(g, Append(p, Increment(c, cs))).catalog = ApplyAll(ReceiveAll(g, p).catalog, c)
  <1> DEFINE u == Increment(c, cs)
  <1>1. u \in Sent /\ ~IsTerminal(u) /\ u.changes = c
    BY IncrementType
  <1> HIDE DEF u
  <1>2. ReceiveAll(g, Append(p, u)) = Receive(ReceiveAll(g, p), u) /\ ReceiveAll(g, p) \in Gateways
    BY <1>1, ReceiveAllOf
  <1>3. Receive(ReceiveAll(g, p), u).catalog = ApplyAll(ReceiveAll(g, p).catalog, u.changes)
    BY <1>1, <1>2, ReceiveType
  <1> QED BY <1>1, <1>2, <1>3 DEF u

LEMMA IncrementUpdates ==
  ASSUME NEW chunks \in Seq(Seq(Changes)), NEW cs \in Catalogs
  PROVE  /\ Updates(chunks, FALSE, cs) \in Seq(Increments) /\ Updates(chunks, FALSE, cs) \in Seq(Sent)
         /\ Updates(<<>>, FALSE, cs) = <<>>
         /\ \A c \in Seq(Changes) :
              Updates(Append(chunks, c), FALSE, cs) = Append(Updates(chunks, FALSE, cs), Increment(c, cs))
  <1> DEFINE T == {w \in Sent : w.fullSync = FALSE /\ w.changes \in Seq(Changes)}
  <1>1. Changes \in SUBSET Changes /\ FALSE \in BOOLEAN
    OBVIOUS
  <1>2. Updates(chunks, FALSE, cs) \in Seq(T)
    BY <1>1, UpdatesOf
  <1>3. T \subseteq Increments /\ T \subseteq Sent
    BY DEF Increments
  <1> HIDE DEF T
  <1>4. Updates(chunks, FALSE, cs) \in Seq(Increments) /\ Updates(chunks, FALSE, cs) \in Seq(Sent)
    BY <1>2, <1>3, SeqMonotonic
  <1>5. Updates(<<>>, FALSE, cs) = <<>>
    BY UpdatesEmpty
  <1>6. ASSUME NEW c \in Seq(Changes)
        PROVE  Updates(Append(chunks, c), FALSE, cs) = Append(Updates(chunks, FALSE, cs), Increment(c, cs))
    BY <1>1, UpdatesAppend DEF Increment
  <1> QED BY <1>4, <1>5, <1>6

\* By induction on the batch, in the order of its changes.
LEMMA SplitApplies ==
  ASSUME NEW g \in Gateways, NEW s \in Seq(Changes), NEW cs \in Catalogs
  PROVE  ReceiveAll(g, Updates(SplitByByteBudget(s), FALSE, cs)).catalog = ApplyAll(g.catalog, s)
  <1> DEFINE S == {r \in Seq(Changes) :
                     ReceiveAll(g, Updates(SplitByByteBudget(r), FALSE, cs)).catalog
                       = ApplyAll(g.catalog, r)}
  <1>0. g.catalog \in Catalogs
    BY DEF Gateways
  <1>1. <<>> \in S
    <2>1. <<>> \in Seq(Changes) /\ <<>> \in Seq(Seq(Changes)) /\ <<>> \in Seq(Sent)
      BY EmptySeq
    <2>2. SplitByByteBudget(<<>>) = <<>>
      BY SplitEmpty
    <2>3. Updates(<<>>, FALSE, cs) = <<>>
      BY <2>1, IncrementUpdates
    <2>4. ReceiveAll(g, <<>>) = g
      BY <2>1, ReceiveAllOf
    <2>5. ApplyAll(g.catalog, <<>>) = g.catalog
      BY <1>0, <2>1, ApplyAllOf
    <2> QED BY <2>1, <2>2, <2>3, <2>4, <2>5
  <1>2. ASSUME NEW r \in S, NEW e \in Changes PROVE Append(r, e) \in S
    <2> DEFINE c == SplitByByteBudget(r)
               all == ReceiveAll(g, Updates(c, FALSE, cs)).catalog
    <2>1. r \in Seq(Changes) /\ Append(r, e) \in Seq(Changes) /\ all = ApplyAll(g.catalog, r)
      BY AppendProperties
    <2>2. c \in Seq(Fit(Changes)) /\ SplitByByteBudget(Append(r, e)) = Put(c, e)
      BY <2>1, SplitType, SplitAppend
    <2>3. Fit(Changes) \subseteq Seq(Changes)
      BY DEF Fit
    <2>4. c \in Seq(Seq(Changes))
      BY <2>2, <2>3, SeqMonotonic
    <2> HIDE DEF c
    <2>5. ReceiveAll(g, Updates(Put(c, e), FALSE, cs)).catalog = Apply(all, e)
      <3>1. CASE c # <<>> /\ ~Full(Last(c), e)
        <4> DEFINE last == Last(c)
                   front == Front(c)
                   v == Append(last, e)
                   p == Updates(front, FALSE, cs)
                   before == ReceiveAll(g, p).catalog
        <4>1. front \in Seq(Seq(Changes)) /\ last \in Seq(Changes) /\ c = front \o <<last>>
          BY <2>4, <3>1, FrontLast
        <4>2. v \in Seq(Changes) /\ Put(c, e) = front \o <<v>>
          BY <3>1, <4>1, AppendProperties DEF Put
        <4> HIDE DEF front, last
        <4>3. c = Append(front, last)
          BY <4>1, AppendIsConcat
        <4>4. Put(c, e) = Append(front, v)
          BY <4>1, <4>2, AppendIsConcat
        <4>5. /\ p \in Seq(Sent)
              /\ Updates(c, FALSE, cs) = Append(p, Increment(last, cs))
              /\ Updates(Put(c, e), FALSE, cs) = Append(p, Increment(v, cs))
          BY <4>1, <4>2, <4>3, <4>4, IncrementUpdates
        <4> HIDE DEF p
        <4>6. before \in Catalogs
          BY <4>5, ReceiveAllOf DEF Gateways
        <4>7. all = ApplyAll(before, last)
          BY <4>1, <4>5, ReceiveIncrement
        <4>8. ReceiveAll(g, Updates(Put(c, e), FALSE, cs)).catalog = ApplyAll(before, v)
          BY <4>2, <4>5, ReceiveIncrement
        <4>9. ApplyAll(before, v) = Apply(ApplyAll(before, last), e)
          <5> HIDE DEF before
          <5> QED BY <4>1, <4>6, ApplyAllOf
        <4> QED BY <4>7, <4>8, <4>9
      <3>2. CASE ~(c # <<>> /\ ~Full(Last(c), e))
        <4> DEFINE one == <<e>>
        <4>1. one \in Seq(Changes) /\ one = Append(<<>>, e) /\ <<>> \in Seq(Changes)
          OBVIOUS
        <4>2. Put(c, e) = Append(c, one)
          BY <3>2 DEF Put
        <4> HIDE DEF one
        <4>3. Updates(c, FALSE, cs) \in Seq(Sent)
              /\ Updates(Put(c, e), FALSE, cs) = Append(Updates(c, FALSE, cs), Increment(one, cs))
          BY <2>4, <4>1, <4>2, IncrementUpdates
        <4>4. all \in Catalogs
          BY <4>3, ReceiveAllOf DEF Gateways
        <4>5. ReceiveAll(g, Updates(Put(c, e), FALSE, cs)).catalog = ApplyAll(all, one)
          <5> DEFINE sent == Updates(c, FALSE, cs)
          <5>1. sent \in Seq(Sent)
            BY <4>3
          <5> HIDE DEF sent
          <5>2. ReceiveAll(g, Append(sent, Increment(one, cs))).catalog
                  = ApplyAll(ReceiveAll(g, sent).catalog, one)
            BY <4>1, <5>1, ReceiveIncrement
          <5> QED BY <4>3, <5>2 DEF sent
        <4>6. ApplyAll(all, one) = Apply(all, e)
          <5> HIDE DEF all
          <5> DEFINE none == <<>>
          <5>1. none \in Seq(Changes) /\ one = Append(none, e)
            BY <4>1
          <5>2. ApplyAll(all, none) = all
            BY <4>4, <5>1, ApplyAllOf
          <5> HIDE DEF none
          <5>3. ApplyAll(all, Append(none, e)) = Apply(ApplyAll(all, none), e)
            BY <4>4, <5>1, ApplyAllOf
          <5> QED BY <5>1, <5>2, <5>3
        <4> QED BY <4>5, <4>6
      <3> QED BY <3>1, <3>2
    <2>6. ApplyAll(g.catalog, Append(r, e)) = Apply(all, e)
      <3> DEFINE cat == g.catalog
      <3>1. cat \in Catalogs
        BY <1>0
      <3> HIDE DEF cat
      <3>2. ApplyAll(cat, Append(r, e)) = Apply(ApplyAll(cat, r), e)
        BY <2>1, <3>1, ApplyAllOf
      <3> QED BY <2>1, <3>2 DEF cat
    <2> QED BY <2>1, <2>2, <2>5, <2>6
  <1>3. S \in SUBSET Seq(Changes)
    OBVIOUS
  <1> HIDE DEF S
  <1>4. S = Seq(Changes)
    BY <1>1, <1>2, <1>3, SeqInduction
  <1> QED BY <1>4 DEF S

----------------------------------------------------------------------------
(***************************************************************************)
(* A replay that goes before updates which are still to come. Sets of      *)
(* capabilities S and T are compared, T with the replay and S without: T   *)
(* has nothing that is neither in S nor listed in C, and what T lacks of S *)
(* is listed under its key in C or has a key outside L, where C is what    *)
(* the chunk lists and L the keys that it keeps. Changes that are applied  *)
(* to both afterwards keep this so.                                        *)
(***************************************************************************)
Repeats(S, T, C, L) ==
  /\ T \subseteq S \cup C
  /\ \A x \in S : x \in T \/ (\E c \in C \cap T : Key(c) = Key(x)) \/ Key(x) \notin L

\* What a change leaves on record.
Kept(e, c) == Key(c) # Key(e.cap) /\ (e.action # "UPSERT" /\ e.anyVersion => c.name # e.cap.name)

\* The alternatives of apply exclude each other, since an UPSERT has a version.
LEMMA ApplyKept ==
  ASSUME NEW S, NEW e \in Changes
  PROVE  \A c : c \in Apply(S, e) <=> (c \in S /\ Kept(e, c)) \/ (e.action = "UPSERT" /\ c = e.cap)
  <1> DEFINE others == {c \in S : Key(c) # Key(e.cap)}
  <1>1. CASE e.action = "UPSERT"
    <2>1. ~e.anyVersion
      BY <1>1, UpsertForm
    <2>2. Apply(S, e) = others \cup {e.cap}
      BY <1>1, <2>1 DEF Apply
    <2> QED BY <1>1, <2>2 DEF Kept
  <1>2. CASE e.action # "UPSERT" /\ e.anyVersion
    <2>1. Apply(S, e) = {c \in others : c.name # e.cap.name}
      BY <1>2 DEF Apply
    <2> QED BY <1>2, <2>1 DEF Kept
  <1>3. CASE e.action # "UPSERT" /\ ~e.anyVersion
    <2>1. Apply(S, e) = others
      BY <1>3 DEF Apply
    <2> QED BY <1>3, <2>1 DEF Kept
  <1> QED BY <1>1, <1>2, <1>3

\* A change treats capabilities with one key alike.
LEMMA KeptKey ==
  ASSUME NEW c, NEW d, NEW e, Key(c) = Key(d), Kept(e, d) PROVE Kept(e, c)
  BY DEF Kept, Key

LEMMA ApplyRepeats ==
  ASSUME NEW S, NEW T, NEW C, NEW L, NEW e \in Changes, Repeats(S, T, C, L)
  PROVE  Repeats(Apply(S, e), Apply(T, e), C, L)
  <1>1. Apply(T, e) \subseteq Apply(S, e) \cup C
    BY ApplyKept DEF Repeats
  <1>2. ASSUME NEW x \in Apply(S, e)
        PROVE  x \in Apply(T, e) \/ (\E c \in C \cap Apply(T, e) : Key(c) = Key(x)) \/ Key(x) \notin L
    <2>1. CASE e.action = "UPSERT" /\ x = e.cap
      BY <2>1, ApplyKept
    <2>2. CASE x \in S /\ Kept(e, x)
      <3>1. CASE x \in T
        BY <2>2, <3>1, ApplyKept
      <3>2. ASSUME NEW c \in C \cap T, Key(c) = Key(x) PROVE c \in Apply(T, e)
        BY <2>2, <3>2, KeptKey, ApplyKept
      <3> QED BY <2>2, <3>1, <3>2 DEF Repeats
    <2> QED BY <1>2, <2>1, <2>2, ApplyKept
  <1> QED BY <1>1, <1>2 DEF Repeats

LEMMA ApplyAllRepeats ==
  ASSUME NEW S \in Catalogs, NEW T \in Catalogs, NEW C, NEW L, Repeats(S, T, C, L),
         NEW s \in Seq(Changes)
  PROVE  Repeats(ApplyAll(S, s), ApplyAll(T, s), C, L)
  <1> DEFINE R == {r \in Seq(Changes) : Repeats(ApplyAll(S, r), ApplyAll(T, r), C, L)}
  <1>1. <<>> \in R
    <2>1. <<>> \in Seq(Changes)
      BY EmptySeq
    <2>2. ApplyAll(S, <<>>) = S /\ ApplyAll(T, <<>>) = T
      BY <2>1, ApplyAllOf
    <2> QED BY <2>1, <2>2
  <1>2. ASSUME NEW r \in R, NEW e \in Changes PROVE Append(r, e) \in R
    <2>1. r \in Seq(Changes) /\ Append(r, e) \in Seq(Changes)
      BY AppendProperties
    <2>2. ApplyAll(S, Append(r, e)) = Apply(ApplyAll(S, r), e)
          /\ ApplyAll(T, Append(r, e)) = Apply(ApplyAll(T, r), e)
      BY <2>1, ApplyAllOf
    <2>3. Repeats(Apply(ApplyAll(S, r), e), Apply(ApplyAll(T, r), e), C, L)
      BY ApplyRepeats
    <2> QED BY <2>1, <2>2, <2>3
  <1>3. R \in SUBSET Seq(Changes)
    OBVIOUS
  <1> HIDE DEF R
  <1>4. R = Seq(Changes)
    BY <1>1, <1>2, <1>3, SeqInduction
  <1> QED BY <1>4 DEF R

LEMMA ReceiveAllRepeats ==
  ASSUME NEW g \in Gateways, NEW h \in Gateways, NEW C, NEW L,
         Repeats(g.catalog, h.catalog, C, L), NEW s \in Seq(Increments)
  PROVE  Repeats(ReceiveAll(g, s).catalog, ReceiveAll(h, s).catalog, C, L)
  <1> DEFINE R == {r \in Seq(Increments) :
                     Repeats(ReceiveAll(g, r).catalog, ReceiveAll(h, r).catalog, C, L)}
  <1>0. Increments \subseteq Sent
    BY DEF Increments
  <1>1. <<>> \in R
    <2>1. <<>> \in Seq(Increments) /\ <<>> \in Seq(Sent)
      BY EmptySeq
    <2>2. ReceiveAll(g, <<>>) = g /\ ReceiveAll(h, <<>>) = h
      BY <2>1, ReceiveAllOf
    <2> QED BY <2>1, <2>2
  <1>2. ASSUME NEW r \in R, NEW u \in Increments PROVE Append(r, u) \in R
    <2> DEFINE gr == ReceiveAll(g, r)
               hr == ReceiveAll(h, r)
    <2>1. r \in Seq(Increments) /\ Append(r, u) \in Seq(Increments) /\ r \in Seq(Sent)
      BY <1>0, AppendProperties, SeqMonotonic
    <2>2. u \in Sent /\ ~IsTerminal(u) /\ u.changes \in Seq(Changes)
      BY DEF Increments, Sent, UpdateSet, IsTerminal
    <2>3. /\ ReceiveAll(g, Append(r, u)) = Receive(gr, u) /\ gr \in Gateways
          /\ ReceiveAll(h, Append(r, u)) = Receive(hr, u) /\ hr \in Gateways
      BY <2>1, <2>2, ReceiveAllOf
    <2>4. Repeats(gr.catalog, hr.catalog, C, L)
      OBVIOUS
    <2> HIDE DEF gr, hr
    <2>5. /\ Receive(gr, u).catalog = ApplyAll(gr.catalog, u.changes)
          /\ Receive(hr, u).catalog = ApplyAll(hr.catalog, u.changes)
          /\ gr.catalog \in Catalogs /\ hr.catalog \in Catalogs
      BY <2>2, <2>3, ReceiveType DEF Gateways
    <2>6. Repeats(ApplyAll(gr.catalog, u.changes), ApplyAll(hr.catalog, u.changes), C, L)
      BY <2>2, <2>4, <2>5, ApplyAllRepeats
    <2> QED BY <2>1, <2>3, <2>5, <2>6
  <1>3. R \in SUBSET Seq(Increments)
    OBVIOUS
  <1> HIDE DEF R
  <1>4. R = Seq(Increments)
    BY <1>1, <1>2, <1>3, SeqInduction
  <1> QED BY <1>4 DEF R

\* A chunk of the replay lists what is in C.
LEMMA UpsertsRepeat ==
  ASSUME NEW S \in Catalogs, NEW C, NEW L, NEW s \in Seq({e \in Upserts : e.cap \in C})
  PROVE  Repeats(S, ApplyAll(S, s), C, L)
  <1> DEFINE E == {e \in Upserts : e.cap \in C}
             R == {r \in Seq(E) : Repeats(S, ApplyAll(S, r), C, L)}
  <1>0. E \subseteq Changes
    BY UpsertsAreChanges
  <1>1. <<>> \in R
    <2>1. <<>> \in Seq(Changes) /\ <<>> \in Seq(E)
      BY EmptySeq
    <2>2. ApplyAll(S, <<>>) = S
      BY <2>1, ApplyAllOf
    <2>3. Repeats(S, S, C, L)
      BY DEF Repeats
    <2> QED BY <2>1, <2>2, <2>3
  <1>2. ASSUME NEW r \in R, NEW e \in E PROVE Append(r, e) \in R
    <2> DEFINE T == ApplyAll(S, r)
    <2>1. r \in Seq(E) /\ Append(r, e) \in Seq(E) /\ r \in Seq(Changes) /\ e \in Changes
      BY <1>0, AppendProperties, SeqMonotonic
    <2>2. ApplyAll(S, Append(r, e)) = Apply(T, e)
      BY <2>1, ApplyAllOf
    <2>3. e.action = "UPSERT" /\ e.cap \in C
      BY DEF Upserts
    <2>4. Repeats(S, T, C, L)
      OBVIOUS
    <2> HIDE DEF T
    <2>5. Apply(T, e) \subseteq S \cup C
      BY <2>1, <2>3, <2>4, ApplyKept DEF Repeats
    <2>6. ASSUME NEW x \in S
          PROVE  x \in Apply(T, e) \/ (\E c \in C \cap Apply(T, e) : Key(c) = Key(x)) \/ Key(x) \notin L
      <3>1. CASE Key(x) = Key(e.cap)
        BY <2>1, <2>3, <3>1, ApplyKept
      <3>2. CASE Key(x) # Key(e.cap)
        <4>1. \A c : Key(c) = Key(x) => Kept(e, c)
          BY <2>3, <3>2 DEF Kept
        <4> QED BY <2>1, <2>4, <4>1, ApplyKept DEF Repeats
      <3> QED BY <3>1, <3>2
    <2>7. Repeats(S, Apply(T, e), C, L)
      BY <2>5, <2>6 DEF Repeats
    <2> QED BY <2>1, <2>2, <2>7
  <1>3. R \in SUBSET Seq(E)
    OBVIOUS
  <1> HIDE DEF R
  <1>4. R = Seq(E)
    <2> HIDE DEF E
    <2> QED BY <1>1, <1>2, <1>3, SeqInduction
  <1> QED BY <1>4 DEF R

\* If S holds what the chunk lists, one capability for each key, and none that
\* is deleted, the replay changes nothing.
LEMMA NothingChanges ==
  ASSUME NEW S, NEW T, NEW C, NEW L, Repeats(S, T, C, L), C \subseteq S,
         \A c, d \in S : Key(c) = Key(d) => c = d, \A c \in S : Key(c) \in L
  PROVE  T = S
  BY DEF Repeats

----------------------------------------------------------------------------
(***************************************************************************)
(* The invariant of Run and of the replay.                                 *)
(***************************************************************************)
\* Updates that fit.
FitUpdates == {u \in Sent : IsTerminal(u) \/ u.changes \in Fit(Changes)}

\* What is underway, and where it goes.
Underway ==
  /\ wire \in Seq(FitUpdates)
  /\ sending \in Seq({u \in FitUpdates : ~u.fullSync})
  /\ replaying \in Seq({u \in FitUpdates : u.fullSync})
  /\ listing \in Seq(Seq(Caps))
  /\ batch \in Seq(Changes)
  /\ gateway \in Gateways

\* The snapshot is a map from keys.
OnePerKey == \A c, d \in snapshot : Key(c) = Key(d) => c = d

\* It is finite, so that ReplayFullState can list it.
Recorded == snapshot \in Catalogs /\ IsFiniteSet(snapshot) /\ OnePerKey

SendInv == Underway /\ Recorded

\* Flush and ReplayFullState split alike.
LEMMA SplitFits ==
  ASSUME NEW E \in SUBSET Changes, NEW full \in BOOLEAN, full => E = Upserts, NEW s \in Seq(E),
         NEW cs \in Catalogs
  PROVE  Updates(SplitByByteBudget(s), full, cs) \in Seq({u \in FitUpdates : u.fullSync = full})
  <1> DEFINE c == SplitByByteBudget(s)
             v == Updates(c, full, cs)
             T == {u \in FitUpdates : u.fullSync = full}
             T0 == {u \in Sent : u.fullSync = full /\ u.changes \in Seq(E)}
  <1>1. c \in Seq(Fit(E))
    BY SplitType
  <1>2. Fit(E) \subseteq Seq(E)
    BY DEF Fit
  <1>3. c \in Seq(Seq(E)) /\ Len(c) \in Nat /\ \A k \in 1..Len(c) : c[k] \in Fit(E)
    BY <1>1, <1>2, SeqMonotonic, LenProperties
  <1> HIDE DEF c
  <1>4. v \in Seq(T0) /\ Len(v) = Len(c)
        /\ \A k \in 1..Len(c) : v[k] = [fullSync |-> full, changes |-> c[k], checksum |-> cs]
    BY <1>3, UpdatesOf
  <1>5. Fit(E) \subseteq Fit(Changes)
    BY SeqMonotonic DEF Fit
  <1> HIDE DEF v, T0
  <1>0. v \in [1..Len(c) -> T0]
    BY <1>4, LenProperties
  <1>6. ASSUME NEW k \in 1..Len(c) PROVE v[k] \in T
    <2>1. v[k] \in T0
      BY <1>0
    <2>2. v[k].changes = c[k]
      <3>1. v[k] = [fullSync |-> full, changes |-> c[k], checksum |-> cs]
        BY <1>4
      <3> QED BY <3>1
    <2>3. c[k] \in Fit(Changes)
      BY <1>3, <1>5
    <2> QED BY <2>1, <2>2, <2>3 DEF FitUpdates, T0
  <1>7. v \in [1..Len(c) -> T]
    BY <1>0, <1>6
  <1> HIDE DEF T
  <1> QED BY <1>3, <1>7, FunctionIsSeq DEF v, c, T

LEMMA ReplayFits ==
  ASSUME NEW order \in Seq(Caps), NEW cs \in Catalogs
  PROVE  Replay(order, cs) \in Seq({u \in FitUpdates : u.fullSync})
  <1> DEFINE n == Len(order)
             changes == [k \in DOMAIN order |->
                           [cap |-> order[k], action |-> "UPSERT", anyVersion |-> FALSE]]
             T == {u \in FitUpdates : u.fullSync = TRUE}
  <1>1. n \in Nat /\ DOMAIN order = 1..n /\ order \in [1..n -> Caps]
    BY LenProperties
  <1> HIDE DEF n
  <1>3. changes \in [1..n -> Upserts]
    BY <1>1 DEF Upserts
  <1>4. Replay(order, cs) = Append(Updates(SplitByByteBudget(changes), TRUE, cs), Terminal(cs))
    BY DEF Replay
  <1> HIDE DEF changes
  <1>5. changes \in Seq(Upserts)
    BY <1>1, <1>3, FunctionIsSeq
  <1>6. Updates(SplitByByteBudget(changes), TRUE, cs) \in Seq(T)
    BY <1>5, UpsertsAreChanges, SplitFits
  <1>7. Terminal(cs) \in T
    <2>1. Terminal(cs) \in UpdateSet /\ Terminal(cs).fullSync = TRUE /\ Terminal(cs).changes \in Seq(Upserts)
      BY DEF Terminal, UpdateSet, Catalogs
    <2>2. IsTerminal(Terminal(cs))
      BY DEF IsTerminal, Terminal
    <2> HIDE DEF T
    <2>3. Terminal(cs) \in FitUpdates /\ Terminal(cs).fullSync = TRUE
      BY <2>1, <2>2 DEF FitUpdates, Sent
    <2> QED BY <2>3 DEF T
  <1>8. Replay(order, cs) \in Seq(T)
    <2> DEFINE all == Updates(SplitByByteBudget(changes), TRUE, cs)
    <2>1. all \in Seq(T) /\ Replay(order, cs) = Append(all, Terminal(cs))
      BY <1>4, <1>6
    <2> HIDE DEF T, all
    <2> QED BY <1>7, <2>1, AppendProperties
  <1>9. T \subseteq {u \in FitUpdates : u.fullSync}
    OBVIOUS
  <1> QED BY <1>8, <1>9, SeqMonotonic

LEMMA ApplyRecorded ==
  ASSUME Recorded, NEW e \in Changes, snapshot' = Apply(snapshot, e) PROVE Recorded'
  <1>1. snapshot' \in Catalogs
    BY ApplyType DEF Recorded
  <1>2. \A c : c \in snapshot' <=> (c \in snapshot /\ Kept(e, c)) \/ (e.action = "UPSERT" /\ c = e.cap)
    BY ApplyKept
  <1>3. IsFiniteSet(snapshot')
    <2>1. IsFiniteSet(snapshot \cup {e.cap})
      BY FS_AddElement DEF Recorded
    <2>2. snapshot' \subseteq snapshot \cup {e.cap}
      BY <1>2
    <2> QED BY <2>1, <2>2, FS_Subset
  <1>4. OnePerKey'
    <2> SUFFICES ASSUME NEW c \in snapshot', NEW d \in snapshot', Key(c) = Key(d) PROVE c = d
      BY DEF OnePerKey
    <2> QED BY <1>2 DEF Recorded, OnePerKey, Kept
  <1> QED BY <1>1, <1>3, <1>4 DEF Recorded

\* An update that is lost leaves the others in their order.
LEMMA Shortened ==
  ASSUME NEW T, NEW s \in Seq(T),
         NEW v, v = s \/ (s # <<>> /\ v = Tail(s)) \/ (Len(s) > 1 /\ v = <<Head(s)>> \o Tail(Tail(s)))
  PROVE  v \in Seq(T)
  <1>1. CASE s # <<>> /\ v = Tail(s)
    BY <1>1, HeadTailProperties
  <1>2. CASE Len(s) > 1 /\ v = <<Head(s)>> \o Tail(Tail(s))
    <2> DEFINE h == Head(s)
               t == Tail(s)
               r == Tail(t)
    <2>1. s # <<>>
      BY <1>2
    <2>2. h \in T /\ t \in Seq(T) /\ Len(t) = Len(s) - 1
      BY <2>1, HeadTailProperties
    <2> HIDE DEF h, t
    <2>3. t # <<>>
      BY <1>2, <2>2, LenProperties
    <2>4. r \in Seq(T) /\ <<h>> \in Seq(T)
      BY <2>2, <2>3, HeadTailProperties
    <2> HIDE DEF r
    <2>5. <<h>> \o r \in Seq(T)
      BY <2>4, ConcatProperties
    <2> QED BY <1>2, <2>5 DEF h, r, t
  <1> QED BY <1>1, <1>2

LEMMA SendInvInit == ASSUME Init PROVE SendInv
  <1>1. wire = <<>> /\ sending = <<>> /\ replaying = <<>> /\ listing = <<>> /\ batch = <<>>
        /\ snapshot = {} /\ gateway = [catalog |-> {}, listed |-> {}, checksum |-> {}]
    BY DEF Init, U!UplinkInit, Checksum
  <1>2. gateway \in Gateways
    BY <1>1 DEF Gateways, Catalogs
  <1>3. Recorded
    BY <1>1, FS_EmptySet DEF Recorded, OnePerKey, Catalogs
  <1> QED BY <1>1, <1>2, <1>3 DEF SendInv, Underway

\* An update is queued.
LEMMA QueueUnderway ==
  ASSUME Underway, NEW u \in FitUpdates, U!Queue(u), UNCHANGED <<batch, listing>>,
         sending' \in Seq({w \in FitUpdates : ~w.fullSync}),
         replaying' \in Seq({w \in FitUpdates : w.fullSync})
  PROVE  Underway'
  <1>1. wire' = Append(wire, u) /\ UNCHANGED gateway
    BY DEF U!Queue
  <1>2. wire' \in Seq(FitUpdates)
    BY <1>1, AppendProperties DEF Underway
  <1> QED BY <1>1, <1>2 DEF Underway

LEMMA SendInvInductive ==
  ASSUME SendInv, merged \in Seq(Changes), [Next]_vars PROVE SendInv'
  <1>1. CASE UNCHANGED <<snapshot, wire, sending, listing, replaying, batch, gateway>>
    BY <1>1 DEF SendInv, Underway, Recorded, OnePerKey
  <1>2. CASE Collect
    <2> DEFINE h == Head(merged)
    <2>1. /\ snapshot' = Apply(snapshot, h) /\ batch' = Append(batch, h)
          /\ UNCHANGED <<wire, sending, listing, replaying, gateway>> /\ merged # <<>>
      BY <1>2 DEF Collect, uplinkVars, replayVars
    <2>2. h \in Changes
      BY <2>1, HeadTailProperties
    <2> HIDE DEF h
    <2>3. Recorded'
      BY <2>1, <2>2, ApplyRecorded DEF SendInv
    <2>4. batch' \in Seq(Changes)
      BY <2>1, <2>2, AppendProperties DEF SendInv, Underway
    <2> QED BY <2>1, <2>3, <2>4 DEF SendInv, Underway
  <1>3. CASE Flush
    <2>1. /\ sending' = Updates(SplitByByteBudget(batch), FALSE, snapshot) /\ batch' = <<>>
          /\ UNCHANGED <<wire, snapshot, listing, replaying, gateway>>
      BY <1>3 DEF Flush, Checksum, uplinkVars, replayVars
    <2>2. sending' \in Seq({u \in FitUpdates : u.fullSync = FALSE})
      BY <2>1, SplitFits DEF SendInv, Underway, Recorded
    <2>3. {u \in FitUpdates : u.fullSync = FALSE} \subseteq {u \in FitUpdates : ~u.fullSync}
      OBVIOUS
    <2>4. sending' \in Seq({u \in FitUpdates : ~u.fullSync})
      BY <2>2, <2>3, SeqMonotonic
    <2>5. batch' \in Seq(Changes)
      BY <2>1
    <2> QED BY <2>1, <2>4, <2>5 DEF SendInv, Underway, Recorded, OnePerKey
  <1>4. CASE SendChunk
    <2> DEFINE T == {u \in FitUpdates : ~u.fullSync}
    <2>1. sending # <<>> /\ U!Queue(Head(sending)) /\ sending' = Tail(sending)
          /\ UNCHANGED <<snapshot, batch, listing, replaying>>
      BY <1>4 DEF SendChunk, replayVars
    <2>2. sending \in Seq(T)
      BY DEF SendInv, Underway
    <2> HIDE DEF T
    <2>3. Head(sending) \in T /\ sending' \in Seq(T)
      BY <2>1, <2>2, HeadTailProperties
    <2>4. Underway'
      BY <2>1, <2>3, QueueUnderway DEF SendInv, Underway, T
    <2> QED BY <2>1, <2>4 DEF SendInv, Recorded, OnePerKey
  <1>5. CASE SendReplay
    <2> DEFINE T == {u \in FitUpdates : u.fullSync}
    <2>1. replaying # <<>> /\ U!Queue(Head(replaying)) /\ replaying' = Tail(replaying)
          /\ UNCHANGED <<snapshot, batch, listing, sending>>
      BY <1>5 DEF SendReplay, runVars
    <2>2. replaying \in Seq(T)
      BY DEF SendInv, Underway
    <2> HIDE DEF T
    <2>3. Head(replaying) \in T /\ replaying' \in Seq(T)
      BY <2>1, <2>2, HeadTailProperties
    <2>4. Underway'
      BY <2>1, <2>3, QueueUnderway DEF SendInv, Underway, T
    <2> QED BY <2>1, <2>4 DEF SendInv, Recorded, OnePerKey
  <1>6. CASE ReplayFullState
    <2>1. PICK order \in SetToSeqs(snapshot) : listing' = <<order>>
      BY <1>6 DEF ReplayFullState
    <2>2. UNCHANGED <<wire, snapshot, sending, replaying, batch, gateway>>
      BY <1>6 DEF ReplayFullState, uplinkVars, runVars
    <2>3. order \in Seq(Caps)
      <3>1. Cardinality(snapshot) \in Nat /\ snapshot \subseteq Caps
        BY FS_CardinalityType DEF SendInv, Recorded, Catalogs
      <3>2. order \in [1..Cardinality(snapshot) -> Caps]
        BY <3>1 DEF SetToSeqs
      <3> QED BY <3>1, <3>2, FunctionIsSeq
    <2>4. listing' \in Seq(Seq(Caps))
      <3> DEFINE L == Seq(Caps)
      <3>1. order \in L
        BY <2>3
      <3> HIDE DEF L
      <3>2. <<order>> \in Seq(L)
        BY <3>1
      <3> QED BY <2>1, <3>2 DEF L
    <2> QED BY <2>2, <2>4 DEF SendInv, Underway, Recorded, OnePerKey
  <1>12. CASE TakeChecksum
    <2>1. /\ listing # <<>> /\ replaying' = Replay(Head(listing), snapshot) /\ listing' = <<>>
          /\ UNCHANGED <<wire, snapshot, sending, batch, gateway>>
      BY <1>12 DEF TakeChecksum, Checksum, uplinkVars, runVars
    <2>2. Head(listing) \in Seq(Caps)
      <3> DEFINE L == Seq(Caps)
      <3>1. listing \in Seq(L)
        BY DEF SendInv, Underway
      <3> HIDE DEF L
      <3>2. Head(listing) \in L
        BY <2>1, <3>1, HeadTailProperties
      <3> QED BY <3>2 DEF L
    <2>3. replaying' \in Seq({u \in FitUpdates : u.fullSync})
      BY <2>1, <2>2, ReplayFits DEF SendInv, Recorded
    <2>4. listing' \in Seq(Seq(Caps))
      BY <2>1, EmptySeq
    <2> QED BY <2>1, <2>3, <2>4 DEF SendInv, Underway, Recorded, OnePerKey
  <1>7. CASE Deliver
    <2>1. wire # <<>> /\ gateway' = Receive(gateway, Head(wire)) /\ wire' = Tail(wire)
          /\ UNCHANGED <<snapshot, sending, listing, replaying, batch>>
      BY <1>7 DEF Deliver, U!Deliver, agentVars, runVars
    <2>2. Head(wire) \in FitUpdates /\ wire' \in Seq(FitUpdates)
      BY <2>1, HeadTailProperties DEF SendInv, Underway
    <2>3. Head(wire) \in Sent
      BY <2>2 DEF FitUpdates
    <2>4. gateway' \in Gateways
      BY <2>1, <2>3, ReceiveType DEF SendInv, Underway
    <2> QED BY <2>1, <2>2, <2>4 DEF SendInv, Underway, Recorded, OnePerKey
  <1>8. CASE Lose \/ Break \/ End
    <2>1. UNCHANGED <<snapshot, sending, listing, replaying, batch, gateway>>
      BY <1>8 DEF Lose, Break, End, U!Lose, U!StragglerEnds, U!Break, U!End, agentVars, runVars
    <2>2. wire' = wire \/ (wire # <<>> /\ wire' = Tail(wire))
          \/ (Len(wire) > 1 /\ wire' = <<Head(wire)>> \o Tail(Tail(wire)))
      BY <1>8 DEF Lose, Break, End, U!Lose, U!StragglerEnds, U!Break, U!End, U!Interrupt
    <2>3. wire \in Seq(FitUpdates)
      BY DEF SendInv, Underway
    <2>4. wire' \in Seq(FitUpdates)
      BY <2>2, <2>3, Shortened
    <2> QED BY <2>1, <2>4 DEF SendInv, Underway, Recorded, OnePerKey
  <1>9. ASSUME NEW o \in Names, HandleEvent(o) \/ \E c \in ContentsOf(o) \cup {Gone} : Change(o, c)
        PROVE  UNCHANGED <<snapshot, wire, sending, listing, replaying, batch, gateway>>
    BY <1>9 DEF HandleEvent, Change, uplinkVars, runVars, replayVars
  <1>10. CASE Handshake \/ Gap \/ Start \/ Rotate
    BY <1>1, <1>10 DEF Handshake, Gap, Start, Rotate, U!Open, U!Start, uplinkVars, agentVars, runVars
  <1>11. CASE UNCHANGED vars
    BY <1>1, <1>11 DEF vars, uplinkVars, runVars, replayVars
  <1> QED BY <1>1, <1>2, <1>3, <1>4, <1>5, <1>6, <1>7, <1>8, <1>9, <1>10, <1>11, <1>12 DEF Next

----------------------------------------------------------------------------
(***************************************************************************)
(* Being in step.                                                          *)
(***************************************************************************)
\* What is on record at the gateway once the updates w and d and the batch b
\* have arrived.
Outcome(g, w, d, b) == ApplyAll(ReceiveAll(ReceiveAll(g, w), d).catalog, b)

LEMMA OutcomeOf ==
  ASSUME NEW g \in Gateways, NEW w \in Seq(Sent), NEW d \in Seq(Sent), NEW b \in Seq(Changes),
         NEW cs \in Catalogs
  PROVE  ReceiveAll(g, w \o d \o Updates(<<b>>, FALSE, cs)).catalog = Outcome(g, w, d, b)
  <1> DEFINE p == w \o d
             v == Updates(<<b>>, FALSE, cs)
             none == <<>>
  <1>1. v = <<Increment(b, cs)>>
    <2>1. none \in Seq(Seq(Changes))
      BY EmptySeq
    <2>2. <<b>> = Append(none, b)
      OBVIOUS
    <2>3. Updates(none, FALSE, cs) = <<>>
      BY <2>1, IncrementUpdates
    <2> HIDE DEF none
    <2>4. Updates(Append(none, b), FALSE, cs) = Append(Updates(none, FALSE, cs), Increment(b, cs))
      BY <2>1, IncrementUpdates
    <2>5. \A u : Append(<<>>, u) = <<u>>
      OBVIOUS
    <2> QED BY <2>2, <2>3, <2>4, <2>5, Zenon
  <1>2. p \in Seq(Sent)
    BY ConcatProperties
  <1>3. Increment(b, cs) \in Sent
    BY IncrementType
  <1>4. ReceiveAll(g, p) = ReceiveAll(ReceiveAll(g, w), d)
    BY ReceiveAllOf
  <1> HIDE DEF p, v
  <1>5. p \o v = Append(p, Increment(b, cs))
    BY <1>1, <1>2, <1>3, AppendIsConcat
  <1>6. ReceiveAll(g, p \o v).catalog = ApplyAll(ReceiveAll(g, p).catalog, b)
    BY <1>2, <1>5, ReceiveIncrement
  <1> QED BY <1>4, <1>6 DEF p, v, Outcome

LEMMA FitAreSent ==
  ASSUME Underway
  PROVE  /\ wire \in Seq(Sent) /\ sending \in Seq(Sent) /\ sending \in Seq(Increments)
         /\ batch \in Seq(Changes) /\ gateway \in Gateways
  <1> DEFINE T == {u \in FitUpdates : ~u.fullSync}
  <1>1. FitUpdates \subseteq Sent /\ T \subseteq Increments /\ Increments \subseteq Sent
    BY DEF FitUpdates, Increments
  <1>2. wire \in Seq(FitUpdates) /\ sending \in Seq(T) /\ batch \in Seq(Changes) /\ gateway \in Gateways
    BY DEF Underway
  <1> HIDE DEF T
  <1>3. wire \in Seq(Sent) /\ sending \in Seq(Increments)
    BY <1>1, <1>2, SeqMonotonic
  <1>4. sending \in Seq(Sent)
    BY <1>1, <1>3, SeqMonotonic
  <1> QED BY <1>2, <1>3, <1>4

LEMMA InSyncIs ==
  ASSUME SendInv PROVE InSync <=> Outcome(gateway, wire, sending, batch) = snapshot
  <1>1. wire \in Seq(Sent) /\ sending \in Seq(Sent) /\ batch \in Seq(Changes) /\ gateway \in Gateways
        /\ snapshot \in Catalogs
    BY FitAreSent DEF SendInv, Recorded
  <1> QED BY <1>1, OutcomeOf DEF InSync

\* And after a step.
LEMMA InSyncNext ==
  ASSUME SendInv' PROVE InSync' <=> Outcome(gateway', wire', sending', batch') = snapshot'
  <1> DEFINE T == {u \in FitUpdates : ~u.fullSync}
  <1>1. FitUpdates \subseteq Sent /\ T \subseteq Sent
    BY DEF FitUpdates
  <1>2. /\ wire' \in Seq(FitUpdates) /\ sending' \in Seq(T)
        /\ batch' \in Seq(Changes) /\ gateway' \in Gateways /\ snapshot' \in Catalogs
    BY DEF SendInv, Underway, Recorded
  <1> HIDE DEF T
  <1>3. wire' \in Seq(Sent) /\ sending' \in Seq(Sent)
    BY <1>1, <1>2, SeqMonotonic
  <1>4. ReceiveAll(gateway', wire' \o sending' \o Updates(<<batch'>>, FALSE, snapshot')).catalog
          = Outcome(gateway', wire', sending', batch')
    BY <1>2, <1>3, OutcomeOf
  <1> QED BY <1>4 DEF InSync

\* Deliver, SendChunk, Collect and Flush leave the outcome what the snapshot
\* is.
LEMMA DeliverInSync ==
  ASSUME NEW g \in Gateways, NEW w \in Seq(Sent), w # <<>>, NEW d \in Seq(Sent), NEW b
  PROVE  Outcome(Receive(g, Head(w)), Tail(w), d, b) = Outcome(g, w, d, b)
  <1> DEFINE h == Head(w)
             t == Tail(w)
  <1>1. h \in Sent /\ t \in Seq(Sent) /\ <<h>> \in Seq(Sent)
    BY HeadTailProperties
  <1>2. w = <<h>> \o t
    OBVIOUS
  <1> HIDE DEF h, t
  <1>3. ReceiveAll(g, <<h>>) = Receive(g, h)
    BY <1>1, ReceiveAllOf
  <1>4. ReceiveAll(g, <<h>> \o t) = ReceiveAll(ReceiveAll(g, <<h>>), t)
    <2> DEFINE one == <<h>>
    <2>1. one \in Seq(Sent)
      BY <1>1
    <2> HIDE DEF one
    <2>2. ReceiveAll(g, one \o t) = ReceiveAll(ReceiveAll(g, one), t)
      BY <1>1, <2>1, ReceiveAllOf
    <2> QED BY <2>2 DEF one
  <1>5. ReceiveAll(g, w) = ReceiveAll(Receive(g, h), t)
    BY <1>2, <1>3, <1>4
  <1> QED BY <1>5 DEF Outcome, h, t

LEMMA SendInSync ==
  ASSUME NEW g \in Gateways, NEW w \in Seq(Sent), NEW d \in Seq(Sent), d # <<>>, NEW b
  PROVE  Outcome(g, Append(w, Head(d)), Tail(d), b) = Outcome(g, w, d, b)
  <1> DEFINE a == ReceiveAll(g, w)
             h == Head(d)
  <1>1. h \in Sent
    BY HeadTailProperties
  <1>2. a \in Gateways /\ ReceiveAll(g, Append(w, h)) = Receive(a, h)
    BY <1>1, ReceiveAllOf
  <1> HIDE DEF a
  <1>3. ReceiveAll(Receive(a, h), Tail(d)) = ReceiveAll(a, d)
    <2> DEFINE t == Tail(d)
               one == <<h>>
    <2>1. t \in Seq(Sent) /\ one \in Seq(Sent)
      BY <1>1, HeadTailProperties
    <2>2. d = one \o t
      OBVIOUS
    <2> HIDE DEF h, t
    <2>3. ReceiveAll(a, one) = Receive(a, h)
      BY <1>1, <1>2, <2>1, ReceiveAllOf
    <2> HIDE DEF one
    <2>4. ReceiveAll(a, one \o t) = ReceiveAll(ReceiveAll(a, one), t)
      BY <1>2, <2>1, ReceiveAllOf
    <2> QED BY <2>2, <2>3, <2>4 DEF t
  <1> QED BY <1>2, <1>3 DEF Outcome, a, h

LEMMA CollectInSync ==
  ASSUME NEW g \in Gateways, NEW w \in Seq(Sent), NEW d \in Seq(Sent), NEW b \in Seq(Changes),
         NEW e \in Changes
  PROVE  Outcome(g, w, d, Append(b, e)) = Apply(Outcome(g, w, d, b), e)
  <1> DEFINE a == ReceiveAll(ReceiveAll(g, w), d)
             cat == a.catalog
  <1>1. ReceiveAll(g, w) \in Gateways
    BY ReceiveAllOf
  <1>2. a \in Gateways
    BY <1>1, ReceiveAllOf
  <1>3. cat \in Catalogs
    BY <1>2 DEF Gateways
  <1> HIDE DEF cat
  <1>4. ApplyAll(cat, Append(b, e)) = Apply(ApplyAll(cat, b), e)
    BY <1>3, ApplyAllOf
  <1> QED BY <1>4 DEF Outcome, cat

LEMMA FlushInSync ==
  ASSUME NEW g \in Gateways, NEW w \in Seq(Sent), NEW b \in Seq(Changes), NEW cs \in Catalogs
  PROVE  Outcome(g, w, Updates(SplitByByteBudget(b), FALSE, cs), <<>>) = Outcome(g, w, <<>>, b)
  <1> DEFINE a == ReceiveAll(g, w)
             d == Updates(SplitByByteBudget(b), FALSE, cs)
             cat == ReceiveAll(a, d).catalog
             none == <<>>
  <1>1. a \in Gateways
    BY ReceiveAllOf
  <1>2. cat = ApplyAll(a.catalog, b)
    <2> HIDE DEF a
    <2> QED BY <1>1, SplitApplies
  <1>3. d \in Seq(Sent)
    <2>1. SplitByByteBudget(b) \in Seq(Fit(Changes)) /\ Fit(Changes) \subseteq Seq(Changes)
      BY SplitType DEF Fit
    <2>2. SplitByByteBudget(b) \in Seq(Seq(Changes))
      BY <2>1, SeqMonotonic
    <2> QED BY <2>2, IncrementUpdates
  <1> HIDE DEF a, d
  <1>4. cat \in Catalogs
    BY <1>1, <1>3, ReceiveAllOf DEF Gateways
  <1>5. none \in Seq(Changes) /\ none \in Seq(Sent)
    BY EmptySeq
  <1>6. ApplyAll(cat, <<>>) = cat
    <2> HIDE DEF cat
    <2> QED BY <1>4, <1>5, ApplyAllOf
  <1>7. ReceiveAll(a, <<>>) = a
    BY <1>1, <1>5, ReceiveAllOf
  <1> QED BY <1>2, <1>6, <1>7 DEF Outcome, a, d

\* L has all keys of S, which has one capability for each, and C is in S.
Lists(S, C, L) ==
  /\ C \subseteq S
  /\ \A x, y \in S : Key(x) = Key(y) => x = y
  /\ \A x \in S : Key(x) \in L

\* The updates that Run has yet to send come after the chunk.
LEMMA RepeatInSync ==
  ASSUME NEW g \in Gateways, NEW h \in Gateways, NEW d \in Seq(Increments), NEW b \in Seq(Changes),
         NEW C, NEW L, NEW S, Repeats(g.catalog, h.catalog, C, L),
         ApplyAll(ReceiveAll(g, d).catalog, b) = S, Lists(S, C, L)
  PROVE  ApplyAll(ReceiveAll(h, d).catalog, b) = S
  <1> DEFINE gc == ReceiveAll(g, d).catalog
             hc == ReceiveAll(h, d).catalog
  <1>1. Repeats(gc, hc, C, L)
    BY ReceiveAllRepeats
  <1>2. d \in Seq(Sent)
    BY SeqMonotonic DEF Increments
  <1>3. gc \in Catalogs /\ hc \in Catalogs
    BY <1>2, ReceiveAllOf DEF Gateways
  <1> HIDE DEF gc, hc
  <1>4. Repeats(ApplyAll(gc, b), ApplyAll(hc, b), C, L)
    BY <1>1, <1>3, ApplyAllRepeats
  <1>5. ApplyAll(gc, b) = S
    BY DEF gc
  <1>6. ApplyAll(hc, b) = S
    BY <1>4, <1>5, NothingChanges DEF Lists
  <1> QED BY <1>6 DEF hc

\* A chunk of the replay that is not outdated changes nothing.
LEMMA ReplayInSync ==
  ASSUME SendInv, InSync, SendReplay, ~Outdated, SendInv' PROVE InSync'
  <1> DEFINE u == Head(replaying)
             g == ReceiveAll(gateway, wire)
             h == Receive(g, u)
             cat == g.catalog
  <1>1. /\ replaying # <<>> /\ wire' = Append(wire, u)
        /\ UNCHANGED <<gateway, sending, batch, snapshot>>
    BY DEF SendReplay, U!Queue, runVars
  <1>2. /\ wire \in Seq(Sent) /\ sending \in Seq(Sent) /\ sending \in Seq(Increments)
        /\ batch \in Seq(Changes) /\ gateway \in Gateways
    BY FitAreSent DEF SendInv
  <1>3. u \in Sent /\ u.fullSync
    <2> DEFINE T == {w \in FitUpdates : w.fullSync}
    <2>1. replaying \in Seq(T)
      BY DEF SendInv, Underway
    <2>2. u \in T
      <3> HIDE DEF T
      <3> QED BY <1>1, <2>1, HeadTailProperties
    <2> QED BY <2>2 DEF FitUpdates
  <1>4. u.changes \in Seq(Upserts)
    BY <1>3 DEF Sent
  <1>5. snapshot \in Catalogs /\ \A x, y \in snapshot : Key(x) = Key(y) => x = y
    BY DEF SendInv, Recorded, OnePerKey
  <1>6. Outcome(gateway, wire, sending, batch) = snapshot
    BY InSyncIs
  <1>7. g \in Gateways /\ ReceiveAll(gateway, Append(wire, u)) = h
    <2> HIDE DEF u
    <2> QED BY <1>2, <1>3, ReceiveAllOf
  <1>8. cat \in Catalogs
    BY <1>7 DEF Gateways
  <1>9. /\ h \in Gateways
        /\ ~IsTerminal(u) => h.catalog = ApplyAll(cat, u.changes)
        /\ IsTerminal(u) => h.catalog = {c \in cat : Key(c) \in g.listed}
    <2> HIDE DEF g, u
    <2> QED BY <1>3, <1>7, ReceiveType
  <1>10. \E C, L : /\ Repeats(cat, h.catalog, C, L) /\ C \subseteq snapshot
                    /\ \A x \in snapshot : Key(x) \in L
    <2>1. CASE IsTerminal(u)
      <3>1. \A x \in snapshot : Key(x) \in g.listed
        BY <2>1 DEF Outdated
      <3>2. Repeats(cat, h.catalog, {}, g.listed)
        <4> HIDE DEF cat, h, g, u
        <4> QED BY <1>9, <2>1 DEF Repeats
      <3> QED BY <3>1, <3>2
    <2>2. CASE ~IsTerminal(u)
      <3> DEFINE L == {Key(x) : x \in snapshot}
                 E == {e \in Upserts : e.cap \in snapshot}
      <3>1. \A k \in DOMAIN u.changes : u.changes[k].cap \in snapshot
        BY <2>2 DEF Outdated
      <3> HIDE DEF u
      <3>2. u.changes \in Seq(E)
        <4>1. DOMAIN u.changes = 1..Len(u.changes) /\ Len(u.changes) \in Nat
              /\ u.changes \in [1..Len(u.changes) -> Upserts]
          BY <1>4, LenProperties
        <4>2. u.changes \in [1..Len(u.changes) -> E]
          BY <3>1, <4>1
        <4> HIDE DEF E
        <4> QED BY <4>1, <4>2, FunctionIsSeq
      <3>3. Repeats(cat, ApplyAll(cat, u.changes), snapshot, L)
        <4> HIDE DEF cat, L
        <4> QED BY <1>8, <3>2, UpsertsRepeat
      <3>4. \A x \in snapshot : Key(x) \in L
        OBVIOUS
      <3> HIDE DEF L, cat, h
      <3> QED BY <1>9, <2>2, <3>3, <3>4
    <2> QED BY <2>1, <2>2
  <1>11. PICK C, L : /\ Repeats(cat, h.catalog, C, L) /\ C \subseteq snapshot
                     /\ \A x \in snapshot : Key(x) \in L
    BY <1>10
  <1>12. ApplyAll(ReceiveAll(g, sending).catalog, batch) = snapshot
    BY <1>6 DEF Outcome
  <1>13. ApplyAll(ReceiveAll(h, sending).catalog, batch) = snapshot
    <2>1. Repeats(g.catalog, h.catalog, C, L)
      BY <1>11
    <2>2. Lists(snapshot, C, L)
      BY <1>5, <1>11 DEF Lists
    <2>3. g \in Gateways /\ h \in Gateways
      BY <1>7, <1>9
    <2> HIDE DEF g, h
    <2> QED BY <1>2, <1>12, <2>1, <2>2, <2>3, RepeatInSync
  <1>14. Outcome(gateway', wire', sending', batch') = snapshot'
    BY <1>1, <1>7, <1>13 DEF Outcome
  <1> QED BY <1>14, InSyncNext

----------------------------------------------------------------------------
(***************************************************************************)
(* Changes that are applied again. Run has put into the snapshot what it   *)
(* has yet to send, so that a replay overtakes those changes and the       *)
(* gateway applies them after it.                                          *)
(***************************************************************************)
LEMMA ApplyAllConcat ==
  ASSUME NEW S \in Catalogs, NEW s \in Seq(Changes), NEW t \in Seq(Changes)
  PROVE  ApplyAll(S, s \o t) = ApplyAll(ApplyAll(S, s), t)
  <1>1. s \o t \in Seq(Changes)
    BY ConcatProperties
  <1>2. Fold(ApplyStep, Catalogs, S, s \o t)
          = Fold(ApplyStep, Catalogs, Fold(ApplyStep, Catalogs, S, s), t)
    BY ApplyStepType, FoldConcat
  <1>3. ApplyAll(S, s \o t) = Fold(ApplyStep, Catalogs, S, s \o t)
    BY <1>1, ApplyFold
  <1>4. ApplyAll(S, s) = Fold(ApplyStep, Catalogs, S, s) /\ ApplyAll(S, s) \in Catalogs
    BY ApplyFold, ApplyAllOf
  <1>5. ApplyAll(ApplyAll(S, s), t) = Fold(ApplyStep, Catalogs, ApplyAll(S, s), t)
    BY <1>4, ApplyFold
  <1> QED BY <1>2, <1>3, <1>4, <1>5

\* S and T have the same of what e keeps.
Agree(S, T, e) == \A c : Kept(e, c) => (c \in S <=> c \in T)

LEMMA ApplyAgree ==
  ASSUME NEW S, NEW T, NEW e \in Changes, NEW f \in Changes, Agree(S, T, e)
  PROVE  Agree(Apply(S, f), Apply(T, f), e)
  BY ApplyKept DEF Agree

LEMMA ApplyAllAgree ==
  ASSUME NEW S \in Catalogs, NEW T \in Catalogs, NEW e \in Changes, Agree(S, T, e),
         NEW s \in Seq(Changes)
  PROVE  Agree(ApplyAll(S, s), ApplyAll(T, s), e)
  <1> DEFINE R == {r \in Seq(Changes) : Agree(ApplyAll(S, r), ApplyAll(T, r), e)}
  <1>1. <<>> \in R
    <2>1. <<>> \in Seq(Changes)
      BY EmptySeq
    <2>2. ApplyAll(S, <<>>) = S /\ ApplyAll(T, <<>>) = T
      BY <2>1, ApplyAllOf
    <2> QED BY <2>1, <2>2
  <1>2. ASSUME NEW r \in R, NEW f \in Changes PROVE Append(r, f) \in R
    <2>1. r \in Seq(Changes) /\ Append(r, f) \in Seq(Changes)
      BY AppendProperties
    <2>2. ApplyAll(S, Append(r, f)) = Apply(ApplyAll(S, r), f)
          /\ ApplyAll(T, Append(r, f)) = Apply(ApplyAll(T, r), f)
      BY <2>1, ApplyAllOf
    <2>3. Agree(Apply(ApplyAll(S, r), f), Apply(ApplyAll(T, r), f), e)
      BY ApplyAgree
    <2> QED BY <2>1, <2>2, <2>3
  <1>3. R \in SUBSET Seq(Changes)
    OBVIOUS
  <1> HIDE DEF R
  <1>4. R = Seq(Changes)
    BY <1>1, <1>2, <1>3, SeqInduction
  <1> QED BY <1>4 DEF R

\* The last change has the last word.
LEMMA AgreeApplies ==
  ASSUME NEW S, NEW T, NEW e \in Changes, Agree(S, T, e)
  PROVE  Apply(S, e) = Apply(T, e)
  BY ApplyKept DEF Agree

LEMMA ApplyAgrees ==
  ASSUME NEW S, NEW e \in Changes PROVE Agree(S, Apply(S, e), e)
  <1>1. ~Kept(e, e.cap)
    BY DEF Kept
  <1> QED BY <1>1, ApplyKept DEF Agree

\* Changes that are applied a second time change nothing.
LEMMA ApplyTwice ==
  ASSUME NEW S \in Catalogs, NEW s \in Seq(Changes)
  PROVE  ApplyAll(ApplyAll(S, s), s) = ApplyAll(S, s)
  <1> DEFINE R == {r \in Seq(Changes) : ApplyAll(ApplyAll(S, r), r) = ApplyAll(S, r)}
  <1>1. <<>> \in R
    <2>1. <<>> \in Seq(Changes)
      BY EmptySeq
    <2>2. ApplyAll(S, <<>>) = S
      BY <2>1, ApplyAllOf
    <2> QED BY <2>1, <2>2
  <1>2. ASSUME NEW r \in R, NEW e \in Changes PROVE Append(r, e) \in R
    <2> DEFINE A == ApplyAll(S, r)
               B == Apply(A, e)
    <2>1. r \in Seq(Changes) /\ Append(r, e) \in Seq(Changes)
      BY AppendProperties
    <2>2. ApplyAll(S, Append(r, e)) = B /\ A \in Catalogs /\ ApplyAll(A, r) = A
      BY <2>1, ApplyAllOf
    <2>3. Agree(A, B, e)
      BY ApplyAgrees
    <2> HIDE DEF A
    <2>4. B \in Catalogs
      BY <2>2, ApplyType
    <2> HIDE DEF B
    <2>5. Agree(ApplyAll(A, r), ApplyAll(B, r), e)
      BY <2>1, <2>2, <2>3, <2>4, ApplyAllAgree
    <2>6. Apply(ApplyAll(B, r), e) = Apply(ApplyAll(A, r), e)
      BY <2>5, AgreeApplies
    <2>7. ApplyAll(B, Append(r, e)) = Apply(ApplyAll(B, r), e)
      BY <2>1, <2>4, ApplyAllOf
    <2>8. ApplyAll(B, Append(r, e)) = B
      BY <2>2, <2>6, <2>7 DEF B
    <2> QED BY <2>1, <2>2, <2>8
  <1>3. R \in SUBSET Seq(Changes)
    OBVIOUS
  <1> HIDE DEF R
  <1>4. R = Seq(Changes)
    BY <1>1, <1>2, <1>3, SeqInduction
  <1> QED BY <1>4 DEF R

\* What else is on record goes or stays.
LEMMA ApplyAllWider ==
  ASSUME NEW S \in Catalogs, NEW T \in Catalogs, S \subseteq T, NEW s \in Seq(Changes)
  PROVE  ApplyAll(S, s) \subseteq ApplyAll(T, s) /\ ApplyAll(T, s) \subseteq ApplyAll(S, s) \cup T
  <1> DEFINE P(r) == ApplyAll(S, r) \subseteq ApplyAll(T, r)
                     /\ ApplyAll(T, r) \subseteq ApplyAll(S, r) \cup T
             R == {r \in Seq(Changes) : P(r)}
  <1>1. <<>> \in R
    <2>1. <<>> \in Seq(Changes)
      BY EmptySeq
    <2>2. ApplyAll(S, <<>>) = S /\ ApplyAll(T, <<>>) = T
      BY <2>1, ApplyAllOf
    <2> QED BY <2>1, <2>2
  <1>2. ASSUME NEW r \in R, NEW e \in Changes PROVE Append(r, e) \in R
    <2>1. r \in Seq(Changes) /\ Append(r, e) \in Seq(Changes) /\ P(r)
      BY AppendProperties
    <2>2. ApplyAll(S, Append(r, e)) = Apply(ApplyAll(S, r), e)
          /\ ApplyAll(T, Append(r, e)) = Apply(ApplyAll(T, r), e)
      BY <2>1, ApplyAllOf
    <2>3. \A X : \A c : c \in Apply(X, e)
            <=> (c \in X /\ Kept(e, c)) \/ (e.action = "UPSERT" /\ c = e.cap)
      BY ApplyKept
    <2>4. P(Append(r, e))
      BY <2>1, <2>2, <2>3
    <2> QED BY <2>1, <2>4
  <1>3. R \in SUBSET Seq(Changes)
    OBVIOUS
  <1> HIDE DEF R
  <1>4. R = Seq(Changes)
    BY <1>1, <1>2, <1>3, SeqInduction
  <1> QED BY <1>4 DEF R

\* What Run has yet to send amounts to changes q.
AmountsTo(d, q) == \A g \in Gateways : ReceiveAll(g, d).catalog = ApplyAll(g.catalog, q)

LEMMA SendingAmounts ==
  ASSUME NEW d \in Seq(Increments) PROVE \E q \in Seq(Changes) : AmountsTo(d, q)
  <1> DEFINE R == {r \in Seq(Increments) : \E q \in Seq(Changes) : AmountsTo(r, q)}
  <1>0. Increments \subseteq Sent
    BY DEF Increments
  <1>1. <<>> \in R
    <2> DEFINE none == <<>>
    <2>1. none \in Seq(Changes) /\ none \in Seq(Sent) /\ none \in Seq(Increments)
      BY EmptySeq
    <2>2. ASSUME NEW g \in Gateways PROVE ReceiveAll(g, none).catalog = ApplyAll(g.catalog, none)
      <3>1. g.catalog \in Catalogs
        BY DEF Gateways
      <3>2. ReceiveAll(g, none) = g
        BY <2>1, ReceiveAllOf
      <3>3. ApplyAll(g.catalog, none) = g.catalog
        BY <2>1, <3>1, ApplyAllOf
      <3> QED BY <3>2, <3>3
    <2> QED BY <2>1, <2>2 DEF AmountsTo
  <1>2. ASSUME NEW r \in R, NEW u \in Increments PROVE Append(r, u) \in R
    <2>1. r \in Seq(Increments) /\ Append(r, u) \in Seq(Increments) /\ r \in Seq(Sent)
      BY <1>0, AppendProperties, SeqMonotonic
    <2>2. u \in Sent /\ ~IsTerminal(u) /\ u.changes \in Seq(Changes)
      BY DEF Increments, Sent, UpdateSet, IsTerminal
    <2>3. PICK q \in Seq(Changes) : AmountsTo(r, q)
      OBVIOUS
    <2>4. q \o u.changes \in Seq(Changes)
      BY <2>2, ConcatProperties
    <2>5. ASSUME NEW g \in Gateways
          PROVE  ReceiveAll(g, Append(r, u)).catalog = ApplyAll(g.catalog, q \o u.changes)
      <3> DEFINE gr == ReceiveAll(g, r)
                 cat == g.catalog
      <3>1. cat \in Catalogs
        BY DEF Gateways
      <3>2. ReceiveAll(g, Append(r, u)) = Receive(gr, u) /\ gr \in Gateways
        BY <2>1, <2>2, ReceiveAllOf
      <3>3. gr.catalog = ApplyAll(cat, q)
        BY <2>3 DEF AmountsTo
      <3> HIDE DEF gr, cat
      <3>4. Receive(gr, u).catalog = ApplyAll(gr.catalog, u.changes)
        BY <2>2, <3>2, ReceiveType
      <3>5. ApplyAll(cat, q \o u.changes) = ApplyAll(ApplyAll(cat, q), u.changes)
        BY <2>2, <3>1, ApplyAllConcat
      <3> QED BY <3>2, <3>3, <3>4, <3>5 DEF cat
    <2> QED BY <2>1, <2>4, <2>5 DEF AmountsTo
  <1>3. R \in SUBSET Seq(Increments)
    OBVIOUS
  <1> HIDE DEF R
  <1>4. R = Seq(Increments)
    BY <1>1, <1>2, <1>3, SeqInduction
  <1> QED BY <1>4 DEF R

----------------------------------------------------------------------------
(***************************************************************************)
(* A whole replay: it lists the snapshot, and its terminal chunk deletes   *)
(* the rest.                                                               *)
(***************************************************************************)
\* The keys that changes are about.
Keys(s) == {Key(s[k].cap) : k \in DOMAIN s}

Listing(c, cs) == [fullSync |-> TRUE, changes |-> c, checksum |-> cs]

LEMMA KeysAppend ==
  ASSUME NEW s \in Seq(Changes), NEW e \in Changes
  PROVE  Keys(Append(s, e)) = Keys(s) \cup {Key(e.cap)}
  <1> DEFINE v == Append(s, e)
             n == Len(s)
  <1>1. n \in Nat /\ Len(v) = n + 1 /\ v[n + 1] = e /\ (\A i \in 1..n : v[i] = s[i])
        /\ DOMAIN s = 1..n /\ DOMAIN v = 1..n + 1
    BY AppendProperties, LenProperties
  <1> HIDE DEF v, n
  <1>2. 1..n + 1 = 1..n \cup {n + 1}
    BY <1>1
  <1>3. Keys(v) = Keys(s) \cup {Key(e.cap)}
    BY <1>1, <1>2 DEF Keys
  <1> QED BY <1>3 DEF v

\* A gateway g when capabilities have been listed to it.
Listed(g, s) ==
  [catalog |-> ApplyAll(g.catalog, s), listed |-> g.listed \cup Keys(s), checksum |-> g.checksum]

ListOne(g, e) ==
  [catalog |-> Apply(g.catalog, e), listed |-> g.listed \cup {Key(e.cap)}, checksum |-> g.checksum]

LEMMA ListedOf ==
  ASSUME NEW g \in Gateways, NEW s \in Seq(Changes), NEW e \in Changes
  PROVE  Listed(g, Append(s, e)) = ListOne(Listed(g, s), e)
  <1> DEFINE cat == g.catalog
             a == Listed(g, s)
             v == Append(s, e)
  <1>1. cat \in Catalogs
    BY DEF Gateways
  <1>2. a.catalog = ApplyAll(cat, s) /\ a.listed = g.listed \cup Keys(s) /\ a.checksum = g.checksum
    BY DEF Listed
  <1>3. Listed(g, v) = [catalog |-> ApplyAll(cat, v), listed |-> g.listed \cup Keys(v),
                        checksum |-> g.checksum]
    BY DEF Listed
  <1> HIDE DEF cat, a
  <1>4. ApplyAll(cat, v) = Apply(ApplyAll(cat, s), e)
    BY <1>1, ApplyAllOf
  <1>5. Keys(v) = Keys(s) \cup {Key(e.cap)}
    BY KeysAppend
  <1>6. g.listed \cup Keys(v) = a.listed \cup {Key(e.cap)}
    BY <1>2, <1>5
  <1> HIDE DEF v
  <1>7. Listed(g, v) = [catalog |-> Apply(a.catalog, e), listed |-> a.listed \cup {Key(e.cap)},
                        checksum |-> a.checksum]
    BY <1>2, <1>3, <1>4, <1>6
  <1> QED BY <1>7 DEF ListOne, a, v

LEMMA ListedNone == ASSUME NEW g \in Gateways PROVE Listed(g, <<>>) = g
  <1> DEFINE cat == g.catalog
             none == <<>>
  <1>1. cat \in Catalogs /\ none \in Seq(Changes)
        /\ g = [catalog |-> cat, listed |-> g.listed, checksum |-> g.checksum]
    BY EmptySeq DEF Gateways
  <1>2. Listed(g, none) = [catalog |-> ApplyAll(cat, none), listed |-> g.listed \cup Keys(none),
                           checksum |-> g.checksum]
    BY DEF Listed
  <1>3. g.listed \cup Keys(none) = g.listed
    BY DEF Keys
  <1> HIDE DEF cat
  <1>4. ApplyAll(cat, none) = cat
    BY <1>1, ApplyAllOf
  <1> HIDE DEF none
  <1>5. Listed(g, none) = g
    BY <1>1, <1>2, <1>3, <1>4
  <1> QED BY <1>5 DEF none

\* The gateway receives a chunk of the replay.
LEMMA ReceiveListing ==
  ASSUME NEW g \in Gateways, NEW p \in Seq(Sent), NEW c \in Seq(Upserts), c # <<>>,
         NEW cs \in Catalogs
  PROVE  ReceiveAll(g, Append(p, Listing(c, cs))) = Listed(ReceiveAll(g, p), c)
  <1> DEFINE u == Listing(c, cs)
             a == ReceiveAll(g, p)
  <1>1. c \in Seq(Changes)
    BY UpsertsAreChanges, SeqMonotonic
  <1>2. u \in Sent /\ ~IsTerminal(u) /\ u.changes = c /\ u.fullSync
    BY <1>1 DEF Listing, Sent, UpdateSet, IsTerminal, Catalogs
  <1> HIDE DEF u
  <1>3. ReceiveAll(g, Append(p, u)) = Receive(a, u)
    BY <1>2, ReceiveAllOf
  <1> HIDE DEF a
  <1>4. Receive(a, u) = Listed(a, c)
    BY <1>2 DEF Receive, ApplyAll, Keys, Listed
  <1> QED BY <1>3, <1>4 DEF u, a

LEMMA ListingUpdates ==
  ASSUME NEW b \in Seq(Seq(Upserts)), NEW d \in Seq(Upserts), NEW cs \in Catalogs
  PROVE  /\ Updates(b, TRUE, cs) \in Seq(Sent)
         /\ Updates(Append(b, d), TRUE, cs) = Append(Updates(b, TRUE, cs), Listing(d, cs))
  <1> DEFINE T == {w \in Sent : w.fullSync = TRUE /\ w.changes \in Seq(Upserts)}
  <1>1. Updates(Append(b, d), TRUE, cs) = Append(Updates(b, TRUE, cs), Listing(d, cs))
    BY UpsertsAreChanges, UpdatesAppend DEF Listing
  <1>2. Updates(b, TRUE, cs) \in Seq(T) /\ T \subseteq Sent
    BY UpsertsAreChanges, UpdatesOf
  <1> HIDE DEF T
  <1>3. Updates(b, TRUE, cs) \in Seq(Sent)
    BY <1>2, SeqMonotonic
  <1> QED BY <1>1, <1>3

\* One more change in the last chunk, or in a new one.
LEMMA PutLists ==
  ASSUME NEW g \in Gateways, NEW c \in Seq(Fit(Upserts)), NEW e \in Upserts, NEW cs \in Catalogs
  PROVE  ReceiveAll(g, Updates(Put(c, e), TRUE, cs)) = ListOne(ReceiveAll(g, Updates(c, TRUE, cs)), e)
  <1> DEFINE all == ReceiveAll(g, Updates(c, TRUE, cs))
  <1>1. Fit(Upserts) \subseteq Seq(Upserts) /\ e \in Changes
    BY UpsertsAreChanges DEF Fit
  <1>2. c \in Seq(Seq(Upserts))
    BY <1>1, SeqMonotonic
  <1>3. CASE c # <<>> /\ ~Full(Last(c), e)
    <2> DEFINE last == Last(c)
               front == Front(c)
               v == Append(last, e)
               p == Updates(front, TRUE, cs)
               before == ReceiveAll(g, p)
    <2>1. front \in Seq(Fit(Upserts)) /\ last \in Fit(Upserts) /\ c = front \o <<last>>
      BY <1>3, FrontLast
    <2>2. front \in Seq(Seq(Upserts)) /\ last \in Seq(Upserts) /\ last # <<>>
      BY <1>1, <2>1, SeqMonotonic DEF Fit
    <2>3. Put(c, e) = front \o <<v>>
      BY <1>3 DEF Put
    <2> HIDE DEF front, last
    <2>4. v \in Seq(Upserts) /\ v # <<>> /\ last \in Seq(Changes)
      BY <2>2, AppendProperties, UpsertsAreChanges, SeqMonotonic
    <2>5. c = Append(front, last)
      BY <2>1, <2>2, AppendIsConcat
    <2>6. Put(c, e) = Append(front, v)
      <3> HIDE DEF v
      <3> QED BY <2>2, <2>3, <2>4, AppendIsConcat
    <2>7. p \in Seq(Sent) /\ Updates(c, TRUE, cs) = Append(p, Listing(last, cs))
      BY <2>2, <2>5, ListingUpdates
    <2>8. Updates(Put(c, e), TRUE, cs) = Append(p, Listing(v, cs))
      <3> HIDE DEF v
      <3> QED BY <2>2, <2>4, <2>6, ListingUpdates
    <2> HIDE DEF p
    <2>9. before \in Gateways
      BY <2>7, ReceiveAllOf
    <2>10. all = Listed(before, last)
      BY <2>2, <2>7, ReceiveListing
    <2>11. ReceiveAll(g, Updates(Put(c, e), TRUE, cs)) = Listed(before, v)
      <3> HIDE DEF v
      <3> QED BY <2>4, <2>7, <2>8, ReceiveListing
    <2> HIDE DEF before
    <2>12. Listed(before, v) = ListOne(Listed(before, last), e)
      BY <1>1, <2>4, <2>9, ListedOf
    <2> QED BY <2>10, <2>11, <2>12
  <1>4. CASE ~(c # <<>> /\ ~Full(Last(c), e))
    <2> DEFINE one == <<e>>
               none == <<>>
               p == Updates(c, TRUE, cs)
    <2>1. /\ one \in Seq(Upserts) /\ one # <<>> /\ one = Append(none, e)
          /\ none \in Seq(Changes)
      OBVIOUS
    <2>2. Put(c, e) = Append(c, one)
      BY <1>4 DEF Put
    <2> HIDE DEF one
    <2>3. p \in Seq(Sent) /\ Updates(Put(c, e), TRUE, cs) = Append(p, Listing(one, cs))
      BY <1>2, <2>1, <2>2, ListingUpdates
    <2> HIDE DEF p
    <2>4. ReceiveAll(g, p) \in Gateways
      BY <2>3, ReceiveAllOf
    <2>5. ReceiveAll(g, Updates(Put(c, e), TRUE, cs)) = Listed(ReceiveAll(g, p), one)
      <3>1. p \in Seq(Sent) /\ one \in Seq(Upserts) /\ one # <<>>
        BY <2>1, <2>3
      <3>2. ReceiveAll(g, Append(p, Listing(one, cs))) = Listed(ReceiveAll(g, p), one)
        BY <3>1, ReceiveListing
      <3> QED BY <2>3, <3>2
    <2> DEFINE a == ReceiveAll(g, p)
    <2> HIDE DEF a
    <2>6. a \in Gateways
      BY <2>4 DEF a
    <2>7. Listed(a, none) = a
      BY <2>6, ListedNone
    <2> HIDE DEF none
    <2>8. Listed(a, Append(none, e)) = ListOne(Listed(a, none), e)
      BY <1>1, <2>1, <2>6, ListedOf
    <2> QED BY <2>1, <2>5, <2>7, <2>8 DEF a, p
  <1> QED BY <1>3, <1>4

\* The chunks of a replay list its changes, wherever they are split.
LEMMA SplitLists ==
  ASSUME NEW g \in Gateways, NEW s \in Seq(Upserts), NEW cs \in Catalogs
  PROVE  ReceiveAll(g, Updates(SplitByByteBudget(s), TRUE, cs)) = Listed(g, s)
  <1> DEFINE S == {r \in Seq(Upserts) :
                     ReceiveAll(g, Updates(SplitByByteBudget(r), TRUE, cs)) = Listed(g, r)}
             none == <<>>
  <1>1. none \in S
    <2>1. none \in Seq(Changes) /\ none \in Seq(Sent) /\ none \in Seq(Upserts)
      BY EmptySeq
    <2>2. SplitByByteBudget(none) = none /\ Updates(none, TRUE, cs) = none
      BY SplitEmpty, UpdatesEmpty
    <2>3. ReceiveAll(g, none) = g
      BY <2>1, ReceiveAllOf
    <2>4. Listed(g, none) = g
      BY ListedNone
    <2> HIDE DEF none
    <2> QED BY <2>1, <2>2, <2>3, <2>4
  <1>2. ASSUME NEW r \in S, NEW e \in Upserts PROVE Append(r, e) \in S
    <2> DEFINE c == SplitByByteBudget(r)
    <2>1. /\ r \in Seq(Upserts) /\ Append(r, e) \in Seq(Upserts) /\ r \in Seq(Changes) /\ e \in Changes
          /\ ReceiveAll(g, Updates(c, TRUE, cs)) = Listed(g, r)
      BY AppendProperties, UpsertsAreChanges, SeqMonotonic
    <2>2. c \in Seq(Fit(Upserts)) /\ SplitByByteBudget(Append(r, e)) = Put(c, e)
      BY <2>1, UpsertsAreChanges, SplitType, SplitAppend
    <2> HIDE DEF c
    <2>3. ReceiveAll(g, Updates(Put(c, e), TRUE, cs)) = ListOne(ReceiveAll(g, Updates(c, TRUE, cs)), e)
      BY <2>2, PutLists
    <2>4. Listed(g, Append(r, e)) = ListOne(Listed(g, r), e)
      BY <2>1, ListedOf
    <2> QED BY <2>1, <2>2, <2>3, <2>4
  <1>3. S \in SUBSET Seq(Upserts)
    OBVIOUS
  <1> HIDE DEF S
  <1>4. S = Seq(Upserts)
    BY <1>1, <1>2, <1>3, SeqInduction
  <1> QED BY <1>4 DEF S

\* An order of the snapshot leaves nothing out.
LEMMA OrderCovers ==
  ASSUME NEW S, IsFiniteSet(S), NEW order \in SetToSeqs(S)
  PROVE  \A x \in S : \E k \in DOMAIN order : order[k] = x
  <1> DEFINE n == Cardinality(S)
  <1>1. n \in Nat
    BY FS_CardinalityType
  <1>2. order \in [1..n -> S] /\ \A i, j \in 1..n : i # j => order[i] # order[j]
    BY DEF SetToSeqs
  <1> HIDE DEF n
  <1>3. ASSUME NEW x \in S, \A k \in 1..n : order[k] # x PROVE FALSE
    <2>1. order \in [1..n -> S \ {x}]
      BY <1>2, <1>3
    <2>2. IsFiniteSet(S \ {x}) /\ Cardinality(S \ {x}) = n - 1
      BY FS_RemoveElement DEF n
    <2>3. IsFiniteSet(1..n) /\ Cardinality(1..n) = n
      BY <1>1, FS_Interval
    <2>4. Cardinality(S \ {x}) < Cardinality(1..n)
      BY <1>1, <2>2, <2>3
    <2>5. \E i, j \in 1..n : i # j /\ order[i] = order[j]
      <3> DEFINE A == 1..n
                 B == S \ {x}
      <3>1. IsFiniteSet(A) /\ IsFiniteSet(B) /\ Cardinality(B) < Cardinality(A) /\ order \in [A -> B]
        BY <2>1, <2>2, <2>3, <2>4
      <3> HIDE DEF A, B
      <3>2. \E i, j \in A : i # j /\ order[i] = order[j]
        BY <3>1, FS_PigeonHole
      <3> QED BY <3>2 DEF A
    <2> QED BY <1>2, <2>5
  <1>4. DOMAIN order = 1..n
    BY <1>2
  <1> QED BY <1>3, <1>4

\* What is listed is on record, and nothing else under its keys.
Landed(S, r, C) ==
  /\ \A k \in DOMAIN r : r[k].cap \in S
  /\ \A c \in S : c \in C \/ Key(c) \notin Keys(r)

LEMMA UpsertsLand ==
  ASSUME NEW S \in Catalogs, NEW C, \A x, y \in C : Key(x) = Key(y) => x = y,
         NEW s \in Seq({e \in Upserts : e.cap \in C})
  PROVE  Landed(ApplyAll(S, s), s, C)
  <1> DEFINE E == {e \in Upserts : e.cap \in C}
             R == {r \in Seq(E) : Landed(ApplyAll(S, r), r, C)}
  <1>0. E \subseteq Changes
    BY UpsertsAreChanges
  <1>1. <<>> \in R
    <2>1. <<>> \in Seq(Changes) /\ <<>> \in Seq(E)
      BY EmptySeq
    <2>2. ApplyAll(S, <<>>) = S
      BY <2>1, ApplyAllOf
    <2>3. Landed(S, <<>>, C)
      BY DEF Landed, Keys
    <2> QED BY <2>1, <2>2, <2>3
  <1>2. ASSUME NEW r \in R, NEW e \in E PROVE Append(r, e) \in R
    <2> DEFINE T == ApplyAll(S, r)
               v == Append(r, e)
               n == Len(r)
    <2>1. r \in Seq(E) /\ v \in Seq(E) /\ r \in Seq(Changes) /\ e \in Changes
      BY <1>0, AppendProperties, SeqMonotonic
    <2>2. ApplyAll(S, v) = Apply(T, e) /\ Keys(v) = Keys(r) \cup {Key(e.cap)}
      BY <2>1, ApplyAllOf, KeysAppend
    <2>3. e.action = "UPSERT" /\ e.cap \in C
      BY DEF Upserts
    <2>4. Landed(T, r, C)
      OBVIOUS
    <2>5. /\ n \in Nat /\ DOMAIN r = 1..n /\ DOMAIN v = 1..n + 1 /\ v[n + 1] = e
          /\ \A k \in 1..n : v[k] = r[k] /\ r[k] \in E
      BY <2>1, AppendProperties, LenProperties
    <2> HIDE DEF T, v, n
    <2>6. \A c : c \in Apply(T, e) <=> (c \in T /\ Key(c) # Key(e.cap)) \/ c = e.cap
      BY <2>1, <2>3, ApplyKept DEF Kept
    <2>7. ASSUME NEW k \in DOMAIN v PROVE v[k].cap \in Apply(T, e)
      <3>1. CASE k = n + 1
        BY <2>5, <2>6, <3>1
      <3>2. CASE k # n + 1
        <4>1. k \in 1..n
          BY <2>5, <3>2
        <4>2. v[k] = r[k] /\ r[k].cap \in T /\ r[k].cap \in C
          BY <2>4, <2>5, <4>1 DEF Landed
        <4> QED BY <2>3, <2>6, <4>2
      <3> QED BY <3>1, <3>2
    <2>8. \A c \in Apply(T, e) : c \in C \/ Key(c) \notin Keys(v)
      BY <2>2, <2>3, <2>4, <2>6 DEF Landed
    <2>9. Landed(Apply(T, e), v, C)
      BY <2>7, <2>8 DEF Landed
    <2> QED BY <2>1, <2>2, <2>9 DEF v
  <1>3. R \in SUBSET Seq(E)
    OBVIOUS
  <1> HIDE DEF R
  <1>4. R = Seq(E)
    <2> HIDE DEF E
    <2> QED BY <1>1, <1>2, <1>3, SeqInduction
  <1> QED BY <1>4 DEF R

\* K has what is in C, and beyond it only what has been listed before.
Repaired(K, C, old) == C \subseteq K /\ \A c \in K \ C : Key(c) \in old

LEMMA ReplayLands ==
  ASSUME Recorded, NEW order \in SetToSeqs(snapshot), NEW g \in Gateways, NEW cs \in Catalogs
  PROVE  /\ Replay(order, cs) \in Seq(Sent)
         /\ ReceiveAll(g, Replay(order, cs)) \in Gateways
         /\ Repaired(ReceiveAll(g, Replay(order, cs)).catalog, snapshot, g.listed)
  <1> DEFINE n == Cardinality(snapshot)
             changes == [k \in DOMAIN order |->
                           [cap |-> order[k], action |-> "UPSERT", anyVersion |-> FALSE]]
             E == {e \in Upserts : e.cap \in snapshot}
             chunks == Updates(SplitByByteBudget(changes), TRUE, cs)
             a == ReceiveAll(g, chunks)
             T == {u \in FitUpdates : u.fullSync = TRUE}
             cat == g.catalog
  <1>1. n \in Nat /\ snapshot \in SUBSET Caps
    BY FS_CardinalityType DEF Recorded, Catalogs
  <1>2. order \in [1..n -> snapshot] /\ \A x \in snapshot : \E k \in 1..n : order[k] = x
    <2>1. order \in [1..n -> snapshot]
      BY DEF SetToSeqs
    <2>2. DOMAIN order = 1..n
      BY <2>1
    <2>3. \A x \in snapshot : \E k \in DOMAIN order : order[k] = x
      BY OrderCovers DEF Recorded
    <2> QED BY <2>1, <2>2, <2>3
  <1> HIDE DEF n
  <1>3. DOMAIN changes = 1..n /\ \A k \in 1..n : changes[k].cap = order[k]
    BY <1>2
  <1>4. changes \in [1..n -> E]
    <2>1. \A k \in 1..n : order[k] \in Caps /\ order[k] \in snapshot
      BY <1>1, <1>2
    <2>2. DOMAIN order = 1..n
      BY <1>2
    <2> QED BY <2>1, <2>2 DEF Upserts
  <1>5. Replay(order, cs) = Append(chunks, Terminal(cs))
    BY DEF Replay
  <1> HIDE DEF changes
  <1>6. changes \in Seq(E)
    <2> HIDE DEF E
    <2> QED BY <1>1, <1>4, FunctionIsSeq
  <1>7. changes \in Seq(Upserts)
    <2>1. E \subseteq Upserts
      OBVIOUS
    <2> QED BY <1>6, <2>1, SeqMonotonic
  <1>8. chunks \in Seq(Sent)
    <2>1. chunks \in Seq(T) /\ T \subseteq Sent
      BY <1>7, UpsertsAreChanges, SplitFits DEF FitUpdates
    <2> HIDE DEF chunks, T
    <2> QED BY <2>1, SeqMonotonic
  <1>9. Terminal(cs) \in Sent
    <2>1. Terminal(cs) \in UpdateSet /\ Terminal(cs).changes \in Seq(Upserts)
      BY DEF Terminal, UpdateSet, Catalogs
    <2> QED BY <2>1 DEF Sent
  <1>10. a = [catalog |-> ApplyAll(cat, changes), listed |-> g.listed \cup Keys(changes),
              checksum |-> g.checksum]
    BY <1>7, SplitLists DEF Listed
  <1>11. cat \in Catalogs
    BY DEF Gateways
  <1> HIDE DEF chunks, cat
  <1>12. a \in Gateways /\ ReceiveAll(g, Append(chunks, Terminal(cs))) = Receive(a, Terminal(cs))
    BY <1>8, <1>9, ReceiveAllOf
  <1> HIDE DEF a
  <1>13. /\ Receive(a, Terminal(cs)) \in Gateways
         /\ Receive(a, Terminal(cs)).catalog = {c \in a.catalog : Key(c) \in a.listed}
    BY <1>9, <1>12, ReceiveType DEF IsTerminal, Terminal
  <1>14. a.catalog = ApplyAll(cat, changes) /\ a.listed = g.listed \cup Keys(changes)
    BY <1>10
  <1>15. Landed(ApplyAll(cat, changes), changes, snapshot)
    BY <1>6, <1>11, UpsertsLand DEF Recorded, OnePerKey
  <1>16. Repaired({c \in a.catalog : Key(c) \in a.listed}, snapshot, g.listed)
    <2>1. ASSUME NEW x \in snapshot PROVE x \in a.catalog /\ Key(x) \in a.listed
      <3>1. PICK k \in 1..n : order[k] = x
        BY <1>2
      <3>2. k \in DOMAIN changes /\ changes[k].cap = x
        BY <1>3, <3>1
      <3> QED BY <1>14, <1>15, <3>2 DEF Landed, Keys
    <2>2. ASSUME NEW c \in a.catalog, Key(c) \in a.listed, c \notin snapshot PROVE Key(c) \in g.listed
      BY <1>14, <1>15, <2>2 DEF Landed
    <2> QED BY <2>1, <2>2 DEF Repaired
  <1>17. Append(chunks, Terminal(cs)) \in Seq(Sent)
    BY <1>8, <1>9, AppendProperties
  <1> QED BY <1>5, <1>12, <1>13, <1>16, <1>17

----------------------------------------------------------------------------
(***************************************************************************)
(* What Run has taken and not sent.                                        *)
(***************************************************************************)
\* Changes that Run has taken and not sent led to the snapshot from S.
Taken(S) ==
  \A g \in Gateways : g.catalog = S => ApplyAll(ReceiveAll(g, sending).catalog, batch) = snapshot

FromTaken == \E S \in Catalogs : Taken(S)

LEMMA TakenInit == ASSUME Init PROVE FromTaken
  <1> DEFINE none == <<>>
  <1>1. sending = none /\ batch = none /\ snapshot = {}
    BY DEF Init
  <1>2. none \in Seq(Sent) /\ none \in Seq(Changes) /\ {} \in Catalogs
    BY EmptySeq DEF Catalogs
  <1>3. ASSUME NEW g \in Gateways, g.catalog = {}
        PROVE  ApplyAll(ReceiveAll(g, none).catalog, none) = {}
    <2>1. ReceiveAll(g, none) = g
      BY <1>2, ReceiveAllOf
    <2>2. ApplyAll({}, none) = {}
      BY <1>2, ApplyAllOf
    <2> QED BY <1>3, <2>1, <2>2
  <1>4. Taken({})
    BY <1>1, <1>3 DEF Taken
  <1> QED BY <1>2, <1>4 DEF FromTaken

LEMMA TakenInductive ==
  ASSUME FromTaken, SendInv, merged \in Seq(Changes), [Next]_vars PROVE FromTaken'
  <1>1. PICK S \in Catalogs : Taken(S)
    BY DEF FromTaken
  <1>2. wire \in Seq(Sent) /\ sending \in Seq(Sent) /\ sending \in Seq(Increments)
        /\ batch \in Seq(Changes) /\ gateway \in Gateways
    BY FitAreSent DEF SendInv
  <1>3. CASE UNCHANGED <<sending, batch, snapshot>>
    BY <1>1, <1>3 DEF FromTaken, Taken
  <1>4. CASE Collect
    <2> DEFINE e == Head(merged)
    <2>1. /\ snapshot' = Apply(snapshot, e) /\ batch' = Append(batch, e) /\ sending' = sending
          /\ merged # <<>>
      BY <1>4 DEF Collect
    <2>2. e \in Changes
      BY <2>1, HeadTailProperties
    <2> HIDE DEF e
    <2>3. ASSUME NEW g \in Gateways, g.catalog = S
          PROVE  ApplyAll(ReceiveAll(g, sending).catalog, Append(batch, e)) = Apply(snapshot, e)
      <3> DEFINE cat == ReceiveAll(g, sending).catalog
      <3>1. ApplyAll(cat, batch) = snapshot
        BY <1>1, <2>3 DEF Taken
      <3>2. cat \in Catalogs
        BY <1>2, ReceiveAllOf DEF Gateways
      <3> HIDE DEF cat
      <3>3. ApplyAll(cat, Append(batch, e)) = Apply(ApplyAll(cat, batch), e)
        BY <1>2, <2>2, <3>2, ApplyAllOf
      <3> QED BY <3>1, <3>3 DEF cat
    <2>4. Taken(S)'
      BY <2>1, <2>3 DEF Taken
    <2> QED BY <2>4 DEF FromTaken
  <1>5. CASE Flush
    <2> DEFINE none == <<>>
               d == Updates(SplitByByteBudget(batch), FALSE, snapshot)
    <2>1. sending = none /\ sending' = d /\ batch' = none /\ snapshot' = snapshot
      BY <1>5 DEF Flush, Checksum
    <2>2. none \in Seq(Sent) /\ snapshot \in Catalogs
      BY EmptySeq DEF SendInv, Recorded
    <2>3. ASSUME NEW g \in Gateways, g.catalog = S
          PROVE  ApplyAll(ReceiveAll(g, d).catalog, none) = snapshot
      <3>1. ApplyAll(ReceiveAll(g, none).catalog, batch) = snapshot
        BY <1>1, <2>1, <2>3 DEF Taken
      <3>2. Outcome(g, none, d, none) = Outcome(g, none, none, batch)
        BY <1>2, <2>2, FlushInSync
      <3>3. ReceiveAll(g, none) = g
        BY <2>2, ReceiveAllOf
      <3> HIDE DEF none, d
      <3> QED BY <3>1, <3>2, <3>3 DEF Outcome
    <2>4. Taken(S)'
      <3> HIDE DEF none, d
      <3> QED BY <2>1, <2>3 DEF Taken
    <2> QED BY <2>4 DEF FromTaken
  <1>6. CASE SendChunk
    <2> DEFINE h == Head(sending)
               t == Tail(sending)
               T == ApplyAll(S, h.changes)
               one == <<h>>
    <2>1. sending # <<>> /\ sending' = t /\ UNCHANGED <<batch, snapshot>>
      BY <1>6 DEF SendChunk
    <2>2. h \in Increments /\ t \in Seq(Sent) /\ t \in Seq(Increments) /\ sending = one \o t
      BY <1>2, <2>1, HeadTailProperties
    <2> HIDE DEF h, t
    <2>3. h \in Sent /\ ~IsTerminal(h) /\ h.changes \in Seq(Changes) /\ ~h.fullSync
      BY <2>2 DEF Increments, Sent, UpdateSet, IsTerminal
    <2>4. T \in Catalogs /\ one \in Seq(Sent)
      BY <2>3, ApplyAllOf
    <2>5. ASSUME NEW g \in Gateways, g.catalog = T
          PROVE  ApplyAll(ReceiveAll(g, t).catalog, batch) = snapshot
      <3> DEFINE b == [catalog |-> S, listed |-> {}, checksum |-> {}]
                 a == ReceiveAll(b, one)
      <3>1. b \in Gateways /\ b.catalog = S
        BY DEF Gateways, Catalogs
      <3> HIDE DEF b
      <3>2. Receive(b, h).catalog = T
        BY <2>3, <3>1 DEF Receive, ApplyAll
      <3>3. a.catalog = T /\ a \in Gateways
        <4>1. ReceiveAll(b, <<h>>) = Receive(b, h)
          BY <2>3, <2>4, <3>1, ReceiveAllOf
        <4>2. a \in Gateways
          BY <2>4, <3>1, ReceiveAllOf
        <4> QED BY <3>2, <4>1, <4>2
      <3>4. ReceiveAll(b, one \o t) = ReceiveAll(a, t)
        <4> HIDE DEF one
        <4> QED BY <2>2, <2>4, <3>1, ReceiveAllOf
      <3>5. ApplyAll(ReceiveAll(b, sending).catalog, batch) = snapshot
        BY <1>1, <3>1 DEF Taken
      <3>6. PICK q \in Seq(Changes) : AmountsTo(t, q)
        BY <2>2, SendingAmounts
      <3> HIDE DEF a
      <3>7. ReceiveAll(a, t).catalog = ReceiveAll(g, t).catalog
        BY <2>5, <3>3, <3>6 DEF AmountsTo
      <3> QED BY <2>2, <3>4, <3>5, <3>7
    <2> HIDE DEF T
    <2>6. PICK X \in Catalogs : X = T
      BY <2>4
    <2>7. Taken(X)'
      BY <2>1, <2>5, <2>6 DEF Taken
    <2> QED BY <2>7 DEF FromTaken
  <1>7. ASSUME NEW o \in Names, HandleEvent(o) \/ \E c \in ContentsOf(o) \cup {Gone} : Change(o, c)
        PROVE  UNCHANGED <<sending, batch, snapshot>>
    BY <1>7 DEF HandleEvent, Change, runVars
  <1>8. CASE ReplayFullState \/ TakeChecksum \/ SendReplay \/ Handshake \/ Gap \/ Start \/ Deliver
             \/ Lose \/ Break \/ End \/ Rotate
    BY <1>3, <1>8 DEF ReplayFullState, TakeChecksum, SendReplay, Handshake, Gap, Start, Deliver, Lose, Break, End,
                      Rotate, agentVars, runVars
  <1>9. CASE UNCHANGED vars
    BY <1>3, <1>9 DEF vars, runVars
  <1> QED BY <1>3, <1>4, <1>5, <1>6, <1>7, <1>8, <1>9 DEF Next

\* Received after the snapshot, what Run has taken and not sent changes nothing,
\* and what else the gateway had goes or stays.
LEMMA TakenAgain ==
  ASSUME FromTaken, SendInv, NEW g \in Gateways, NEW old, Repaired(g.catalog, snapshot, old)
  PROVE  Repaired(ApplyAll(ReceiveAll(g, sending).catalog, batch), snapshot, old)
  <1>1. PICK S \in Catalogs : Taken(S)
    BY DEF FromTaken
  <1>2. sending \in Seq(Increments) /\ batch \in Seq(Changes) /\ snapshot \in Catalogs
    BY FitAreSent DEF SendInv, Recorded
  <1>3. PICK p \in Seq(Changes) : AmountsTo(sending, p)
    BY <1>2, SendingAmounts
  <1> DEFINE q == p \o batch
             cat == g.catalog
  <1>4. q \in Seq(Changes)
    BY <1>2, ConcatProperties
  <1>5. ASSUME NEW a \in Gateways
        PROVE  ApplyAll(ReceiveAll(a, sending).catalog, batch) = ApplyAll(a.catalog, q)
    <2> DEFINE acat == a.catalog
    <2>1. acat \in Catalogs
      BY DEF Gateways
    <2>2. ReceiveAll(a, sending).catalog = ApplyAll(acat, p)
      BY <1>3 DEF AmountsTo
    <2> HIDE DEF acat
    <2>3. ApplyAll(acat, p \o batch) = ApplyAll(ApplyAll(acat, p), batch)
      BY <1>2, <2>1, ApplyAllConcat
    <2> QED BY <2>2, <2>3 DEF acat
  <1> HIDE DEF q
  <1>6. ApplyAll(S, q) = snapshot
    <2> DEFINE b == [catalog |-> S, listed |-> {}, checksum |-> {}]
    <2>1. b \in Gateways /\ b.catalog = S
      BY DEF Gateways, Catalogs
    <2> HIDE DEF b
    <2> QED BY <1>1, <1>5, <2>1 DEF Taken
  <1>7. ApplyAll(snapshot, q) = snapshot
    BY <1>4, <1>6, ApplyTwice
  <1>8. cat \in Catalogs /\ snapshot \subseteq cat
    BY DEF Gateways, Repaired
  <1>9. \A c \in cat \ snapshot : Key(c) \in old
    BY DEF Repaired
  <1>10. ApplyAll(ReceiveAll(g, sending).catalog, batch) = ApplyAll(cat, q)
    BY <1>5
  <1> HIDE DEF cat
  <1>11. snapshot \subseteq ApplyAll(cat, q) /\ ApplyAll(cat, q) \subseteq snapshot \cup cat
    BY <1>2, <1>4, <1>7, <1>8, ApplyAllWider
  <1> QED BY <1>9, <1>10, <1>11 DEF Repaired

----------------------------------------------------------------------------
(***************************************************************************)
(* Run, ReplayFullState and splitByByteBudget: what is underway fits and   *)
(* is well formed, and the snapshot holds one capability for each key, for *)
(* any number of objects and any sizes.                                    *)
(***************************************************************************)
THEOREM SendInvariance == Spec => []SendInv
  <1>1. Init => SendInv
    BY SendInvInit
  <1>2. IInv => merged \in Seq(Changes)
    BY DEF IInv, Typed
  <1>3. SendInv /\ merged \in Seq(Changes) /\ [Next]_vars => SendInv'
    BY SendInvInductive
  <1> QED BY <1>1, <1>2, <1>3, Invariance, PTL DEF Spec

(***************************************************************************)
(* splitByByteBudget, and sendChunk after it: no update on the wire        *)
(* exceeds the byte budget, unless it is a single capability that does,    *)
(* for any sizes and any budget.                                           *)
(***************************************************************************)
THEOREM UpdatesFitTheBudget == Spec => []ChunksFit
  <1>1. SendInv => ChunksFit
    <2> SUFFICES ASSUME SendInv, NEW k \in DOMAIN wire
                 PROVE  Bytes(wire[k].changes) <= MaxBatchBytes \/ Len(wire[k].changes) = 1
      BY DEF ChunksFit
    <2>1. wire \in Seq(FitUpdates)
      BY DEF SendInv, Underway
    <2>2. wire[k] \in FitUpdates
      BY <2>1, LenProperties
    <2>3. CASE IsTerminal(wire[k])
      <3>1. wire[k].changes = <<>>
        BY <2>3 DEF IsTerminal
      <3>2. Bytes(<<>>) = 0
        BY BytesEmpty
      <3> QED BY <3>1, <3>2, CapabilityAssumption
    <2>4. CASE wire[k].changes \in Fit(Changes)
      BY <2>4 DEF Fit
    <2> QED BY <2>2, <2>3, <2>4 DEF FitUpdates
  <1> QED BY <1>1, SendInvariance, PTL

(***************************************************************************)
(* Run sends every change once and in order, however the batches are       *)
(* filled and split, and a chunk of a replay that ReplayFullState sends    *)
(* beside Run changes nothing at the gateway in the end: only an update    *)
(* lost with its session, or a chunk that is outdated when it is sent,     *)
(* takes the gateway out of step with the snapshot.                        *)
(***************************************************************************)
THEOREM OnlyLossLosesStep == Spec => StaysInSync
  <1> DEFINE Step == syncVars' # syncVars /\ InSync /\ ~InSync'
                       => Lose \/ Break \/ End \/ (SendReplay /\ Outdated)
  <1>1. ASSUME SendInv, SendInv', merged \in Seq(Changes), [Next]_vars PROVE Step
    <2> SUFFICES ASSUME InSync, ~(Lose \/ Break \/ End), ~(SendReplay /\ Outdated) PROVE InSync'
      OBVIOUS
    <2>1. Outcome(gateway, wire, sending, batch) = snapshot
      BY <1>1, InSyncIs
    <2>2. wire \in Seq(Sent) /\ sending \in Seq(Sent) /\ batch \in Seq(Changes) /\ gateway \in Gateways
          /\ snapshot \in Catalogs
      BY <1>1, FitAreSent DEF SendInv, Recorded
    <2> SUFFICES ASSUME ~SendReplay PROVE Outcome(gateway', wire', sending', batch') = snapshot'
      BY <1>1, InSyncNext, ReplayInSync
    <2>3. CASE UNCHANGED <<wire, sending, batch, gateway, snapshot>>
      BY <2>1, <2>3
    <2>4. CASE Collect
      <3> DEFINE h == Head(merged)
      <3>1. /\ snapshot' = Apply(snapshot, h) /\ batch' = Append(batch, h)
            /\ UNCHANGED <<wire, sending, gateway>> /\ merged # <<>>
        BY <2>4 DEF Collect, uplinkVars
      <3>2. h \in Changes
        BY <1>1, <3>1, HeadTailProperties
      <3> HIDE DEF h
      <3>3. Outcome(gateway, wire, sending, Append(batch, h))
              = Apply(Outcome(gateway, wire, sending, batch), h)
        BY <2>2, <3>2, CollectInSync
      <3> QED BY <2>1, <3>1, <3>3
    <2>5. CASE Flush
      <3>1. /\ sending = <<>> /\ sending' = Updates(SplitByByteBudget(batch), FALSE, snapshot)
            /\ batch' = <<>> /\ UNCHANGED <<wire, gateway, snapshot>>
        BY <2>5 DEF Flush, Checksum, uplinkVars
      <3>2. Outcome(gateway, wire, Updates(SplitByByteBudget(batch), FALSE, snapshot), <<>>)
              = Outcome(gateway, wire, <<>>, batch)
        BY <2>2, FlushInSync
      <3> QED BY <2>1, <3>1, <3>2
    <2>6. CASE SendChunk
      <3>1. /\ sending # <<>> /\ wire' = Append(wire, Head(sending)) /\ sending' = Tail(sending)
            /\ UNCHANGED <<gateway, batch, snapshot>>
        BY <2>6 DEF SendChunk, U!Queue
      <3>2. Outcome(gateway, Append(wire, Head(sending)), Tail(sending), batch)
              = Outcome(gateway, wire, sending, batch)
        BY <2>2, <3>1, SendInSync
      <3> QED BY <2>1, <3>1, <3>2
    <2>7. CASE Deliver
      <3>1. /\ wire # <<>> /\ gateway' = Receive(gateway, Head(wire)) /\ wire' = Tail(wire)
            /\ UNCHANGED <<sending, batch, snapshot>>
        BY <2>7 DEF Deliver, U!Deliver, agentVars, runVars
      <3>2. Outcome(Receive(gateway, Head(wire)), Tail(wire), sending, batch)
              = Outcome(gateway, wire, sending, batch)
        BY <2>2, <3>1, DeliverInSync
      <3> QED BY <2>1, <3>1, <3>2
    <2>8. ASSUME NEW o \in Names, HandleEvent(o) \/ \E c \in ContentsOf(o) \cup {Gone} : Change(o, c)
          PROVE  UNCHANGED <<wire, sending, batch, gateway, snapshot>>
      BY <2>8 DEF HandleEvent, Change, uplinkVars, runVars
    <2>9. CASE ReplayFullState \/ TakeChecksum \/ Handshake \/ Gap \/ Start \/ Rotate
      BY <2>3, <2>9 DEF ReplayFullState, TakeChecksum, Handshake, Gap, Start, Rotate, U!Open, U!Start, uplinkVars,
                        agentVars, runVars
    <2>10. CASE UNCHANGED vars
      BY <2>3, <2>10 DEF vars, uplinkVars, runVars
    <2> QED BY <1>1, <2>3, <2>4, <2>5, <2>6, <2>7, <2>8, <2>9, <2>10 DEF Next
  <1>2. IInv => merged \in Seq(Changes)
    BY DEF IInv, Typed
  <1>3. SendInv /\ SendInv' /\ merged \in Seq(Changes) /\ [Next]_vars => [Step]_vars
    BY <1>1
  <1>4. Spec => [][Step]_vars
    BY <1>2, <1>3, Invariance, SendInvariance, PTL DEF Spec
  <1> QED BY <1>4 DEF StaysInSync

(***************************************************************************)
(* Run applies a change to the snapshot before it joins the batch: what    *)
(* Run has yet to send has led to the snapshot, from some catalog.         *)
(***************************************************************************)
THEOREM TakenInvariance == Spec => []FromTaken
  <1>1. Init => FromTaken
    BY TakenInit
  <1>2. IInv => merged \in Seq(Changes)
    BY DEF IInv, Typed
  <1>3. FromTaken /\ SendInv /\ merged \in Seq(Changes) /\ [Next]_vars => FromTaken'
    BY TakenInductive
  <1> QED BY <1>1, <1>2, <1>3, Invariance, SendInvariance, PTL DEF Spec

(***************************************************************************)
(* ReplayFullState: whatever was lost before, a replay brings the gateway  *)
(* the snapshot, if Run has not changed it between the listing and the     *)
(* checksum, for any objects, sizes and order of the map, also if changes  *)
(* that Run has yet to send come after it; beyond the snapshot only that   *)
(* can stay which an earlier replay, cut short, had listed.                *)
(***************************************************************************)
THEOREM ReplaysRepair == Spec => ReplayRepairs
  <1> DEFINE R(order) == ReceiveAll(gateway, wire \o order \o sending
                                               \o Updates(<<batch>>, FALSE, snapshot)).catalog
             repaired == R(replaying')
             Step == TakeChecksum /\ Head(listing) \in SetToSeqs(snapshot) =>
                       /\ snapshot \subseteq repaired
                       /\ \A c \in repaired \ snapshot : Key(c) \in ReceiveAll(gateway, wire).listed
  <1>1. ASSUME FromTaken, SendInv, TakeChecksum, Head(listing) \in SetToSeqs(snapshot)
        PROVE  /\ snapshot \subseteq repaired
               /\ \A c \in repaired \ snapshot : Key(c) \in ReceiveAll(gateway, wire).listed
    <2>1. PICK order \in SetToSeqs(snapshot) : replaying' = Replay(order, snapshot)
      BY <1>1 DEF TakeChecksum, Checksum
    <2> DEFINE g == ReceiveAll(gateway, wire)
               replay == Replay(order, snapshot)
               h == ReceiveAll(g, replay)
    <2>2. wire \in Seq(Sent) /\ sending \in Seq(Sent) /\ batch \in Seq(Changes) /\ gateway \in Gateways
          /\ snapshot \in Catalogs
      BY <1>1, FitAreSent DEF SendInv, Recorded
    <2>3. g \in Gateways
      BY <2>2, ReceiveAllOf
    <2>4. replay \in Seq(Sent) /\ h \in Gateways /\ Repaired(h.catalog, snapshot, g.listed)
      <3> HIDE DEF g
      <3> QED BY <1>1, <2>2, <2>3, ReplayLands DEF SendInv
    <2> HIDE DEF replay
    <2>5. ReceiveAll(gateway, wire \o replay) = h /\ wire \o replay \in Seq(Sent)
      BY <2>2, <2>4, ReceiveAllOf, ConcatProperties
    <2>6. R(replay) = Outcome(gateway, wire \o replay, sending, batch)
      <3> DEFINE w == wire \o replay
      <3>1. w \in Seq(Sent)
        BY <2>5
      <3> HIDE DEF w
      <3>2. ReceiveAll(gateway, w \o sending \o Updates(<<batch>>, FALSE, snapshot)).catalog
              = Outcome(gateway, w, sending, batch)
        BY <2>2, <3>1, OutcomeOf
      <3> QED BY <3>2 DEF w
    <2>7. R(replay) = ApplyAll(ReceiveAll(h, sending).catalog, batch)
      BY <2>5, <2>6 DEF Outcome
    <2>8. Repaired(ApplyAll(ReceiveAll(h, sending).catalog, batch), snapshot, g.listed)
      <3> HIDE DEF g, h
      <3> QED BY <1>1, <2>4, TakenAgain
    <2>9. repaired = R(replay)
      BY <2>1 DEF replay
    <2>10. Repaired(repaired, snapshot, g.listed)
      BY <2>7, <2>8, <2>9
    <2> HIDE DEF repaired
    <2> QED BY <2>10 DEF Repaired
  <1>2. FromTaken /\ SendInv /\ [Next]_vars => [Step]_vars
    BY <1>1
  <1>3. Spec => [][Step]_vars
    BY <1>2, TakenInvariance, SendInvariance, PTL DEF Spec
  <1> QED BY <1>3 DEF ReplayRepairs

----------------------------------------------------------------------------
\* The rest of the types, and the bounds of the channels.
Bounded ==
  /\ link \in {"down", "opening", "up", "broken"} /\ stragglers \subseteq SessionIds
  /\ Len(wire) <= Capacity /\ Len(merged) <= MergedCap /\ Len(batch) <= MaxBatch
  /\ Len(listing) <= 1 /\ asked \in BOOLEAN /\ overlooked \in BOOLEAN /\ unfetched \subseteq Crds
  /\ budget \in [Kinds -> Nat]

\* A queue grows by one, if there is room.
LEMMA QueueBound ==
  ASSUME NEW T, NEW s \in Seq(T), NEW n \in Nat, Len(s) <= n
  PROVE  /\ \A e : Len(s) < n => Len(Append(s, e)) <= n
         /\ s # <<>> => Len(Tail(s)) <= n
         /\ Len(s) > 1 => Len(<<Head(s)>> \o Tail(Tail(s))) <= n
  <1>0. Len(s) \in Nat
    BY LenProperties
  <1>1. ASSUME NEW e, Len(s) < n PROVE Len(Append(s, e)) <= n
    BY <1>0, <1>1
  <1>2. ASSUME s # <<>> PROVE Len(Tail(s)) <= n
    BY <1>0, <1>2, HeadTailProperties
  <1>3. ASSUME Len(s) > 1 PROVE Len(<<Head(s)>> \o Tail(Tail(s))) <= n
    <2> DEFINE h == Head(s)
               t == Tail(s)
               r == Tail(t)
    <2>1. s # <<>>
      BY <1>3
    <2>2. h \in T /\ t \in Seq(T) /\ Len(t) = Len(s) - 1
      BY <2>1, HeadTailProperties
    <2> HIDE DEF h, t
    <2>3. t # <<>>
      BY <1>0, <1>3, <2>2, LenProperties
    <2>4. r \in Seq(T) /\ Len(r) = Len(t) - 1 /\ <<h>> \in Seq(T) /\ Len(<<h>>) = 1
      BY <2>2, <2>3, HeadTailProperties
    <2> HIDE DEF r
    <2>5. Len(<<h>> \o r) = 1 + Len(r)
      BY <2>4, ConcatProperties
    <2>6. Len(<<h>> \o r) <= n
      BY <1>0, <2>2, <2>4, <2>5
    <2> QED BY <2>6 DEF h, t, r
  <1> QED BY <1>1, <1>2, <1>3

LEMMA SpendBounded ==
  ASSUME budget \in [Kinds -> Nat], NEW k \in Kinds, Spend(k) PROVE budget' \in [Kinds -> Nat]
  BY DEF Spend

LEMMA BoundedInit == ASSUME Init PROVE Bounded
  <1>1. link = "down" /\ stragglers = {} /\ wire = <<>> /\ merged = <<>> /\ batch = <<>>
        /\ listing = <<>> /\ asked = FALSE /\ overlooked = FALSE /\ unfetched = {} /\ budget = Bound
    BY DEF Init, U!UplinkInit
  <1>2. Bound \in [Kinds -> Nat]
    BY CapabilityAssumption DEF Bound, Kinds
  <1>3. Len(<<>>) = 0 /\ MergedCap \in Nat /\ MaxBatch \in Nat /\ Capacity \in Nat
    BY CapabilityAssumption
  <1>4. Len(wire) <= Capacity /\ Len(merged) <= MergedCap /\ Len(batch) <= MaxBatch
        /\ Len(listing) <= 1
    BY <1>1, <1>3
  <1>5. asked \in BOOLEAN /\ overlooked \in BOOLEAN
    BY <1>1
  <1> QED BY <1>1, <1>2, <1>4, <1>5 DEF Bounded

LEMMA BoundedInductive ==
  ASSUME Bounded, merged \in Seq(Changes), wire \in Seq(FitUpdates), batch \in Seq(Changes),
         [Next]_vars
  PROVE  Bounded'
  <1>0. MergedCap \in Nat /\ MaxBatch \in Nat \ {0} /\ Capacity \in Nat
    BY CapabilityAssumption
  <1>1. ASSUME NEW o \in Names, HandleEvent(o) PROVE Bounded'
    <2>1. UNCHANGED <<link, stragglers, wire, batch, listing, asked, overlooked>>
      BY <1>1 DEF HandleEvent, uplinkVars, replayVars
    <2>2. merged' = merged \/ \E e : Forward(e)
      BY <1>1 DEF HandleEvent, GetCrd
    <2>3. Len(merged') <= MergedCap
      BY <1>0, <2>2, QueueBound DEF Forward, Bounded
    <2>4. unfetched' \subseteq Crds
      BY <1>1 DEF HandleEvent, GetCrd, Bounded
    <2>5. budget' = budget \/ Spend("fault")
      BY <1>1 DEF HandleEvent, GetCrd
    <2>6. budget' \in [Kinds -> Nat]
      BY <2>5, SpendBounded DEF Bounded, Kinds
    <2> QED BY <2>1, <2>3, <2>4, <2>6 DEF Bounded
  <1>2. ASSUME NEW o \in Names, NEW c, Change(o, c) PROVE Bounded'
    <2>1. Spend("change") /\ UNCHANGED <<link, stragglers, wire, merged, batch, unfetched>>
          /\ UNCHANGED replayVars
      BY <1>2 DEF Change, uplinkVars, runVars, replayVars
    <2>2. budget' \in [Kinds -> Nat]
      BY <2>1, SpendBounded DEF Bounded, Kinds
    <2> QED BY <2>1, <2>2 DEF Bounded, replayVars
  <1>3. CASE Collect
    <2>1. /\ merged # <<>> /\ Len(batch) < MaxBatch /\ merged' = Tail(merged)
          /\ batch' = Append(batch, Head(merged))
          /\ UNCHANGED <<link, stragglers, wire, listing, asked, overlooked, unfetched, budget>>
      BY <1>3 DEF Collect, uplinkVars, replayVars
    <2>2. Len(merged') <= MergedCap /\ Len(batch') <= MaxBatch
      BY <1>0, <2>1, QueueBound DEF Bounded
    <2> QED BY <2>1, <2>2 DEF Bounded
  <1>4. CASE Flush
    <2>1. /\ UNCHANGED <<link, stragglers, wire, merged, listing, asked, overlooked, unfetched, budget>>
          /\ batch' = <<>>
      BY <1>4 DEF Flush, uplinkVars, replayVars
    <2>2. Len(batch') <= MaxBatch
      BY <1>0, <2>1
    <2> QED BY <2>1, <2>2 DEF Bounded
  <1>5. CASE SendChunk \/ SendReplay
    <2>1. PICK u : U!Queue(u)
      BY <1>5 DEF SendChunk, SendReplay
    <2>2. UNCHANGED <<link, stragglers, merged, batch, listing, asked, unfetched, budget>>
      BY <1>5 DEF SendChunk, SendReplay, U!Queue, runVars, replayVars
    <2>4. overlooked' \in BOOLEAN
      <3>1. CASE SendChunk
        BY <3>1 DEF SendChunk, replayVars, Bounded
      <3>2. CASE SendReplay
        <4>1. overlooked' = (overlooked \/ Outdated)
          BY <3>2 DEF SendReplay
        <4> QED BY <4>1, Zenon
      <3> QED BY <1>5, <3>1, <3>2
    <2>3. Len(wire') <= Capacity
      BY <1>0, <2>1, QueueBound DEF U!Queue, Bounded
    <2> QED BY <2>2, <2>3, <2>4 DEF Bounded
  <1>6. CASE ReplayFullState
    <2>1. /\ asked' = FALSE /\ overlooked' = (ReceiveAll(gateway, wire).listed # {})
          /\ UNCHANGED <<link, stragglers, wire, merged, batch, unfetched, budget>>
      BY <1>6 DEF ReplayFullState, uplinkVars, runVars
    <2>2. PICK order \in SetToSeqs(snapshot) : listing' = <<order>>
      BY <1>6 DEF ReplayFullState
    <2>3. Len(listing') <= 1
      BY <2>2
    <2>4. asked' \in BOOLEAN /\ overlooked' \in BOOLEAN
      BY <2>1, Zenon
    <2> QED BY <2>1, <2>3, <2>4 DEF Bounded
  <1>12. CASE TakeChecksum
    <2>1. /\ listing' = <<>>
          /\ UNCHANGED <<link, stragglers, wire, merged, batch, asked, overlooked, unfetched, budget>>
      BY <1>12 DEF TakeChecksum, uplinkVars, runVars
    <2>2. Len(listing') <= 1
      BY <2>1
    <2> QED BY <2>1, <2>2 DEF Bounded
  <1>13. CASE Gap
    <2>1. /\ asked' = TRUE
          /\ UNCHANGED <<link, stragglers, wire, merged, batch, listing, overlooked, unfetched, budget>>
      BY <1>13 DEF Gap, uplinkVars, agentVars, runVars
    <2> QED BY <2>1 DEF Bounded
  <1>7. CASE Handshake
    <2>1. /\ link' = "opening"
          /\ UNCHANGED <<stragglers, wire, merged, batch, listing, overlooked, unfetched, budget>>
          /\ asked' = (asked \/ gateway.checksum # Checksum(snapshot))
      BY <1>7 DEF Handshake, U!Open, agentVars, runVars
    <2>2. asked' \in BOOLEAN
      BY <2>1, Zenon
    <2> QED BY <2>1, <2>2 DEF Bounded
  <1>8. CASE Start
    <2>1. /\ link' \in {"up", "broken"} /\ (budget' = budget \/ Spend("fault"))
          /\ UNCHANGED <<stragglers, wire, merged, batch, listing, asked, overlooked, unfetched>>
      BY <1>8 DEF Start, U!Start, agentVars, runVars
    <2>2. budget' \in [Kinds -> Nat]
      BY <2>1, SpendBounded DEF Bounded, Kinds
    <2> QED BY <2>1, <2>2 DEF Bounded
  <1>9. CASE Deliver \/ Lose \/ Break \/ End
    <2>1. UNCHANGED <<merged, batch, listing, asked, unfetched>>
      BY <1>9 DEF Deliver, Lose, Break, End, agentVars, runVars
    <2>2. link' \in {link, "broken", "down"} /\ stragglers' \subseteq SessionIds
      BY <1>9 DEF Deliver, Lose, Break, End, U!Deliver, U!Lose, U!StragglerEnds, U!Break, U!End, Bounded
    <2>3. wire' = wire \/ (wire # <<>> /\ wire' = Tail(wire))
          \/ (Len(wire) > 1 /\ wire' = <<Head(wire)>> \o Tail(Tail(wire)))
      BY <1>9 DEF Deliver, Lose, Break, End, U!Deliver, U!Lose, U!StragglerEnds, U!Break, U!End,
                  U!Interrupt
    <2>4. Len(wire') <= Capacity
      BY <1>0, <2>3, QueueBound DEF Bounded
    <2>5. budget' = budget \/ Spend("fault")
      BY <1>9 DEF Deliver, Lose, Break, End
    <2>6. budget' \in [Kinds -> Nat]
      BY <2>5, SpendBounded DEF Bounded, Kinds
    <2>7. overlooked' = overlooked \/ overlooked' = (overlooked \/ wire' # wire)
      BY <1>9 DEF Deliver, Lose, Break, End, Overlook
    <2>8. overlooked \in BOOLEAN
      BY DEF Bounded
    <2>9. overlooked' \in BOOLEAN
      BY <2>7, <2>8, Zenon
    <2> QED BY <2>1, <2>2, <2>4, <2>6, <2>9 DEF Bounded
  <1>10. CASE Rotate
    BY <1>10 DEF Rotate, agentVars, runVars, Bounded
  <1>11. CASE UNCHANGED vars
    BY <1>11 DEF vars, uplinkVars, runVars, replayVars, Bounded
  <1> QED BY <1>1, <1>2, <1>3, <1>4, <1>5, <1>6, <1>7, <1>8, <1>9, <1>10, <1>11, <1>12, <1>13 DEF Next

(***************************************************************************)
(* The channels between the watchers, Run and the client keep within their *)
(* bounds, and the variables have their types, for any number of objects,  *)
(* sessions and faults.                                                    *)
(***************************************************************************)
THEOREM TypeCorrect == Spec => []TypeOK
  <1>1. Init => Bounded
    BY BoundedInit
  <1>2. IInv => merged \in Seq(Changes)
    BY DEF IInv, Typed
  <1>3. SendInv => wire \in Seq(FitUpdates) /\ batch \in Seq(Changes)
    BY DEF SendInv, Underway
  <1>4. Bounded /\ merged \in Seq(Changes) /\ (wire \in Seq(FitUpdates) /\ batch \in Seq(Changes))
          /\ [Next]_vars => Bounded'
    BY BoundedInductive
  <1>5. Spec => []Bounded
    BY <1>1, <1>2, <1>3, <1>4, Invariance, SendInvariance, PTL DEF Spec
  <1>6. ASSUME IInv, SendInv, Bounded PROVE TypeOK
    <2> DEFINE T0 == {u \in FitUpdates : ~u.fullSync}
               T1 == {u \in FitUpdates : u.fullSync}
    <2>1. FitUpdates \subseteq UpdateSet /\ T0 \subseteq UpdateSet /\ T1 \subseteq UpdateSet
      BY DEF FitUpdates, Sent
    <2>2. wire \in Seq(FitUpdates) /\ sending \in Seq(T0) /\ replaying \in Seq(T1)
          /\ batch \in Seq(Changes) /\ listing \in Seq(Seq(Caps)) /\ gateway \in Gateways
      BY <1>6 DEF SendInv, Underway
    <2> HIDE DEF T0, T1
    <2>3. wire \in Seq(UpdateSet) /\ sending \in Seq(UpdateSet) /\ replaying \in Seq(UpdateSet)
      BY <2>1, <2>2, SeqMonotonic
    <2>4. gateway.catalog \subseteq Caps /\ gateway.listed \subseteq {Key(c) : c \in Caps}
          /\ gateway.checksum \subseteq Caps
      BY <2>2 DEF Gateways, Catalogs
    <2>5. snapshot \subseteq {c \in Caps : c.mode # "IGNORE"}
      BY <1>6 DEF IInv, Hidden, SendInv, Recorded, Catalogs
    <2>6. \A o \in Names : pending[o] \in Seq([gone : BOOLEAN, object : ContentsOf(o)])
      BY <1>6 DEF IInv, Typed, Events
    <2> QED BY <1>6, <2>2, <2>3, <2>4, <2>5, <2>6 DEF TypeOK, Bounded, IInv, Typed
  <1> QED BY <1>5, <1>6, Invariance, SendInvariance, PTL
=============================================================================
