------------------------ MODULE TunnelSession_proofs ------------------------
(***************************************************************************)
(* Proofs about TunnelSession.                                             *)
(***************************************************************************)
EXTENDS TunnelSession, SequenceTheorems, TLAPS

Phases == {"idle", "dialing", "awaiting", "swapping", "relaying"}
Whats == {"error", "result", "frame", "close"}

\* Message m is in queue q.
Queued(m, q) == \E k \in DOMAIN q : q[k] = m

Message(i, w) == [id |-> i, what |-> w]

----------------------------------------------------------------------------
(***************************************************************************)
(* What Handler.send does to the queue of the session: it keeps what is    *)
(* there, adds messages of connection i only, and, unless it records a     *)
(* drop, adds all of them.                                                 *)
(***************************************************************************)
Keeps(i) ==
  /\ toHub' \in Seq(ToHub) /\ Len(toHub') <= SendCap
  /\ dropped \subseteq dropped' /\ dropped' \subseteq dropped \cup {i}
  /\ sess # "up" => UNCHANGED toHub
  /\ \A m : Queued(m, toHub) => Queued(m, toHub')
  /\ \A m : Queued(m, toHub') => Queued(m, toHub) \/ (sess = "up" /\ m.id = i)

Posted(i, whats) ==
  /\ Keeps(i)
  /\ sess = "up" /\ i \notin dropped' =>
       \A k \in DOMAIN whats : Queued(Message(i, whats[k]), toHub')
  /\ \A m : Queued(m, toHub') => Queued(m, toHub) \/ \E k \in DOMAIN whats : m.what = whats[k]

\* Whatever is added is a Close.
ClosesOnly == \A m : Queued(m, toHub') => Queued(m, toHub) \/ m.what = "close"

LEMMA PostEffect ==
  ASSUME TypeOK, NEW i \in Ids, NEW whats \in Seq(Whats), Post(i, whats)
  PROVE  Posted(i, whats)
  <1>1. toHub \in Seq(ToHub) /\ Len(toHub) \in Nat /\ Len(toHub) <= SendCap
    BY DEF TypeOK
  <1>2. CASE sess # "up"
    BY <1>1, <1>2 DEF Post, Posted, Keeps
  <1>3. CASE sess = "up"
    <2> DEFINE ms == [k \in DOMAIN whats |-> [id |-> i, what |-> whats[k]]]
               all == toHub \o ms
               max == IF Len(toHub) + Len(whats) <= SendCap
                      THEN Len(toHub) + Len(whats) ELSE SendCap
    <2>1. DOMAIN whats = 1..Len(whats) /\ Len(whats) \in Nat
      BY LenProperties
    <2>2. \A k \in DOMAIN whats : whats[k] \in Whats
      BY ElementOfSeq, <2>1
    <2>3. ms \in Seq(ToHub) /\ Len(ms) = Len(whats)
      <3>1. ms \in [1..Len(whats) -> ToHub]
        BY <2>1, <2>2 DEF ToHub, Messages, Whats
      <3> QED BY <2>1, <3>1, SeqDef, LenProperties
    <2> HIDE DEF ms
    <2>4. /\ all \in Seq(ToHub) /\ Len(all) = Len(toHub) + Len(whats)
          /\ \A k \in 1..Len(all) : all[k] = IF k <= Len(toHub) THEN toHub[k]
                                             ELSE ms[k - Len(toHub)]
      <3>1. /\ all \in Seq(ToHub) /\ Len(all) = Len(toHub) + Len(ms)
            /\ \A k \in 1..Len(toHub) + Len(ms) : all[k] = IF k <= Len(toHub) THEN toHub[k]
                                                           ELSE ms[k - Len(toHub)]
        BY <1>1, <2>3, ConcatProperties, Zenon
      <3> HIDE DEF all
      <3> QED BY <2>3, <3>1
    <2>5. max \in Nat /\ max <= Len(all) /\ max <= SendCap /\ Len(toHub) <= max
      BY <1>1, <2>1, <2>4, TunnelAssumption
    <2>6. toHub' = SubSeq(all, 1, max)
      BY <1>3 DEF Post, ms
    <2> HIDE DEF all, max
    <2>7. toHub' \in Seq(ToHub) /\ Len(toHub') = max /\ \A k \in 1..max : toHub'[k] = all[k]
      BY <2>4, <2>5, <2>6, SubSeqProperties
    <2>8. DOMAIN toHub' = 1..max /\ DOMAIN toHub = 1..Len(toHub)
      BY <1>1, <2>7, LenProperties
    <2>9. \A m : Queued(m, toHub) => Queued(m, toHub')
      <3> SUFFICES ASSUME NEW m, Queued(m, toHub) PROVE Queued(m, toHub')
        OBVIOUS
      <3>1. PICK k \in 1..Len(toHub) : toHub[k] = m
        BY <2>8 DEF Queued
      <3>2. k \in 1..max /\ k \in 1..Len(all) /\ k <= Len(toHub)
        BY <1>1, <2>4, <2>5
      <3>3. toHub'[k] = m
        BY <2>4, <2>7, <3>1, <3>2
      <3> QED BY <2>8, <3>2, <3>3 DEF Queued
    <2>10. ASSUME NEW m, Queued(m, toHub'), ~Queued(m, toHub)
           PROVE  m.id = i /\ \E k \in DOMAIN whats : m.what = whats[k]
      <3>1. PICK k \in 1..max : toHub'[k] = m
        BY <2>8, <2>10 DEF Queued
      <3>2. all[k] = m /\ k \in 1..Len(all)
        BY <2>5, <2>7, <3>1, <2>4
      <3>3. ~(k <= Len(toHub))
        <4> SUFFICES ASSUME k <= Len(toHub) PROVE FALSE
          OBVIOUS
        <4>1. toHub[k] = m /\ k \in 1..Len(toHub)
          BY <1>1, <2>4, <3>2
        <4> QED BY <2>8, <2>10, <4>1 DEF Queued
      <3>4. m = ms[k - Len(toHub)] /\ k - Len(toHub) \in 1..Len(whats)
        BY <1>1, <2>1, <2>4, <3>2, <3>3
      <3> QED BY <2>1, <3>4 DEF ms
    <2>11. ASSUME i \notin dropped', NEW k \in DOMAIN whats
           PROVE  Queued(Message(i, whats[k]), toHub')
      <3>1. Len(toHub) + Len(whats) <= SendCap
        BY <1>1, <1>3, <2>1, <2>11, TunnelAssumption DEF Post
      <3>2. max = Len(toHub) + Len(whats)
        BY <3>1 DEF max
      <3>3. /\ Len(toHub) + k \in 1..max /\ Len(toHub) + k \in 1..Len(all)
            /\ ~(Len(toHub) + k <= Len(toHub)) /\ (Len(toHub) + k) - Len(toHub) = k
        BY <1>1, <2>1, <2>4, <3>2
      <3>4. toHub'[Len(toHub) + k] = ms[k]
        BY <2>4, <2>7, <3>3
      <3> QED BY <2>8, <3>3, <3>4 DEF Queued, Message, ms
    <2>12. dropped \subseteq dropped' /\ dropped' \subseteq dropped \cup {i}
      BY <1>3 DEF Post
    <2> QED BY <1>3, <2>5, <2>7, <2>9, <2>10, <2>11, <2>12 DEF Posted, Keeps
  <1> QED BY <1>2, <1>3

\* The queue loses its first message.
LEMMA QueueTail ==
  ASSUME NEW S, NEW q \in Seq(S), q # <<>>
  PROVE  /\ Head(q) \in S /\ Tail(q) \in Seq(S) /\ Len(Tail(q)) = Len(q) - 1
         /\ \A m : Queued(m, q) <=> m = Head(q) \/ Queued(m, Tail(q))
  <1> DEFINE h == Head(q)
             t == Tail(q)
  <1>1. /\ h \in S /\ t \in Seq(S) /\ Len(q) \in Nat \ {0} /\ Len(t) = Len(q) - 1
        /\ h = q[1] /\ \A k \in 1..Len(t) : t[k] = q[k + 1]
        /\ DOMAIN q = 1..Len(q) /\ DOMAIN t = 1..Len(t)
    BY HeadTailProperties, EmptySeq, LenProperties
  <1> HIDE DEF h, t
  <1>2. \A k \in 2..Len(q) : k - 1 \in 1..Len(t) /\ t[k - 1] = q[k]
    BY <1>1
  <1>3. ASSUME NEW m PROVE Queued(m, q) <=> m = h \/ Queued(m, t)
    <2>1. ASSUME Queued(m, q) PROVE m = h \/ Queued(m, t)
      <3>1. PICK k \in 1..Len(q) : q[k] = m
        BY <1>1, <2>1 DEF Queued
      <3>2. CASE k = 1
        BY <1>1, <3>1, <3>2
      <3>3. CASE k # 1
        BY <1>1, <1>2, <3>1, <3>3 DEF Queued
      <3> QED BY <3>2, <3>3
    <2>2. ASSUME m = h PROVE Queued(m, q)
      BY <1>1, <2>2 DEF Queued
    <2>3. ASSUME Queued(m, t) PROVE Queued(m, q)
      <3>1. PICK k \in 1..Len(t) : t[k] = m
        BY <1>1, <2>3 DEF Queued
      <3>2. k + 1 \in DOMAIN q /\ q[k + 1] = m
        BY <1>1, <3>1
      <3> QED BY <3>2 DEF Queued
    <2> QED BY <2>1, <2>2, <2>3
  <1> QED BY <1>1, <1>3 DEF h, t

LEMMA QueueAppend ==
  ASSUME NEW S, NEW q \in Seq(S), NEW e \in S
  PROVE  /\ Append(q, e) \in Seq(S) /\ Len(Append(q, e)) = Len(q) + 1
         /\ \A m : Queued(m, Append(q, e)) <=> m = e \/ Queued(m, q)
  <1> DEFINE v == Append(q, e)
  <1>1. /\ v \in Seq(S) /\ Len(q) \in Nat /\ Len(v) = Len(q) + 1 /\ v[Len(v)] = e
        /\ \A k \in 1..Len(q) : v[k] = q[k]
        /\ DOMAIN q = 1..Len(q) /\ DOMAIN v = 1..Len(v)
    BY AppendProperties, LenProperties
  <1> HIDE DEF v
  <1>2. ASSUME NEW m PROVE Queued(m, v) <=> m = e \/ Queued(m, q)
    BY <1>1 DEF Queued
  <1> QED BY <1>1, <1>2 DEF v

\* Nothing is sent.
LEMMA NothingPosted ==
  ASSUME TypeOK, UNCHANGED <<toHub, dropped>>, NEW i
  PROVE  Keeps(i) /\ ClosesOnly
  BY DEF TypeOK, Keeps, ClosesOnly

\* The messages that the code sends together.
LEMMA Batches ==
  /\ <<>> \in Seq(Whats) /\ <<"close">> \in Seq(Whats) /\ <<"error", "close">> \in Seq(Whats)
  /\ <<"result">> \in Seq(Whats) /\ <<"frame">> \in Seq(Whats)
  BY DEF Whats

LEMMA PostsClose ==
  ASSUME TypeOK, NEW i \in Ids, Post(i, <<"close">>) \/ Post(i, <<"error", "close">>)
  PROVE  /\ Keeps(i)
         /\ sess = "up" /\ i \notin dropped' => Queued(Message(i, "close"), toHub')
         /\ Post(i, <<"close">>) => ClosesOnly
  <1>1. ASSUME Post(i, <<"close">>) PROVE ClosesOnly
    <2>1. Posted(i, <<"close">>)
      BY <1>1, PostEffect, Batches
    <2> QED BY <2>1 DEF Posted, ClosesOnly
  <1>2. CASE Post(i, <<"close">>)
    <2>1. Posted(i, <<"close">>)
      BY <1>2, PostEffect, Batches
    <2> QED BY <1>1, <2>1 DEF Posted
  <1>3. CASE Post(i, <<"error", "close">>)
    <2>1. Posted(i, <<"error", "close">>)
      BY <1>3, PostEffect, Batches
    <2>2. 2 \in DOMAIN <<"error", "close">> /\ <<"error", "close">>[2] = "close"
      OBVIOUS
    <2> QED BY <1>1, <2>1, <2>2 DEF Posted
  <1> QED BY <1>2, <1>3, <1>1

----------------------------------------------------------------------------
(***************************************************************************)
(* The inductive invariant.                                                *)
(***************************************************************************)
\* What was relayed was charged, and below the cap when it was.
Charged == \A i \in Ids : relayed[i] <= bytes[i] /\ relayed[i] <= MaxBytes

\* No connection is of a session that is still to come.
Attached == \A i \in Ids : born[i] <= n

(***************************************************************************)
(* Every connection belongs to the session that is up; or ResetAll has     *)
(* yet to come to it, or waits for it; or it is an orphan.                 *)
(***************************************************************************)
Owned ==
  /\ sess = "down" => toHub = <<>> /\ hears = FALSE
  /\ sess # "resetting" => reset = {} /\ waits = None
  /\ \A i \in Ids : phase[i] # "idle" /\ i \notin orphans =>
       \/ sess = "up" /\ born[i] = n
       \/ sess = "resetting" /\ i \in reset \cup {waits}

Isolated ==
  \A m : Queued(m, toHub) => born[m.id] = n \/ m.id \in orphans \/ m.what = "close"

\* The hub has closed what it asks the agent to close.
HubKnows ==
  \A i \in Ids : Queued(Message(i, "close"), fromHub) \/ Message(i, "close") \in late
                   => hub[i] = "closed"

\* The hub knows or will know of the end of i.
Informed(i) == hub[i] = "closed" \/ Queued(Message(i, "close"), toHub)

(***************************************************************************)
(* EndIsTold begins with the cancellation: whoever cancels a connection    *)
(* tells the hub, unless it was the hub.                                   *)
(***************************************************************************)
Told ==
  \A i \in Ids :
    /\ sess = "up" /\ born[i] = n /\ i \notin orphans \cup dropped
    /\ phase[i] = "idle" \/ ctx[i] = "cancelled"
    => Informed(i)

Safe == Attached /\ Owned /\ Isolated /\ HubKnows /\ Told

IInv == TypeOK /\ Charged /\ Safe

LEMMA InitIInv == Init => IInv
  <1> SUFFICES ASSUME Init PROVE IInv
    OBVIOUS
  <1>1. TypeOK
    <2>1. /\ fromHub \in Seq(FromHub) /\ Len(fromHub) <= HubCap
          /\ toHub \in Seq(ToHub) /\ Len(toHub) <= SendCap
      BY TunnelAssumption DEF Init
    <2>2. inq \in [Ids -> Seq({"data", "half"})] /\ \A i \in Ids : Len(inq[i]) <= QueueCap
      BY TunnelAssumption DEF Init
    <2>3. n \in 0..MaxSessions /\ born \in [Ids -> 0..MaxSessions]
      BY TunnelAssumption DEF Init
    <2>4. bytes \in [Ids -> Nat] /\ relayed \in [Ids -> Nat]
      BY DEF Init
    <2> QED BY <2>1, <2>2, <2>3, <2>4 DEF Init, TypeOK
  <1>2. Charged
    <2> SUFFICES ASSUME NEW i \in Ids PROVE relayed[i] <= bytes[i] /\ relayed[i] <= MaxBytes
      BY DEF Charged
    <2>1. relayed[i] = 0 /\ bytes[i] = 0
      BY DEF Init
    <2> QED BY <2>1, TunnelAssumption
  <1>3. Safe
    BY DEF Init, Safe, Attached, Owned, Isolated, HubKnows, Told, Queued
  <1> QED BY <1>1, <1>2, <1>3 DEF IInv

(***************************************************************************)
(* A step of connection i: of runConn, of its pumps, or of the receive     *)
(* goroutine for it.  If it ends or cancels the connection, then the hub   *)
(* knows or the step tells it.  After the connection's end it can only be  *)
(* closed once more.                                                       *)
(***************************************************************************)
ConnStep(i) ==
  /\ UNCHANGED <<sess, n, hears, reset, waits, hub, born, orphans>>
  /\ \A m : Queued(m, fromHub') => Queued(m, fromHub)
  /\ late' \subseteq late
  /\ Keeps(i)
  /\ phase[i] = "idle" => phase'[i] = "idle" /\ ClosesOnly
  /\ \A j \in Ids \ {i} : phase'[j] = phase[j] /\ ctx'[j] = ctx[j]
  /\ /\ sess = "up" /\ i \notin dropped'
     /\ phase'[i] = "idle" \/ ctx'[i] = "cancelled"
     => phase[i] = "idle" \/ ctx[i] = "cancelled" \/ hub[i] = "closed"
          \/ Queued(Message(i, "close"), toHub')

LEMMA ConnStepSafe ==
  ASSUME IInv, NEW i \in Ids, ConnStep(i)
  PROVE  Safe'
  <1>0. /\ UNCHANGED <<sess, n, hears, reset, waits, hub, born, orphans>>
        /\ \A m : Queued(m, fromHub') => Queued(m, fromHub)
        /\ late' \subseteq late
        /\ Keeps(i)
        /\ phase[i] = "idle" => phase'[i] = "idle" /\ ClosesOnly
        /\ \A j \in Ids \ {i} : phase'[j] = phase[j] /\ ctx'[j] = ctx[j]
    BY DEF ConnStep
  <1>1. Attached'
    BY <1>0 DEF IInv, Safe, Attached
  <1>2. Owned'
    <2>1. sess = "down" => toHub' = <<>>
      BY <1>0 DEF Keeps, IInv, Safe, Owned
    <2>2. \A j \in Ids : phase'[j] # "idle" => phase[j] # "idle"
      BY <1>0
    <2> QED BY <1>0, <2>1, <2>2 DEF IInv, Safe, Owned
  <1>3. Isolated'
    <2> SUFFICES ASSUME NEW m, Queued(m, toHub')
                 PROVE  born[m.id] = n \/ m.id \in orphans \/ m.what = "close"
      BY <1>0 DEF Isolated
    <2>1. CASE Queued(m, toHub)
      BY <2>1 DEF IInv, Safe, Isolated
    <2>2. CASE ~Queued(m, toHub)
      <3>1. sess = "up" /\ m.id = i
        BY <1>0, <2>2 DEF Keeps
      <3>2. phase[i] # "idle" \/ m.what = "close"
        BY <1>0, <2>2 DEF ClosesOnly
      <3> QED BY <3>1, <3>2 DEF IInv, Safe, Owned
    <2> QED BY <2>1, <2>2
  <1>4. HubKnows'
    BY <1>0 DEF IInv, Safe, HubKnows
  <1>5. Told'
    <2> SUFFICES ASSUME NEW j \in Ids, sess = "up", born[j] = n,
                        j \notin orphans, j \notin dropped',
                        phase'[j] = "idle" \/ ctx'[j] = "cancelled"
                 PROVE  hub[j] = "closed" \/ Queued(Message(j, "close"), toHub')
      BY <1>0 DEF Told, Informed
    <2>1. j \notin dropped
      BY <1>0 DEF Keeps
    <2>2. CASE phase[j] = "idle" \/ ctx[j] = "cancelled"
      <3>1. Informed(j)
        BY <2>1, <2>2 DEF IInv, Safe, Told
      <3> QED BY <1>0, <3>1 DEF Keeps, Informed
    <2>3. CASE ~(phase[j] = "idle" \/ ctx[j] = "cancelled")
      <3>1. j = i
        BY <1>0, <2>3
      <3> QED BY <2>3, <3>1 DEF ConnStep
    <2> QED BY <2>2, <2>3
  <1> QED BY <1>1, <1>2, <1>3, <1>4, <1>5 DEF Safe

----------------------------------------------------------------------------
(***************************************************************************)
(* The steps of a connection.                                              *)
(***************************************************************************)
LEMMA UnregisterType ==
  ASSUME TypeOK, NEW i \in Ids, Unregister(i)
  PROVE  /\ phase' \in [Ids -> {"idle", "dialing", "awaiting", "swapping", "relaying"}]
         /\ ctx' \in [Ids -> {"live", "cancelled", "expired"}]
  BY DEF Unregister, TypeOK

LEMMA FailStep == ASSUME IInv, NEW i \in Ids, Fail(i) PROVE TypeOK' /\ ConnStep(i)
  <1> USE DEF connOnly, sessionVars
  <1>1. /\ Keeps(i)
        /\ sess = "up" /\ i \notin dropped' => Queued(Message(i, "close"), toHub')
    BY PostsClose DEF Fail, IInv
  <1>2. TypeOK'
    BY <1>1, UnregisterType DEF Fail, IInv, TypeOK, Keeps
  <1>3. ConnStep(i)
    BY <1>1 DEF Fail, Unregister, ConnStep, IInv, TypeOK
  <1> QED BY <1>2, <1>3

LEMMA DialedStep == ASSUME IInv, NEW i \in Ids, Dialed(i) PROVE TypeOK' /\ ConnStep(i)
  <1> USE DEF connOnly, sessionVars
  <1>1. Keeps(i)
    BY NothingPosted DEF Dialed, IInv
  <1>2. TypeOK'
    BY DEF Dialed, IInv, TypeOK
  <1>3. ConnStep(i)
    BY <1>1 DEF Dialed, ConnStep, IInv, TypeOK
  <1> QED BY <1>2, <1>3

LEMMA ServeStep == ASSUME IInv, NEW i \in Ids, Serve(i) PROVE TypeOK' /\ ConnStep(i)
  <1> USE DEF connOnly, sessionVars
  <1>1. PICK upgraded \in BOOLEAN : Answer(i, upgraded)
    BY DEF Serve
  <1>2. Keeps(i)
    BY <1>1, PostEffect, Batches DEF Answer, Posted, IInv
  <1>3. phase' \in [Ids -> {"idle", "dialing", "awaiting", "swapping", "relaying"}]
    BY <1>1 DEF Answer, IInv, TypeOK
  <1>4. TypeOK'
    BY <1>1, <1>2, <1>3 DEF Answer, IInv, TypeOK, Keeps
  <1>5. ConnStep(i)
    BY <1>1, <1>2 DEF Answer, ConnStep, IInv, TypeOK
  <1> QED BY <1>4, <1>5

LEMMA UpgradeToStep == ASSUME IInv, NEW i \in Ids, UpgradeTo(i) PROVE TypeOK' /\ ConnStep(i)
  <1> USE DEF connOnly, sessionVars
  <1>1. Keeps(i)
    BY NothingPosted DEF UpgradeTo, IInv
  <1>2. TypeOK'
    BY DEF UpgradeTo, IInv, TypeOK
  <1>3. ConnStep(i)
    BY <1>1 DEF UpgradeTo, ConnStep, IInv, TypeOK
  <1> QED BY <1>2, <1>3

LEMMA ExpireStep == ASSUME IInv, NEW i \in Ids, Expire(i) PROVE TypeOK' /\ ConnStep(i)
  <1> USE DEF connOnly, sessionVars, Ended
  <1>1. Keeps(i) /\ ClosesOnly
    BY NothingPosted DEF Expire, IInv
  <1>2. TypeOK'
    BY DEF Expire, IInv, TypeOK
  <1>3. ConnStep(i)
    BY <1>1 DEF Expire, ConnStep, IInv, TypeOK, Safe, Attached
  <1> QED BY <1>2, <1>3

LEMMA ReadEndsStep ==
  ASSUME IInv, NEW i \in Ids, NEW eof \in BOOLEAN, ReadEnds(i, eof)
  PROVE  TypeOK' /\ ConnStep(i)
  <1> USE DEF connOnly, sessionVars
  <1>1. CASE EndTold(i, eof)
    <2>1. /\ Keeps(i)
          /\ sess = "up" /\ i \notin dropped' => Queued(Message(i, "close"), toHub')
      BY <1>1, PostsClose DEF ReadEnds, IInv
    <2>2. TypeOK'
      BY <2>1, UnregisterType DEF ReadEnds, IInv, TypeOK, Keeps
    <2>3. ConnStep(i)
      BY <2>1 DEF ReadEnds, Unregister, ConnStep, IInv, TypeOK
    <2> QED BY <2>2, <2>3
  <1>2. CASE ~EndTold(i, eof)
    <2>1. Keeps(i)
      BY <1>2, PostEffect, Batches DEF ReadEnds, Posted, IInv
    <2>2. ctx[i] = "cancelled"
      BY <1>2 DEF EndTold
    <2>3. TypeOK'
      BY <2>1, UnregisterType DEF ReadEnds, IInv, TypeOK, Keeps
    <2>4. ConnStep(i)
      BY <2>1, <2>2 DEF ReadEnds, Unregister, ConnStep, IInv, TypeOK
    <2> QED BY <2>3, <2>4
  <1> QED BY <1>1, <1>2

LEMMA WrittenStep == ASSUME IInv, NEW i \in Ids, Written(i) PROVE TypeOK' /\ ConnStep(i)
  <1> USE DEF connOnly, sessionVars
  <1>1. Keeps(i) /\ ClosesOnly
    BY NothingPosted DEF Written, IInv
  <1>2. TypeOK'
    <2>1. pump' \in [Ids -> {"wait", "write", "off"}]
      BY DEF Written, IInv, TypeOK
    <2>2. UNCHANGED <<connOnly, toHub, phase, ctx, target, inq, bytes, relayed, dropped>>
      BY DEF Written
    <2> QED BY <2>1, <2>2 DEF IInv, TypeOK
  <1>3. ConnStep(i)
    BY <1>1 DEF Written, ConnStep, IInv, TypeOK, Safe, Attached
  <1> QED BY <1>2, <1>3

LEMMA PumpStopsStep == ASSUME IInv, NEW i \in Ids, PumpStops(i) PROVE TypeOK' /\ ConnStep(i)
  <1> USE DEF connOnly, sessionVars
  <1>1. Keeps(i) /\ ClosesOnly
    BY NothingPosted DEF PumpStops, IInv
  <1>2. TypeOK'
    BY DEF PumpStops, IInv, TypeOK
  <1>3. ConnStep(i)
    BY <1>1 DEF PumpStops, ConnStep, IInv, TypeOK, Safe, Attached
  <1> QED BY <1>2, <1>3

\* chargeBytes is one step: two pumps cannot both pass below the cap.
LEMMA ChargeStep ==
  ASSUME IInv, NEW i \in Ids, Charge(i)
  PROVE  Charged' /\ bytes' \in [Ids -> Nat] /\ relayed' \in [Ids -> Nat]
  <1>1. bytes' \in [Ids -> Nat] /\ relayed' \in [Ids -> Nat]
    <2>1. bytes \in [Ids -> Nat] /\ relayed \in [Ids -> Nat]
      BY DEF IInv, TypeOK
    <2>2. bytes[i] + 1 \in Nat /\ relayed[i] + 1 \in Nat
      BY <2>1
    <2> QED BY <2>1, <2>2 DEF Charge
  <1>2. ASSUME NEW j \in Ids PROVE relayed'[j] <= bytes'[j] /\ relayed'[j] <= MaxBytes
    <2>1. /\ bytes[j] \in Nat /\ relayed[j] \in Nat
          /\ relayed[j] <= bytes[j] /\ relayed[j] <= MaxBytes
      BY DEF IInv, TypeOK, Charged
    <2>2. CASE j # i
      <3>1. bytes'[j] = bytes[j] /\ relayed'[j] = relayed[j]
        BY <2>2 DEF Charge, IInv, TypeOK
      <3> QED BY <2>1, <3>1
    <2>3. CASE j = i
      <3>1. bytes'[j] = bytes[j] + 1
        BY <2>3 DEF Charge, IInv, TypeOK
      <3>2. relayed'[j] = IF bytes[j] + 1 <= MaxBytes THEN relayed[j] + 1 ELSE relayed[j]
        BY <2>3 DEF Charge, Fits, IInv, TypeOK
      <3> QED BY <2>1, <3>1, <3>2, TunnelAssumption
    <2> QED BY <2>2, <2>3
  <1> QED BY <1>1, <1>2 DEF Charged

LEMMA RelayStep == ASSUME IInv, NEW i \in Ids, Relay(i) PROVE TypeOK' /\ ConnStep(i) /\ Charged'
  <1> USE DEF connOnly, sessionVars
  <1>1. Charged' /\ bytes' \in [Ids -> Nat] /\ relayed' \in [Ids -> Nat]
    BY ChargeStep DEF Relay
  <1>2. CASE Fits(i)
    <2>1. /\ Post(i, <<"frame">>) /\ phase[i] = "relaying"
          /\ UNCHANGED <<phase, ctx, target, inq, pump, connOnly>>
      BY <1>2 DEF Relay
    <2>2. Keeps(i)
      BY <2>1, PostEffect, Batches DEF Posted, IInv
    <2>3. TypeOK'
      BY <1>1, <2>1, <2>2 DEF IInv, TypeOK, Keeps
    <2>4. ConnStep(i)
      BY <2>1, <2>2 DEF ConnStep, IInv, TypeOK
    <2> QED BY <1>1, <2>3, <2>4
  <1>3. CASE ~Fits(i)
    <2>1. /\ Post(i, <<"close">>) /\ phase[i] = "relaying" /\ Unregister(i)
          /\ UNCHANGED <<connOnly, target, inq, pump>>
      BY <1>3 DEF Relay
    <2>2. /\ Keeps(i)
          /\ sess = "up" /\ i \notin dropped' => Queued(Message(i, "close"), toHub')
      BY <2>1, PostsClose DEF IInv
    <2>3. TypeOK'
      BY <1>1, <2>1, <2>2, UnregisterType DEF IInv, TypeOK, Keeps
    <2>4. ConnStep(i)
      BY <2>1, <2>2 DEF Unregister, ConnStep, IInv, TypeOK
    <2> QED BY <1>1, <2>3, <2>4
  <1> QED BY <1>2, <1>3

LEMMA TakeStep == ASSUME IInv, NEW i \in Ids, Take(i) PROVE TypeOK' /\ ConnStep(i) /\ Charged'
  <1> USE DEF connOnly, sessionVars
  <1>1. /\ inq[i] \in Seq({"data", "half"}) /\ inq[i] # <<>> /\ Len(inq[i]) <= QueueCap
        /\ inq' = [inq EXCEPT ![i] = Tail(@)] /\ pump[i] = "wait"
        /\ UNCHANGED <<connOnly, phase, target>>
    BY DEF Take, IInv, TypeOK
  <1>2. /\ inq' \in [Ids -> Seq({"data", "half"})]
        /\ \A j \in Ids : Len(inq'[j]) <= QueueCap
    <2>1. Tail(inq[i]) \in Seq({"data", "half"}) /\ Len(Tail(inq[i])) <= QueueCap
      <3>1. Len(Tail(inq[i])) = Len(inq[i]) - 1 /\ Len(inq[i]) \in Nat
        BY <1>1, HeadTailProperties
      <3> QED BY <1>1, <3>1, HeadTailProperties, TunnelAssumption
    <2> QED BY <1>1, <2>1 DEF IInv, TypeOK
  <1>3. CASE UNCHANGED <<toHub, ctx, bytes, relayed, dropped>>
             /\ pump' = [pump EXCEPT ![i] = "off"]
    <2>1. Keeps(i) /\ ClosesOnly
      BY <1>3, NothingPosted DEF IInv
    <2>2. TypeOK'
      BY <1>1, <1>2, <1>3 DEF IInv, TypeOK
    <2>3. ConnStep(i)
      BY <1>1, <1>3, <2>1 DEF ConnStep, IInv, TypeOK
    <2> QED BY <1>3, <2>2, <2>3 DEF Charged, IInv
  <1>4. CASE /\ Charge(i) /\ UNCHANGED <<toHub, ctx, dropped>>
             /\ pump' = [pump EXCEPT ![i] = IF target[i] = "discard" THEN "wait" ELSE "write"]
    <2>1. Keeps(i) /\ ClosesOnly
      BY <1>4, NothingPosted DEF IInv
    <2>2. Charged' /\ bytes' \in [Ids -> Nat] /\ relayed' \in [Ids -> Nat]
      BY <1>4, ChargeStep
    <2>3. pump' \in [Ids -> {"wait", "write", "off"}]
      BY <1>4 DEF IInv, TypeOK
    <2>4. TypeOK'
      BY <1>1, <1>2, <1>4, <2>2, <2>3 DEF IInv, TypeOK
    <2>5. ConnStep(i)
      BY <1>1, <1>4, <2>1 DEF ConnStep, IInv, TypeOK
    <2> QED BY <2>2, <2>4, <2>5
  <1>5. CASE /\ Charge(i) /\ Post(i, <<"close">>) /\ ctx' = Ended(i, "cancelled")
             /\ pump' = [pump EXCEPT ![i] = "off"]
    <2>1. /\ Keeps(i) /\ ClosesOnly
          /\ sess = "up" /\ i \notin dropped' => Queued(Message(i, "close"), toHub')
      BY <1>5, PostsClose DEF IInv
    <2>2. Charged' /\ bytes' \in [Ids -> Nat] /\ relayed' \in [Ids -> Nat]
      BY <1>5, ChargeStep
    <2>3. TypeOK'
      BY <1>1, <1>2, <1>5, <2>1, <2>2 DEF IInv, TypeOK, Keeps, Ended
    <2>4. ConnStep(i)
      BY <1>1, <1>5, <2>1 DEF ConnStep, IInv, TypeOK, Ended
    <2> QED BY <2>2, <2>3, <2>4
  <1> QED BY <1>3, <1>4, <1>5 DEF Take

----------------------------------------------------------------------------
(***************************************************************************)
(* The receive goroutine.                                                  *)
(***************************************************************************)
Heard ==
  /\ UNCHANGED <<sess, n, hears, reset, waits, hub, kind>>
  /\ fromHub' \in Seq(FromHub) /\ Len(fromHub') <= HubCap
  /\ \A m : Queued(m, fromHub') => Queued(m, fromHub)
  /\ late' \subseteq late

LEMMA OpenConnInv == ASSUME IInv, NEW i \in Ids, OpenConn(i), Heard PROVE IInv'
  <1>1. TypeOK'
    <2>1. target' \in [Ids -> {"pipe", "discard", "socket"}]
      BY DEF OpenConn, IInv, TypeOK
    <2>2. born' \in [Ids -> 0..MaxSessions]
      BY DEF OpenConn, IInv, TypeOK
    <2> QED BY <2>1, <2>2 DEF OpenConn, Heard, IInv, TypeOK
  <1>2. Charged'
    BY DEF OpenConn, IInv, Charged
  <1>3. Attached'
    <2>1. n <= n
      BY DEF IInv, TypeOK
    <2> QED BY <2>1 DEF OpenConn, Heard, IInv, TypeOK, Safe, Attached
  <1>4. Owned'
    BY DEF OpenConn, Heard, IInv, TypeOK, Safe, Owned
  <1>5. Isolated'
    <2> SUFFICES ASSUME NEW m, Queued(m, toHub)
                 PROVE  born'[m.id] = n \/ m.id \in orphans' \/ m.what = "close"
      BY DEF Isolated, OpenConn, Heard
    <2>1. born[m.id] = n \/ m.id \in orphans \/ m.what = "close"
      BY DEF IInv, Safe, Isolated
    <2>2. m \in ToHub
      BY ElementOfSeq, LenProperties DEF Queued, IInv, TypeOK
    <2>3. m.id \in Ids
      BY <2>2 DEF ToHub, Messages
    <2> QED BY <2>1, <2>3 DEF OpenConn, IInv, TypeOK
  <1>6. HubKnows'
    BY DEF Heard, IInv, Safe, HubKnows
  <1>7. Told'
    BY DEF OpenConn, Heard, IInv, TypeOK, Safe, Told, Informed
  <1> QED BY <1>1, <1>2, <1>3, <1>4, <1>5, <1>6, <1>7 DEF IInv, Safe

LEMMA DeliverFrameInv ==
  ASSUME IInv, NEW i \in Ids, NEW frame \in {"data", "half"}, DeliverFrame(i, frame), Heard
  PROVE  IInv'
  <1>0. UNCHANGED <<phase, target, pump, bytes, relayed, born, orphans>>
    BY DEF DeliverFrame
  <1>1. Charged'
    BY <1>0 DEF IInv, Charged
  <1>2. CASE phase[i] # "idle" /\ Room(i) /\ inq' = [inq EXCEPT ![i] = Append(@, frame)]
             /\ UNCHANGED <<ctx, toHub, dropped>>
    <2>1. Keeps(i)
      BY <1>2, NothingPosted DEF IInv
    <2>2. /\ inq[i] \in Seq({"data", "half"}) /\ Len(inq[i]) \in Nat /\ Len(inq[i]) < QueueCap
      BY <1>2 DEF Room, IInv, TypeOK
    <2>3. /\ Append(inq[i], frame) \in Seq({"data", "half"})
          /\ Len(Append(inq[i], frame)) <= QueueCap
      <3>1. Len(Append(inq[i], frame)) = Len(inq[i]) + 1
        BY <2>2, AppendProperties
      <3> QED BY <2>2, <3>1, AppendProperties, TunnelAssumption
    <2>4. /\ inq' \in [Ids -> Seq({"data", "half"})]
          /\ \A j \in Ids : Len(inq'[j]) <= QueueCap
      BY <1>2, <2>3 DEF IInv, TypeOK
    <2>5. TypeOK'
      BY <1>0, <1>2, <2>4 DEF Heard, IInv, TypeOK
    <2>6. ConnStep(i)
      BY <1>0, <1>2, <2>1 DEF Heard, ConnStep, IInv, Safe, Attached
    <2> QED BY <1>1, <2>5, <2>6, ConnStepSafe DEF IInv
  <1>3. CASE /\ phase[i] # "idle" /\ Post(i, <<"close">>) /\ ctx' = Ended(i, "cancelled")
             /\ UNCHANGED inq
    <2>1. /\ Keeps(i)
          /\ sess = "up" /\ i \notin dropped' => Queued(Message(i, "close"), toHub')
      BY <1>3, PostsClose DEF IInv
    <2>2. TypeOK'
      BY <1>0, <1>3, <2>1 DEF Heard, IInv, TypeOK, Keeps, Ended
    <2>3. ConnStep(i)
      BY <1>0, <1>3, <2>1 DEF Heard, ConnStep, IInv, TypeOK, Safe, Attached, Ended
    <2> QED BY <1>1, <2>2, <2>3, ConnStepSafe DEF IInv
  <1>4. CASE phase[i] = "idle" /\ UNCHANGED <<inq, ctx, toHub, dropped>>
    <2>1. Keeps(i) /\ ClosesOnly
      BY <1>4, NothingPosted DEF IInv
    <2>2. TypeOK'
      BY <1>0, <1>4 DEF Heard, IInv, TypeOK
    <2>3. ConnStep(i)
      BY <1>0, <1>4, <2>1 DEF Heard, ConnStep, IInv, Safe, Attached
    <2> QED BY <1>1, <2>2, <2>3, ConnStepSafe DEF IInv
  <1> QED BY <1>2, <1>3, <1>4 DEF DeliverFrame

LEMMA CloseFromHubInv ==
  ASSUME IInv, NEW i \in Ids, CloseFromHub(i), hub[i] = "closed", Heard
  PROVE  IInv'
  <1> USE DEF historyVars
  <1>1. Charged'
    BY DEF CloseFromHub, IInv, Charged
  <1>2. Keeps(i) /\ ClosesOnly
    BY NothingPosted DEF CloseFromHub, IInv
  <1>3. TypeOK'
    BY DEF CloseFromHub, Ended, Heard, IInv, TypeOK
  <1>4. ConnStep(i)
    BY <1>2 DEF CloseFromHub, Ended, Heard, ConnStep, IInv, TypeOK, Safe, Attached
  <1> QED BY <1>1, <1>3, <1>4, ConnStepSafe DEF IInv

\* The connection may be over by then.
LEMMA OverflowLateInv == ASSUME IInv, NEW i \in Ids, OverflowLate(i), Heard PROVE IInv'
  <1> USE DEF connVars
  <1>1. Charged'
    BY DEF OverflowLate, IInv, Charged
  <1>2. /\ Keeps(i) /\ ClosesOnly
        /\ sess = "up" /\ i \notin dropped' => Queued(Message(i, "close"), toHub')
    BY PostsClose DEF OverflowLate, IInv
  <1>3. TypeOK'
    BY <1>2 DEF OverflowLate, Heard, Keeps, IInv, TypeOK
  <1>4. ConnStep(i)
    BY <1>2 DEF OverflowLate, Heard, ConnStep, IInv, TypeOK
  <1> QED BY <1>1, <1>3, <1>4, ConnStepSafe DEF IInv

LEMMA HandleMessageInv ==
  ASSUME IInv, NEW m \in Late, HandleMessage(m), Heard,
         Queued(m, fromHub) \/ m \in late
  PROVE  IInv'
  <1>1. m.id \in Ids /\ m = Message(m.id, m.what)
    BY DEF Late, Messages, Message
  <1>2. CASE m.what = "open" /\ OpenConn(m.id)
    BY <1>1, <1>2, OpenConnInv
  <1>3. CASE m.what \in {"data", "half"} /\ DeliverFrame(m.id, m.what)
    BY <1>1, <1>3, DeliverFrameInv
  <1>4. CASE m.what = "close" /\ CloseFromHub(m.id)
    <2>1. hub[m.id] = "closed"
      BY <1>1, <1>4 DEF IInv, Safe, HubKnows
    <2> QED BY <1>1, <1>4, <2>1, CloseFromHubInv
  <1>5. CASE m.what = "full" /\ OverflowLate(m.id)
    BY <1>1, <1>5, OverflowLateInv
  <1> QED BY <1>2, <1>3, <1>4, <1>5 DEF HandleMessage

LEMMA HandleInv == ASSUME IInv, Handle PROVE IInv'
  <1>1. /\ fromHub \in Seq(FromHub) /\ fromHub # <<>> /\ Len(fromHub) <= HubCap
        /\ Len(fromHub) \in Nat
    BY DEF Handle, IInv, TypeOK
  <1>2. /\ Head(fromHub) \in FromHub /\ Queued(Head(fromHub), fromHub)
        /\ Tail(fromHub) \in Seq(FromHub) /\ Len(Tail(fromHub)) = Len(fromHub) - 1
        /\ \A m : Queued(m, Tail(fromHub)) => Queued(m, fromHub)
    BY <1>1, QueueTail
  <1>3. Heard
    BY <1>1, <1>2, TunnelAssumption DEF Handle, Heard, sessionVars
  <1>4. Head(fromHub) \in Late
    BY <1>2 DEF FromHub, Late, Messages
  <1> QED BY <1>2, <1>3, <1>4, HandleMessageInv DEF Handle

LEMMA HandleLateInv == ASSUME IInv, NEW m \in late, HandleLate(m) PROVE IInv'
  <1>1. m \in Late
    BY DEF IInv, TypeOK
  <1>2. Heard
    BY DEF HandleLate, Heard, IInv, TypeOK
  <1> QED BY <1>1, <1>2, HandleMessageInv DEF HandleLate

----------------------------------------------------------------------------
(***************************************************************************)
(* The session.                                                            *)
(***************************************************************************)
\* No connection is at home in the session to come.
LEMMA ConnectInv == ASSUME IInv, Connect PROVE IInv'
  <1> USE DEF connVars, historyVars
  <1>1. /\ sess = "down" /\ toHub = <<>> /\ n \in Nat /\ n' = n + 1 /\ n' <= MaxSessions
    BY TunnelAssumption DEF Connect, IInv, TypeOK, Safe, Owned
  <1>2. TypeOK' /\ Charged'
    BY <1>1 DEF Connect, IInv, TypeOK, Charged
  <1>3. \A i \in Ids : born[i] <= n /\ born[i] # n' /\ born[i] \in Nat
    BY <1>1 DEF IInv, TypeOK, Safe, Attached
  <1>4. Attached'
    BY <1>1, <1>3 DEF Connect, IInv, Safe, Attached
  <1>5. Owned'
    BY <1>1 DEF Connect, IInv, Safe, Owned
  <1>6. Isolated'
    <2>1. \A m : ~Queued(m, toHub')
      BY <1>1 DEF Connect, Queued
    <2> QED BY <2>1 DEF Isolated
  <1>7. HubKnows'
    BY DEF Connect, IInv, Safe, HubKnows
  <1>8. Told'
    BY <1>3 DEF Connect, Told
  <1> QED BY <1>2, <1>4, <1>5, <1>6, <1>7, <1>8 DEF IInv, Safe

LEMMA SendPumpInv == ASSUME IInv, SendPump PROVE IInv'
  <1> USE DEF sessionVars, connVars, historyVars
  <1> DEFINE m == Head(toHub)
  <1>1. toHub \in Seq(ToHub) /\ toHub # <<>> /\ Len(toHub) <= SendCap /\ Len(toHub) \in Nat
    BY DEF SendPump, IInv, TypeOK
  <1>2. /\ m \in ToHub /\ toHub' = Tail(toHub) /\ toHub' \in Seq(ToHub)
        /\ Len(toHub') = Len(toHub) - 1
        /\ \A x : Queued(x, toHub) <=> x = m \/ Queued(x, toHub')
    BY <1>1, QueueTail DEF SendPump
  <1>3. m.id \in Ids /\ m = Message(m.id, m.what)
    BY <1>2 DEF ToHub, Messages, Message
  <1> HIDE DEF m
  <1>4. /\ hub' \in [Ids -> {"fresh", "asked", "open", "closed"}]
        /\ \A i \in Ids : hub[i] = "closed" => hub'[i] = "closed"
        /\ m.what = "close" => hub'[m.id] = "closed"
    BY <1>3 DEF SendPump, IInv, TypeOK, m
  <1>5. TypeOK' /\ Charged'
    <2>1. Len(toHub') <= SendCap
      BY <1>1, <1>2, TunnelAssumption
    <2>2. UNCHANGED <<sessionVars, fromHub, kind, connVars, historyVars>>
      BY DEF SendPump
    <2>3. TypeOK'
      BY <1>2, <1>4, <2>1, <2>2 DEF IInv, TypeOK
    <2>4. Charged'
      BY <2>2 DEF IInv, Charged
    <2> QED BY <2>3, <2>4
  <1>6. Attached' /\ HubKnows'
    BY <1>4 DEF SendPump, IInv, Safe, Attached, HubKnows
  <1>7. Owned'
    BY DEF SendPump, IInv, Safe, Owned
  <1>8. Isolated'
    BY <1>2 DEF SendPump, IInv, Safe, Isolated
  <1>9. ASSUME NEW i \in Ids, Informed(i) PROVE Informed(i)'
    <2>1. CASE hub[i] = "closed"
      BY <1>4, <2>1 DEF Informed
    <2>2. CASE Message(i, "close") = m
      <3>1. m.id = i /\ m.what = "close"
        BY <2>2 DEF Message
      <3> QED BY <1>4, <3>1 DEF Informed
    <2>3. CASE Queued(Message(i, "close"), toHub')
      BY <2>3 DEF Informed
    <2> QED BY <1>2, <1>9, <2>1, <2>2, <2>3 DEF Informed
  <1>10. Told'
    BY <1>9 DEF SendPump, IInv, Safe, Told
  <1> QED BY <1>5, <1>6, <1>7, <1>8, <1>10 DEF IInv, Safe

\* SetSend(nil): from here on nothing is told.  The snapshot of ResetAll has
\* every connection of the session.
LEMMA EndSessionInv ==
  ASSUME IInv, NEW broken \in BOOLEAN, EndSession(broken) PROVE IInv'
  <1> USE DEF connVars, historyVars
  <1>1. /\ sess = "up" /\ sess' = "resetting" /\ reset' = Registered
        /\ UNCHANGED <<n, waits, late, kind, connVars, historyVars>>
        /\ \/ hears' = FALSE /\ fromHub' = <<>> /\ toHub' = <<>> /\ HubDrops
           \/ UNCHANGED <<hears, fromHub, toHub, hub>>
    BY DEF EndSession
  <1>2. hub' \in [Ids -> {"fresh", "asked", "open", "closed"}]
        /\ \A i \in Ids : hub[i] = "closed" => hub'[i] = "closed"
    BY <1>1 DEF HubDrops, IInv, TypeOK
  <1>3. /\ fromHub' \in Seq(FromHub) /\ Len(fromHub') <= HubCap
        /\ toHub' \in Seq(ToHub) /\ Len(toHub') <= SendCap
        /\ \A m : Queued(m, fromHub') => Queued(m, fromHub)
        /\ \A m : Queued(m, toHub') => Queued(m, toHub)
    <2>1. CASE fromHub' = <<>> /\ toHub' = <<>>
      <3>1. Len(<<>>) = 0 /\ \A m : ~Queued(m, <<>>)
        BY DEF Queued
      <3>2. <<>> \in Seq(FromHub) /\ <<>> \in Seq(ToHub)
        OBVIOUS
      <3>3. 0 <= HubCap /\ 0 <= SendCap
        BY TunnelAssumption
      <3> QED BY <2>1, <3>1, <3>2, <3>3, Zenon
    <2>2. CASE fromHub' = fromHub /\ toHub' = toHub
      BY <2>2 DEF IInv, TypeOK
    <2> QED BY <1>1, <2>1, <2>2
  <1>4. TypeOK' /\ Charged'
    BY <1>1, <1>2, <1>3 DEF IInv, TypeOK, Charged, Registered
  <1>5. Attached'
    BY <1>1 DEF IInv, Safe, Attached
  <1>6. Owned'
    BY <1>1 DEF Owned, Registered
  <1>7. Isolated'
    BY <1>1, <1>3 DEF IInv, Safe, Isolated
  <1>8. HubKnows'
    BY <1>1, <1>2, <1>3 DEF IInv, Safe, HubKnows
  <1>9. Told'
    BY <1>1 DEF Told
  <1> QED BY <1>4, <1>5, <1>6, <1>7, <1>8, <1>9 DEF IInv, Safe

LEMMA ResetConnInv == ASSUME IInv, NEW i \in Ids, ResetConn(i) PROVE IInv'
  <1> USE DEF historyVars
  <1>1. TypeOK' /\ Charged'
    BY DEF ResetConn, Ended, IInv, TypeOK, Charged
  <1>2. Owned'
    <2>1. /\ sess = "resetting" /\ waits = None /\ reset' = reset \ {i} /\ waits' = i
          /\ UNCHANGED <<sess, hears, toHub, phase, orphans, born, n>>
      BY DEF ResetConn
    <2>2. ASSUME NEW j \in Ids, phase[j] # "idle", j \notin orphans
          PROVE  j \in reset' \cup {waits'}
      <3>1. j \in reset
        BY <2>1, <2>2, TunnelAssumption DEF IInv, Safe, Owned
      <3> QED BY <2>1, <3>1
    <2> QED BY <2>1, <2>2 DEF Owned
  <1>3. Attached' /\ Isolated' /\ HubKnows' /\ Told'
    BY DEF ResetConn, IInv, Safe, Attached, Isolated, HubKnows, Told
  <1> QED BY <1>1, <1>2, <1>3 DEF IInv, Safe

LEMMA ResetNextInv == ASSUME IInv, ResetNext PROVE IInv'
  <1> USE DEF historyVars, connVars
  <1>1. TypeOK' /\ Charged'
    BY DEF ResetNext, IInv, TypeOK, Charged
  <1>2. Owned'
    BY DEF ResetNext, ResetDone, IInv, Safe, Owned
  <1>3. Attached' /\ Isolated' /\ HubKnows' /\ Told'
    BY DEF ResetNext, IInv, Safe, Attached, Isolated, HubKnows, Told, Informed
  <1> QED BY <1>1, <1>2, <1>3 DEF IInv, Safe

\* ResetAll has waited for all: whoever is left is an orphan.
LEMMA SessionOverInv == ASSUME IInv, SessionOver PROVE IInv'
  <1> USE DEF historyVars, connVars
  <1>1. /\ hub' \in [Ids -> {"fresh", "asked", "open", "closed"}]
        /\ \A i \in Ids : hub[i] = "closed" => hub'[i] = "closed"
    BY DEF SessionOver, HubDrops, IInv, TypeOK
  <1>2. /\ late' \subseteq Late
        /\ \A m \in late' : m.what = "close" => m \in late \/ Queued(m, fromHub)
    <2>1. CASE fromHub # <<>> /\ \E m \in InHand(Head(fromHub)) : late' = late \cup {m}
      <3>1. PICK m \in InHand(Head(fromHub)) : late' = late \cup {m}
        BY <2>1
      <3>2. Head(fromHub) \in FromHub /\ Queued(Head(fromHub), fromHub)
        BY <2>1, QueueTail DEF IInv, TypeOK
      <3>3. m \in Late /\ (m.what = "close" => m = Head(fromHub))
        BY <3>1, <3>2 DEF InHand, FromHub, Late, Messages
      <3> QED BY <3>1, <3>2, <3>3 DEF IInv, TypeOK
    <2> QED BY <2>1 DEF SessionOver, IInv, TypeOK
  <1>3. fromHub' = <<>> /\ toHub' = <<>> /\ sess' = "down" /\ hears' = FALSE
    BY DEF SessionOver
  <1>4. TypeOK' /\ Charged'
    <2>1. /\ fromHub' \in Seq(FromHub) /\ Len(fromHub') <= HubCap
          /\ toHub' \in Seq(ToHub) /\ Len(toHub') <= SendCap
      BY <1>3, TunnelAssumption
    <2> QED BY <1>1, <1>2, <1>3, <2>1 DEF SessionOver, IInv, TypeOK, Charged
  <1>5. Attached'
    BY DEF SessionOver, IInv, Safe, Attached
  <1>6. Owned'
    BY TunnelAssumption DEF SessionOver, IInv, TypeOK, Safe, Owned
  <1>7. Isolated'
    BY <1>3 DEF Isolated, Queued
  <1>8. HubKnows'
    <2>1. \A m : ~Queued(m, fromHub')
      BY <1>3 DEF Queued
    <2>2. \A i : Message(i, "close").what = "close"
      BY DEF Message
    <2> QED BY <1>1, <1>2, <2>1, <2>2 DEF IInv, Safe, HubKnows
  <1>9. Told'
    BY <1>3 DEF Told
  <1> QED BY <1>4, <1>5, <1>6, <1>7, <1>8, <1>9 DEF IInv, Safe

----------------------------------------------------------------------------
(***************************************************************************)
(* The hub.                                                                *)
(***************************************************************************)
LEMMA HubInv ==
  ASSUME IInv, NEW i \in Ids, HubOpen(i) \/ HubFrame(i) \/ HubClose(i) PROVE IInv'
  <1> USE DEF sessionVars, connVars, historyVars
  <1>1. PICK what \in {"open", "data", "half", "close"} :
          /\ HubSends(i, what)
          /\ what = "close" => hub'[i] = "closed"
    BY DEF HubOpen, HubFrame, HubClose, IInv, TypeOK
  <1>2. /\ hub' \in [Ids -> {"fresh", "asked", "open", "closed"}]
        /\ \A j \in Ids : hub[j] = "closed" => hub'[j] = "closed"
    <2>1. hub \in [Ids -> {"fresh", "asked", "open", "closed"}]
      BY DEF IInv, TypeOK
    <2>2. \/ UNCHANGED hub
          \/ \E h \in {"asked", "closed"} : hub[i] # "closed" /\ hub' = [hub EXCEPT ![i] = h]
      BY DEF HubOpen, HubFrame, HubClose
    <2> QED BY <2>1, <2>2
  <1>3. Message(i, what) \in FromHub /\ fromHub' = Append(fromHub, Message(i, what))
    BY <1>1 DEF HubSends, Message, FromHub, Messages
  <1>4. /\ fromHub \in Seq(FromHub) /\ Len(fromHub) \in Nat /\ Len(fromHub) < HubCap
        /\ UNCHANGED <<sessionVars, toHub, kind, connVars, historyVars>>
    BY <1>1 DEF HubSends, IInv, TypeOK
  <1>5. /\ fromHub' \in Seq(FromHub) /\ Len(fromHub') = Len(fromHub) + 1
        /\ \A m : Queued(m, fromHub') <=> m = Message(i, what) \/ Queued(m, fromHub)
    BY <1>3, <1>4, QueueAppend
  <1>6. TypeOK' /\ Charged'
    <2>1. Len(fromHub') <= HubCap
      BY <1>4, <1>5, TunnelAssumption
    <2>2. TypeOK'
      BY <1>2, <1>4, <1>5, <2>1 DEF IInv, TypeOK
    <2>3. Charged'
      BY <1>4 DEF IInv, Charged
    <2> QED BY <2>2, <2>3
  <1>7. Attached' /\ Owned' /\ Isolated'
    BY <1>4 DEF IInv, Safe, Attached, Owned, Isolated
  <1>8. HubKnows'
    <2> SUFFICES ASSUME NEW j \in Ids,
                        Queued(Message(j, "close"), fromHub') \/ Message(j, "close") \in late
                 PROVE  hub'[j] = "closed"
      BY <1>4 DEF HubKnows
    <2>1. CASE Message(j, "close") = Message(i, what)
      <3>1. j = i /\ what = "close"
        BY <2>1 DEF Message
      <3> QED BY <1>1, <3>1
    <2>2. CASE Queued(Message(j, "close"), fromHub) \/ Message(j, "close") \in late
      BY <1>2, <2>2 DEF IInv, Safe, HubKnows
    <2> QED BY <1>5, <2>1, <2>2
  <1>9. Told'
    BY <1>2, <1>4 DEF IInv, Safe, Told, Informed
  <1> QED BY <1>6, <1>7, <1>8, <1>9 DEF IInv, Safe

----------------------------------------------------------------------------
LEMMA StutterInv == ASSUME IInv, UNCHANGED vars PROVE IInv'
  <1> USE DEF vars, sessionVars, connVars, historyVars
  <1>1. TypeOK' /\ Charged'
    BY DEF IInv, TypeOK, Charged
  <1>2. Safe'
    BY DEF IInv, Safe, Attached, Owned, Isolated, HubKnows, Told, Informed, Queued
  <1> QED BY <1>1, <1>2 DEF IInv

LEMMA NextInv == ASSUME IInv, [Next]_vars PROVE IInv'
  <1>1. ASSUME NEW i \in Ids,
               \/ Fail(i) \/ Dialed(i) \/ Serve(i) \/ UpgradeTo(i) \/ Expire(i)
               \/ \E eof \in BOOLEAN : ReadEnds(i, eof)
               \/ Written(i) \/ PumpStops(i)
        PROVE  IInv'
    <2>1. TypeOK' /\ ConnStep(i)
      BY <1>1, FailStep, DialedStep, ServeStep, UpgradeToStep, ExpireStep, ReadEndsStep,
         WrittenStep, PumpStopsStep
    <2>2. Charged'
      BY <1>1 DEF Fail, Dialed, Serve, Answer, UpgradeTo, Expire, ReadEnds, Written, PumpStops,
                  IInv, Charged
    <2> QED BY <2>1, <2>2, ConnStepSafe DEF IInv
  <1>2. ASSUME NEW i \in Ids, Relay(i) \/ Take(i) PROVE IInv'
    BY <1>2, RelayStep, TakeStep, ConnStepSafe DEF IInv
  <1> QED BY <1>1, <1>2, HandleInv, HandleLateInv, ConnectInv, SendPumpInv, EndSessionInv,
             ResetConnInv, ResetNextInv, SessionOverInv, HubInv, StutterInv DEF Next

\* The inductive invariant: bytes charged, sessions kept apart, ends told.
THEOREM Invariance == Spec => []IInv
  BY InitIInv, NextInv, PTL DEF Spec

(***************************************************************************)
(* The variables keep their types: no queue exceeds its capacity.          *)
(***************************************************************************)
THEOREM TypeCorrect == Spec => []TypeOK
  <1>1. IInv => TypeOK
    BY DEF IInv
  <1> QED BY Invariance, <1>1, PTL

(***************************************************************************)
(* The two pumps of a connection together never relay more than the cap    *)
(* of chargeBytes, for any cap and any number of connections.              *)
(***************************************************************************)
THEOREM CapHolds == Spec => []ByteCapHolds
  <1>1. IInv => ByteCapHolds
    BY DEF IInv, Charged, ByteCapHolds
  <1> QED BY Invariance, <1>1, PTL

(***************************************************************************)
(* Results, errors and frames that are queued for the hub belong to the    *)
(* session that is up: ResetAll has waited for every connection but the    *)
(* orphans.  Only a Close may come from a connection of an earlier one.    *)
(***************************************************************************)
THEOREM SessionsDoNotMix == Spec => []SessionIsolation
  <1>1. IInv => SessionIsolation
    BY DEF IInv, Safe, Isolated, Queued, SessionIsolation
  <1> QED BY Invariance, <1>1, PTL

(***************************************************************************)
(* The hub knows or is being told of the end of every connection, whoever  *)
(* ended it, unless sendCh was full.                                       *)
(***************************************************************************)
THEOREM HubLearnsOfEnds == Spec => []EndIsTold
  <1>1. IInv => EndIsTold
    BY DEF IInv, Safe, Told, Informed, Queued, Message, EndIsTold
  <1> QED BY Invariance, <1>1, PTL
=============================================================================
