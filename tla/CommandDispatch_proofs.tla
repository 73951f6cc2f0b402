---------------------- MODULE CommandDispatch_proofs ----------------------
(***************************************************************************)
(* Proofs about CommandDispatch.                                           *)
(***************************************************************************)
EXTENDS CommandDispatch, FiniteSetTheorems, SequenceTheorems, TLAPS

Recording == {"jget", "jcreate", "jupdate"}

(***************************************************************************)
(* What holds of one pod at each point of its event loop: the event in     *)
(* hand, the reply, the attempts left, and that a command between look-up  *)
(* and handler is not on record.                                           *)
(***************************************************************************)
Control(p) ==
  /\ pc[p] \in Working => cur[p] \in Events /\ cur[p].id \in CommandIds
  /\ pc[p] = "reply" => cur[p] \in Events /\ reply[p] \in Results \cup {ErrorNack}
  /\ pc[p] \in {"down", "idle", "gate", "exec"} => reply[p] = NoAck
  /\ pc[p] \in Recording => reply[p] \in Results /\ attempt[p] < RecordAttempts
  /\ pc[p] \in {"gate", "exec"} => seen[p][cur[p].id] = NoAck
  /\ reply[p] \in Results =>
       cur[p] \in Events /\ cur[p].id \in CommandIds /\ seen[p][cur[p].id] = reply[p]

TypeInv == TypeOK /\ \A p \in Pods : Control(p)

USE DEF PcValues, Working, Recording, Acks, Results, NoAck, ErrorNack, RecordAttempts

LEMMA NoAcksType == NoAcks \in [CommandIds -> Acks]
  BY DEF NoAcks

LEMMA BoundType == Bound \in [Faults -> Nat]
  BY ConstantsAssumption DEF Bound, Faults

LEMMA SpendType ==
  ASSUME budget \in [Faults -> Nat], NEW k \in Faults, Spend(k)
  PROVE  budget' \in [Faults -> Nat]
  BY DEF Spend, Faults

LEMMA TrimmedType ==
  ASSUME NEW d \in [CommandIds -> Acks], NEW c \in CommandIds, NEW t \in Trimmed(d, c)
  PROVE  t \in [CommandIds -> Acks]
  BY DEF Trimmed, Entries

LEMMA InitTypeInv == Init => TypeInv
  <1> SUFFICES ASSUME Init PROVE TypeInv
    OBVIOUS
  <1>1. TypeOK
    BY NoAcksType, BoundType DEF Init, TypeOK
  <1>2. \A p \in Pods : Control(p)
    BY DEF Init, Control
  <1> QED BY <1>1, <1>2 DEF TypeInv

LEMMA ReceiveTypeInv ==
  ASSUME TypeInv, NEW p \in Pods, Receive(p)
  PROVE  TypeInv'
  <1> DEFINE e == Head(inbox[p])
  <1>1. e \in Events /\ Tail(inbox[p]) \in Seq(Events)
    BY HeadTailProperties DEF Receive, TypeInv, TypeOK
  <1>2. e.id \in CommandIds \cup {NoId}
    BY <1>1, ConstantsAssumption
  <1>3. /\ UNCHANGED <<seen, connected, attempt, snapVer, snapData, cmVer, cmData,
                       verdicts, budget, loaded, done>>
        /\ inbox' = [inbox EXCEPT ![p] = Tail(@)]
        /\ pc[p] = "idle"
    BY DEF Receive, cmVars
  <1>4. CASE UNCHANGED <<pc, cur, reply, gateWasOpen>>
    <2>1. TypeOK'
      BY <1>1, <1>3, <1>4 DEF TypeInv, TypeOK
    <2>2. ASSUME NEW q \in Pods PROVE Control(q)'
      BY <1>3, <1>4 DEF Control, TypeInv
    <2> QED BY <2>1, <2>2 DEF TypeInv
  <1>5. CASE /\ cur' = [cur EXCEPT ![p] = e]
             /\ gateWasOpen' = [gateWasOpen EXCEPT ![p] = connected[p]]
             /\ e.id = NoId
             /\ Answer(p, ErrorNack)
    <2>1. TypeOK'
      BY <1>1, <1>3, <1>5 DEF TypeInv, TypeOK, Answer
    <2>2. ASSUME NEW q \in Pods PROVE Control(q)'
      BY <1>1, <1>3, <1>5 DEF Control, TypeInv, TypeOK, Answer
    <2> QED BY <2>1, <2>2 DEF TypeInv
  <1>6. CASE /\ cur' = [cur EXCEPT ![p] = e]
             /\ gateWasOpen' = [gateWasOpen EXCEPT ![p] = connected[p]]
             /\ e.id # NoId
             /\ Recorded(p, e.id)
             /\ Answer(p, seen[p][e.id])
    <2>1. TypeOK'
      BY <1>1, <1>2, <1>3, <1>6 DEF TypeInv, TypeOK, Answer
    <2>2. ASSUME NEW q \in Pods PROVE Control(q)'
      BY <1>1, <1>2, <1>3, <1>6 DEF Control, TypeInv, TypeOK, Answer, Recorded
    <2> QED BY <2>1, <2>2 DEF TypeInv
  <1>7. CASE /\ cur' = [cur EXCEPT ![p] = e]
             /\ gateWasOpen' = [gateWasOpen EXCEPT ![p] = connected[p]]
             /\ e.id # NoId
             /\ ~Recorded(p, e.id)
             /\ pc' = [pc EXCEPT ![p] = "gate"]
             /\ UNCHANGED reply
    <2>1. TypeOK'
      BY <1>1, <1>3, <1>7 DEF TypeInv, TypeOK
    <2>2. ASSUME NEW q \in Pods PROVE Control(q)'
      BY <1>1, <1>2, <1>3, <1>7 DEF Control, TypeInv, TypeOK, Recorded
    <2> QED BY <2>1, <2>2 DEF TypeInv
  <1> QED BY <1>4, <1>5, <1>6, <1>7 DEF Receive

LEMMA ConcludeTypeInv ==
  ASSUME TypeInv, NEW p \in Pods, NEW r \in Results, Conclude(p, r),
         pc[p] \in {"gate", "exec"},
         UNCHANGED <<inbox, cur, connected, snapVer, snapData, cmVer, cmData,
                     verdicts, budget, loaded, gateWasOpen>>
  PROVE  TypeInv'
  <1>1. cur[p] \in Events /\ cur[p].id \in CommandIds
    BY DEF TypeInv, Control, TypeOK
  <1>2. TypeOK'
    <2>1. seen' \in [Pods -> [CommandIds -> Acks]]
      BY <1>1 DEF Conclude, TypeInv, TypeOK
    <2>2. pc' \in [Pods -> PcValues]
      BY DEF Conclude, TypeInv, TypeOK
    <2> QED BY <1>1, <2>1, <2>2 DEF Conclude, TypeInv, TypeOK
  <1>3. ASSUME NEW q \in Pods PROVE Control(q)'
    <2>1. CASE q = p
      BY <1>1, <2>1 DEF Conclude, Control, TypeInv, TypeOK
    <2>2. CASE q # p
      BY <2>2 DEF Conclude, Control, TypeInv, TypeOK
    <2> QED BY <2>1, <2>2
  <1> QED BY <1>2, <1>3 DEF TypeInv

LEMMA AnswerErrorTypeInv ==
  ASSUME TypeInv, NEW p \in Pods, Answer(p, ErrorNack), pc[p] \in Working,
         budget' \in [Faults -> Nat], cmVer' \in Nat, cmData' \in [CommandIds -> Acks],
         attempt' \in [Pods -> 0..RecordAttempts],
         \A q \in Pods \ {p} : attempt'[q] = attempt[q],
         UNCHANGED <<inbox, cur, seen, connected, snapVer, snapData,
                     verdicts, loaded, done, gateWasOpen>>
  PROVE  TypeInv'
  <1>1. TypeOK'
    BY DEF Answer, TypeInv, TypeOK
  <1>2. ASSUME NEW q \in Pods PROVE Control(q)'
    BY DEF Answer, Control, TypeInv, TypeOK
  <1> QED BY <1>1, <1>2 DEF TypeInv

LEMMA GateTypeInv ==
  ASSUME TypeInv, NEW p \in Pods, Gate(p)
  PROVE  TypeInv'
  <1>1. /\ UNCHANGED <<inbox, cur, connected, snapVer, snapData, cmVer, cmData,
                       verdicts, budget, loaded, gateWasOpen>>
        /\ pc[p] = "gate"
    BY DEF Gate, cmVars
  <1>2. CASE Answer(p, ErrorNack) /\ UNCHANGED <<seen, attempt, done>>
    BY <1>1, <1>2, AnswerErrorTypeInv DEF TypeInv, TypeOK
  <1>3. CASE Conclude(p, "ACCEPTED")
    BY <1>1, <1>3, ConcludeTypeInv
  <1>4. CASE pc' = [pc EXCEPT ![p] = "exec"] /\ UNCHANGED <<reply, seen, attempt, done>>
    <2>1. TypeOK'
      BY <1>1, <1>4 DEF TypeInv, TypeOK
    <2>2. ASSUME NEW q \in Pods PROVE Control(q)'
      BY <1>1, <1>4 DEF Control, TypeInv, TypeOK
    <2> QED BY <2>1, <2>2 DEF TypeInv
  <1> QED BY <1>2, <1>3, <1>4 DEF Gate

LEMMA ExecuteTypeInv ==
  ASSUME TypeInv, NEW p \in Pods, Execute(p)
  PROVE  TypeInv'
  <1>1. /\ UNCHANGED <<inbox, cur, connected, snapVer, snapData, cmVer, cmData,
                       verdicts, loaded, gateWasOpen>>
        /\ pc[p] = "exec"
    BY DEF Execute, cmVars
  <1>2. CASE (\E r \in HandlerResults : Conclude(p, r)) /\ UNCHANGED budget
    BY <1>1, <1>2, ConcludeTypeInv DEF HandlerResults
  <1>3. CASE /\ Spend("handler")
             /\ Answer(p, ErrorNack)
             /\ UNCHANGED <<seen, attempt, done>>
    BY <1>1, <1>3, AnswerErrorTypeInv, SpendType DEF TypeInv, TypeOK, Faults
  <1> QED BY <1>2, <1>3 DEF Execute

LEMMA ReplyTypeInv ==
  ASSUME TypeInv, NEW p \in Pods, Reply(p)
  PROVE  TypeInv'
  <1>1. /\ pc[p] = "reply"
        /\ pc' = [pc EXCEPT ![p] = "idle"]
        /\ cur' = [cur EXCEPT ![p] = NoEvent]
        /\ reply' = [reply EXCEPT ![p] = NoAck]
        /\ gateWasOpen' = [gateWasOpen EXCEPT ![p] = FALSE]
        /\ UNCHANGED <<inbox, seen, connected, attempt, snapVer, snapData, cmVer, cmData,
                       loaded, done>>
    BY DEF Reply, cmVars
  <1>2. cur[p] \in Events /\ reply[p] \in Results \cup {ErrorNack}
    BY <1>1 DEF TypeInv, Control
  <1>3. cur[p].id \in CommandIds \cup {NoId}
    BY <1>2, ConstantsAssumption
  <1>4. /\ budget' \in [Faults -> Nat]
        /\ verdicts' \subseteq [id : CommandIds \cup {NoId}, verdict : Results \cup {ErrorNack}]
    BY <1>2, <1>3, SpendType DEF Reply, TypeInv, TypeOK, Faults
  <1>5. TypeOK'
    BY <1>1, <1>4 DEF TypeInv, TypeOK
  <1>6. ASSUME NEW q \in Pods PROVE Control(q)'
    BY <1>1 DEF Control, TypeInv, TypeOK
  <1> QED BY <1>5, <1>6 DEF TypeInv

LEMMA NextAttemptTypeInv ==
  ASSUME TypeInv, NEW p \in Pods, NextAttempt(p), pc[p] \in Recording,
         cmVer' \in Nat, cmData' \in [CommandIds -> Acks],
         UNCHANGED <<snapVer, snapData, recordUnchanged>>
  PROVE  TypeInv'
  <1>1. attempt[p] \in 0..2 /\ reply[p] \in Results
    BY DEF TypeInv, Control, TypeOK
  <1>2. attempt' = [attempt EXCEPT ![p] = @ + 1] /\ UNCHANGED budget
    BY DEF NextAttempt
  <1>3. attempt' \in [Pods -> 0..RecordAttempts]
    BY <1>1, <1>2 DEF TypeInv, TypeOK
  <1>4. CASE Answer(p, ErrorNack)
    BY <1>2, <1>3, <1>4, AnswerErrorTypeInv DEF TypeInv, TypeOK, recordUnchanged
  <1>5. CASE /\ attempt[p] + 1 < RecordAttempts
             /\ pc' = [pc EXCEPT ![p] = "jget"]
             /\ UNCHANGED reply
    <2>1. TypeOK'
      BY <1>2, <1>3, <1>5 DEF TypeInv, TypeOK, recordUnchanged
    <2>2. ASSUME NEW q \in Pods PROVE Control(q)'
      BY <1>1, <1>2, <1>5 DEF Control, TypeInv, TypeOK, recordUnchanged
    <2> QED BY <2>1, <2>2 DEF TypeInv
  <1> QED BY <1>4, <1>5 DEF NextAttempt

LEMMA ApiFaultTypeInv ==
  ASSUME TypeInv, NEW p \in Pods, ApiFault(p), pc[p] \in Recording,
         cmVer' \in Nat, cmData' \in [CommandIds -> Acks],
         UNCHANGED <<snapVer, snapData, recordUnchanged>>
  PROVE  TypeInv'
  BY AnswerErrorTypeInv, SpendType
     DEF ApiFault, TypeInv, TypeOK, Faults, recordUnchanged

LEMMA JournalGetTypeInv ==
  ASSUME TypeInv, NEW p \in Pods, JournalGet(p)
  PROVE  TypeInv'
  <1>1. /\ UNCHANGED <<cmVer, cmData, inbox, cur, seen, connected, verdicts, loaded,
                       done, gateWasOpen>>
        /\ pc[p] = "jget"
    BY DEF JournalGet, cmVars, recordUnchanged
  <1>2. CASE /\ pc' = [pc EXCEPT ![p] = "jcreate"]
             /\ UNCHANGED <<snapVer, snapData, reply, attempt, budget>>
    <2>1. TypeOK'
      BY <1>1, <1>2 DEF TypeInv, TypeOK
    <2>2. ASSUME NEW q \in Pods PROVE Control(q)'
      BY <1>1, <1>2 DEF Control, TypeInv, TypeOK
    <2> QED BY <2>1, <2>2 DEF TypeInv
  <1>3. CASE /\ pc' = [pc EXCEPT ![p] = "jupdate"]
             /\ snapVer' = [snapVer EXCEPT ![p] = cmVer]
             /\ snapData' = [snapData EXCEPT ![p] = cmData]
             /\ UNCHANGED <<reply, attempt, budget>>
    <2>1. TypeOK'
      BY <1>1, <1>3 DEF TypeInv, TypeOK
    <2>2. ASSUME NEW q \in Pods PROVE Control(q)'
      BY <1>1, <1>3 DEF Control, TypeInv, TypeOK
    <2> QED BY <2>1, <2>2 DEF TypeInv
  <1>4. CASE ApiFault(p) /\ UNCHANGED <<snapVer, snapData>>
    BY <1>1, <1>4, ApiFaultTypeInv DEF TypeInv, TypeOK, recordUnchanged
  <1> QED BY <1>2, <1>3, <1>4 DEF JournalGet

LEMMA JournalCreateTypeInv ==
  ASSUME TypeInv, NEW p \in Pods, JournalCreate(p)
  PROVE  TypeInv'
  <1>1. pc[p] = "jcreate" /\ UNCHANGED <<snapVer, snapData, recordUnchanged>>
    BY DEF JournalCreate
  <1>2. cur[p].id \in CommandIds /\ reply[p] \in Results
    BY <1>1 DEF TypeInv, Control
  <1>3. [NoAcks EXCEPT ![cur[p].id] = reply[p]] \in [CommandIds -> Acks]
    BY <1>2, NoAcksType
  <1>4. cmVer' \in Nat /\ cmData' \in [CommandIds -> Acks]
    <2>1. \/ UNCHANGED <<cmVer, cmData>>
          \/ WriteJournal([NoAcks EXCEPT ![cur[p].id] = reply[p]])
      BY DEF JournalCreate, cmVars
    <2>2. cmVer \in Nat /\ cmData \in [CommandIds -> Acks]
      BY DEF TypeInv, TypeOK
    <2> QED BY <1>3, <2>1, <2>2 DEF WriteJournal
  <1>5. NextAttempt(p) \/ ApiFault(p)
    BY DEF JournalCreate
  <1> QED BY <1>1, <1>4, <1>5, NextAttemptTypeInv, ApiFaultTypeInv

\* The ConfigMap data that Update sends: what Get returned with the ack in it.
Merged(p) == [snapData[p] EXCEPT ![cur[p].id] = reply[p]]

LEMMA MergedType ==
  ASSUME TypeInv, NEW p \in Pods, pc[p] = "jupdate"
  PROVE  /\ cur[p].id \in CommandIds
         /\ reply[p] \in Results
         /\ Merged(p) \in [CommandIds -> Acks]
  BY DEF TypeInv, TypeOK, Control, Merged

LEMMA JournalUpdateTypeInv ==
  ASSUME TypeInv, NEW p \in Pods, JournalUpdate(p)
  PROVE  TypeInv'
  <1>1. pc[p] = "jupdate" /\ UNCHANGED <<snapVer, snapData, recordUnchanged>>
    BY DEF JournalUpdate
  <1>2. \/ UNCHANGED <<cmVer, cmData>>
        \/ \E d \in Trimmed(Merged(p), cur[p].id) : WriteJournal(d)
    BY DEF JournalUpdate, Merged, cmVars
  <1>3. cmVer' \in Nat /\ cmData' \in [CommandIds -> Acks]
    <2>1. CASE UNCHANGED <<cmVer, cmData>>
      BY <2>1 DEF TypeInv, TypeOK
    <2>2. CASE \E d \in Trimmed(Merged(p), cur[p].id) : WriteJournal(d)
      <3>1. PICK d \in Trimmed(Merged(p), cur[p].id) : WriteJournal(d)
        BY <2>2
      <3>2. d \in [CommandIds -> Acks]
        BY <1>1, MergedType, TrimmedType
      <3>3. cmVer \in Nat
        BY DEF TypeInv, TypeOK
      <3> QED BY <3>1, <3>2, <3>3 DEF WriteJournal
    <2> QED BY <1>2, <2>1, <2>2
  <1>4. CASE NextAttempt(p) \/ ApiFault(p)
    BY <1>1, <1>3, <1>4, NextAttemptTypeInv, ApiFaultTypeInv
  <1>5. CASE pc' = [pc EXCEPT ![p] = "reply"] /\ UNCHANGED <<reply, attempt, budget>>
    <2>1. TypeOK'
      BY <1>1, <1>3, <1>5 DEF TypeInv, TypeOK, recordUnchanged
    <2>2. ASSUME NEW q \in Pods PROVE Control(q)'
      BY <1>1, <1>5 DEF Control, TypeInv, TypeOK, recordUnchanged
    <2> QED BY <2>1, <2>2 DEF TypeInv
  <1> QED BY <1>4, <1>5 DEF JournalUpdate

LEMMA EnvironmentTypeInv ==
  ASSUME TypeInv, NEW p \in Pods,
         \/ \E v \in BOOLEAN : SetConnected(p, v)
         \/ Crash(p)
         \/ Boot(p)
         \/ \E e \in Events : Deliver(p, e)
  PROVE  TypeInv'
  <1>1. ASSUME NEW v \in BOOLEAN, SetConnected(p, v) PROVE TypeInv'
    <2>1. budget' \in [Faults -> Nat]
      BY <1>1, SpendType DEF SetConnected, TypeInv, TypeOK, Faults
    <2>2. connected' \in [Pods -> BOOLEAN] /\ gateWasOpen' \in [Pods -> BOOLEAN]
      BY <1>1 DEF SetConnected, TypeInv, TypeOK
    <2>3. UNCHANGED <<pc, inbox, cur, reply, seen, attempt, snapVer, snapData, cmVer,
                      cmData, verdicts, loaded, done>>
      BY <1>1 DEF SetConnected, cmVars
    <2>4. TypeOK'
      BY <2>1, <2>2, <2>3 DEF TypeInv, TypeOK
    <2>5. ASSUME NEW q \in Pods PROVE Control(q)'
      BY <2>3 DEF TypeInv, Control
    <2> QED BY <2>4, <2>5 DEF TypeInv
  <1>2. CASE Crash(p)
    <2>1. budget' \in [Faults -> Nat]
      BY <1>2, SpendType DEF Crash, TypeInv, TypeOK, Faults
    <2>2. TypeOK'
      BY <1>2, <2>1, NoAcksType DEF Crash, TypeInv, TypeOK, cmVars
    <2>3. ASSUME NEW q \in Pods PROVE Control(q)'
      BY <1>2 DEF Crash, Control, TypeInv, TypeOK
    <2> QED BY <2>2, <2>3 DEF TypeInv
  <1>3. CASE Boot(p)
    <2>1. LoadedAcks \in [CommandIds -> Acks]
      BY NoAcksType DEF LoadedAcks, TypeInv, TypeOK
    <2>2. TypeOK'
      BY <1>3, <2>1 DEF Boot, TypeInv, TypeOK, cmVars, Entries
    <2>3. ASSUME NEW q \in Pods PROVE Control(q)'
      BY <1>3 DEF Boot, Control, TypeInv, TypeOK
    <2> QED BY <2>2, <2>3 DEF TypeInv
  <1>4. ASSUME NEW e \in Events, Deliver(p, e) PROVE TypeInv'
    <2>1. budget' \in [Faults -> Nat]
      BY <1>4, SpendType DEF Deliver, TypeInv, TypeOK, Faults
    <2>2. inbox' \in [Pods -> Seq(Events)]
      BY <1>4, AppendProperties DEF Deliver, TypeInv, TypeOK
    <2>3. UNCHANGED <<pc, cur, reply, seen, connected, attempt, snapVer, snapData, cmVer,
                      cmData, verdicts, loaded, done, gateWasOpen>>
      BY <1>4 DEF Deliver, cmVars, histVars
    <2>4. TypeOK'
      BY <2>1, <2>2, <2>3 DEF TypeInv, TypeOK
    <2>5. ASSUME NEW q \in Pods PROVE Control(q)'
      BY <2>3 DEF TypeInv, Control
    <2> QED BY <2>4, <2>5 DEF TypeInv
  <1> QED BY <1>1, <1>2, <1>3, <1>4

LEMMA StutterTypeInv == TypeInv /\ UNCHANGED vars => TypeInv'
  BY DEF TypeInv, TypeOK, Control, vars, podVars, cmVars, histVars

LEMMA NextTypeInv == TypeInv /\ [Next]_vars => TypeInv'
  BY StutterTypeInv, ReceiveTypeInv, GateTypeInv, ExecuteTypeInv, ReplyTypeInv,
     JournalGetTypeInv, JournalCreateTypeInv, JournalUpdateTypeInv, EnvironmentTypeInv
     DEF Next

LEMMA TypeInvariant == Spec => []TypeInv
  BY InitTypeInv, NextTypeInv, PTL DEF Spec

\* Type correctness, for any pods, commands, events and bounds.
THEOREM TypeCorrect == Spec => []TypeOK
  <1>1. TypeInv => TypeOK
    BY DEF TypeInv
  <1> QED BY <1>1, TypeInvariant, PTL

(***************************************************************************)
(* A reply without an error is the ack on record, whatever failed.         *)
(***************************************************************************)
THEOREM ReplyRecorded == Spec => []ReplyIsRecorded
  <1>1. TypeInv => ReplyIsRecorded
    BY ConstantsAssumption DEF TypeInv, Control, ReplyIsRecorded
  <1> QED BY <1>1, TypeInvariant, PTL

----------------------------------------------------------------------------
(***************************************************************************)
(* ExecutesOnce.  The strengthening: what a process loaded or recorded is  *)
(* in its seen, from which no step of a running process removes anything.  *)
(***************************************************************************)
OnRecord == \A p \in Pods : loaded[p] \cup done[p] \subseteq Entries(seen[p])

LEMMA RecordSteps ==
  ASSUME NEW p \in Pods,
         \/ Receive(p) \/ Gate(p) \/ Execute(p) \/ Reply(p) \/ JournalGet(p)
         \/ JournalCreate(p) \/ JournalUpdate(p)
         \/ (\E v \in BOOLEAN : SetConnected(p, v)) \/ (\E e \in Events : Deliver(p, e))
  PROVE  \/ UNCHANGED <<seen, loaded, done>>
         \/ /\ \E r \in Results : Conclude(p, r)
            /\ pc[p] \in {"gate", "exec"}
            /\ UNCHANGED <<cur, loaded>>
  BY DEF Receive, Gate, Execute, HandlerResults, Reply, JournalGet, JournalCreate,
         JournalUpdate, recordUnchanged, SetConnected, Deliver, histVars

LEMMA NextOnRecord == TypeInv /\ OnRecord /\ [Next]_vars => OnRecord'
  <1> SUFFICES ASSUME TypeInv, OnRecord, [Next]_vars PROVE OnRecord'
    OBVIOUS
  <1> SUFFICES ASSUME NEW q \in Pods
               PROVE  (loaded[q] \cup done[q] \subseteq Entries(seen[q]))'
    BY DEF OnRecord
  <1>1. loaded[q] \cup done[q] \subseteq Entries(seen[q])
    BY DEF OnRecord
  <1>2. CASE UNCHANGED <<seen, loaded, done>>
    BY <1>1, <1>2 DEF Entries
  <1>3. ASSUME NEW p \in Pods, NEW r \in Results, Conclude(p, r),
               pc[p] \in {"gate", "exec"}, UNCHANGED <<cur, loaded>>
        PROVE  (loaded[q] \cup done[q] \subseteq Entries(seen[q]))'
    <2>1. cur[p].id \in CommandIds
      BY <1>3 DEF TypeInv, Control
    <2>2. /\ done' = [done EXCEPT ![p] = @ \cup {cur[p].id}]
          /\ seen' = [seen EXCEPT ![p][cur[p].id] = r]
          /\ done \in [Pods -> SUBSET CommandIds]
          /\ seen \in [Pods -> [CommandIds -> Acks]]
      BY <1>3 DEF Conclude, TypeInv, TypeOK
    <2> QED BY <1>1, <1>3, <2>1, <2>2 DEF Entries
  <1>4. ASSUME NEW p \in Pods, Crash(p)
        PROVE  (loaded[q] \cup done[q] \subseteq Entries(seen[q]))'
    BY <1>1, <1>4 DEF Crash, Entries, TypeInv, TypeOK
  <1>5. ASSUME NEW p \in Pods, Boot(p)
        PROVE  (loaded[q] \cup done[q] \subseteq Entries(seen[q]))'
    BY <1>1, <1>5 DEF Boot, LoadedAcks, Entries, TypeInv, TypeOK
  <1>6. CASE UNCHANGED vars
    BY <1>2, <1>6 DEF vars, podVars, histVars
  <1> QED BY <1>2, <1>3, <1>4, <1>5, <1>6, RecordSteps DEF Next

(***************************************************************************)
(* No process runs the handler of a command that the journal held when it  *)
(* booted or that it has recorded itself, whatever the pods, the commands  *)
(* and the faults.                                                         *)
(***************************************************************************)
THEOREM AtMostOnce == Spec => []ExecutesOnce
  <1>1. Init => OnRecord
    BY DEF Init, OnRecord
  <1>2. TypeInv /\ OnRecord => ExecutesOnce
    BY DEF TypeInv, Control, OnRecord, ExecutesOnce, Entries
  <1> QED BY <1>1, <1>2, NextOnRecord, TypeInvariant, PTL DEF Spec

----------------------------------------------------------------------------
(***************************************************************************)
(* FailClosed.  The strengthening: while an event is being worked on, an   *)
(* open gate has been noted as such.                                       *)
(***************************************************************************)
GateNoted ==
  \A p \in Pods :
    /\ pc[p] \in Working \ {"gate"} => gateWasOpen[p]
    /\ pc[p] \in Working /\ connected[p] => gateWasOpen[p]

LEMMA NextGateNoted == TypeInv /\ GateNoted /\ [Next]_vars => GateNoted'
  <1> SUFFICES ASSUME TypeInv, GateNoted, [Next]_vars, NEW q \in Pods
               PROVE  (/\ pc[q] \in Working \ {"gate"} => gateWasOpen[q]
                       /\ pc[q] \in Working /\ connected[q] => gateWasOpen[q])'
    BY DEF GateNoted
  <1> DEFINE G == /\ pc[q] \in Working \ {"gate"} => gateWasOpen[q]
                  /\ pc[q] \in Working /\ connected[q] => gateWasOpen[q]
  <1>1. G /\ pc \in [Pods -> PcValues] /\ gateWasOpen \in [Pods -> BOOLEAN]
          /\ connected \in [Pods -> BOOLEAN]
    BY DEF GateNoted, TypeInv, TypeOK
  <1>2. ASSUME NEW p \in Pods, Receive(p) PROVE G'
    BY <1>1, <1>2 DEF Receive, Answer
  <1>3. ASSUME NEW p \in Pods, Gate(p) PROVE G'
    <2>1. pc[p] = "gate" /\ UNCHANGED <<connected, gateWasOpen>>
      BY <1>3 DEF Gate
    <2>2. CASE pc' = [pc EXCEPT ![p] = "reply"]
      BY <1>1, <2>1, <2>2
    <2>3. CASE connected[p] /\ \E x \in PcValues : pc' = [pc EXCEPT ![p] = x]
      BY <1>1, <2>1, <2>3
    <2> QED BY <1>3, <2>2, <2>3 DEF Gate, GateOpen, Answer, Conclude
  <1>4. ASSUME NEW p \in Pods,
               Execute(p) \/ JournalGet(p) \/ JournalCreate(p) \/ JournalUpdate(p)
        PROVE G'
    <2>1. pc[p] \in Working \ {"gate"} /\ UNCHANGED <<connected, gateWasOpen>>
      BY <1>4 DEF Execute, JournalGet, JournalCreate, JournalUpdate, recordUnchanged
    <2>2. \E x \in PcValues : pc' = [pc EXCEPT ![p] = x]
      BY <1>4 DEF Execute, JournalGet, JournalCreate, JournalUpdate, Conclude, Answer,
                 NextAttempt, ApiFault
    <2> QED BY <1>1, <2>1, <2>2
  <1>5. ASSUME NEW p \in Pods, Reply(p) PROVE G'
    BY <1>1, <1>5 DEF Reply
  <1>6. ASSUME NEW p \in Pods, NEW v \in BOOLEAN, SetConnected(p, v) PROVE G'
    BY <1>1, <1>6 DEF SetConnected
  <1>7. ASSUME NEW p \in Pods, Crash(p) \/ Boot(p) PROVE G'
    BY <1>1, <1>7 DEF Crash, Boot
  <1>8. ASSUME NEW p \in Pods, NEW e \in Events, Deliver(p, e) PROVE G'
    BY <1>1, <1>8 DEF Deliver, histVars
  <1>9. CASE UNCHANGED vars
    BY <1>1, <1>9 DEF vars, podVars, histVars
  <1> QED BY <1>2, <1>3, <1>4, <1>5, <1>6, <1>7, <1>8, <1>9 DEF Next

(***************************************************************************)
(* A command that was handled entirely while the stream was down reaches   *)
(* neither its handler nor the journal.                                    *)
(***************************************************************************)
THEOREM ClosedGateHolds == Spec => []FailClosed
  <1>1. Init => GateNoted
    BY DEF Init, GateNoted
  <1>2. GateNoted => FailClosed
    BY DEF GateNoted, FailClosed
  <1> QED BY <1>1, <1>2, NextGateNoted, TypeInvariant, PTL DEF Spec

----------------------------------------------------------------------------
(***************************************************************************)
(* JournalGrows.  The strengthening: a copy of the ConfigMap with the      *)
(* current resourceVersion is the ConfigMap.                               *)
(***************************************************************************)
SnapshotsTrue ==
  /\ cmVer = 0 => cmData = NoAcks
  /\ \A p \in Pods :
       /\ snapVer[p] <= cmVer
       /\ snapVer[p] = cmVer => snapData[p] = cmData

\* How a step changes the ConfigMap: Create when there is none, Update of the
\* current version.
Creates(p) ==
  cmVer = 0 /\ pc[p] = "jcreate" /\ WriteJournal([NoAcks EXCEPT ![cur[p].id] = reply[p]])

Updates(p) ==
  /\ Current(p)
  /\ pc[p] = "jupdate"
  /\ \E d \in Trimmed(Merged(p), cur[p].id) : WriteJournal(d)

LEMMA JournalSteps ==
  ASSUME [Next]_vars
  PROVE  UNCHANGED cmVars \/ \E p \in Pods : Creates(p) \/ Updates(p)
  <1>1. ASSUME NEW p \in Pods,
               \/ Receive(p) \/ Gate(p) \/ Execute(p) \/ Reply(p) \/ JournalGet(p)
               \/ (\E v \in BOOLEAN : SetConnected(p, v)) \/ Crash(p) \/ Boot(p)
               \/ (\E e \in Events : Deliver(p, e))
        PROVE  UNCHANGED cmVars
    BY <1>1 DEF Receive, Gate, Execute, Reply, JournalGet, SetConnected, Crash, Boot, Deliver
  <1>2. ASSUME NEW p \in Pods, JournalCreate(p) PROVE UNCHANGED cmVars \/ Creates(p)
    BY <1>2 DEF JournalCreate, Creates
  <1>3. ASSUME NEW p \in Pods, JournalUpdate(p) PROVE UNCHANGED cmVars \/ Updates(p)
    BY <1>3 DEF JournalUpdate, Updates, Merged
  <1> QED BY <1>1, <1>2, <1>3 DEF Next, vars

LEMMA SnapshotSteps ==
  ASSUME [Next]_vars, NEW q \in Pods, TypeInv
  PROVE  \/ snapVer'[q] = snapVer[q] /\ snapData'[q] = snapData[q]
         \/ snapVer'[q] = 0 /\ snapData'[q] = NoAcks /\ UNCHANGED cmVars
         \/ snapVer'[q] = cmVer /\ snapData'[q] = cmData /\ UNCHANGED cmVars
  <1>0. snapVer \in [Pods -> Nat] /\ snapData \in [Pods -> [CommandIds -> Acks]]
    BY DEF TypeInv, TypeOK
  <1>1. ASSUME NEW p \in Pods,
               \/ Receive(p) \/ Gate(p) \/ Execute(p) \/ Reply(p) \/ JournalCreate(p)
               \/ JournalUpdate(p) \/ (\E v \in BOOLEAN : SetConnected(p, v)) \/ Boot(p)
               \/ (\E e \in Events : Deliver(p, e))
        PROVE  UNCHANGED <<snapVer, snapData>>
    BY <1>1 DEF Receive, Gate, Execute, Reply, JournalCreate, JournalUpdate, SetConnected,
               Boot, Deliver
  <1>2. ASSUME NEW p \in Pods, JournalGet(p)
        PROVE  /\ UNCHANGED cmVars
               /\ \/ UNCHANGED <<snapVer, snapData>>
                  \/ /\ snapVer' = [snapVer EXCEPT ![p] = cmVer]
                     /\ snapData' = [snapData EXCEPT ![p] = cmData]
    BY <1>2 DEF JournalGet
  <1>3. ASSUME NEW p \in Pods, Crash(p)
        PROVE  /\ UNCHANGED cmVars
               /\ snapVer' = [snapVer EXCEPT ![p] = 0]
               /\ snapData' = [snapData EXCEPT ![p] = NoAcks]
    BY <1>3 DEF Crash
  <1>4. CASE UNCHANGED vars
    BY <1>4 DEF vars, podVars
  <1>5. CASE \E p \in Pods : JournalGet(p)
    BY <1>0, <1>2, <1>5
  <1>6. CASE \E p \in Pods : Crash(p)
    BY <1>0, <1>3, <1>6
  <1> QED BY <1>1, <1>4, <1>5, <1>6 DEF Next

LEMMA NextSnapshotsTrue == TypeInv /\ SnapshotsTrue /\ [Next]_vars => SnapshotsTrue'
  <1> SUFFICES ASSUME TypeInv, SnapshotsTrue, [Next]_vars PROVE SnapshotsTrue'
    OBVIOUS
  <1>0. cmVer \in Nat /\ snapVer \in [Pods -> Nat]
    BY DEF TypeInv, TypeOK
  <1>1. \/ UNCHANGED <<cmVer, cmData>>
        \/ cmVer' = cmVer + 1
    BY JournalSteps DEF cmVars, Creates, Updates, WriteJournal
  <1>2. (cmVer = 0 => cmData = NoAcks)'
    BY <1>0, <1>1 DEF SnapshotsTrue
  <1>3. ASSUME NEW q \in Pods
        PROVE  (snapVer[q] <= cmVer /\ (snapVer[q] = cmVer => snapData[q] = cmData))'
    BY <1>0, <1>1, SnapshotSteps DEF SnapshotsTrue, cmVars
  <1> QED BY <1>2, <1>3 DEF SnapshotsTrue

LEMMA InitSnapshotsTrue == Init => SnapshotsTrue
  BY DEF Init, SnapshotsTrue

\* Adding one entry to data below the cap evicts nothing.
LEMMA NoEvictionBelowCap ==
  ASSUME NEW d \in [CommandIds -> Acks], NEW c \in CommandIds, NEW r \in Results,
         Cardinality(Entries(d)) < MaxJournalEntries,
         NEW t \in Trimmed([d EXCEPT ![c] = r], c)
  PROVE  t = [d EXCEPT ![c] = r]
  <1> DEFINE D == [d EXCEPT ![c] = r]
  <1>1. IsFiniteSet(CommandIds) /\ IsFiniteSet(Entries(d))
    BY ConstantsAssumption, FS_Subset DEF Entries
  <1>2. Entries(D) = Entries(d) \cup {c}
    BY DEF Entries
  <1> DEFINE S == Entries(d)
  <1>3. /\ Cardinality(S) \in Nat
        /\ \/ Cardinality(S \cup {c}) = Cardinality(S)
           \/ Cardinality(S \cup {c}) = Cardinality(S) + 1
    <2> HIDE DEF S
    <2> QED BY <1>1, FS_AddElement, FS_CardinalityType DEF S
  <1>4. Cardinality(Entries(D)) = Cardinality(S \cup {c}) /\ Cardinality(S) < MaxJournalEntries
    BY <1>2
  <1>5. Cardinality(Entries(D)) <= MaxJournalEntries
    <2>1. MaxJournalEntries \in Nat
      BY ConstantsAssumption
    <2> HIDE DEF S, D
    <2> QED BY <1>3, <1>4, <2>1
  <1> QED BY <1>5 DEF Trimmed

(***************************************************************************)
(* Overlapping pods do not erase each other's journal entries: below the   *)
(* cap no step removes one.                                                *)
(***************************************************************************)
THEOREM NoLostJournalEntry == Spec => JournalGrows
  <1> DEFINE A == Cardinality(Entries(cmData)) < MaxJournalEntries
                    => Entries(cmData) \subseteq Entries(cmData')
  <1>1. TypeInv /\ SnapshotsTrue /\ [Next]_vars => A
    <2> SUFFICES ASSUME TypeInv, SnapshotsTrue, [Next]_vars,
                        Cardinality(Entries(cmData)) < MaxJournalEntries
                 PROVE  Entries(cmData) \subseteq Entries(cmData')
      OBVIOUS
    <2>1. CASE UNCHANGED cmVars
      BY <2>1 DEF cmVars
    <2>2. ASSUME NEW p \in Pods, Creates(p)
          PROVE  Entries(cmData) \subseteq Entries(cmData')
      BY <2>2 DEF Creates, SnapshotsTrue, NoAcks, Entries
    <2>3. ASSUME NEW p \in Pods, Updates(p)
          PROVE  Entries(cmData) \subseteq Entries(cmData')
      <3>1. /\ cur[p].id \in CommandIds /\ reply[p] \in Results
            /\ snapData[p] = cmData /\ cmData \in [CommandIds -> Acks]
        BY <2>3, MergedType DEF Updates, Current, SnapshotsTrue, TypeInv, TypeOK
      <3>2. PICK t \in Trimmed([cmData EXCEPT ![cur[p].id] = reply[p]], cur[p].id) :
                   cmData' = t
        BY <2>3, <3>1 DEF Updates, Merged, WriteJournal
      <3>3. cmData' = [cmData EXCEPT ![cur[p].id] = reply[p]]
        BY <3>1, <3>2, NoEvictionBelowCap
      <3> QED BY <3>1, <3>3 DEF Entries
    <2> QED BY <2>1, <2>2, <2>3, JournalSteps
  <1>2. Spec => []SnapshotsTrue
    BY InitSnapshotsTrue, NextSnapshotsTrue, TypeInvariant, PTL DEF Spec
  <1>3. TypeInv /\ SnapshotsTrue /\ [Next]_vars => [A]_vars
    BY <1>1
  <1> QED BY <1>2, <1>3, TypeInvariant, PTL DEF Spec, JournalGrows

----------------------------------------------------------------------------
(***************************************************************************)
(* JournalBounded.                                                         *)
(***************************************************************************)
\* Whatever was read, what Update is called with is within the cap.
LEMMA TrimmedFits ==
  ASSUME NEW d \in [CommandIds -> Acks], NEW c \in CommandIds, NEW t \in Trimmed(d, c)
  PROVE  Cardinality(Entries(t)) <= MaxJournalEntries
  <1>1. CASE Cardinality(Entries(d)) <= MaxJournalEntries
    BY <1>1 DEF Trimmed
  <1>2. CASE ~(Cardinality(Entries(d)) <= MaxJournalEntries)
    <2>1. PICK keep \in SUBSET Entries(d) :
            /\ Cardinality(keep) = MaxJournalEntries
            /\ t = [i \in CommandIds |-> IF i \in keep THEN d[i] ELSE NoAck]
      BY <1>2 DEF Trimmed
    <2>2. Entries(t) = keep
      BY <2>1 DEF Entries
    <2>3. MaxJournalEntries <= MaxJournalEntries
      BY ConstantsAssumption
    <2> QED BY <2>1, <2>2, <2>3
  <1> QED BY <1>1, <1>2

(***************************************************************************)
(* The journal stays within maxJournalEntries, whatever the interleaving   *)
(* of the pods and whichever calls fail after they were applied.           *)
(***************************************************************************)
THEOREM JournalFits == Spec => []JournalBounded
  <1>1. MaxJournalEntries \in Nat \ {0}
    BY ConstantsAssumption
  <1>2. Init => JournalBounded
    <2>1. ASSUME Init PROVE Entries(cmData) = {}
      BY <2>1 DEF Init, NoAcks, Entries
    <2> QED BY <1>1, <2>1, FS_EmptySet DEF JournalBounded
  <1>3. TypeInv /\ JournalBounded /\ [Next]_vars => JournalBounded'
    <2> SUFFICES ASSUME TypeInv, JournalBounded, [Next]_vars PROVE JournalBounded'
      OBVIOUS
    <2>1. CASE UNCHANGED cmVars
      BY <2>1 DEF cmVars, JournalBounded
    <2>2. ASSUME NEW p \in Pods, Creates(p) PROVE JournalBounded'
      <3>1. cur[p].id \in CommandIds /\ reply[p] \in Results
        BY <2>2 DEF Creates, TypeInv, Control
      <3>2. Entries(cmData') = {cur[p].id}
        BY <2>2, <3>1 DEF Creates, WriteJournal, NoAcks, Entries
      <3>3. Cardinality({cur[p].id}) = 1
        BY FS_Singleton
      <3> QED BY <1>1, <3>2, <3>3 DEF JournalBounded
    <2>3. ASSUME NEW p \in Pods, Updates(p) PROVE JournalBounded'
      <3>1. cur[p].id \in CommandIds /\ Merged(p) \in [CommandIds -> Acks]
        BY <2>3, MergedType DEF Updates, TypeInv, Control
      <3>2. PICK t \in Trimmed(Merged(p), cur[p].id) : cmData' = t
        BY <2>3 DEF Updates, WriteJournal
      <3> QED BY <3>1, <3>2, TrimmedFits DEF JournalBounded
    <2> QED BY <2>1, <2>2, <2>3, JournalSteps
  <1> QED BY <1>2, <1>3, TypeInvariant, PTL DEF Spec

----------------------------------------------------------------------------
(***************************************************************************)
(* AnsweredNotReexecuted, where it holds: one pod at a time, room for      *)
(* every command, and only until an API call fails.  The strengthening     *)
(* ties the three records of a command's result together: what the server  *)
(* holds is in the journal, what the journal holds is in seen, and what is *)
(* in seen is in the journal unless Record is still at work on it; and a   *)
(* lone pod needs at most two rounds of Record's loop.                     *)
(***************************************************************************)
LonePod ==
  /\ \A p, q \in Pods : p = q
  /\ JournalEnabled
  /\ Cardinality(CommandIds) <= MaxJournalEntries

AnswersJournaled == \A c \in CommandIds : Answered(c) => cmData[c] # NoAck

Durable(p) ==
  /\ pc[p] # "down" => \A c \in CommandIds : cmData[c] # NoAck => seen[p][c] # NoAck
  /\ \A c \in CommandIds :
       seen[p][c] # NoAck => cmData[c] # NoAck \/ (pc[p] \in Recording /\ c = cur[p].id)
  /\ pc[p] = "jcreate" => cmVer = 0 /\ attempt[p] = 0
  /\ pc[p] = "jget" => attempt[p] = 0 \/ (attempt[p] = 1 /\ cmVer # 0)
  /\ pc[p] = "jupdate" => Current(p)

DurableInv ==
  NoApiFault /\ AnswersJournaled /\ \A p \in Pods : Durable(p)

LEMMA InitDurableInv == ASSUME LonePod PROVE Init => DurableInv
  BY DEF Init, DurableInv, AnswersJournaled, Answered, Durable, LonePod, Bound,
         Faults, NoAcks, NoApiFault

\* A step that leaves the records of results alone and is not one of Record's.
LEMMA QuietDurableInv ==
  ASSUME DurableInv, TypeInv, NoApiFault',
         UNCHANGED <<cmVer, cmData, verdicts, seen>>,
         NEW p \in Pods, \A q \in Pods : q = p,
         \/ UNCHANGED <<pc, cur, attempt, snapVer>>
         \/ pc[p] \notin Recording \cup {"down"} /\ pc'[p] \notin Recording \cup {"down"}
  PROVE  DurableInv'
  <1>1. AnswersJournaled'
    BY DEF DurableInv, AnswersJournaled, Answered
  <1>2. Durable(p)'
    BY DEF DurableInv, Durable, Current
  <1> QED BY <1>1, <1>2 DEF DurableInv

LEMMA ConcludeDurableInv ==
  ASSUME DurableInv, TypeInv, NEW p \in Pods, \A q \in Pods : q = p, JournalEnabled,
         NEW r \in Results, Conclude(p, r), pc[p] \in {"gate", "exec"},
         UNCHANGED <<cmVer, cmData, verdicts, cur, budget>>
  PROVE  DurableInv'
  <1>1. AnswersJournaled'
    BY DEF DurableInv, AnswersJournaled, Answered
  <1>2. /\ cur[p].id \in CommandIds
        /\ seen \in [Pods -> [CommandIds -> Acks]] /\ pc \in [Pods -> PcValues]
        /\ attempt \in [Pods -> 0..RecordAttempts]
    BY DEF TypeInv, TypeOK, Control
  <1>3. /\ seen' = [seen EXCEPT ![p][cur[p].id] = r]
        /\ pc' = [pc EXCEPT ![p] = "jget"]
        /\ attempt' = [attempt EXCEPT ![p] = 0]
    BY DEF Conclude
  <1>4. Durable(p)'
    BY <1>2, <1>3 DEF DurableInv, Durable
  <1>5. NoApiFault'
    BY DEF DurableInv, NoApiFault
  <1> QED BY <1>1, <1>4, <1>5 DEF DurableInv

LEMMA RecordDurableInv ==
  ASSUME LonePod, DurableInv, SnapshotsTrue, TypeInv, NEW p \in Pods,
         JournalGet(p) \/ JournalCreate(p) \/ JournalUpdate(p), NoApiFault'
  PROVE  DurableInv'
  <1>0. /\ \A q \in Pods : q = p
        /\ ~ApiFault(p)
        /\ UNCHANGED <<seen, cur, verdicts>>
        /\ pc[p] \in Recording
    <2>1. ~ApiFault(p)
      <3>1. budget \in [Faults -> Nat] /\ budget["api"] = MaxApiFaults
        BY DEF TypeInv, TypeOK, DurableInv, NoApiFault
      <3> QED BY <3>1 DEF ApiFault, Spend, NoApiFault, Faults
    <2> QED BY <2>1 DEF LonePod, JournalGet, JournalCreate, JournalUpdate, recordUnchanged
  <1>1. /\ cur[p].id \in CommandIds /\ reply[p] \in Results
        /\ seen \in [Pods -> [CommandIds -> Acks]] /\ pc \in [Pods -> PcValues]
        /\ seen[p][cur[p].id] = reply[p]
        /\ attempt \in [Pods -> 0..RecordAttempts]
        /\ snapVer \in [Pods -> Nat] /\ cmVer \in Nat
        /\ cmData \in [CommandIds -> Acks]
    BY <1>0 DEF TypeInv, TypeOK, Control
  <1>2. CASE JournalGet(p)
    <2>1. UNCHANGED <<cmVer, cmData, attempt, budget>>
      BY <1>0, <1>2 DEF JournalGet, cmVars
    <2>2. AnswersJournaled'
      BY <1>0, <2>1 DEF DurableInv, AnswersJournaled, Answered
    <2>3. \/ /\ cmVer = 0 /\ pc' = [pc EXCEPT ![p] = "jcreate"]
          \/ /\ pc' = [pc EXCEPT ![p] = "jupdate"]
             /\ snapVer' = [snapVer EXCEPT ![p] = cmVer]
      BY <1>0, <1>2 DEF JournalGet
    <2>4. pc[p] = "jget"
      BY <1>2 DEF JournalGet
    <2>5. Durable(p)'
      BY <1>0, <1>1, <2>1, <2>3, <2>4 DEF DurableInv, Durable, Current
    <2> QED BY <1>0, <2>1, <2>2, <2>5 DEF DurableInv
  <1>3. CASE JournalCreate(p)
    <2>1. /\ pc[p] = "jcreate" /\ cmVer = 0 /\ attempt[p] = 0 /\ cmData = NoAcks
      BY <1>3 DEF JournalCreate, DurableInv, Durable, SnapshotsTrue
    <2>2. /\ cmVer' = 1 /\ cmData' = [NoAcks EXCEPT ![cur[p].id] = reply[p]]
          /\ NextAttempt(p)
      BY <1>0, <1>3, <2>1 DEF JournalCreate, WriteJournal
    <2>3. /\ attempt' = [attempt EXCEPT ![p] = 1] /\ UNCHANGED budget
          /\ pc' = [pc EXCEPT ![p] = "jget"]
      BY <1>1, <2>1, <2>2 DEF NextAttempt
    <2>4. AnswersJournaled'
      BY <1>0, <1>1, <2>1, <2>2 DEF DurableInv, AnswersJournaled, Answered, NoAcks
    <2>5. Durable(p)'
      BY <1>0, <1>1, <2>1, <2>2, <2>3 DEF DurableInv, Durable, NoAcks
    <2> QED BY <1>0, <2>3, <2>4, <2>5 DEF DurableInv
  <1>4. CASE JournalUpdate(p)
    <2>1. pc[p] = "jupdate" /\ Current(p)
      BY <1>4 DEF JournalUpdate, DurableInv, Durable
    <2>2. /\ pc' = [pc EXCEPT ![p] = "reply"]
          /\ UNCHANGED <<reply, attempt, budget>>
          /\ \E d \in Trimmed(Merged(p), cur[p].id) : WriteJournal(d)
      BY <1>0, <1>4, <2>1 DEF JournalUpdate, Merged
    <2>3. Merged(p) = [cmData EXCEPT ![cur[p].id] = reply[p]]
      BY <2>1 DEF Merged, Current, SnapshotsTrue
    <2>4. Trimmed(Merged(p), cur[p].id) = {Merged(p)}
      <3>1. IsFiniteSet(CommandIds) /\ Entries(Merged(p)) \subseteq CommandIds
        BY ConstantsAssumption DEF Entries
      <3>2. /\ Cardinality(Entries(Merged(p))) \in Nat
            /\ Cardinality(Entries(Merged(p))) <= Cardinality(CommandIds)
            /\ Cardinality(CommandIds) \in Nat
        BY <3>1, FS_Subset, FS_CardinalityType
      <3>3. MaxJournalEntries \in Nat /\ Cardinality(CommandIds) <= MaxJournalEntries
        BY ConstantsAssumption DEF LonePod
      <3>4. Cardinality(Entries(Merged(p))) <= MaxJournalEntries
        BY <3>2, <3>3
      <3> QED BY <3>4 DEF Trimmed
    <2>5. cmData' = [cmData EXCEPT ![cur[p].id] = reply[p]]
      BY <2>2, <2>3, <2>4 DEF WriteJournal
    <2>6. AnswersJournaled'
      BY <1>0, <1>1, <2>5 DEF DurableInv, AnswersJournaled, Answered
    <2>7. Durable(p)'
      BY <1>0, <1>1, <2>1, <2>2, <2>5 DEF DurableInv, Durable
    <2> QED BY <1>0, <2>2, <2>6, <2>7 DEF DurableInv
  <1> QED BY <1>2, <1>3, <1>4

LEMMA NextDurableInv ==
  ASSUME LonePod
  PROVE  TypeInv /\ SnapshotsTrue /\ DurableInv /\ NoApiFault' /\ [Next]_vars
           => DurableInv'
  <1> SUFFICES ASSUME TypeInv, SnapshotsTrue, DurableInv, NoApiFault', [Next]_vars
               PROVE  DurableInv'
    OBVIOUS
  <1>0. /\ \A p, q \in Pods : q = p
        /\ JournalEnabled
        /\ pc \in [Pods -> PcValues]
        /\ NoApiFault'
    BY DEF LonePod, TypeInv, TypeOK, DurableInv
  <1>1. ASSUME NEW p \in Pods, Receive(p) PROVE DurableInv'
    <2>1. /\ UNCHANGED <<cmVer, cmData, verdicts, seen, budget>>
          /\ pc[p] = "idle"
          /\ UNCHANGED pc \/ pc' = [pc EXCEPT ![p] = "reply"] \/ pc' = [pc EXCEPT ![p] = "gate"]
      BY <1>1 DEF Receive, Answer, cmVars
    <2>2. pc'[p] \in {"idle", "reply", "gate"}
      BY <1>0, <2>1
    <2> QED BY <1>0, <2>1, <2>2, QuietDurableInv
  <1>2. ASSUME NEW p \in Pods, Gate(p) PROVE DurableInv'
    <2>1. UNCHANGED <<cmVer, cmData, verdicts, cur, budget>> /\ pc[p] = "gate"
      BY <1>2 DEF Gate, cmVars
    <2>2. CASE Conclude(p, "ACCEPTED")
      BY <1>0, <2>1, <2>2, ConcludeDurableInv
    <2>3. CASE /\ UNCHANGED seen
               /\ pc' = [pc EXCEPT ![p] = "reply"] \/ pc' = [pc EXCEPT ![p] = "exec"]
      <3>1. pc'[p] \in {"reply", "exec"}
        BY <1>0, <2>3
      <3> QED BY <1>0, <2>1, <2>3, <3>1, QuietDurableInv
    <2> QED BY <1>2, <2>2, <2>3 DEF Gate, Answer
  <1>3. ASSUME NEW p \in Pods, Execute(p) PROVE DurableInv'
    <2>1. UNCHANGED <<cmVer, cmData, verdicts, cur>> /\ pc[p] = "exec"
      BY <1>3 DEF Execute, cmVars
    <2>2. CASE (\E r \in HandlerResults : Conclude(p, r)) /\ UNCHANGED budget
      BY <1>0, <2>1, <2>2, ConcludeDurableInv DEF HandlerResults
    <2>3. CASE Spend("handler") /\ Answer(p, ErrorNack) /\ UNCHANGED <<seen, attempt, done>>
      <3>1. pc'[p] = "reply"
        BY <1>0, <2>3 DEF Answer
      <3> QED BY <1>0, <2>1, <2>3, <3>1, QuietDurableInv
    <2> QED BY <1>3, <2>2, <2>3 DEF Execute
  <1>4. ASSUME NEW p \in Pods, Reply(p) PROVE DurableInv'
    <2>1. /\ pc[p] = "reply" /\ pc' = [pc EXCEPT ![p] = "idle"]
          /\ UNCHANGED <<cmVer, cmData, seen>>
      BY <1>4 DEF Reply, cmVars
    <2>3. reply[p] \in Results =>
            cur[p].id \in CommandIds /\ cmData[cur[p].id] # NoAck
      BY <2>1 DEF TypeInv, Control, DurableInv, Durable
    <2>4. AnswersJournaled'
      <3>1. \/ UNCHANGED verdicts
            \/ verdicts' = verdicts \cup {[id |-> cur[p].id, verdict |-> reply[p]]}
        BY <1>4 DEF Reply
      <3>2. ASSUME NEW c \in CommandIds, Answered(c)'
            PROVE  Answered(c) \/ (c = cur[p].id /\ reply[p] \in Results)
        BY <3>1, <3>2 DEF Answered
      <3> QED BY <2>1, <2>3, <3>2 DEF DurableInv, AnswersJournaled
    <2>5. pc'[p] = "idle"
      BY <1>0, <2>1
    <2>6. Durable(p)'
      BY <2>1, <2>5 DEF DurableInv, Durable
    <2> QED BY <1>0, <2>4, <2>6 DEF DurableInv
  <1>5. ASSUME NEW p \in Pods, JournalGet(p) \/ JournalCreate(p) \/ JournalUpdate(p)
        PROVE  DurableInv'
    BY <1>5, RecordDurableInv
  <1>6. ASSUME NEW p \in Pods, NEW v \in BOOLEAN, SetConnected(p, v) PROVE DurableInv'
    <2>1. UNCHANGED <<cmVer, cmData, verdicts, seen, pc, cur, attempt, snapVer>>
      BY <1>6 DEF SetConnected, cmVars
    <2> QED BY <1>0, <2>1, QuietDurableInv
  <1>7. ASSUME NEW p \in Pods, NEW e \in Events, Deliver(p, e) PROVE DurableInv'
    <2>1. UNCHANGED <<cmVer, cmData, verdicts, seen, pc, cur, attempt, snapVer>>
      BY <1>7 DEF Deliver, cmVars
    <2> QED BY <1>0, <2>1, QuietDurableInv
  <1>8. ASSUME NEW p \in Pods, Crash(p) \/ Boot(p) PROVE DurableInv'
    <2>1. UNCHANGED <<cmVer, cmData, verdicts>>
      BY <1>8 DEF Crash, Boot, cmVars
    <2>2. AnswersJournaled'
      BY <2>1 DEF DurableInv, AnswersJournaled, Answered
    <2>4. seen \in [Pods -> [CommandIds -> Acks]]
      BY DEF TypeInv, TypeOK
    <2>5. CASE Crash(p)
      <3>1. pc'[p] = "down" /\ seen'[p] = NoAcks
        BY <1>0, <2>4, <2>5 DEF Crash
      <3> QED BY <1>0, <2>2, <3>1 DEF DurableInv, Durable, NoAcks
    <2>6. CASE Boot(p)
      <3>1. pc'[p] = "idle" /\ seen'[p] = cmData
        BY <1>0, <2>4, <2>6 DEF Boot, LoadedAcks
      <3> QED BY <1>0, <2>1, <2>2, <3>1 DEF DurableInv, Durable
    <2> QED BY <1>8, <2>5, <2>6
  <1>9. CASE UNCHANGED vars
    BY <1>9 DEF vars, podVars, cmVars, DurableInv, AnswersJournaled, Answered, Durable, Current
  <1> QED BY <1>1, <1>2, <1>3, <1>4, <1>5, <1>6, <1>7, <1>8, <1>9 DEF Next

\* The budget for API failures only shrinks.
LEMMA ApiBudgetFalls ==
  TypeInv /\ budget["api"] <= MaxApiFaults /\ [Next]_vars
    => budget'["api"] <= MaxApiFaults /\ (NoApiFault' => NoApiFault)
  <1> SUFFICES ASSUME TypeInv, budget["api"] <= MaxApiFaults, [Next]_vars
               PROVE  budget'["api"] <= MaxApiFaults /\ (NoApiFault' => NoApiFault)
    OBVIOUS
  <1>1. budget \in [Faults -> Nat] /\ MaxApiFaults \in Nat
    BY ConstantsAssumption DEF TypeInv, TypeOK
  <1>2. UNCHANGED budget \/ \E k \in Faults : Spend(k)
    <2>1. ASSUME NEW p \in Pods, Receive(p) \/ Gate(p) \/ Execute(p) \/ Reply(p)
          PROVE  UNCHANGED budget \/ \E k \in Faults : Spend(k)
      BY <2>1 DEF Receive, Gate, Execute, Reply, Faults
    <2>2. ASSUME NEW p \in Pods, JournalGet(p) \/ JournalCreate(p) \/ JournalUpdate(p)
          PROVE  UNCHANGED budget \/ \E k \in Faults : Spend(k)
      BY <2>2 DEF JournalGet, JournalCreate, JournalUpdate, ApiFault, NextAttempt, Faults
    <2>3. ASSUME NEW p \in Pods,
                 \/ Crash(p) \/ Boot(p)
                 \/ \E v \in BOOLEAN : SetConnected(p, v)
                 \/ \E e \in Events : Deliver(p, e)
          PROVE  UNCHANGED budget \/ \E k \in Faults : Spend(k)
      BY <2>3 DEF SetConnected, Crash, Boot, Deliver, Faults
    <2> QED BY <2>1, <2>2, <2>3 DEF Next, vars
  <1> QED BY <1>1, <1>2 DEF Spend, NoApiFault, Faults

CalmInv == budget["api"] <= MaxApiFaults /\ (NoApiFault => DurableInv)

(***************************************************************************)
(* With one pod at a time and room for every command in the journal, and   *)
(* until a call of the Kubernetes API fails, a command the server holds a  *)
(* result of is never run again by HandleEvent, through any number of      *)
(* crashes, lost acks, duplicate deliveries, disconnects and transient     *)
(* handler errors.                                                         *)
(***************************************************************************)
THEOREM IdempotentAcrossRestarts ==
  ASSUME LonePod
  PROVE  Spec => []IdempotentUntilApiFails
  <1>1. TypeInv /\ CalmInv => IdempotentUntilApiFails
    BY DEF TypeInv, Control, CalmInv, DurableInv, AnswersJournaled, Durable,
           AnsweredNotReexecuted, IdempotentUntilApiFails
  <1>2. Init => CalmInv
    <2>1. Init => DurableInv
      BY InitDurableInv
    <2>2. Init => budget["api"] = MaxApiFaults
      BY DEF Init, Bound, Faults
    <2> QED BY <2>1, <2>2, ConstantsAssumption DEF CalmInv
  <1>3. TypeInv /\ SnapshotsTrue /\ CalmInv /\ [Next]_vars => CalmInv'
    BY NextDurableInv, ApiBudgetFalls DEF CalmInv
  <1> QED BY <1>1, <1>2, <1>3, InitSnapshotsTrue, NextSnapshotsTrue, TypeInvariant, PTL
          DEF Spec
============================================================================
