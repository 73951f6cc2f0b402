-------------------------- MODULE CommandDispatch --------------------------
(***************************************************************************)
(* Command handling of the agent: the controller's event loop (dispatch,   *)
(* handleCommand, sendAck), the Dispatcher with its in-memory record of    *)
(* acks, and the ConfigMap journal that is to make that record survive a   *)
(* restart.  The server delivers at least once; pods crash, restart and,   *)
(* during a rolling update, overlap; the Kubernetes API may fail, also     *)
(* after it applied a write.                                               *)
(*                                                                         *)
(* A command handler is abstracted to its result: it returns a terminal    *)
(* verdict (APPLIED or FAILED) or a transient error.                       *)
(***************************************************************************)
EXTENDS Integers, Sequences, FiniteSets

CONSTANTS
  Pods,              \* agent processes: one, or two while a rollout overlaps
  CommandIds,        \* command ids the server hands out
  NoId,              \* a payload from which no command id can be decoded
  Events,            \* the events the server may deliver: [type, id]
  NoEvent,           \* no event in hand
  Registered,        \* event types with a registered handler
  JournalEnabled,    \* JournalNamespace is set
  MaxJournalEntries, \* maxJournalEntries, 1000 in the code
  EventsCap,         \* capacity of the client's events channel, 64
  MaxCrashes,        \* bounds on what the environment does, one per kind
  MaxApiFaults,
  MaxHandlerErrors,
  MaxLosses,
  MaxDuplicates,
  MaxDisconnects

(***************************************************************************)
(* The event types dispatch tells apart.  The first two sets are the cases *)
(* of its switch that reach handleCommand.                                 *)
(***************************************************************************)
CommandTypes ==
  {"APPLY_BUNDLE", "REGISTER_ARGOCD_APP", "INVOKE_ACTION",
   "RENDER_RGD_INSTANCE", "GITOPS_CONFIG_UPDATE"}

BridgeTypes == {"REGISTER_ARGOCD_APPSET", "REGISTER_ARGOCD_APP_MANIFEST"}

SecretStoreTypes == {"SECRET_STORE_APPLY", "SECRET_STORE_DELETE"}

EventTypes ==
  CommandTypes \cup BridgeTypes \cup SecretStoreTypes
    \cup {"RESYNC_REQUEST", "UNKNOWN"}

Results == {"ACCEPTED", "APPLIED", "FAILED"}

\* What a handler can return without an error.
HandlerResults == {"APPLIED", "FAILED"}

NoAck == "none"

\* The NACK that handleCommand makes of an error.  On the wire it reads
\* FAILED; the server redelivers after it.
ErrorNack == "ERROR"

ASSUME ConstantsAssumption ==
  /\ IsFiniteSet(CommandIds)
  /\ NoId \notin CommandIds
  /\ Events \subseteq [type : EventTypes, id : CommandIds \cup {NoId}]
  /\ NoEvent \notin Events
  /\ Registered \subseteq EventTypes
  /\ JournalEnabled \in BOOLEAN
  /\ MaxJournalEntries \in Nat \ {0}
  /\ EventsCap \in Nat \ {0}
  /\ MaxCrashes \in Nat /\ MaxApiFaults \in Nat /\ MaxHandlerErrors \in Nat
  /\ MaxLosses \in Nat /\ MaxDuplicates \in Nat /\ MaxDisconnects \in Nat

VARIABLES
  pc,         \* where the pod's event loop is; "down" when it does not run
  inbox,      \* the client's events channel
  cur,        \* the event in hand
  reply,      \* the ack HandleEvent is about to return
  seen,       \* Dispatcher.seen
  connected,  \* Dispatcher.connected, the fail-closed gate
  attempt,    \* loop counter of Record
  snapVer,    \* resourceVersion and data of the ConfigMap Record read
  snapData,
  cmVer,      \* resourceVersion of the journal ConfigMap, 0 while it is absent
  cmData,     \* its data
  verdicts,   \* [id, verdict] pairs the server has received
  budget,     \* what the environment may still do
  loaded,     \* history: ids in the journal when the pod booted
  done,       \* history: ids this process has recorded a result for
  gateWasOpen \* history: the gate has been open since the event was taken

podVars == <<pc, inbox, cur, reply, seen, connected, attempt, snapVer, snapData>>
histVars == <<loaded, done, gateWasOpen>>
cmVars == <<cmVer, cmData>>
vars == <<podVars, cmVars, verdicts, budget, histVars>>

Faults == {"crash", "api", "handler", "loss", "duplicate", "disconnect"}

Bound ==
  [k \in Faults |->
     CASE k = "crash"      -> MaxCrashes
       [] k = "api"        -> MaxApiFaults
       [] k = "handler"    -> MaxHandlerErrors
       [] k = "loss"       -> MaxLosses
       [] k = "duplicate"  -> MaxDuplicates
       [] k = "disconnect" -> MaxDisconnects]

Spend(k) == budget[k] > 0 /\ budget' = [budget EXCEPT ![k] = @ - 1]

NoAcks == [c \in CommandIds |-> NoAck]

Entries(d) == {c \in CommandIds : d[c] # NoAck}

----------------------------------------------------------------------------
(***************************************************************************)
(* The event loop.                                                         *)
(***************************************************************************)

Routed_NoBridge(e) == e.type \in CommandTypes

\* The cases of dispatch that reach handleCommand; a resync request is
\* answered by the aggregator, every other type is dropped.
Routed(e) == e.type \in CommandTypes \cup BridgeTypes

\* HandleEvent returns with verdict v, handleCommand goes on to sendAck.
Answer(p, v) ==
  /\ pc' = [pc EXCEPT ![p] = "reply"]
  /\ reply' = [reply EXCEPT ![p] = v]

Recorded_Missed(p, c) == FALSE

Recorded(p, c) == seen[p][c] # NoAck

\* Take the next event; dispatch; HandleEvent up to its look-up in seen.
Receive(p) ==
  /\ pc[p] = "idle"
  /\ inbox[p] # <<>>
  /\ inbox' = [inbox EXCEPT ![p] = Tail(@)]
  /\ LET e == Head(inbox[p]) IN
       \/ /\ ~Routed(e)
          /\ UNCHANGED <<pc, cur, reply, gateWasOpen>>
       \/ /\ Routed(e)
          /\ cur' = [cur EXCEPT ![p] = e]
          /\ gateWasOpen' = [gateWasOpen EXCEPT ![p] = connected[p]]
          /\ \/ e.id = NoId /\ Answer(p, ErrorNack)
             \/ e.id # NoId /\ Recorded(p, e.id) /\ Answer(p, seen[p][e.id])
             \/ /\ e.id # NoId /\ ~Recorded(p, e.id)
                /\ pc' = [pc EXCEPT ![p] = "gate"]
                /\ UNCHANGED reply
  /\ UNCHANGED <<seen, connected, attempt, snapVer, snapData, cmVars,
                 verdicts, budget, loaded, done>>

GateOpen_Ignored(p) == TRUE

GateOpen(p) == connected[p]

Conclude_NotRecorded(p, r) ==
  /\ done' = [done EXCEPT ![p] = @ \cup {cur[p].id}]
  /\ reply' = [reply EXCEPT ![p] = r]
  /\ attempt' = [attempt EXCEPT ![p] = 0]
  /\ pc' = [pc EXCEPT ![p] = IF JournalEnabled THEN "jget" ELSE "reply"]
  /\ UNCHANGED seen

\* The ack enters seen, then the journal if there is one.
Conclude(p, r) ==
  /\ seen' = [seen EXCEPT ![p][cur[p].id] = r]
  /\ done' = [done EXCEPT ![p] = @ \cup {cur[p].id}]
  /\ reply' = [reply EXCEPT ![p] = r]
  /\ attempt' = [attempt EXCEPT ![p] = 0]
  /\ pc' = [pc EXCEPT ![p] = IF JournalEnabled THEN "jget" ELSE "reply"]

\* Read the gate; without a handler the command is accepted as a no-op.
Gate(p) ==
  /\ pc[p] = "gate"
  /\ \/ /\ ~GateOpen(p)
        /\ Answer(p, ErrorNack)
        /\ UNCHANGED <<seen, attempt, done>>
     \/ /\ GateOpen(p)
        /\ cur[p].type \notin Registered
        /\ Conclude(p, "ACCEPTED")
     \/ /\ GateOpen(p)
        /\ cur[p].type \in Registered
        /\ pc' = [pc EXCEPT ![p] = "exec"]
        /\ UNCHANGED <<reply, seen, attempt, done>>
  /\ UNCHANGED <<inbox, cur, connected, snapVer, snapData, cmVars, verdicts,
                 budget, loaded, gateWasOpen>>

\* The handler runs: a result is recorded, a transient error is not.
Execute(p) ==
  /\ pc[p] = "exec"
  /\ \/ /\ \E r \in HandlerResults : Conclude(p, r)
        /\ UNCHANGED budget
     \/ /\ Spend("handler")
        /\ Answer(p, ErrorNack)
        /\ UNCHANGED <<seen, attempt, done>>
  /\ UNCHANGED <<inbox, cur, connected, snapVer, snapData, cmVars, verdicts,
                 loaded, gateWasOpen>>

\* sendAck: the reply reaches the server, or is lost on its way (a send that
\* fails after the pump took the event, a crash with the reply still queued).
Reply(p) ==
  /\ pc[p] = "reply"
  /\ \/ /\ verdicts' = verdicts \cup {[id |-> cur[p].id, verdict |-> reply[p]]}
        /\ UNCHANGED budget
     \/ Spend("loss") /\ UNCHANGED verdicts
  /\ pc' = [pc EXCEPT ![p] = "idle"]
  /\ cur' = [cur EXCEPT ![p] = NoEvent]
  /\ reply' = [reply EXCEPT ![p] = NoAck]
  /\ gateWasOpen' = [gateWasOpen EXCEPT ![p] = FALSE]
  /\ UNCHANGED <<inbox, seen, connected, attempt, snapVer, snapData, cmVars,
                 loaded, done>>

----------------------------------------------------------------------------
(***************************************************************************)
(* ConfigMapJournal.Record: at most RecordAttempts rounds of Get and then  *)
(* Create or Update, each a call to the API server.                        *)
(***************************************************************************)
RecordAttempts == 3

WriteJournal(d) == cmVer' = cmVer + 1 /\ cmData' = d

\* An API call returns an error: Record gives up and HandleEvent reports it,
\* although the ack is already in seen.
ApiFault(p) == Spend("api") /\ Answer(p, ErrorNack) /\ UNCHANGED attempt

\* `continue` of the loop over attempts.
NextAttempt(p) ==
  /\ attempt' = [attempt EXCEPT ![p] = @ + 1]
  /\ \/ /\ attempt[p] + 1 < RecordAttempts
        /\ pc' = [pc EXCEPT ![p] = "jget"]
        /\ UNCHANGED reply
     \/ /\ attempt[p] + 1 >= RecordAttempts
        /\ Answer(p, ErrorNack)
  /\ UNCHANGED budget

recordUnchanged ==
  <<inbox, cur, seen, connected, verdicts, loaded, done, gateWasOpen>>

JournalGet(p) ==
  /\ pc[p] = "jget"
  /\ \/ /\ cmVer = 0
        /\ pc' = [pc EXCEPT ![p] = "jcreate"]
        /\ UNCHANGED <<snapVer, snapData, reply, attempt, budget>>
     \/ /\ cmVer # 0
        /\ pc' = [pc EXCEPT ![p] = "jupdate"]
        /\ snapVer' = [snapVer EXCEPT ![p] = cmVer]
        /\ snapData' = [snapData EXCEPT ![p] = cmData]
        /\ UNCHANGED <<reply, attempt, budget>>
     \/ ApiFault(p) /\ UNCHANGED <<snapVer, snapData>>
  /\ UNCHANGED <<cmVars, recordUnchanged>>

\* Create, with the ack as its only entry; success and AlreadyExists both
\* go round the loop again.
JournalCreate(p) ==
  LET data == [NoAcks EXCEPT ![cur[p].id] = reply[p]] IN
  /\ pc[p] = "jcreate"
  /\ \/ cmVer = 0 /\ WriteJournal(data) /\ NextAttempt(p)
     \/ cmVer # 0 /\ NextAttempt(p) /\ UNCHANGED cmVars
     \/ /\ ApiFault(p)
        /\ \/ cmVer = 0 /\ WriteJournal(data)
           \/ UNCHANGED cmVars
  /\ UNCHANGED <<snapVer, snapData, recordUnchanged>>

Trimmed_Never(d, c) == {d}

\* The data Update may be called with: the entry for c is kept, arbitrary
\* others are deleted until at most MaxJournalEntries are left.
Trimmed(d, c) ==
  IF Cardinality(Entries(d)) <= MaxJournalEntries
  THEN {d}
  ELSE {[i \in CommandIds |-> IF i \in keep THEN d[i] ELSE NoAck] :
          keep \in {k \in SUBSET Entries(d) :
                      c \in k /\ Cardinality(k) = MaxJournalEntries}}

Current_Unchecked(p) == TRUE

\* The API server accepts an Update of the version it holds only.
Current(p) == snapVer[p] = cmVer

JournalUpdate(p) ==
  LET Apply ==
        \E d \in Trimmed([snapData[p] EXCEPT ![cur[p].id] = reply[p]], cur[p].id) :
          WriteJournal(d)
  IN
  /\ pc[p] = "jupdate"
  /\ \/ /\ Current(p)
        /\ Apply
        /\ pc' = [pc EXCEPT ![p] = "reply"]
        /\ UNCHANGED <<reply, attempt, budget>>
     \/ ~Current(p) /\ NextAttempt(p) /\ UNCHANGED cmVars
     \/ /\ ApiFault(p)
        /\ \/ Current(p) /\ Apply
           \/ UNCHANGED cmVars
  /\ UNCHANGED <<snapVer, snapData, recordUnchanged>>

----------------------------------------------------------------------------
(***************************************************************************)
(* The stream, the pod's life and the server.                              *)
(***************************************************************************)

\* The stream client's OnConnectedChange callback.
SetConnected(p, v) ==
  /\ pc[p] # "down"
  /\ connected[p] # v
  /\ connected' = [connected EXCEPT ![p] = v]
  /\ gateWasOpen' = [gateWasOpen EXCEPT ![p] = @ \/ v]
  /\ IF v THEN UNCHANGED budget ELSE Spend("disconnect")
  /\ UNCHANGED <<pc, inbox, cur, reply, seen, attempt, snapVer, snapData,
                 cmVars, verdicts, loaded, done>>

\* The process ends at any point: a crash, an eviction, a rollout.
Crash(p) ==
  /\ pc[p] # "down"
  /\ Spend("crash")
  /\ pc' = [pc EXCEPT ![p] = "down"]
  /\ inbox' = [inbox EXCEPT ![p] = <<>>]
  /\ cur' = [cur EXCEPT ![p] = NoEvent]
  /\ reply' = [reply EXCEPT ![p] = NoAck]
  /\ seen' = [seen EXCEPT ![p] = NoAcks]
  /\ connected' = [connected EXCEPT ![p] = FALSE]
  /\ attempt' = [attempt EXCEPT ![p] = 0]
  /\ snapVer' = [snapVer EXCEPT ![p] = 0]
  /\ snapData' = [snapData EXCEPT ![p] = NoAcks]
  /\ loaded' = [loaded EXCEPT ![p] = {}]
  /\ done' = [done EXCEPT ![p] = {}]
  /\ gateWasOpen' = [gateWasOpen EXCEPT ![p] = FALSE]
  /\ UNCHANGED <<cmVars, verdicts>>

LoadedAcks_Skipped == NoAcks

\* What AttachJournal preloads into seen.
LoadedAcks == IF JournalEnabled THEN cmData ELSE NoAcks

\* Start up to its event loop: AttachJournal, gate closed.  A Load that fails
\* ends Start, so the pod stays down.
Boot(p) ==
  /\ pc[p] = "down"
  /\ pc' = [pc EXCEPT ![p] = "idle"]
  /\ seen' = [seen EXCEPT ![p] = LoadedAcks]
  /\ loaded' = [loaded EXCEPT ![p] = IF JournalEnabled THEN Entries(cmData) ELSE {}]
  /\ done' = [done EXCEPT ![p] = {}]
  /\ UNCHANGED <<inbox, cur, reply, connected, attempt, snapVer, snapData,
                 cmVars, verdicts, budget, gateWasOpen>>

\* The server holds a recorded result for the command.
Answered(c) == \E r \in Results : [id |-> c, verdict |-> r] \in verdicts

InHand(p, e) == cur[p] = e \/ \E i \in 1..Len(inbox[p]) : inbox[p][i] = e

\* At-least-once delivery: what is unanswered is sent again, what is answered
\* may be.  Only a connected session receives.
Deliver(p, e) ==
  /\ pc[p] # "down"
  /\ connected[p]
  /\ Len(inbox[p]) < EventsCap
  /\ inbox' = [inbox EXCEPT ![p] = Append(@, e)]
  /\ \/ /\ e.id # NoId
        /\ ~Answered(e.id)
        /\ ~InHand(p, e)
        /\ UNCHANGED budget
     \/ Spend("duplicate")
  /\ UNCHANGED <<pc, cur, reply, seen, connected, attempt, snapVer, snapData,
                 cmVars, verdicts, histVars>>

----------------------------------------------------------------------------
Init ==
  /\ pc = [p \in Pods |-> "down"]
  /\ inbox = [p \in Pods |-> <<>>]
  /\ cur = [p \in Pods |-> NoEvent]
  /\ reply = [p \in Pods |-> NoAck]
  /\ seen = [p \in Pods |-> NoAcks]
  /\ connected = [p \in Pods |-> FALSE]
  /\ attempt = [p \in Pods |-> 0]
  /\ snapVer = [p \in Pods |-> 0]
  /\ snapData = [p \in Pods |-> NoAcks]
  /\ cmVer = 0
  /\ cmData = NoAcks
  /\ verdicts = {}
  /\ budget = Bound
  /\ loaded = [p \in Pods |-> {}]
  /\ done = [p \in Pods |-> {}]
  /\ gateWasOpen = [p \in Pods |-> FALSE]

Loop(p) ==
  \/ Receive(p) \/ Gate(p) \/ Execute(p) \/ Reply(p)
  \/ JournalGet(p) \/ JournalCreate(p) \/ JournalUpdate(p)

Next ==
  \E p \in Pods :
    \/ Receive(p)
    \/ Gate(p)
    \/ Execute(p)
    \/ Reply(p)
    \/ JournalGet(p)
    \/ JournalCreate(p)
    \/ JournalUpdate(p)
    \/ \E v \in BOOLEAN : SetConnected(p, v)
    \/ Crash(p)
    \/ Boot(p)
    \/ \E e \in Events : Deliver(p, e)

Spec == Init /\ [][Next]_vars

\* The event loop runs while it can, a pod is restarted, the stream client
\* reconnects, and the server redelivers what it has no result for.
Fairness ==
  \A p \in Pods :
    /\ WF_vars(Loop(p))
    /\ WF_vars(Boot(p))
    /\ WF_vars(SetConnected(p, TRUE))
    /\ \A e \in Events : WF_vars(~Answered(e.id) /\ Deliver(p, e))

FairSpec == Spec /\ Fairness

----------------------------------------------------------------------------
(***************************************************************************)
(* Properties.                                                             *)
(***************************************************************************)
PcValues ==
  {"down", "idle", "gate", "exec", "jget", "jcreate", "jupdate", "reply"}

Acks == Results \cup {NoAck}

\* The types of the variables.
TypeOK ==
  /\ pc \in [Pods -> PcValues]
  /\ inbox \in [Pods -> Seq(Events)]
  /\ cur \in [Pods -> Events \cup {NoEvent}]
  /\ reply \in [Pods -> Acks \cup {ErrorNack}]
  /\ seen \in [Pods -> [CommandIds -> Acks]]
  /\ connected \in [Pods -> BOOLEAN]
  /\ attempt \in [Pods -> 0..RecordAttempts]
  /\ snapVer \in [Pods -> Nat]
  /\ snapData \in [Pods -> [CommandIds -> Acks]]
  /\ cmVer \in Nat
  /\ cmData \in [CommandIds -> Acks]
  /\ verdicts \subseteq [id : CommandIds \cup {NoId}, verdict : Results \cup {ErrorNack}]
  /\ budget \in [Faults -> Nat]
  /\ loaded \in [Pods -> SUBSET CommandIds]
  /\ done \in [Pods -> SUBSET CommandIds]
  /\ gateWasOpen \in [Pods -> BOOLEAN]

Working == {"gate", "exec", "jget", "jcreate", "jupdate"}

(***************************************************************************)
(* Idempotency of one process (HandleEvent's look-up in seen and           *)
(* AttachJournal's preload): no handler runs for a command that the        *)
(* journal held when the pod booted, or whose result the process has       *)
(* already recorded, whatever API calls failed in between.                 *)
(***************************************************************************)
ExecutesOnce ==
  \A p \in Pods :
    pc[p] \in {"gate", "exec"} => cur[p].id \notin loaded[p] \cup done[p]

(***************************************************************************)
(* Fail-closed gate (SetConnected and HandleEvent's check): a command that *)
(* was taken and handled entirely while the stream was down never reaches  *)
(* its handler or the journal.                                             *)
(***************************************************************************)
FailClosed ==
  \A p \in Pods : pc[p] \in Working \ {"gate"} => gateWasOpen[p]

(***************************************************************************)
(* The reply HandleEvent returns without an error is the ack on record,    *)
(* also when it is replayed and after Record has been round its loop.      *)
(***************************************************************************)
ReplyIsRecorded ==
  \A p \in Pods :
    reply[p] \in Results => cur[p] # NoEvent /\ seen[p][cur[p].id] = reply[p]

(***************************************************************************)
(* The journal never outgrows the cap that keeps the ConfigMap under       *)
(* etcd's object limit (maxJournalEntries).                                *)
(***************************************************************************)
JournalBounded == Cardinality(Entries(cmData)) <= MaxJournalEntries

(***************************************************************************)
(* No lost update: while the journal is below its cap, no step of Record,  *)
(* by whichever pod, removes an entry, so that overlapping pods do not     *)
(* erase each other's acks.                                                *)
(***************************************************************************)
JournalGrows ==
  [][ Cardinality(Entries(cmData)) < MaxJournalEntries
        => Entries(cmData) \subseteq Entries(cmData') ]_vars

(***************************************************************************)
(* Idempotency across restarts (dispatcher.go: "Journal persists command   *)
(* acks so idempotency survives agent restarts"): once the server holds a  *)
(* recorded result of a command, no handler runs for it again.             *)
(***************************************************************************)
AnsweredNotReexecuted ==
  \A p \in Pods : pc[p] = "exec" => ~Answered(cur[p].id)

\* No call of the Kubernetes API has failed so far.
NoApiFault == budget["api"] = MaxApiFaults

(***************************************************************************)
(* The same as long as the API calls of Record succeed: what a crash       *)
(* leaves in the journal is enough for the restarted pod to answer every   *)
(* command the server holds a result of without running it again.          *)
(***************************************************************************)
IdempotentUntilApiFails == NoApiFault => AnsweredNotReexecuted

(***************************************************************************)
(* Every command of a type that dispatch is to route (the enum cases and   *)
(* the bridge types) is in the end answered with a recorded result, through *)
(* closed gates, transient errors, failed journal writes, lost acks and    *)
(* restarts, as long as the server keeps redelivering it.                  *)
(***************************************************************************)
RoutedAnswered ==
  \A e \in Events :
    e.type \in CommandTypes \cup BridgeTypes /\ e.id # NoId => <>Answered(e.id)
============================================================================
