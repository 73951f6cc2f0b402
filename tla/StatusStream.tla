---------------------------- MODULE StatusStream ----------------------------
(***************************************************************************)
(* status.Streamer: informers map watched objects to status updates and    *)
(* send those whose content changed since the last one sent; a reconnect   *)
(* clears the memory of what was sent.  The stream client is the Uplink.   *)
(*                                                                         *)
(* Every object is watched by an informer of its own, so that the handlers *)
(* of different objects interleave and those of one object do not.         *)
(***************************************************************************)
EXTENDS Naturals, Sequences

CONSTANTS
  Objects,       \* watched objects: kind, namespace, name and uid
  Contents,      \* what the .status of an object can look like
  Gone,          \* no object: deleted, or no longer selected
  NoSum,         \* no entry in lastSum
  Unknown,       \* no status
  Capacity,      \* of the uplink
  SessionIds,
  MaxChanges,    \* bounds
  MaxBreaks,
  MaxRestarts

ASSUME StatusAssumption ==
  /\ Contents \subseteq [health : STRING, sync : STRING, ready : STRING, message : STRING]
  /\ Gone \notin Contents
  /\ Capacity \in Nat \ {0}
  /\ MaxChanges \in Nat /\ MaxBreaks \in Nat /\ MaxRestarts \in Nat

VARIABLES
  link, wire, stragglers,
  gateway,   \* the status of every object as the control plane knows it
  cluster,   \* the content of every object, Gone if it is not selected
  pending,   \* per object: notifications its informer has yet to handle
  doing,     \* per object: where the handler is: idle, send, record, delete
  hand,      \* per object: the update that the handler sends
  lastSum,   \* Streamer.lastSum
  queued,    \* history: per object: the last update queued
  unsure,    \* history: objects whose last update was lost or forgotten
  replaced,  \* history: objects that were replaced unseen
  budget

streamerVars == <<pending, doing, hand, lastSum>>
uplinkVars == <<link, wire, stragglers, gateway>>
vars == <<uplinkVars, cluster, streamerVars, queued, unsure, replaced,
          budget>>

Missing ==
  [health |-> "MISSING", sync |-> "UNSPECIFIED", message |-> <<"resource deleted", "">>]

Healths == {"HEALTHY", "PROGRESSING", "DEGRADED", "SUSPENDED", "MISSING", "UNKNOWN"}
Syncs == {"SYNCED", "OUT_OF_SYNC", "ERROR", "UNSPECIFIED"}

Faults == {"change", "break", "restart"}

Bound ==
  [k \in Faults |->
     CASE k = "change"  -> MaxChanges
       [] k = "break"   -> MaxBreaks
       [] k = "restart" -> MaxRestarts]

Spend(k) == budget[k] > 0 /\ budget' = [budget EXCEPT ![k] = @ - 1]

----------------------------------------------------------------------------
(***************************************************************************)
(* mapStatus.  Of an object's content, health and sync are the fields of   *)
(* .status that ArgoCD writes, in lower case ("" if absent), ready is the  *)
(* first Ready condition ("" if there is none), message what comes with    *)
(* the health, the condition or a comparison error.                        *)
(***************************************************************************)
HealthNames ==
  [healthy |-> "HEALTHY", progressing |-> "PROGRESSING", degraded |-> "DEGRADED",
   suspended |-> "SUSPENDED", missing |-> "MISSING"]

SyncNames == [synced |-> "SYNCED", outofsync |-> "OUT_OF_SYNC"]

HealthOf(c) ==
  CASE c.health \in DOMAIN HealthNames -> HealthNames[c.health]
    [] c.health = "" /\ c.ready = "True" -> "HEALTHY"
    [] c.health = "" /\ c.ready = "False with reason" -> "PROGRESSING"
    [] c.health = "" /\ c.ready = "False" -> "DEGRADED"
    [] OTHER -> "UNKNOWN"

SyncOf(c) ==
  CASE c.sync \in DOMAIN SyncNames -> SyncNames[c.sync]
    [] c.sync \notin DOMAIN SyncNames \cup {""} -> "ERROR"
    [] c.sync = "" /\ c.ready = "True" -> "SYNCED"
    [] c.sync = "" /\ c.ready \in {"False", "False with reason"} -> "OUT_OF_SYNC"
    [] OTHER -> "UNSPECIFIED"

\* A sync status that syncOf does not know is part of the message.
MessageOf(c) == <<c.message, IF SyncOf(c) = "ERROR" THEN c.sync ELSE "">>

\* The update an object's state is reported as; it is its own checksum.
Report(c) ==
  IF c = Gone THEN Missing
  ELSE [health |-> HealthOf(c), sync |-> SyncOf(c), message |-> MessageOf(c)]

\* The empty string that lastSum has for an unknown key is no checksum.
ASSUME SumAssumption == \A c \in Contents \cup {Gone} : Report(c) # NoSum

----------------------------------------------------------------------------
Observe(g, e) == [g EXCEPT ![e.object] = e.update]

U == INSTANCE Uplink WITH
       Payloads <- [object : Objects, update : {Report(c) : c \in Contents \cup {Gone}}],
       Receive <- Observe

OnWire(o, w) == \E i \in 1..Len(w) : w[i].object = o

\* u is the last update of o on the wire w.
LastOnWire(o, u, w) ==
  \E i \in 1..Len(w) :
    /\ w[i] = [object |-> o, update |-> u]
    /\ \A j \in i+1..Len(w) : w[j].object # o

\* Objects whose last update goes missing in an uplink step.
LostNow ==
  {o \in Objects : OnWire(o, wire) /\ ~LastOnWire(o, queued[o], wire')}

----------------------------------------------------------------------------
(***************************************************************************)
(* The informer of object o.                                               *)
(***************************************************************************)
Suppressed_AnySum(o, u) == lastSum[o] # NoSum

Suppressed(o, u) == lastSum[o] = u

Pruned_Kept(o) == lastSum

Pruned(o) == [lastSum EXCEPT ![o] = NoSum]

\* emit up to its send, or emitDelete up to its send.
Take(o) ==
  /\ doing[o] = "idle"
  /\ pending[o] # <<>>
  /\ pending' = [pending EXCEPT ![o] = Tail(@)]
  /\ LET c == Head(pending[o])
         u == Report(c)
     IN \/ /\ c # Gone /\ Suppressed(o, u)
           /\ UNCHANGED <<doing, hand, lastSum>>
        \/ /\ c # Gone /\ ~Suppressed(o, u)
           /\ doing' = [doing EXCEPT ![o] = "send"]
           /\ hand' = [hand EXCEPT ![o] = u]
           /\ UNCHANGED lastSum
        \/ /\ c = Gone
           /\ doing' = [doing EXCEPT ![o] = "delete"]
           /\ hand' = [hand EXCEPT ![o] = u]
           /\ lastSum' = Pruned(o)
  /\ UNCHANGED <<uplinkVars, cluster, queued, unsure, replaced, budget>>

\* Sender.Send blocks until there is room; it fails only at shutdown.
Send(o) ==
  /\ doing[o] \in {"send", "delete"}
  /\ U!Queue([object |-> o, update |-> hand[o]])
  /\ doing' = [doing EXCEPT ![o] = IF @ = "send" THEN "record" ELSE "idle"]
  /\ queued' = [queued EXCEPT ![o] = hand[o]]
  /\ unsure' = unsure \ {o}
  /\ UNCHANGED <<cluster, pending, hand, lastSum, replaced, budget>>

\* The last step of emit: the checksum of what was sent.
Record(o) ==
  /\ doing[o] = "record"
  /\ lastSum' = [lastSum EXCEPT ![o] = hand[o]]
  /\ doing' = [doing EXCEPT ![o] = "idle"]
  /\ UNCHANGED <<uplinkVars, cluster, pending, hand, queued, unsure, replaced, budget>>

\* The object changes, is touched, leaves the selection or comes back; the
\* informer is notified of every version.
Change(o, c) ==
  /\ Spend("change")
  /\ o \notin replaced
  /\ ~(cluster[o] = Gone /\ c = Gone)
  /\ cluster' = [cluster EXCEPT ![o] = c]
  /\ pending' = [pending EXCEPT ![o] = Append(@, c)]
  /\ UNCHANGED <<uplinkVars, doing, hand, lastSum, queued, unsure, replaced>>

\* While the informer does not watch, the object is deleted and another one
\* gets its name: to the informer, which lists by name, that is an update, and
\* the handler only gets the new object, which has a uid and a key of its own.
Replace(o) ==
  /\ Spend("change")
  /\ cluster[o] # Gone
  /\ cluster' = [cluster EXCEPT ![o] = Gone]
  /\ replaced' = replaced \cup {o}
  /\ UNCHANGED <<uplinkVars, streamerVars, queued, unsure>>

----------------------------------------------------------------------------
(***************************************************************************)
(* The uplink, with the connection callback at its opening.                *)
(***************************************************************************)
reporterUnchanged == <<cluster, pending, doing, hand, queued, replaced>>

\* Streamer.Reset.
Reset == lastSum' = [o \in Objects |-> NoSum]

Reconnect ==
  /\ U!Open
  /\ Reset
  /\ UNCHANGED <<reporterUnchanged, unsure, budget>>

Start ==
  /\ U!Start
  /\ link' = "broken" => Spend("break")
  /\ link' = "up" => UNCHANGED budget
  /\ UNCHANGED <<reporterUnchanged, lastSum, unsure>>

Deliver ==
  /\ U!Deliver
  /\ UNCHANGED <<reporterUnchanged, lastSum, unsure, budget>>

Lose ==
  /\ U!Lose \/ \E s \in SessionIds : U!StragglerEnds(s)
  /\ unsure' = unsure \cup LostNow
  /\ UNCHANGED <<reporterUnchanged, lastSum, budget>>

Break ==
  /\ U!Break \/ (link = "up" /\ \E s \in SessionIds \ stragglers : U!End(s))
  /\ Spend("break")
  /\ unsure' = unsure \cup LostNow
  /\ UNCHANGED <<reporterUnchanged, lastSum>>

End ==
  /\ link = "broken"
  /\ \E s \in SessionIds \ stragglers : U!End(s)
  /\ UNCHANGED <<reporterUnchanged, lastSum, unsure, budget>>

\* The control plane restarts while the agent is not connected, and forgets.
Restart ==
  /\ link = "down"
  /\ Spend("restart")
  /\ gateway' = [o \in Objects |-> Unknown]
  /\ unsure' = unsure \cup {o \in Objects : queued[o] # Unknown /\ ~OnWire(o, wire)}
  /\ UNCHANGED <<link, wire, stragglers, reporterUnchanged, lastSum>>

----------------------------------------------------------------------------
\* The watches list what is there: the informers start with one notification
\* for every object that is selected.
Init ==
  /\ U!UplinkInit
  /\ gateway = [o \in Objects |-> Unknown]
  /\ cluster \in [Objects -> Contents]
  /\ pending = [o \in Objects |-> <<cluster[o]>>]
  /\ doing = [o \in Objects |-> "idle"]
  /\ hand = [o \in Objects |-> Unknown]
  /\ lastSum = [o \in Objects |-> NoSum]
  /\ queued = [o \in Objects |-> Unknown]
  /\ unsure = {} /\ replaced = {}
  /\ budget = Bound

Inform(o) == Take(o) \/ Send(o) \/ Record(o)

Next ==
  \/ \E o \in Objects :
       \/ Take(o) \/ Send(o) \/ Record(o)
       \/ \E c \in Contents \cup {Gone} : Change(o, c)
       \/ Replace(o)
  \/ Reconnect \/ Start \/ Deliver \/ Lose \/ Break \/ End \/ Restart

Spec == Init /\ [][Next]_vars

\* Handlers and the stream client go on; nothing breaks or changes for ever.
Fairness ==
  /\ \A o \in Objects : WF_vars(Inform(o))
  /\ WF_vars(Reconnect) /\ WF_vars(Start) /\ WF_vars(Deliver) /\ WF_vars(End)

FairSpec == Spec /\ Fairness

----------------------------------------------------------------------------
(***************************************************************************)
(* Properties.                                                             *)
(***************************************************************************)
UpdateSet ==
  [health : Healths, sync : Syncs,
   message : {Missing.message} \cup {MessageOf(c) : c \in Contents}]

\* The types of the variables.
TypeOK ==
  /\ link \in {"down", "opening", "up", "broken"}
  /\ wire \in Seq([object : Objects, update : UpdateSet]) /\ Len(wire) <= Capacity
  /\ stragglers \subseteq SessionIds
  /\ gateway \in [Objects -> UpdateSet \cup {Unknown}]
  /\ cluster \in [Objects -> Contents \cup {Gone}]
  /\ pending \in [Objects -> Seq(Contents \cup {Gone})]
  /\ doing \in [Objects -> {"idle", "send", "record", "delete"}]
  /\ hand \in [Objects -> UpdateSet \cup {Unknown}]
  /\ lastSum \in [Objects -> UpdateSet \cup {NoSum}]
  /\ queued \in [Objects -> UpdateSet \cup {Unknown}]
  /\ unsure \subseteq Objects /\ replaced \subseteq Objects
  /\ budget \in [Faults -> Nat]

(***************************************************************************)
(* What emit suppresses has been sent: a checksum on record is that of the *)
(* last update queued for the object, also after deletes, after objects    *)
(* that come back, and when Reset falls between a send and its record.     *)
(***************************************************************************)
DedupeSound ==
  \A o \in Objects :
    doing[o] # "record" /\ lastSum[o] # NoSum => lastSum[o] = queued[o]

(***************************************************************************)
(* A settled object is known as it is: when its informer is idle and no    *)
(* update of it is on its way, the control plane knows its present status, *)
(* unless the last update was lost or forgotten, or the object was         *)
(* replaced unseen.                                                        *)
(***************************************************************************)
Settled(o) ==
  pending[o] = <<>> /\ doing[o] \in {"idle", "record"} /\ ~OnWire(o, wire) /\ o \notin unsure

SettledIsKnown ==
  \A o \in Objects : Settled(o) /\ o \notin replaced => gateway[o] = Report(cluster[o])

(***************************************************************************)
(* Every object settles: its changes are reported in the end, through      *)
(* broken sessions, unless they were lost or the object replaced unseen.   *)
(***************************************************************************)
ChangesReported ==
  \A o \in Objects : <>[](gateway[o] = Report(cluster[o]) \/ o \in unsure \cup replaced)
=============================================================================
