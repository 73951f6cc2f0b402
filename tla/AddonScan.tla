----------------------------- MODULE AddonScan ------------------------------
(***************************************************************************)
(* addonscan.Scanner: one informer per namespace folds helm release        *)
(* Secrets into a snapshot of the known add-ons; report sends the snapshot *)
(* when it differs from the last one sent.  report runs on the informers'  *)
(* goroutines, on Run's after the initial list, and in Reset, which the    *)
(* connection callback calls; it takes the lock three times.  The stream   *)
(* client is the Uplink.                                                   *)
(*                                                                         *)
(* A report is the set of releases in it: revisions are stripped, and the  *)
(* order of two releases of one chart, which the sort leaves to chance, is *)
(* not modelled.                                                           *)
(***************************************************************************)
EXTENDS Naturals, Sequences

CONSTANTS
  Namespaces,    \* scanned namespaces
  Releases,      \* known releases
  NamespaceOf,   \* where each of them is installed
  Capacity,      \* of the uplink
  SessionIds,
  MaxRevision,   \* bounds
  MaxHelm,
  MaxBreaks,
  MaxRestarts

ASSUME ScanAssumption ==
  /\ "run" \notin Namespaces /\ "callback" \notin Namespaces
  /\ NamespaceOf \in [Releases -> Namespaces]
  /\ Capacity \in Nat \ {0}
  /\ MaxRevision \in Nat /\ MaxHelm \in Nat
  /\ MaxBreaks \in Nat /\ MaxRestarts \in Nat

\* The goroutines that call report.
Reporters == Namespaces \cup {"run", "callback"}

VARIABLES
  link, wire, stragglers,
  gateway,   \* the releases that the control plane has been told of
  deployed,  \* helm: the deployed revision of every release, 0 if none
  pending,   \* per namespace: notifications its informer has yet to handle
  current,   \* Scanner.current: the revision of every release, 0 if none
  lastSum,   \* Scanner.lastSum: the last snapshot sent, {} for ""
  at,        \* per reporter: idle, collect, compare, send, record
  addons,    \* per reporter: the snapshot report works on
  unsure,    \* history: releases whose last report was lost or forgotten
  missed,    \* history: releases that changed in a way the handlers do not see
  budget

uplinkVars == <<link, wire, stragglers, gateway>>
scanVars == <<deployed, pending, current, missed>>
reportVars == <<lastSum, at, addons>>
vars == <<uplinkVars, scanVars, reportVars, unsure, budget>>

Faults == {"helm", "break", "restart"}

Bound ==
  [k \in Faults |->
     CASE k = "helm"    -> MaxHelm
       [] k = "break"   -> MaxBreaks
       [] k = "restart" -> MaxRestarts]

Spend(k) == budget[k] > 0 /\ budget' = [budget EXCEPT ![k] = @ - 1]

Reportable == (SUBSET Releases) \ {{}}

Learn(g, e) == g \cup e

U == INSTANCE Uplink WITH Payloads <- Reportable, Receive <- Learn

Snapshot == {r \in Releases : current[r] # 0}

----------------------------------------------------------------------------
(***************************************************************************)
(* report, in the four steps its critical sections and its Send make.      *)
(***************************************************************************)
Goto(x, l) == at' = [at EXCEPT ![x] = l]

Return(x) == Goto(x, "idle") /\ addons' = [addons EXCEPT ![x] = {}]

\* An empty snapshot is not sent.
Collect(x) ==
  /\ at[x] = "collect"
  /\ addons' = [addons EXCEPT ![x] = Snapshot]
  /\ Goto(x, IF Snapshot = {} THEN "idle" ELSE "compare")
  /\ UNCHANGED <<uplinkVars, scanVars, lastSum, unsure, budget>>

Compare(x) ==
  /\ at[x] = "compare"
  /\ IF addons[x] = lastSum
     THEN Return(x)
     ELSE Goto(x, "send") /\ UNCHANGED addons
  /\ UNCHANGED <<uplinkVars, scanVars, lastSum, unsure, budget>>

Send(x) ==
  /\ at[x] = "send"
  /\ U!Queue(addons[x])
  /\ Goto(x, "record")
  /\ unsure' = unsure \ addons[x]
  /\ UNCHANGED <<scanVars, lastSum, addons, budget>>

Sum_Fresh(x) == Snapshot

\* The checksum is of what was sent.
Sum(x) == addons[x]

Record(x) ==
  /\ at[x] = "record"
  /\ lastSum' = Sum(x)
  /\ Return(x)
  /\ UNCHANGED <<uplinkVars, scanVars, unsure, budget>>

----------------------------------------------------------------------------
(***************************************************************************)
(* The informer of namespace n: applyLabels and onDelete.                  *)
(***************************************************************************)
Newer_Any(r, rev) == TRUE

\* Only the highest deployed revision counts.
Newer(r, rev) == rev > current[r]

Notice(n) ==
  /\ at[n] = "idle"
  /\ pending[n] # <<>>
  /\ pending' = [pending EXCEPT ![n] = Tail(@)]
  /\ LET r == Head(pending[n]).release
         rev == Head(pending[n]).revision
     IN \/ /\ Head(pending[n]).kind = "deployed"
           /\ IF Newer(r, rev)
              THEN current' = [current EXCEPT ![r] = rev] /\ Goto(n, "collect")
              ELSE UNCHANGED <<current, at>>
        \/ /\ Head(pending[n]).kind = "deleted"
           /\ current' = [current EXCEPT ![r] = 0]
           /\ IF current[r] # 0 THEN Goto(n, "collect") ELSE UNCHANGED at
  /\ UNCHANGED <<uplinkVars, deployed, missed, lastSum, addons, unsure, budget>>

\* A Secret that is or was last seen labelled as deployed; the handlers ignore
\* all others.
Seen(r, rev, kind) == [release |-> r, revision |-> rev, kind |-> kind]

Notify(r, notes) ==
  pending' = [pending EXCEPT ![NamespaceOf[r]] = @ \o notes]

\* helm installs or upgrades r; the Secret of the old revision is soon marked
\* as superseded, but may be seen once more as deployed before that.
Deploy(r) ==
  /\ Spend("helm")
  /\ deployed[r] < MaxRevision
  /\ deployed' = [deployed EXCEPT ![r] = @ + 1]
  /\ \/ Notify(r, <<Seen(r, deployed[r] + 1, "deployed")>>)
     \/ /\ deployed[r] # 0
        /\ Notify(r, <<Seen(r, deployed[r] + 1, "deployed"), Seen(r, deployed[r], "deployed")>>)
  /\ UNCHANGED <<uplinkVars, current, missed, reportVars, unsure>>

\* The Secret of r is deleted as it is.
Uninstall(r) ==
  /\ Spend("helm")
  /\ deployed[r] # 0
  /\ deployed' = [deployed EXCEPT ![r] = 0]
  /\ Notify(r, <<Seen(r, deployed[r], "deleted")>>)
  /\ UNCHANGED <<uplinkVars, current, missed, reportVars, unsure>>

\* helm uninstalls r: it marks the Secret as uninstalling and then deletes it,
\* and the handlers ignore both.
UninstallMarked(r) ==
  /\ Spend("helm")
  /\ deployed[r] # 0
  /\ deployed' = [deployed EXCEPT ![r] = 0]
  /\ missed' = missed \cup {r}
  /\ UNCHANGED <<uplinkVars, pending, current, reportVars, unsure>>

\* While the watch is down r is upgraded and the old Secret deleted: the list
\* that follows yields the new Secret first and then the deletion of the old
\* one in the state in which it was last seen.
DeployUnwatched(r) ==
  /\ Spend("helm")
  /\ deployed[r] \in 1..MaxRevision - 1
  /\ deployed' = [deployed EXCEPT ![r] = @ + 1]
  /\ Notify(r, <<Seen(r, deployed[r] + 1, "deployed"), Seen(r, deployed[r], "deleted")>>)
  /\ missed' = missed \cup {r}
  /\ UNCHANGED <<uplinkVars, current, reportVars, unsure>>

----------------------------------------------------------------------------
(***************************************************************************)
(* The uplink, with the connection callback at its opening.                *)
(***************************************************************************)
OnWire(r, w) == \E i \in 1..Len(w) : r \in w[i]

LostNow == {r \in Releases \ gateway : OnWire(r, wire) /\ ~OnWire(r, wire')}

\* Reset: forget what was sent, then report.
Reconnect ==
  /\ U!Open
  /\ lastSum' = {}
  /\ Goto("callback", "collect")
  /\ UNCHANGED <<scanVars, addons, unsure, budget>>

\* The callback has returned.
Start ==
  /\ at["callback"] = "idle"
  /\ U!Start
  /\ link' = "broken" => Spend("break")
  /\ link' = "up" => UNCHANGED budget
  /\ UNCHANGED <<scanVars, reportVars, unsure>>

Deliver ==
  /\ U!Deliver
  /\ UNCHANGED <<scanVars, reportVars, unsure, budget>>

Lose ==
  /\ U!Lose \/ \E s \in SessionIds : U!StragglerEnds(s)
  /\ unsure' = unsure \cup LostNow
  /\ UNCHANGED <<scanVars, reportVars, budget>>

Break ==
  /\ U!Break \/ (link = "up" /\ \E s \in SessionIds \ stragglers : U!End(s))
  /\ Spend("break")
  /\ unsure' = unsure \cup LostNow
  /\ UNCHANGED <<scanVars, reportVars>>

End ==
  /\ link = "broken"
  /\ \E s \in SessionIds \ stragglers : U!End(s)
  /\ UNCHANGED <<scanVars, reportVars, unsure, budget>>

\* The control plane restarts while the agent is not connected, and forgets.
Restart ==
  /\ link = "down"
  /\ Spend("restart")
  /\ gateway' = {}
  /\ unsure' = unsure \cup {r \in gateway : ~OnWire(r, wire)}
  /\ UNCHANGED <<link, wire, stragglers, scanVars, reportVars>>

----------------------------------------------------------------------------
\* Run's report waits at "collect" for the initial list.
Init ==
  /\ U!UplinkInit
  /\ gateway = {}
  /\ deployed = [r \in Releases |-> 0]
  /\ pending = [n \in Namespaces |-> <<>>]
  /\ current = [r \in Releases |-> 0]
  /\ lastSum = {}
  /\ at = [x \in Reporters |-> IF x = "run" THEN "collect" ELSE "idle"]
  /\ addons = [x \in Reporters |-> {}]
  /\ unsure = {}
  /\ missed = {}
  /\ budget = Bound

Reporter(x) == Collect(x) \/ Compare(x) \/ Send(x) \/ Record(x)

Next ==
  \/ \E x \in Reporters : Reporter(x)
  \/ \E n \in Namespaces : Notice(n)
  \/ \E r \in Releases : Deploy(r) \/ Uninstall(r) \/ UninstallMarked(r) \/ DeployUnwatched(r)
  \/ Reconnect \/ Start \/ Deliver \/ Lose \/ Break \/ End \/ Restart

Spec == Init /\ [][Next]_vars

----------------------------------------------------------------------------
(***************************************************************************)
(* Properties.                                                             *)
(***************************************************************************)

\* The types of the variables.
TypeOK ==
  /\ link \in {"down", "opening", "up", "broken"}
  /\ wire \in Seq(Reportable) /\ Len(wire) <= Capacity
  /\ stragglers \subseteq SessionIds
  /\ gateway \subseteq Releases
  /\ deployed \in [Releases -> 0..MaxRevision]
  /\ \A n \in Namespaces :
       pending[n] \in Seq([release : Releases, revision : 1..MaxRevision,
                           kind : {"deployed", "deleted"}])
  /\ current \in [Releases -> 0..MaxRevision]
  /\ lastSum \subseteq Releases
  /\ at \in [Reporters -> {"idle", "collect", "compare", "send", "record"}]
  /\ addons \in [Reporters -> SUBSET Releases]
  /\ unsure \subseteq Releases
  /\ missed \subseteq Releases
  /\ budget \in [Faults -> Nat]

(***************************************************************************)
(* The snapshot follows helm (applyLabels and onDelete): once an informer  *)
(* has caught up, a release is in it exactly when it is deployed, with its *)
(* deployed revision, unless its labels or a watch that was down hid a     *)
(* change.                                                                 *)
(***************************************************************************)
SnapshotFollowsHelm ==
  \A r \in Releases :
    pending[NamespaceOf[r]] = <<>> /\ r \notin missed => current[r] = deployed[r]

(***************************************************************************)
(* Every discovered release is reported (report): when nobody is at work   *)
(* and nothing on its way, the control plane has been told of every        *)
(* release in the snapshot, however the reports of the informers, of Run   *)
(* and of Reset overlapped, unless the last report of it was lost or       *)
(* forgotten.                                                              *)
(***************************************************************************)
DiscoveriesReported ==
  (\A x \in Reporters : at[x] = "idle") /\ wire = <<>>
    => Snapshot \subseteq gateway \cup unsure
=============================================================================
