--------------------------- MODULE CapabilitySync ---------------------------
(***************************************************************************)
(* capability.Aggregator: watchers turn the objects of the cluster into    *)
(* capabilities, Run keeps the snapshot of them and sends updates in       *)
(* batches, and the event loop replays the whole snapshot when the gateway *)
(* asks for it, concurrently with Run.  The stream client is the Uplink.   *)
(*                                                                         *)
(* Two kinds of watchers stand for all: that of CRDs, which keeps metadata *)
(* only and gets the object when an event is handled, and that of          *)
(* Crossplane providers, which has the object in the event.                *)
(***************************************************************************)
EXTENDS Naturals, Sequences, SequencesExt

CONSTANTS
  Crds, Providers,       \* names of objects
  CrdContents,           \* what a CRD can look like
  ProviderContents,      \* what a provider can look like
  Gone,                  \* no object
  SizeOf,                \* of the capability of a name, in bytes
  MaxBatchBytes,         \* Aggregator.MaxBatchBytes
  MaxBatch,              \* Aggregator.MaxBatch
  MergedCap,             \* of the channel merged (128), with the watchers' own
  Capacity,              \* of the uplink
  SessionIds,
  MaxChanges, MaxFaults   \* bounds

Names == Crds \cup Providers
Modes == {"ADOPT", "IGNORE", "OBSERVE_ONLY"}

ASSUME CapabilityAssumption ==
  /\ Crds \cap Providers = {}
  /\ \A c \in CrdContents : Len(c.versions) > 0
  /\ Gone \notin CrdContents \cup ProviderContents
  /\ SizeOf \in [Names -> Nat \ {0}]
  /\ MaxBatchBytes \in Nat \ {0} /\ MaxBatch \in Nat \ {0}
  /\ MergedCap \in Nat \ {0} /\ Capacity \in Nat \ {0}
  /\ MaxChanges \in Nat /\ MaxFaults \in Nat

VARIABLES
  link, wire, stragglers,
  gateway,    \* catalog, the keys that the replay under way has listed, and
              \* the checksum it was last given
  cluster,    \* the objects
  pending,    \* per object: events its informer has yet to handle
  merged,     \* capabilities on their way from the watchers to Run
  snapshot,   \* Aggregator.snapshot, and with it the digests
  batch,      \* the batch that Run collects
  sending,    \* chunks that Run has yet to send
  asked,      \* the event loop has a request for a resync
  listing,    \* what ReplayFullState has listed, before it takes the checksum
  replaying,  \* chunks that ReplayFullState has yet to send
  unfetched,  \* history: objects the last event of which was lost to an error
  overlooked, \* history: since the last replay was begun, an update was lost
              \* or a chunk of a replay was outdated when it was sent, or the
              \* replay before it was cut short
  budget

uplinkVars == <<link, wire, stragglers, gateway>>
runVars == <<merged, snapshot, batch, sending>>
replayVars == <<asked, listing, replaying, overlooked>>
vars == <<uplinkVars, cluster, pending, runVars, replayVars, unfetched, budget>>

\* A fault is a GET that fails or a session that breaks.
Kinds == {"change", "fault"}

Bound == [k \in Kinds |-> IF k = "change" THEN MaxChanges ELSE MaxFaults]

Spend(k) == budget[k] > 0 /\ budget' = [budget EXCEPT ![k] = @ - 1]

ContentsOf(o) == IF o \in Crds THEN CrdContents ELSE ProviderContents

----------------------------------------------------------------------------
(***************************************************************************)
(* From objects to capabilities.                                           *)
(***************************************************************************)
\* mapCRD: the storage version, or else the first one.
MapCRD(c) == IF c.storage \in DOMAIN c.versions THEN c.versions[c.storage] ELSE c.versions[1]

\* mapProvider: the revision that is installed, "" until there is one.
MapProvider(c) == c.revision

Version(o, c) == IF o \in Crds THEN MapCRD(c) ELSE MapProvider(c)

Classify(c) ==
  CASE c.management = "adopt" -> "ADOPT"
    [] c.management = "ignore" -> "IGNORE"
    [] OTHER -> "OBSERVE_ONLY"

Capability(o, c) == [name |-> o, version |-> Version(o, c), mode |-> Classify(c)]

\* emitCapability: what is ignored is removed from the catalog.
Emit(o, c, action) ==
  [cap |-> Capability(o, c),
   action |-> IF Classify(c) = "IGNORE" THEN "DELETE" ELSE action,
   anyVersion |-> FALSE]

\* The DELETE of a metadata watcher knows the name only.
NameOnlyDelete(o) ==
  [cap |-> [name |-> o, version |-> "", mode |-> "OBSERVE_ONLY"],
   action |-> "DELETE", anyVersion |-> TRUE]

\* capabilityKey, within one kind.
Key(cap) == <<cap.name, cap.version>>

\* apply: capabilities S after the change e.
Apply_ExactKey(S, e) ==
  LET others == {c \in S : Key(c) # Key(e.cap)}
  IN IF e.action = "DELETE" THEN others ELSE others \cup {e.cap}

Apply(S, e) ==
  LET others == {c \in S : Key(c) # Key(e.cap)}
  IN CASE e.action = "UPSERT" -> others \cup {e.cap}
       [] e.anyVersion -> {c \in others : c.name # e.cap.name}
       [] OTHER -> others

\* splitByByteBudget.
Bytes(changes) == FoldLeft(LAMBDA sum, e : sum + SizeOf[e.cap.name], 0, changes)

Full_Before(chunk, e) == chunk # <<>> /\ Bytes(chunk) > MaxBatchBytes

Full(chunk, e) == chunk # <<>> /\ Bytes(chunk) + SizeOf[e.cap.name] > MaxBatchBytes

SplitByByteBudget_Dropped(changes) ==
  LET Put(chunks, e) ==
        IF chunks # <<>> /\ ~Full(Last(chunks), e)
        THEN Front(chunks) \o <<Append(Last(chunks), e)>>
        ELSE <<<<e>>>>
  IN FoldLeft(Put, <<>>, changes)

SplitByByteBudget(changes) ==
  LET Put(chunks, e) ==
        IF chunks # <<>> /\ ~Full(Last(chunks), e)
        THEN Front(chunks) \o <<Append(Last(chunks), e)>>
        ELSE Append(chunks, <<e>>)
  IN FoldLeft(Put, <<>>, changes)

\* ChecksumDigests: equal for equal snapshots only (no two are taken to
\* collide), whatever their order.
Checksum(S) == S

\* sendChunk: the updates for the chunks, all with the same checksum.
Updates(chunks, fullSync, checksum) ==
  [k \in DOMAIN chunks |->
     [fullSync |-> fullSync, changes |-> chunks[k], checksum |-> checksum]]

\* The empty chunk of a full sync.
Terminal(checksum) == [fullSync |-> TRUE, changes |-> <<>>, checksum |-> checksum]

IsTerminal(u) == u.fullSync /\ u.changes = <<>>

\* What ReplayFullState sends for a snapshot listed in the order order.
Replay_NoTerminal(order, checksum) ==
  LET changes == [k \in DOMAIN order |->
                    [cap |-> order[k], action |-> "UPSERT", anyVersion |-> FALSE]]
  IN Updates(SplitByByteBudget(changes), TRUE, checksum)

Replay(order, checksum) ==
  LET changes == [k \in DOMAIN order |->
                    [cap |-> order[k], action |-> "UPSERT", anyVersion |-> FALSE]]
  IN Append(Updates(SplitByByteBudget(changes), TRUE, checksum), Terminal(checksum))

----------------------------------------------------------------------------
(***************************************************************************)
(* The gateway, as ReplayFullState expects it: an update changes the       *)
(* catalog the way apply changes the snapshot, and the empty chunk of a    *)
(* full sync deletes what the sync has not listed.  It keeps the checksum  *)
(* of an incremental update and of the empty chunk: it has no other way to *)
(* tell whether its catalog is that of the agent.                          *)
(***************************************************************************)
Receive(g, u) ==
  [catalog |-> IF IsTerminal(u)
               THEN {c \in g.catalog : Key(c) \in g.listed}
               ELSE FoldLeft(Apply, g.catalog, u.changes),
   listed |-> IF IsTerminal(u) THEN {}
              ELSE IF u.fullSync
              THEN g.listed \cup {Key(u.changes[k].cap) : k \in DOMAIN u.changes}
              ELSE g.listed,
   checksum |-> IF IsTerminal(u) \/ ~u.fullSync THEN u.checksum ELSE g.checksum]

\* The gateway once the updates have arrived.
ReceiveAll(g, updates) == FoldLeft(Receive, g, updates)

U == INSTANCE Uplink WITH Payloads <- {}

----------------------------------------------------------------------------
(***************************************************************************)
(* The watchers.                                                           *)
(***************************************************************************)
Forward(e) ==
  /\ Len(merged) < MergedCap
  /\ merged' = Append(merged, e)

\* resolve: the object as it is when the event is handled.
GetCrd(o) ==
  \/ /\ cluster[o] # Gone
     /\ Forward(Emit(o, cluster[o], "UPSERT"))
     /\ unfetched' = unfetched \ {o}
     /\ UNCHANGED budget
  \/ /\ cluster[o] = Gone
     /\ UNCHANGED <<merged, unfetched, budget>>
  \/ /\ Spend("fault")
     /\ unfetched' = unfetched \cup {o}
     /\ UNCHANGED merged

\* An event of the informer of object o.
HandleEvent(o) ==
  /\ pending[o] # <<>>
  /\ pending' = [pending EXCEPT ![o] = Tail(@)]
  /\ LET event == Head(pending[o])
     IN \/ o \in Crds /\ ~event.gone /\ GetCrd(o)
        \/ /\ o \in Crds /\ event.gone
           /\ Forward(NameOnlyDelete(o))
           /\ unfetched' = unfetched \ {o}
           /\ UNCHANGED budget
        \/ /\ o \in Providers
           /\ Forward(Emit(o, event.object, IF event.gone THEN "DELETE" ELSE "UPSERT"))
           /\ UNCHANGED <<unfetched, budget>>
  /\ UNCHANGED <<uplinkVars, cluster, snapshot, batch, sending, replayVars>>

Change(o, c) ==
  /\ Spend("change")
  /\ cluster[o] # c
  /\ cluster' = [cluster EXCEPT ![o] = c]
  /\ pending' = [pending EXCEPT ![o] =
                   Append(@, [gone |-> c = Gone, object |-> IF c = Gone THEN cluster[o] ELSE c])]
  /\ UNCHANGED <<uplinkVars, runVars, replayVars, unfetched>>

----------------------------------------------------------------------------
(***************************************************************************)
(* Run and ReplayFullState.                                                *)
(***************************************************************************)
\* A capability is applied and joins the batch, while there is room and time.
Collect ==
  /\ merged # <<>> /\ sending = <<>> /\ Len(batch) < MaxBatch
  /\ merged' = Tail(merged)
  /\ snapshot' = Apply(snapshot, Head(merged))
  /\ batch' = Append(batch, Head(merged))
  /\ UNCHANGED <<uplinkVars, cluster, pending, sending, replayVars, unfetched, budget>>

\* The batch is full or the timer has fired.  Nobody else changes the snapshot,
\* so that the checksum is that of the batch.
Flush ==
  /\ batch # <<>> /\ sending = <<>>
  /\ batch' = <<>>
  /\ sending' = Updates(SplitByByteBudget(batch), FALSE, Checksum(snapshot))
  /\ UNCHANGED <<uplinkVars, cluster, pending, merged, snapshot, replayVars, unfetched, budget>>

SendChunk ==
  /\ sending # <<>>
  /\ sending' = Tail(sending)
  /\ U!Queue(Head(sending))
  /\ UNCHANGED <<cluster, pending, merged, snapshot, batch, replayVars, unfetched, budget>>

\* The event loop takes the request and lists the snapshot, in the order of a
\* map.
ReplayFullState ==
  /\ asked /\ listing = <<>> /\ replaying = <<>>
  /\ asked' = FALSE
  /\ \E order \in SetToSeqs(snapshot) : listing' = <<order>>
  /\ overlooked' = (ReceiveAll(gateway, wire).listed # {})
  /\ UNCHANGED <<uplinkVars, cluster, pending, runVars, replaying, unfetched, budget>>

\* The checksum is that of the snapshot as it is by then.
TakeChecksum ==
  /\ listing # <<>>
  /\ listing' = <<>>
  /\ replaying' = Replay(Head(listing), Checksum(snapshot))
  /\ UNCHANGED <<uplinkVars, cluster, pending, runVars, asked, overlooked, unfetched, budget>>

\* The next chunk of the replay lists what is not on record any more, or ends
\* the replay while something on record has not been listed.
Outdated ==
  LET u == Head(replaying)
  IN IF IsTerminal(u)
     THEN \E c \in snapshot : Key(c) \notin ReceiveAll(gateway, wire).listed
     ELSE \E k \in DOMAIN u.changes : u.changes[k].cap \notin snapshot

SendReplay ==
  /\ replaying # <<>>
  /\ replaying' = Tail(replaying)
  /\ U!Queue(Head(replaying))
  /\ overlooked' = (overlooked \/ Outdated)
  /\ UNCHANGED <<cluster, pending, runVars, asked, listing, unfetched, budget>>

----------------------------------------------------------------------------
(***************************************************************************)
(* The uplink.                                                             *)
(***************************************************************************)
agentVars == <<cluster, pending, runVars, listing, replaying, unfetched>>

Handshake_NoResync ==
  /\ U!Open
  /\ UNCHANGED <<agentVars, asked, overlooked, budget>>

\* The handshake carries the checksum of the snapshot; the gateway asks for a
\* resync if it has another one.
Handshake ==
  /\ U!Open
  /\ asked' = (asked \/ gateway.checksum # Checksum(snapshot))
  /\ UNCHANGED <<agentVars, overlooked, budget>>

\* The gateway notices that a number is missing, when a later event of any
\* component arrives, and asks for a resync in the middle of the session.
Gap ==
  /\ link = "up" /\ overlooked
  /\ asked' = TRUE
  /\ UNCHANGED <<uplinkVars, agentVars, overlooked, budget>>

Start ==
  /\ U!Start
  /\ link' = "broken" => Spend("fault")
  /\ link' = "up" => UNCHANGED budget
  /\ UNCHANGED <<agentVars, asked, overlooked>>

Deliver == U!Deliver /\ UNCHANGED <<agentVars, asked, overlooked, budget>>

\* What happens to updates on their way.
Overlook == overlooked' = (overlooked \/ wire' # wire)

Lose ==
  /\ U!Lose \/ \E s \in SessionIds : U!StragglerEnds(s)
  /\ Overlook
  /\ UNCHANGED <<agentVars, asked, budget>>

\* A session breaks, or its token is rotated in the middle of the traffic.
Break ==
  /\ U!Break \/ (link = "up" /\ \E s \in SessionIds \ stragglers : U!End(s))
  /\ Overlook
  /\ Spend("fault")
  /\ UNCHANGED <<agentVars, asked>>

End ==
  /\ link = "broken"
  /\ \E s \in SessionIds \ stragglers : U!End(s)
  /\ Overlook
  /\ UNCHANGED <<agentVars, asked, budget>>

\* A token is rotated while nothing is under way.
Rotate ==
  /\ link = "up" /\ wire = <<>> /\ sending = <<>> /\ ~asked
  /\ listing = <<>> /\ replaying = <<>>
  /\ link' = "down"
  /\ UNCHANGED <<wire, stragglers, gateway, agentVars, asked, overlooked, budget>>

----------------------------------------------------------------------------
\* The informers list what is there.
Init ==
  /\ U!UplinkInit
  /\ gateway = [catalog |-> {}, listed |-> {}, checksum |-> Checksum({})]
  /\ cluster \in [Names -> CrdContents \cup ProviderContents \cup {Gone}]
  /\ \A o \in Names : cluster[o] \in ContentsOf(o) \cup {Gone}
  /\ pending = [o \in Names |->
       IF cluster[o] = Gone THEN <<>> ELSE <<[gone |-> FALSE, object |-> cluster[o]]>>]
  /\ merged = <<>> /\ snapshot = {} /\ batch = <<>> /\ sending = <<>>
  /\ asked = FALSE /\ listing = <<>> /\ replaying = <<>>
  /\ unfetched = {} /\ overlooked = FALSE
  /\ budget = Bound

Next ==
  \/ \E o \in Names : HandleEvent(o) \/ \E c \in ContentsOf(o) \cup {Gone} : Change(o, c)
  \/ Collect \/ Flush \/ SendChunk \/ ReplayFullState \/ TakeChecksum \/ SendReplay
  \/ Handshake \/ Gap \/ Start \/ Deliver \/ Lose \/ Break \/ End \/ Rotate

Spec == Init /\ [][Next]_vars

\* The goroutines go on: watchers, Run, the event loop, the client's
\* supervisor and its pumps.  A token expires, so that every session ends, and
\* some sessions end while nothing is under way.
Fairness ==
  /\ WF_vars(\E o \in Names : HandleEvent(o))
  /\ WF_vars(Collect \/ Flush \/ SendChunk)
  /\ WF_vars(ReplayFullState \/ TakeChecksum \/ SendReplay)
  /\ WF_vars(Handshake \/ Start \/ End \/ Rotate)
  /\ WF_vars(Deliver \/ Lose)

FairSpec == Spec /\ Fairness

----------------------------------------------------------------------------
(***************************************************************************)
(* Properties.                                                             *)
(***************************************************************************)
Caps ==
  {Capability(o, c) : o \in Crds, c \in CrdContents}
    \cup {Capability(o, c) : o \in Providers, c \in ProviderContents}

Changes ==
  [cap : Caps, action : {"UPSERT", "DELETE"}, anyVersion : {FALSE}]
    \cup {NameOnlyDelete(o) : o \in Crds}

UpdateSet == [fullSync : BOOLEAN, changes : Seq(Changes), checksum : SUBSET Caps]

\* The types of the variables; nothing that is ignored is on record.
TypeOK ==
  /\ link \in {"down", "opening", "up", "broken"}
  /\ wire \in Seq(UpdateSet) /\ Len(wire) <= Capacity
  /\ stragglers \subseteq SessionIds
  /\ gateway.catalog \subseteq Caps /\ gateway.listed \subseteq {Key(c) : c \in Caps}
  /\ gateway.checksum \subseteq Caps
  /\ \A o \in Names : cluster[o] \in ContentsOf(o) \cup {Gone}
  /\ \A o \in Names : pending[o] \in Seq([gone : BOOLEAN, object : ContentsOf(o)])
  /\ merged \in Seq(Changes) /\ Len(merged) <= MergedCap
  /\ snapshot \subseteq {c \in Caps : c.mode # "IGNORE"}
  /\ batch \in Seq(Changes) /\ Len(batch) <= MaxBatch
  /\ sending \in Seq(UpdateSet) /\ replaying \in Seq(UpdateSet)
  /\ listing \in Seq(Seq(Caps)) /\ Len(listing) <= 1
  /\ asked \in BOOLEAN /\ overlooked \in BOOLEAN
  /\ unfetched \subseteq Crds
  /\ budget \in [Kinds -> Nat]

Settled(o) == pending[o] = <<>> /\ \A k \in DOMAIN merged : merged[k].cap.name # o

(***************************************************************************)
(* The snapshot follows the cluster: when the events of an object have     *)
(* been handled, the object is on record as it is, or not at all if it is  *)
(* ignored; nothing is left of a CRD that was deleted, whatever versions   *)
(* it had.  (An object that changes its version leaves the entry of the    *)
(* old one; and the event is lost if the GET fails.)                       *)
(***************************************************************************)
SnapshotFollowsCluster ==
  \A o \in Names : Settled(o) /\ o \notin unfetched =>
    LET entries == {c \in snapshot : c.name = o}
    IN /\ cluster[o] = Gone /\ o \in Crds => entries = {}
       /\ cluster[o] # Gone =>
            {c \in entries : c.version = Version(o, cluster[o])}
              = {c \in {Capability(o, cluster[o])} : c.mode # "IGNORE"}

(***************************************************************************)
(* No update exceeds the byte budget, unless it is a single capability     *)
(* that does (the gateway's limit on the size of a message).               *)
(***************************************************************************)
ChunksFit ==
  \A k \in DOMAIN wire :
    Bytes(wire[k].changes) <= MaxBatchBytes \/ Len(wire[k].changes) = 1

syncVars == <<gateway, wire, sending, batch, snapshot>>

\* The gateway will have what is on record when it has all that Run has taken.
InSync ==
  ReceiveAll(gateway, wire \o sending \o Updates(<<batch>>, FALSE, snapshot)).catalog = snapshot

(***************************************************************************)
(* Run, splitByByteBudget and Send neither lose, repeat nor reorder a      *)
(* change, and a replay that goes between them repeats what the gateway    *)
(* has or will have: only an update that is lost with its session, or a    *)
(* chunk of a replay that is outdated when it is sent, takes the gateway   *)
(* out of step with the snapshot.                                          *)
(***************************************************************************)
StaysInSync ==
  [][syncVars' # syncVars /\ InSync /\ ~InSync'
       => Lose \/ Break \/ End \/ (SendReplay /\ Outdated)]_vars

(***************************************************************************)
(* A replay repairs the catalog, whatever was lost before, if Run has not  *)
(* changed the snapshot since it was listed: the catalog has the snapshot  *)
(* when all that is under way has arrived, the changes included that Run   *)
(* has yet to send and the replay has therefore overtaken, and nothing     *)
(* else but what an earlier replay that was cut short had listed.          *)
(***************************************************************************)
ReplayRepairs ==
  [][TakeChecksum /\ Head(listing) \in SetToSeqs(snapshot) =>
       LET repaired == ReceiveAll(gateway, wire \o replaying' \o sending
                                             \o Updates(<<batch>>, FALSE, snapshot)).catalog
       IN /\ snapshot \subseteq repaired
          /\ \A c \in repaired \ snapshot : Key(c) \in ReceiveAll(gateway, wire).listed]_vars

(***************************************************************************)
(* What the gateway compares converges: it gets the checksum of the        *)
(* snapshot at last, whatever was lost, and as long as it has another one  *)
(* a handshake shows it and a replay follows.  The catalog is then that    *)
(* of the agent, unless an update was lost or a chunk of a replay was      *)
(* outdated after the last replay was begun, or the replay before it was   *)
(* cut short: a later update or the terminal chunk brings the checksum all *)
(* the same.                                                               *)
(***************************************************************************)
CatalogConverges ==
  <>[](/\ gateway.checksum = Checksum(snapshot)
       /\ overlooked \/ gateway.catalog = snapshot)
=============================================================================
