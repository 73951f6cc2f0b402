# inari-agent: models, checks and proofs

inari-agent runs in a tenant's Kubernetes cluster. It holds one bidirectional
event stream to the control plane's gateway, executes the commands that arrive
on it, and reports capabilities, object status and discovered add-ons back. A
second binary, the tunnel agent, relays connections of the control plane's hub to
the cluster's apiserver. This directory models the parts of both in which
concurrency, restarts and lost connections decide what is correct.

## 1. Inventory

| Component | State | Operations | Talks to |
|---|---|---|---|
| stream client (`internal/stream/client_connect.go`) | sequence number, `sendCh` (256), `events` (64), connected flag, one session with two pumps | `Send`, `Run`/`session`: handshake, callback, resync, receive pump, send pump, dead-man switch, rotation, backoff | gateway; everyone who calls `Send`; the event loop through `events`; the connection callback |
| lifecycle and event loop (`internal/controller`) | credentials in use, the state repository | `Start` (load or exchange, persist, wait for the client secret, configure, run), `dispatch`, `handleCommand`, `sendAck`, the composed connection callback | stream client, dispatcher, aggregator, streamer, scanner, readiness |
| registration (`internal/registration`) | none; a one-time token on the server, a ConfigMap and a Secret in the cluster | exchange, load, persist, poll for the secret | control plane, Kubernetes API, External Secrets Operator |
| health tracker (`internal/health`) | `armed`, `connected`, `lastDisconnect` | `SetConnected`, `Check` | connection callback, kubelet |
| dispatcher (`internal/command/dispatcher.go`) | `seen`, `connected` | `HandleEvent`, `AttachJournal`, `SetConnected` | handlers, journal |
| journal (`internal/command/journal.go`) | a ConfigMap with at most 1000 acks | `Load`, `Record` | Kubernetes API |
| command handlers (`internal/command/handlers_*.go`, `bridge.go`, `redeem.go`) | the bound state repository | one `Handle` per kind: bundles, RGD instances, secret stores and their deletion, the rebinding of the repository, applications and application sets, actions on behalf of a user | git provider, ArgoCD, renderer, credential redemption |
| git provider (`internal/git`) | branches and pull requests at the host | `CommitFiles`, `DeleteFiles`, `OpenPR` | GitHub |
| ArgoCD (`internal/argocd`) | the installation and its objects in the cluster | `Detect`, `EnsureReady`, `ApplyManifests`, upsert, API calls | Kubernetes API, ArgoCD API |
| status streamer (`internal/status/streamer.go`) | `lastSum` per object | `emit`, `emitDelete`, `Reset` | informers, stream client |
| add-on scanner (`internal/addonscan/scanner.go`) | `current`, `lastSum` | `applyLabels`, `onDelete`, `report`, `Reset`, `Run` | informers, stream client |
| capability aggregation (`internal/capability`) | the snapshot with its digests, the batch being collected, the channel of the watchers | `apply`, batches of `Run`, splitting by bytes, `ReplayFullState`, the checksum for the handshake | watchers, stream client, event loop |
| tunnel agent (`internal/tunnelagent`) | connections, send function, a session with its queue | open, data, close, byte cap, lifetime, upgrade, `ResetAll`, reconnect | hub, apiserver |
| token source, renderer, flags, charts | small or none | | |

**What is hard here.** `Send` is called from many goroutines, blocks on a bounded
channel and promises nothing about arrival. The supervisor runs a callback that
itself sends, before the goroutine exists that empties the channel. Pumps of an
ended session overlap with those of the next one on the same channels. Commands
are delivered at least once to a process that can die between the side effect,
the record in memory, the record in the journal and the ack; two pods overlap in
a rolling update, and the tenant changes the same repositories and objects.
Reports are deduplicated against a memory that concurrent goroutines check, act
on and write in separate critical sections, and that a reconnect clears. A replay
of all capabilities runs beside the incremental updates. A one-time token is
spent before its result is persisted. In the tunnel, four goroutines can end one
connection, and the end of a session waits for all of them. `PROJECT.json` lists
these hazards line by line.

**What makes the components correct.** Dispatcher: a command is executed at most
once as far as the record reaches, the reply is the recorded one, nothing runs
while the gate is closed, and every routed command is answered. Journal: no lost
update, never above its cap. Stream client: numbers are neither lost track of nor
sent twice, inbound events are not dropped, dead sessions are given up, blocked
senders get on. Reporters: what is suppressed has been sent, and what was seen is
reported. Capabilities: the snapshot follows the cluster, and the gateway's checksum
and catalog the snapshot. Start: what runs is persisted. Handlers: no write is lost, APPLIED
is true, what belongs to the tenant is left alone, and a user's action happens
once. Tunnel: sessions do not mix, the cap holds, the hub learns of every end,
and everything that was opened ends.

## 2. Modules

| Module | Models |
|---|---|
| `CommandDispatch` | event loop, dispatcher and journal of any number of pods, with the server's redelivery |
| `EventStream` | stream client with the event loop and the senders at its two channels |
| `Uplink` | what the stream client promises to the callers of `Send`; abstract |
| `StatusStream` | status streamer on top of `Uplink` |
| `AddonScan` | add-on scanner on top of `Uplink` |
| `CapabilitySync` | watchers, aggregator and replay on top of `Uplink`, with the gateway's catalog |
| `AgentLifecycle` | start of the pods: registration, credentials, client secret, readiness |
| `CommandRun` | delivery and verdict of a command as a handler sees them |
| `GitopsHandlers` | the handlers that write to git and that rebind the repository, and the git provider |
| `ArgoHandlers` | the handlers on ArgoCD, with its lifecycle and client |
| `CommandEffects` | both families of handlers on two pods, next to the tenant |
| `TunnelSession` | the tunnel agent |
| `MC…` | the sets and symmetries of the model-checking instances |
| `…_proofs` | theorems about `CommandDispatch`, `EventStream`, `StatusStream`, `AddonScan`, `CapabilitySync`, `AgentLifecycle`, `CommandEffects`, `TunnelSession` |

Composition. `EventStream` implements `Uplink` (property `ImplementsUplink`
of run `StreamOutbound`, theorem `Refinement`). `StatusStream`, `AddonScan` and `CapabilitySync` compose
their component with an instance of `Uplink` in place of the client: what they
show of the reporters holds for any client that keeps that promise.
`GitopsHandlers` and `ArgoHandlers` extend `CommandRun`, and `CommandEffects`
extends both. External to the repository, and modelled by how the code uses them,
are the gateway, the hub, GitHub, the Kubernetes and ArgoCD APIs, helm, the
External Secrets Operator, the kubelet and the tenant.

### CommandDispatch

`pc[p]` follows the event loop of pod `p` through `dispatch` and `HandleEvent`:
`Receive` (decode, look-up in `seen`), `Gate`, `Execute` (the handler, as a
verdict or a transient error), then `Record` as `JournalGet`, `JournalCreate`,
`JournalUpdate`, one step per API call, and `Reply` (`sendAck`). Each API call
can fail, and a write can fail after it took effect. `cmVer` is the ConfigMap's
resourceVersion; an update against an old one is a conflict. `Crash` drops all
state of the process, `Boot` is `AttachJournal`. `Deliver` is the gateway: it
sends what is unanswered again and may repeat what is answered. The history
variables `loaded`, `done` and `gateWasOpen` only serve the properties.

Abstractions: acks are their result; a handler's effect on git or ArgoCD is in
`CommandEffects`; a resync request is only consumed here.

### EventStream

An outbound event is its sequence number, an inbound one the number of its
arrival. `Stamp` and `Enqueue` are the two steps of `Send`. `sup` follows `Run`
and `session` on the supervisor's goroutine: `Dial` up to the sent handshake,
`HandshakeDone` with `setConnected(true)` and its callback, `CallbackReturns`,
`EmitResync`, `StartPumps`, then `SessionFails` or `RotateToken`, with which
`session` returns and its context is cancelled, `CloseGate` for Run's
`setConnected(false)`, and `Backoff`. So a transport is live before the gate is
open, and the gate is still open when it no longer is. The wait for the
handshake's answer has no timer. Every session has its own pumps (`recv`, `pump`),
which live on after the session was cancelled until they notice. `Break` makes a
transport silent or failed. The dead-man switch is the guard `DeadmanExpired`:
the server pings, so it runs out only if nothing arrives any more or if the
receive pump is stuck.

Abstractions: no durations; no shutdown; TLS, HTTP/2 and metrics are left out.

### Uplink

`wire` is what has been queued, `link` the session as its users see it,
`stragglers` the ended sessions whose pump can still swallow an event. Events
leave in order, at most once, and arrive only while the link is up; an event
whose `Send` has returned may be lost. In the refinement mapping an event in the
hands of the current pump is still on the wire while the transport is open and
gone as soon as it is not.

### StatusStream and AddonScan

`StatusStream` takes `emit` apart into the check of `lastSum`, the send and the
record, with `Reset` and everything else in between. The status mapping is
`HealthOf`, `SyncOf`, `MessageOf`; the checksum is the report itself. Informers
are created with resync period 0, so they notify only on change. `AddonScan`
does the same for `report`, which runs on the goroutines of every informer, of
`Run` and of `Reset`. helm is external: `Deploy`, `Uninstall`, `UninstallMarked`
(helm relabels the Secret before it deletes it) and `DeployUnwatched` (an upgrade
while the watch is down). In both modules `unsure` collects what the uplink lost
or a restarted control plane forgot. The comments promise that a reconnect sends
the snapshot again (agent_controller.go:155-158, streamer.go:42-43); the code does
so for the scanner only, and not always (section 3).
`Replace` in `StatusStream` is an object that is deleted and made again under the
same name while the informer does not watch: the informer, which keeps objects by
name, turns this into an update, and the handler looks at the new object only.
The old uid, another object of the model, is in `replaced`.

### CapabilitySync

The CRD watcher keeps metadata only and gets the object when it handles an event
(`HandleEvent`, whose GET may fail); the provider watcher has the object in the
event. The two stand for all watchers, which differ in the fields they map.
`Collect`, `Flush` and `SendChunk` are `Run`: `apply` to the snapshot, a batch
that ends with its size or the debounce, chunks below the byte budget.
`ReplayFullState` lists the snapshot on the event loop, `TakeChecksum` takes the
checksum in a critical section of its own, and `SendReplay` sends the chunks and
the terminal one, with everything of `Run` in between. Every update carries the
checksum that was taken before it was split. The gateway upserts and deletes,
collects the keys that a full sync lists and deletes the others at the terminal
chunk; it keeps the checksum of an incremental update and of a terminal chunk, as
the comments of `ReplayFullState` describe it, and compares it in `Handshake` with
the agent's. It may also notice a missing number and ask in the middle of a session
(`Gap`, external). A capability is its key, mode and size; the checksum of a
snapshot is the set itself (`Checksum`: no collisions). What a replay cut short has
listed stays listed at the gateway, which the code neither says nor excludes.

### AgentLifecycle

`pc[p]` follows `Start`: `Boot` (`buildLifecycle`: without a token the agent is
standalone), `Load` (an incomplete ConfigMap, `Partial`, is none), `Register`,
`Persist` (a ConfigMap that is there stays, and the pod goes on with the identity it
has), `ReadSecret`, `Configure`, then the running stream with `Connect` and
`Disconnect`. `RegisterFails` may fail before or after the control plane took the
token; `StepFails` ends the process like `Crash`. `SetConnected` is taken apart
into its three stores, and `Tick` counts the time of `Check`'s grace period. A
token can expire, and a new one can be rolled out at any time (`Reissue`).

### CommandRun, GitopsHandlers, ArgoHandlers, CommandEffects

`CommandRun` is the dispatcher as a handler sees it: `Deliver` to any pod until
there is a verdict, one command per pod at a time, `Return` of a verdict or an
error after which the command comes again, and the crash of a pod. It has no
journal, so a command may run again in every case in which `CommandDispatch`
lets it, and in some more.

`GitopsHandlers`: `Prepare` (validation, `resolveTarget`, rendering as files or a
failure), then the provider call by call: the head of the branch, the commit
built on it, the reference moved without force, for a pull request the topic
branch `inari/<command id>` and the pull request itself; for a rebind the
registration ConfigMap with its resourceVersion, then the memory. `GitFails` is a
call that fails, also after it took effect. A branch is its head and a tree of
paths; a command writes one path.

`ArgoHandlers`: `EnsureReady` (`Detect`, version skew, bundle or byo), the bundle
document by document with force, upserts as Get, Create or Update with ownership
label and resourceVersion, and the action, with the user's redeemed credential or
the static token (`Perform`: the ArgoCD API changes the Application as it is by
then, whoever owns it). What is refused before the gate (`Refused`) is told apart
from what is refused at the object itself (`Malformed`), after the bundle and the
AppProject. Versions are in skew or not.

`CommandEffects` adds the tenant: commits, merges, an ArgoCD of their own, objects
that change or lose their label. The history variable `met` collects the goals of
the command in hand that have been facts since it was delivered (`Goals`,
`Reached`): they are read from branches, pull requests, objects and bindings after
every step of anyone, and no handler sets them.

`Granted` is what the agent's Role covers. The binding is written to the journal's
namespace (`INARI_GIT_CREDS_NAMESPACE`, "inari-system" by default) and read from
the agent's own; the chart and the kustomize installation give the agent the
ConfigMaps of its own namespace only (`charts/inari-agent/templates/role.yaml`,
`config/rbac/managed_role.yaml`). An agent installed elsewhere without that
variable fails in the Get of the registration, as it does before in the load of
its journal.

### TunnelSession

`sess` is the client's session: up, resetting (`SetSend(nil)` and `ResetAll`,
connection by connection, waiting for each) or down. `late` holds the messages
that the receive goroutine of an ended session still has in hand. Per connection,
`phase` follows `runConn` (dialing, awaiting the answer to an upgrade, swapping
the writer, relaying), `pump` the inbound pump, `inq` its queue, `target` where
`connWriter` writes, `ctx` its context with the lifetime. `runConn` does not wait for
the pump, which goes on after `Unregister` until its select sees `done`; and `late`
also holds a `deliverFrame` that has found the queue full and has yet to send its
Close (`OverflowLate`). `Post` is `Handler.send`,
which drops a message when the session's queue is full. The hub uses an id once,
so that the duplicate open that `openConn` ignores does not occur.

## 3. Runs

| Run | Shows | Bounds |
|---|---|---|
| `DispatchRestart` | a command on record is not executed again (`ExecutesOnce`); nothing runs behind a closed gate (`FailClosed`); the reply is the record (`ReplyIsRecorded`); an answered command is not executed again after a crash, until a journal call fails (`IdempotentUntilApiFails`); every routed command is answered (`RoutedAnswered`) | one pod, two ids and an undecodable payload, one each of crash, API fault, handler error, lost ack, duplicate, disconnect |
| `DispatchOverlap` | two pods do not erase each other's entries (`JournalGrows`), the cap holds on every path (`JournalBounded`) | two pods, three ids, room for two entries, one API fault |
| `StreamOutbound` | `NumbersAccounted`, `SentOnce`, `OneLiveSession` (sessions do not overlap, and gate and pumps are not ahead of the callback), types, and the refinement `ImplementsUplink` | three sessions, channels of one, an informer, the callback and the event loop as senders |
| `StreamLive` | without a scanner: `InboundKept`, `ConnectedSessionEnds`, `SendReturns` | two sessions, two arrivals against a channel of one, one break, one handshake error |
| `StreamScannerWedge` | **violation** of `ConnectedSessionEnds` with a scanner | two sessions |
| `StatusDedupe` | `DedupeSound`, `SettledIsKnown`, `ChangesReported` | one object, three changes, two breaks, one restart of the control plane |
| `AddonReports` | `SnapshotFollowsHelm`, `DiscoveriesReported` | two namespaces with a release each, three helm operations, one break, one restart |
| `CapabilityReplay` | the snapshot is the cluster once events are handled (`SnapshotFollowsCluster`), no update exceeds the budget (`ChunksFit`), only loss or an outdated chunk of a replay takes the gateway out of step with the snapshot (`StaysInSync`), a replay repairs the catalog (`ReplayRepairs`), and the gateway gets the snapshot's checksum, and its catalog unless something was overlooked (`CatalogConverges`) | a CRD and a provider that come and go, neither of them ignored (what is ignored is left to the proofs), sizes 3 and 1 against a budget of 3, batches of two, channels of one, one change, one fault (a failed GET or a break) |
| `LifecycleStart` | pods that share a token run with what is persisted (`RunsArePersisted`), `/readyz` fails after the grace period and not before (`ReadinessFollows`), every pod runs or the token was spent for nothing (`EveryPodRuns`) | two pods, two tokens, a grace period of two ticks, one fault, one crash |
| `CommandEffects` | `NoLostFiles`, `AppliedIsTrue`, `OnlyBoundRepos`, `RebindSurvives`, `ActsAsUserOnce`, `TenantUntouched`, `EveryCommandConcludes` | two pods, thirteen workloads of one or two commands that get in each other's way, two repositories, paths, contents, objects and specs, a bundle of two documents, two troubles (failed calls, crashes, steps of the tenant) |
| `TunnelConns` | the cap holds for both directions (`ByteCapHolds`), all but a late Close stays in its session (`SessionIsolation`), the hub learns of every end (`EndIsTold`), session ends and connections come to an end (`TeardownEnds`, `ConnectionsEnd`) | one connection, a request with a body or an upgraded GET, queues of one and two, a cap of two chunks, two sessions |
| `TunnelUpgrade` | **violation** of `TeardownEnds` by an upgraded POST | as `TunnelConns` |

The bounds are the smallest at which the cases meet: channels of capacity one
are full as soon as anything waits, so every blocking `Send` and `emit` occurs;
three sessions let the pump of an ended one overlap with its successor and with
the one after; a third command against a journal of two entries forces an
eviction while the other pod holds a stale copy. One object is enough for
`StatusStream`, because objects share nothing but the wire, and the wire is
already full and lossy with one; connections of the tunnel share nothing but the
send queue, which one connection fills as well. Sizes 3 and 1 against a budget of
3 are a chunk that fits exactly and one that would exceed it. The workloads of
`CommandEffects` pair what conflicts: two writes to one repository, a write and
its deletion, a pull request and a direct commit, a write and a rebind, two
registrations of one object, an action on an object that is being registered.
With two troubles a command can run twice on one pod and once on the other. The
journal's namespace and the registration's are the same in that run. Faults are budgets, one per kind or one for all, so that they can
fall anywhere.

Deadlock is not checked: with used-up budgets the models stop, as an agent with
nothing to do does.

### What the violations show

* `StreamScannerWedge`: the connection callback blocks in the scanner's `Send`
  on a full channel, before pumps and dead-man switch exist.
* `TunnelUpgrade`: `runConn` sends the OpenResult before it swaps the writer. The
  hub's first frame may be written into the body pipe, which nobody reads for an
  upgrade; the writer keeps the lock that the swap needs, and `ResetAll` waits for
  the connection for ever. A GET has no body pipe and is not affected.

### What the properties exclude, and why

The following was met while modelling. It is part of the models; the property in
question names it as its exception, and `PROJECT.json` gives the lines.

* The ack enters `seen` before the journal. If `Record` fails, the redelivery is
  answered from `seen` and never journaled; after a restart the command is
  executed again (`IdempotentUntilApiFails` ends with the first failed call).
* `dispatch` has no case for the two secret-store command types although handlers
  for them are registered (`RoutedAnswered` is about routed types).
* The wait for the handshake's answer has no timer. A gateway that accepts the
  stream and says nothing holds the client for ever: `SendReturns` excludes it
  (`HandshakeHangs`), and `ConnectedSessionEnds` is about sessions that had their
  handshake, although the comment speaks of every session that falls silent.
* Stamping a number and queueing the event are two steps of `Send`. With two
  callers the gateway can see a gap in which nothing was lost, and the numbers out
  of order: `NumbersAccounted` and `SentOnce` speak of no order.
* With `MaxResyncs > 0` and both channels full, `EmitResync` waits for the event
  loop and the event loop for a pump that is started only after `EmitResync`;
  `StreamLive` has no resync requests.
* The status streamer's `Reset` clears the dedupe map but sends nothing, and
  informers without a resync period bring nothing to send. An update that was
  queued or in a pump's hands when its session ended, or that a restarted control
  plane forgot, stays missing until the object changes (`unsure`).
* The scanner's `Reset` does report, but a reporter between its `Send` and the
  record of its checksum puts the checksum back after `Reset` cleared it, and the
  report of the callback finds nothing new (`unsure` in `DiscoveriesReported`).
* `UpdateFunc` drops the old object. When an object was deleted and made again
  while its informer did not watch, the old uid is never reported MISSING and its
  dedupe entry stays (`replaced`).
* The gateway knows its catalog by a checksum that came with an update: after a
  lost update, or a chunk of a replay that was outdated when it was sent, a later
  update brings the right checksum to the wrong catalog (`overlooked`, the
  exception of `CatalogConverges`). Only a gap in the numbers can show it then.
  The checksum of a replay is taken after the listing, so that `Run` can come in
  between; and a replay that is cut short leaves keys listed that the terminal
  chunk of the next one does not remove (`ReplayRepairs` excludes both).
* A failed GET drops a capability event, and nothing brings it back
  (`unfetched`). The entry of a former version stays in the snapshot.
* Between two stores of `SetConnected`, `/readyz` may fail at once
  (`ReadinessFollows` holds between calls).
* A crash between the exchange of the token and the persisted credentials leaves
  a token that is spent (`Stranded`).
* `persistCredentials` takes a ConfigMap that has appeared in the meantime for
  success, and the pod goes on with its own identity, which is then stored nowhere.
  For this a new token must be rolled out while a pod is between register and
  persist with the last one (`hasty`), or the ConfigMap must be incomplete, which
  is absent to the load and present to the create. `RunsArePersisted` excludes
  these two.
* A pull request with nothing to propose ends in the same error each time
  (`NothingToPropose`). `EveryCommandConcludes` further supposes that calls are
  refused finitely often: a branch that does not exist, or an ArgoCD API that
  always says no, is a transient error to the code, and the command comes back
  for ever. The retry after a failed action finds the one-shot
  credential consumed and ends FAILED.
* An error of the registration's Update is taken to mean that nothing was written.
  After a lost answer the registration has the repository of a rebind that FAILED
  and memory the former one, until a restart; a rebind to the one in memory is then
  APPLIED as "no change" without a look at the registration. `OnlyBoundRepos`
  therefore speaks of repositories that were ever written to the registration, and
  `RebindSurvives` excludes a registration to which another one was ever written.
  With a Role that covers a journal in another namespace `RebindSurvives` does not
  hold, since the binding is written there and read from the agent's own.
* An ArgoCD that comes up between `Detect` and the bundle is overwritten. The label
  of an Application is checked on a copy; redeeming the credential and calling the
  ArgoCD API come later and go by the name, so that an action under way is performed
  on an Application that the tenant has taken over since (`racing`, the exceptions
  of `TenantUntouched`).
* The response that refuses an upgrade is read from a raw connection.
  `connClosingReader.Close` closes the HTTP body first, which waits for the read in
  progress, and the connection after it; a response that stalls outlives its
  context, and `ResetAll` waits (`RefusalFairness` supposes that it ends).
* The receive goroutine of a tunnel session can open a connection after
  `ResetAll` took its snapshot (`orphans`); it ends with its lifetime. A Close of a
  connection that is over may reach the next session (`SessionIsolation`).

### Fairness

* `CommandDispatch`: the event loop, booting, reconnecting and the redelivery
  of unanswered commands go on; crashes, faults and duplicates need not happen.
  The loop is one goroutine with API calls that have timeouts; the gateway
  redelivers until it has a result.
* `EventStream`: every goroutine that can take a step takes one, timers run out
  and a gateway reached over an open transport answers the handshake. Nothing
  else is assumed of it, and nothing of producers, of the network or of a
  `Send` on a silent transport, which may block until the transport fails or is
  cancelled. Rotation and handshake errors are not fair.
  `SendReturns` ends with the bound on sessions (`OutOfSessions`).
* `StatusStream`: informer handlers, reconnects and delivery over a link that is
  up go on; changes, breaks and losses are not fair.
* `CapabilitySync`: `Run`, event loop and supervisor go on, some watcher that has an
  event handles it, and what is on the wire leaves it. The supervisor's steps
  include the rotation: tokens expire, so that a quiet session ends as well and the
  next handshake compares checksums. Changes, failed GETs, breaks and the detection
  of gaps are not fair.
* `AgentLifecycle`: `Start` goes on, the kubelet restarts pods, the Secret is
  delivered. Faults, crashes, expiry and a new token are not fair.
* `CommandEffects`: a handler that has a command goes on, as every call has a
  timeout; commands without a verdict are delivered. Faults, crashes and the
  tenant are not fair.
* `TunnelSession`: goroutines go on and lifetimes expire; a cancelled or expired
  context ends dials, ordinary requests and their bodies, and reads of upgraded
  connections. Nothing is assumed of the hub. Two assumptions on the apiserver are
  separate, because the code reads there without regard to the context: it answers
  every upgrade or breaks the connection (`AnswerFairness`), and it ends the response
  with which it refuses one (`RefusalFairness`). Without either of them `TeardownEnds`
  and `ConnectionsEnd` do not hold.

## 4. Proofs

TLAPS checks the theorems for every value of the constants that satisfies the
modules' assumptions. Every safety property of the passing runs is a theorem, and
so is the type invariant of every module proved about (`TypeCorrect`).

The assumptions say that capacities and bounds are naturals, that names are
distinct and that commands are well formed. Some deserve a word:

* `CommandIds` is finite, so that the journal's entries can be counted.
* `None`, `Gone` and `NoSum` are no member of the sets they stand beside
  (`LifecycleAssumption`, `RunAssumption`, `BranchAssumption`, `SumAssumption`
  and others). They are nil, an empty string or a missing map entry, which the
  code tells apart from a value.
* `GitAssumption` and `ObjectAssumption` say of a command what the decoders and
  validators leave when they have accepted it: a write has a path, a rebind has a
  repository, a registration has at least one object.
* `BundleAssumption`: an ArgoCD that is there at the start is complete.

### CommandDispatch

* `TypeCorrect` rests on `TypeInv`: `TypeOK` alone is not inductive, because what
  `JournalUpdate` writes is `reply[p]`, which is a result only while the pod is
  recording. `Control(p)` says what holds at each point of the loop.
* `ReplyRecorded` follows from `Control`; `AtMostOnce` and `ClosedGateHolds` add
  what the history variables stand for.
* `NoLostJournalEntry` needs `SnapshotsTrue`: a copy whose version is the current
  one has the current data. Then an accepted update only adds entries below the
  cap.
* `JournalFits` rests on `TrimmedFits`: what `Update` is called with is within
  the cap, whatever was read, so that also a call that fails after it took effect
  leaves the journal within it.
* `IdempotentAcrossRestarts` assumes `LonePod` (one pod at a time, a journal,
  room for every command). `DurableInv` says that an ack in `seen` is in the
  journal or being recorded, and that an answered command is in the journal. The
  invariant breaks with the first failing API call, so the theorem is about
  `IdempotentUntilApiFails`, and no more is true (see above).

### EventStream

One inductive invariant `IInv`: the types, `Life` (which transports and pumps can
exist in which state of the supervisor, and when the gate must be open or closed), `Sending` (who can wait in `Send`), `Numbered` (no
number is in two places and none is above `seq`), and the properties
`NumbersAccounted`, `SentOnce`, `OneLiveSession`, `InboundKept`. `SentOnce` is not
inductive without `Unique`: two copies of a number in the channel would break it
two steps later. Every action has its own step; most touch few of the conjuncts,
so `NumbersMove` and `InboundMoves` name the actions that matter.

`Refinement` goes action by action. `Views` says what `Link`, `Wire` and
`Stragglers` are in each state of the supervisor. A pump that takes an event
changes nothing while its session is the current one and the transport is open,
because the event is still the first of the wire (`Prefixed`); the pump of an
ended session is a straggler that loses it. A break, a rotation or a failure ends
the link, and with it goes the event in the pump's hands. The one fact that `IInv`
lacks is `Opened`: a session that was started has a transport. As the reporters
are composed with `Uplink`, this theorem is what carries theirs over to the client
of the code.

### StatusStream

`IInv` follows the last status of an object through the places in which it can
be: `Latest` (the last notification the informer has yet to handle, the
handler's hand, or queued) and `Carried` (the last of this object on the wire, at
the control plane, or lost or forgotten). `Handling` relates the dedupe map to the
handler: a checksum on record is that of the last update queued, except between
the send and its record, when the handler has that update in hand. This is what
makes a `Reset` between the two harmless, and `SuppressedWasSent` is not inductive
without it. `SettledObjectsAreKnown` is `Latest` and `Carried` together.

### AddonScan

* `SnapshotIsHelms` needs `Follows`: the notifications of a release that are yet
  to be handled lead the snapshot from the revision on record to the one helm has.
  After the last deletion among them nothing is newer than helm's revision, and
  that revision is among them unless it is on record. `Homed` keeps the queues of
  the namespaces apart.
* `DiscoveriesAreReported` needs `Covered` and `Sent`. `Covered`: every release of
  the snapshot has been sent, or some reporter is before its collect, or holds it
  and is before its send. `Sent`: what a checksum on record is of, or is about to
  be, has been sent; so a reporter that finds its checksum there may stop. What
  has been sent never shrinks, as loss and forgetting go to `unsure`.

### CapabilitySync

`SnapshotIsTheClusters`: an object whose events have been handled is on record as
it is, or the last change about it on its way to `Run` puts it there (`Arrives`).
`Latest` adds that the last event yet to be handled tells what the object is now.
`Hidden` is inductive next to these: what is ignored is neither on record nor on
its way as an upsert (`IgnoredIsHidden`).

The other theorems speak of what folds compute: `Bytes`, `SplitByByteBudget` and
the repeated `Apply` and `Receive` of the gateway are `FoldLeft`s. The library's induction theorems take
an operator as a parameter, which the provers cannot instantiate, so induction is
done with sets: the well-foundedness of the naturals gives each set of naturals a
least member (`WFMin`), hence a set that has 0 and the successor of each of its
members is `Nat` (`NatSetInduction`), and a set of sequences that has the empty one
and is closed under `Append` is `Seq(E)` (`SeqInduction`). The iteration that
`FoldLeft` chooses is then shown to exist and to be unique (`RunIsFold`), and the
equations of the folds for the empty sequence, `Append` and `\o` follow.

* `UpdatesFitTheBudget` needs `SendInv`, inductive next to `IInv`: whatever is
  underway (about to be sent by `Run` or a replay, or on the wire) fits the
  budget and is well formed, and the snapshot is finite with one capability per
  key.
* `OnlyLossLosesStep` (an action property): the gateway is in step if its catalog
  is the snapshot when all that is under way and `Run`'s batch have arrived.
  Splitting a batch and concatenating the chunks gives the batch, so `Flush` and
  `SendChunk` change nothing; a chunk of a replay that is not outdated is sent
  ahead of `Run`'s changes and leaves a catalog that differs from the other one
  only where a change still to come decides (`Repeats`).
* `ReplaysRepair` (an action property, for a replay whose listing is still the
  snapshot when its checksum is taken) needs `FromTaken`: what `Run` has yet to send
  has led to the snapshot from some catalog. Applying it to the snapshot again
  therefore changes nothing (`ApplyTwice`), the chunks of a replay list every key of
  the snapshot (`SplitLists`, `OrderCovers`), and the terminal chunk removes the
  others.
* `TypeCorrect` is `TypeOK`, with the bounds of the channels.

### AgentLifecycle

* `RunningIsPersisted` needs `OneToken`: while tokens are rolled out one after the
  other, the token in a pod's hands is the
  manifest's or no good any more, so that the identity a pod is about to persist is
  the only one there is; and `RegistrationSpent`: the persisted identity is the one
  of the manifest's token.
* `ReadyzFollowsStream` needs `Tracking`: between two calls of `SetConnected` the
  tracker agrees with the stream and the age of the last disconnect is the length
  of the outage; during a call no time has passed since the stream changed.

### CommandEffects

The invariant has five parts that speak of different variables, so that a handler
of one kind leaves the parts of the others alone: `RunOK`, `GitOK`, `ObjectsOK`,
`InstallOK`, `OnceOK`.

* `WritesAreKept`: a commit about to be pushed was built on a head that `main` has
  had, and if `main` has it still then it has its tree (`BuiltOn`). Heads only
  grow, so an accepted `UpdateRef` changes the one file.
* `AppliedTookEffect` (an action property) needs `Evidence`: at every point of a
  handler, the goals behind it are in `met`. That a write or an upsert which found
  nothing to do, a push, a pull request that was open or a call that was made is a
  goal reached follows from the state they read or write (`BuiltOn` and the heads
  for a push; for a pull request the topic branch that carries the file).
* `BoundReposOnly`: what a pod is bound to, targets or proposes to is the
  convention's or has been written to a registration (`Named`).
* `UserActionOnce`: a pod about to act for a user has redeemed the command's
  credential, is the only one, and nobody has acted.
* `TenantIsLeftAlone` is an action property: the version that an update carries is
  that of an object that has Inari's label, if any object has it still; a pod past
  the ownership check finds the label still there, or the Application gone, or is in
  `racing` (`Owners`); and who installs next to an ArgoCD of the tenant was at it
  when that came.
* `RebindIsPersistent` assumes `Granted = {SystemNamespace}`, for any
  `JournalNamespace`, and adds `Rebound`: a pod that is bound to the new repository
  has it from the registration, or the registration has it from the pod.

### TunnelSession

`Charged` is `CapHolds`: what was relayed was charged first. `SessionsDoNotMix`
needs `Owned`: a connection belongs to the session that is up, or `ResetAll` has yet
to come to it or waits for it, or it is an orphan; so when a session is over
no `runConn` of it can post into the next one. Whoever else is late has only a Close
to send (`ClosesOnly`). `HubLearnsOfEnds` is strengthened to begin
with the cancellation (`Told`), because from there the end is no longer the
canceller's to report, and by `HubKnows`: the hub has closed what it asks the agent
to close.

### Only model-checked

* Liveness: `RoutedAnswered`, `ConnectedSessionEnds`, `SendReturns`, `ChangesReported`,
  `CatalogConverges`, `EveryPodRuns`, `EveryCommandConcludes`, `TeardownEnds`,
  `ConnectionsEnd`. Fairness and `ENABLED` are outside what the prover does.

## 5. Plan

The modules of the plan are written and the safety properties of their passing
runs are proved; every hazard of `PROJECT.json` has a property, and a note where the
property excludes a part of it. What can still be added:

1. Action properties of the proved invariants: `unsure` aside, what the control
   plane knows is replaced only by something newer; a verdict never changes.
2. The second deadlock of the supervisor (`MaxResyncs > 0`), and the other
   disagreements between comments and code in section 3, as runs of their own.

## 6. Not modelled

* The token source (OAuth2 client credentials) and the cache of the GitHub App's
  installation token: a token is fetched per session or call; its expiry appears
  as the rotation.
* Rendering of bundles and manifests, the conversions of the other capability
  sources, the cluster metadata poll, `FilterAvailable`: functions without state
  that these properties tell apart. A render is its files or a failure.
* Keepalive pings and headers of the tunnel, metrics, logging, flag and
  environment parsing, charts and scripts.
* Durations: backoff, jitter and timeouts are steps without a length. That the
  backoff delay is reset only by a token rotation is therefore outside the
  models. The one exception is the grace period of `/readyz`, in ticks.

`PROJECT.json` gives the reason for every component that is left out.
