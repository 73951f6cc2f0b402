----------------------- MODULE CommandEffects_proofs -----------------------
(***************************************************************************)
(* Proofs about CommandEffects.  The inductive invariant has a part for    *)
(* the run of commands, one for the repositories, and three for ArgoCD:    *)
(* the objects, the installation and the credentials.  Each speaks of      *)
(* variables of its own and of the pods whose handler is at a step that    *)
(* they matter to, so that a handler of one kind leaves the parts of the   *)
(* others alone.  Three results need an invariant of their own on top of   *)
(* it: Owners, Rebound and Evidence.                                       *)
(***************************************************************************)
EXTENDS CommandEffects, SequenceTheorems, TLAPS

GitLabels == {"ref", "push", "topic", "createTopic", "pushTopic", "list", "open"}

Labels ==
  GitLabels \cup {"idle", "start", "end", "persist", "install", "get", "create", "update",
                  "redeem", "call"}

\* The handler that has steps with label l takes command c.
Handles(l, c) ==
  /\ l \in GitLabels => c.kind \in {"write", "delete"}
  /\ l \in {"ref", "push"} => c.policy # "pr"
  /\ l \in GitLabels \ {"ref", "push"} => c.policy = "pr"
  /\ l = "persist" => c.kind = "rebind"
  /\ l \in {"install", "get"} => c.kind \in {"register", "invoke"}
  /\ l \in {"create", "update"} => c.kind = "register"
  /\ l \in {"redeem", "call"} => c.kind = "invoke"

(***************************************************************************)
(* The run of commands.                                                    *)
(***************************************************************************)
RunTypes ==
  /\ issued \in Workloads /\ verdict \in [issued -> {None, "APPLIED", "FAILED"}]
  /\ cmd \in [Pods -> issued \cup {None}] /\ at \in [Pods -> Labels] /\ DOMAIN local = Pods
  /\ \A p \in Pods : at[p] = "idle" <=> cmd[p] = None

RunOK == RunTypes /\ \A p \in Pods : Handles(at[p], cmd[p])

(***************************************************************************)
(* The repositories.  A commit about to be pushed was built on a head that *)
(* main has had; if main still has it then main still has its tree.        *)
(***************************************************************************)
Refs == [head : Nat, tree : Trees]
Branches == [root : Nat, head : Nat, tree : Trees, ahead : BOOLEAN]

GitTypes ==
  /\ repo \in [Pods -> Repos] /\ Named \subseteq Repos
  /\ bound \in [{SystemNamespace, JournalNamespace} -> [head : Nat, repo : Repos \cup {None}]]
  /\ main \in [Repos -> Refs] /\ ledger \in [Repos -> Trees]
  /\ topic \in [Repos -> [issued -> Branches \cup {None}]]
  /\ pr \in [Repos -> [issued -> {"none", "open", "merged"}]]

Remote ==
  /\ Convention \in Named /\ \A p \in Pods : repo[p] \in Named
  /\ \A n \in {SystemNamespace, JournalNamespace} : bound[n].repo \in Named \cup {None}
  /\ \A r \in Repos, c \in issued :
       /\ topic[r][c] # None => r \in Named /\ c.kind \in {"write", "delete"}
       /\ pr[r][c] = "open" => topic[r][c] # None
  /\ NoLostFiles

BuiltOn(base, ref) == base.head <= ref.head /\ (base.head = ref.head => base.tree = ref.tree)

PodGit(p) ==
  /\ at[p] \in GitLabels => Target(p) \in Named
  /\ at[p] = "push" => Base(p) \in Refs /\ BuiltOn(Base(p), main[Target(p)])
  /\ at[p] = "createTopic" => Base(p) \in Refs
  /\ at[p] = "pushTopic" => Base(p) \in Branches

GitOK == GitTypes /\ Remote /\ \A p \in Pods : PodGit(p)

(***************************************************************************)
(* The objects: the version that an update carries is the one of an object *)
(* that has Inari's label, if any object has it still.                     *)
(***************************************************************************)
Resources == [owner : {"inari", "tenant"}, spec : Specs, version : Nat,
              operation : Commands \cup {None}, racing : SUBSET Pods]

ObjectTypes ==
  /\ clock \in Nat
  /\ objects \in [Objects -> Resources \cup {None}]
  /\ \A o \in Objects : objects[o] # None => objects[o].version <= clock

InHand(p, n) == n \in Nat /\ n < Len(cmd[p].objects)

PodObject(p) ==
  /\ at[p] \in {"get", "create"} /\ cmd[p].kind = "register" => InHand(p, local[p])
  /\ at[p] = "update" =>
       /\ InHand(p, local[p].n)
       /\ local[p].version \in Nat /\ local[p].version <= clock
       /\ LET o == Current(p, local[p].n) IN Fresh(p, o) => Mine(objects[o])

ObjectsOK == ObjectTypes /\ \A p \in Pods : PodObject(p)

(***************************************************************************)
(* The installation: one of the tenant can be detected, and the pods that  *)
(* install next to it were at it when it came.                             *)
(***************************************************************************)
Installs == [owner : {"inari", "tenant"}, here : BOOLEAN, inSkew : BOOLEAN, docs : Nat,
             racing : SUBSET Pods]

Theirs == install # None /\ install.owner = "tenant"

PodInstall(p) ==
  at[p] = "install" => local[p] \in Nat /\ (Theirs => p \in install.racing)

InstallOK ==
  /\ install # None => install \in Installs
  /\ Theirs => install.docs >= ServerDoc
  /\ \A p \in Pods : PodInstall(p)

(***************************************************************************)
(* The credentials: a pod about to act for a user has redeemed the         *)
(* credential of the command, is the only one, and nobody has acted.       *)
(***************************************************************************)
Acts(p, c) == at[p] = "call" /\ cmd[p] = c

OnceOK ==
  /\ redeemed \subseteq issued /\ calls \in [issued -> Seq({"user", "static"})]
  /\ \A c \in issued : c.kind = "invoke" /\ c.user =>
       /\ calls[c] \in {<<>>, <<"user">>}
       /\ calls[c] # <<>> => c \in redeemed
       /\ \A p \in Pods : Acts(p, c) =>
            c \in redeemed /\ calls[c] = <<>> /\ \A q \in Pods : Acts(q, c) => q = p

IInv == RunOK /\ GitOK /\ ObjectsOK /\ InstallOK /\ OnceOK

----------------------------------------------------------------------------
(***************************************************************************)
(* The run of commands.                                                    *)
(***************************************************************************)
\* Only pod p has moved.
OnlyPod(p) ==
  /\ UNCHANGED issued
  /\ \A q \in Pods \ {p} : cmd'[q] = cmd[q] /\ at'[q] = at[q] /\ local'[q] = local[q]

LEMMA LeaveMoves ==
  ASSUME RunTypes, NEW p \in Pods, Leave(p), UNCHANGED issued
  PROVE  OnlyPod(p) /\ at'[p] = "idle"
  BY DEF RunTypes, Leave, OnlyPod

\* A pod that leaves its command; the server's verdicts may have changed.
LEMMA LeaveRun ==
  ASSUME RunOK, NEW p \in Pods, Leave(p), UNCHANGED issued,
         verdict' \in [issued -> {None, "APPLIED", "FAILED"}]
  PROVE  RunOK'
  <1>1. RunTypes'
    BY DEF RunOK, RunTypes, Leave, Labels
  <1>2. OnlyPod(p) /\ at'[p] = "idle"
    BY LeaveMoves DEF RunOK
  <1>3. ASSUME NEW q \in Pods PROVE Handles(at[q], cmd[q])'
    <2>1. CASE q = p
      BY <1>2, <2>1 DEF Handles, GitLabels
    <2>2. CASE q # p
      BY <1>2, <2>2 DEF OnlyPod, RunOK, Handles
    <2> QED BY <2>1, <2>2
  <1> QED BY <1>1, <1>3 DEF RunOK

LEMMA ReturnRun ==
  ASSUME RunOK, NEW p \in Pods, NEW v \in {"APPLIED", "FAILED"}, Return(p, v), at[p] # "idle"
  PROVE  RunOK'
  <1>1. cmd[p] \in issued /\ verdict \in [issued -> {None, "APPLIED", "FAILED"}]
    BY DEF RunOK, RunTypes
  <1>2. verdict' = [verdict EXCEPT ![cmd[p]] = IF @ = None THEN v ELSE @]
    BY DEF Return
  <1>3. verdict' \in [issued -> {None, "APPLIED", "FAILED"}]
    BY <1>1, <1>2
  <1> QED BY <1>3, LeaveRun DEF Return

LEMMA TransientRun ==
  ASSUME RunOK, NEW p \in Pods, Transient(p), at[p] # "idle"
  PROVE  RunOK'
  BY LeaveRun DEF Transient, RunOK, RunTypes

LEMMA CrashRunOK == ASSUME RunOK, NEW p \in Pods, CrashRun(p) PROVE RunOK'
  BY LeaveRun DEF CrashRun, RunOK, RunTypes

LEMMA DeliverRun ==
  ASSUME RunOK, NEW p \in Pods, NEW c \in issued, Deliver(p, c)
  PROVE  RunOK' /\ OnlyPod(p) /\ at'[p] = "start"
  <1>1. c # None
    BY RunAssumption DEF RunOK, RunTypes
  <1>2. RunTypes' /\ OnlyPod(p) /\ at'[p] = "start"
    BY <1>1 DEF Deliver, RunOK, RunTypes, OnlyPod, Labels
  <1>3. ASSUME NEW q \in Pods PROVE Handles(at[q], cmd[q])'
    <2>1. CASE q = p
      BY <1>2, <2>1 DEF Handles, GitLabels
    <2>2. CASE q # p
      BY <1>2, <2>2 DEF OnlyPod, RunOK, Handles
    <2> QED BY <2>1, <2>2
  <1> QED BY <1>2, <1>3 DEF RunOK

LEMMA TenantActsRun ==
  ASSUME RunOK, TenantActs
  PROVE  RunOK' /\ UNCHANGED <<issued, cmd, at, local>>
  BY DEF TenantActs, RunOK, RunTypes, Handles

----------------------------------------------------------------------------
(***************************************************************************)
(* What the steps of the handlers do to the run: the pod goes on to a step *)
(* of its handler, or it is done with it.                                  *)
(***************************************************************************)
Moves(p, l, x) == OnlyPod(p) /\ cmd' = cmd /\ at'[p] = l /\ local'[p] = x

Rests(p) == OnlyPod(p) /\ at'[p] \in {"idle", "start", "end"}

LEMMA GotoMoves ==
  ASSUME RunOK, NEW p \in Pods, NEW l \in Labels, NEW x, Goto(p, l, x),
         at[p] # "idle", l # "idle", Handles(l, cmd[p])
  PROVE  RunOK' /\ Moves(p, l, x)
  <1>1. RunTypes /\ cmd[p] \in issued
    BY DEF RunOK, RunTypes
  <1>2. OnlyPod(p) /\ cmd' = cmd /\ at'[p] = l /\ local'[p] = x
    BY <1>1 DEF RunTypes, Goto, OnlyPod
  <1>3. RunTypes'
    BY <1>1, <1>2 DEF Goto, RunTypes
  <1>4. ASSUME NEW q \in Pods PROVE Handles(at[q], cmd[q])'
    <2>1. CASE q = p
      BY <1>2, <2>1 DEF Handles
    <2>2. CASE q # p
      BY <1>2, <2>2 DEF OnlyPod, RunOK, Handles
    <2> QED BY <2>1, <2>2
  <1> QED BY <1>2, <1>3, <1>4 DEF RunOK, Moves

LEMMA SucceedRests ==
  ASSUME RunOK, NEW p \in Pods, Succeed(p), at[p] # "idle"
  PROVE  RunOK' /\ Rests(p)
  <1>1. Handles("end", cmd[p]) /\ "end" \in Labels
    BY DEF Handles, GitLabels, Labels
  <1>2. Goto(p, "end", None)
    BY DEF Succeed
  <1> QED BY <1>1, <1>2, GotoMoves DEF Rests, Moves

LEMMA FailedRests ==
  ASSUME RunOK, NEW p \in Pods, Failed(p), at[p] # "idle"
  PROVE  RunOK' /\ Rests(p)
  <1>1. RunOK'
    BY ReturnRun DEF Failed
  <1> QED BY <1>1, LeaveMoves DEF Failed, Return, Rests, RunOK

LEMMA TransientRests ==
  ASSUME RunOK, NEW p \in Pods, Transient(p), at[p] # "idle"
  PROVE  RunOK' /\ Rests(p)
  <1>1. RunOK'
    BY TransientRun
  <1> QED BY <1>1, LeaveMoves DEF Transient, Rests, RunOK

LEMMA RecordRests == ASSUME RunOK, NEW p \in Pods, Record(p) PROVE RunOK' /\ Rests(p)
  <1>1. RunOK'
    BY ReturnRun DEF Record
  <1> QED BY <1>1, LeaveMoves DEF Record, Return, Rests, RunOK

LEMMA CrashRests == ASSUME RunOK, NEW p \in Pods, CrashRun(p) PROVE RunOK' /\ Rests(p)
  BY CrashRunOK, LeaveMoves DEF CrashRun, Rests, RunOK

LEMMA DeliverRests ==
  ASSUME RunOK, NEW p \in Pods, NEW c \in issued, Deliver(p, c) PROVE RunOK' /\ Rests(p)
  BY DeliverRun DEF Rests

LEMMA PrepareMoves ==
  ASSUME RunOK, NEW p \in Pods, Prepare(p)
  PROVE  /\ RunOK'
         /\ Rests(p) \/ \E l \in {"topic", "ref"} : Moves(p, l, [target |-> repo[p]])
  <1> DEFINE c == cmd[p]
             r == ResolveTarget(p, c)
             l == IF c.policy = "pr" THEN "topic" ELSE "ref"
  <1>1. /\ at[p] = "start" /\ c.kind \in {"write", "delete"}
        /\ Failed(p) \/ (r # None /\ Goto(p, l, [target |-> r]))
    BY DEF Prepare
  <1>2. CASE Failed(p)
    BY <1>1, <1>2, FailedRests
  <1>3. CASE r # None /\ Goto(p, l, [target |-> r])
    <2>1. r = repo[p]
      BY <1>3 DEF ResolveTarget
    <2>2. l \in {"topic", "ref"} /\ l \in Labels /\ Handles(l, c)
      BY <1>1 DEF Labels, GitLabels, Handles
    <2>3. l # "idle" /\ l # "end"
      OBVIOUS
    <2> HIDE DEF l, r
    <2> QED BY <1>1, <1>3, <2>1, <2>2, <2>3, GotoMoves
  <1> QED BY <1>1, <1>2, <1>3

LEMMA GetRefMoves ==
  ASSUME RunOK, NEW p \in Pods, GetRef(p)
  PROVE  RunOK' /\ (Rests(p) \/ Moves(p, "push", On(p, main[Target(p)])))
  <1>1. at[p] = "ref" /\ (Succeed(p) \/ Goto(p, "push", On(p, main[Target(p)])))
    BY DEF GetRef
  <1>2. Handles("push", cmd[p]) /\ "push" \in Labels
    BY <1>1 DEF RunOK, Handles, Labels, GitLabels
  <1> QED BY <1>1, <1>2, SucceedRests, GotoMoves

LEMMA UpdateRefRests == ASSUME RunOK, NEW p \in Pods, UpdateRef(p) PROVE RunOK' /\ Rests(p)
  <1>1. at[p] = "push" /\ (Succeed(p) \/ Transient(p))
    BY DEF UpdateRef
  <1> QED BY <1>1, SucceedRests, TransientRests

LEMMA GetTopicMoves ==
  ASSUME RunOK, NEW p \in Pods, GetTopic(p)
  PROVE  /\ RunOK'
         /\ \/ Moves(p, "createTopic", On(p, main[Target(p)]))
            \/ /\ topic[Target(p)][cmd[p]] # None
               /\ Moves(p, "pushTopic", On(p, topic[Target(p)][cmd[p]]))
  <1>1. /\ at[p] = "topic"
        /\ \/ Goto(p, "createTopic", On(p, main[Target(p)]))
           \/ /\ topic[Target(p)][cmd[p]] # None
              /\ Goto(p, "pushTopic", On(p, topic[Target(p)][cmd[p]]))
    BY DEF GetTopic
  <1>2. /\ Handles("createTopic", cmd[p]) /\ "createTopic" \in Labels
        /\ Handles("pushTopic", cmd[p]) /\ "pushTopic" \in Labels
    BY <1>1 DEF RunOK, Handles, Labels, GitLabels
  <1> QED BY <1>1, <1>2, GotoMoves

\* The branch that CreateRef makes.
NewBranch(p) == [root |-> Base(p).head, head |-> 0, tree |-> Base(p).tree, ahead |-> FALSE]

LEMMA CreateTopicMoves ==
  ASSUME RunOK, NEW p \in Pods, CreateTopic(p)
  PROVE  /\ RunOK' /\ at[p] = "createTopic"
         /\ \/ /\ topic' = [topic EXCEPT ![Target(p)][cmd[p]] = NewBranch(p)]
               /\ Moves(p, "pushTopic", On(p, NewBranch(p)))
            \/ Rests(p) /\ UNCHANGED topic
  <1>1. /\ at[p] = "createTopic"
        /\ \/ /\ topic' = [topic EXCEPT ![Target(p)][cmd[p]] = NewBranch(p)]
              /\ Goto(p, "pushTopic", On(p, NewBranch(p)))
           \/ Transient(p) /\ UNCHANGED topic
    BY DEF CreateTopic, NewBranch
  <1>2. Handles("pushTopic", cmd[p]) /\ "pushTopic" \in Labels
    BY <1>1 DEF RunOK, Handles, Labels, GitLabels
  <1> QED BY <1>1, <1>2, GotoMoves, TransientRests

LEMMA PushTopicMoves ==
  ASSUME RunOK, NEW p \in Pods, PushTopic(p)
  PROVE  LET t == topic[Target(p)][cmd[p]] IN
         /\ RunOK' /\ at[p] = "pushTopic"
         /\ Rests(p) \/ Moves(p, "list", [target |-> Target(p)])
         /\ \/ UNCHANGED topic
            \/ /\ t # None
               /\ topic' = [topic EXCEPT ![Target(p)][cmd[p]] =
                              [Pushed(t, p) EXCEPT !.ahead = TRUE]]
  <1> DEFINE t == topic[Target(p)][cmd[p]]
  <1>1. /\ at[p] = "pushTopic"
        /\ Transient(p) \/ Goto(p, "list", [target |-> Target(p)])
        /\ \/ UNCHANGED topic
           \/ /\ t # None
              /\ topic' = [topic EXCEPT ![Target(p)][cmd[p]] =
                             [Pushed(t, p) EXCEPT !.ahead = TRUE]]
    BY DEF PushTopic
  <1>2. Handles("list", cmd[p]) /\ "list" \in Labels
    BY <1>1 DEF RunOK, Handles, Labels, GitLabels
  <1>3. RunOK' /\ (Rests(p) \/ Moves(p, "list", [target |-> Target(p)]))
    BY <1>1, <1>2, GotoMoves, TransientRests
  <1> QED BY <1>1, <1>3

LEMMA ListPRsMoves ==
  ASSUME RunOK, NEW p \in Pods, ListPRs(p)
  PROVE  RunOK' /\ at[p] = "list" /\ (Rests(p) \/ Moves(p, "open", local[p]))
  <1>1. at[p] = "list" /\ (Succeed(p) \/ Goto(p, "open", local[p]))
    BY DEF ListPRs
  <1>2. Handles("open", cmd[p]) /\ "open" \in Labels
    BY <1>1 DEF RunOK, Handles, Labels, GitLabels
  <1> QED BY <1>1, <1>2, GotoMoves, SucceedRests

LEMMA CreatePRRests == ASSUME RunOK, NEW p \in Pods, CreatePR(p) PROVE RunOK' /\ Rests(p)
  <1>1. at[p] = "open" /\ (Succeed(p) \/ Transient(p))
    BY DEF CreatePR
  <1> QED BY <1>1, SucceedRests, TransientRests

LEMMA GitFailsRests == ASSUME RunOK, NEW p \in Pods, GitFails(p) PROVE RunOK' /\ Rests(p)
  <1>1. at[p] # "idle" /\ Transient(p)
    BY DEF GitFails
  <1> QED BY <1>1, TransientRests

LEMMA RebindMoves ==
  ASSUME RunOK, NEW p \in Pods, Rebind(p)
  PROVE  RunOK' /\ (Rests(p) \/ \E x : Moves(p, "persist", x))
  <1>1. /\ at[p] = "start" /\ cmd[p].kind = "rebind"
        /\ \/ Failed(p) \/ Succeed(p)
           \/ Goto(p, "persist", [base |-> bound[JournalNamespace]])
    BY DEF Rebind
  <1>2. Handles("persist", cmd[p]) /\ "persist" \in Labels
    BY <1>1 DEF Handles, Labels, GitLabels
  <1> QED BY <1>1, <1>2, GotoMoves, SucceedRests, FailedRests

LEMMA PersistBindingRests ==
  ASSUME RunOK, NEW p \in Pods, PersistBinding(p) PROVE RunOK' /\ Rests(p)
  <1>1. at[p] = "persist" /\ (Succeed(p) \/ Failed(p))
    BY DEF PersistBinding
  <1> QED BY <1>1, SucceedRests, FailedRests

LEMMA EnsureReadyMoves ==
  ASSUME RunOK, NEW p \in Pods, EnsureReady(p)
  PROVE  /\ RunOK' /\ at[p] = "start"
         /\ \/ Rests(p) \/ Moves(p, "get", 0)
            \/ ~Detected /\ Moves(p, "install", 0)
  <1>1. /\ at[p] = "start" /\ cmd[p].kind \in {"register", "invoke"}
        /\ \/ Failed(p) \/ Goto(p, "get", 0)
           \/ ~Detected /\ Goto(p, "install", 0)
    BY DEF EnsureReady
  <1>2. \A l \in {"get", "install"} : Handles(l, cmd[p]) /\ l \in Labels
    BY <1>1 DEF Handles, Labels, GitLabels
  <1> QED BY <1>1, <1>2, GotoMoves, FailedRests

LEMMA ApplyManifestsMoves ==
  ASSUME RunOK, NEW p \in Pods, ApplyManifests(p)
  PROVE  /\ RunOK' /\ at[p] = "install"
         /\ \/ install' = WithDoc(local[p] + 1) /\ Moves(p, "install", local[p] + 1)
            \/ UNCHANGED install /\ (Rests(p) \/ Moves(p, "get", 0))
  <1>1. /\ at[p] = "install"
        /\ \/ install' = WithDoc(local[p] + 1) /\ Goto(p, "install", local[p] + 1)
           \/ UNCHANGED install /\ (Failed(p) \/ Goto(p, "get", 0))
    BY DEF ApplyManifests
  <1>2. \A l \in {"get", "install"} : Handles(l, cmd[p]) /\ l \in Labels
    BY <1>1 DEF RunOK, Handles, Labels, GitLabels
  <1> QED BY <1>1, <1>2, GotoMoves, FailedRests

\* The handler is done with object n of its command.
NextObject(p, n) == Rests(p) \/ (n + 1 # Len(cmd[p].objects) /\ Moves(p, "get", n + 1))

LEMMA UpsertedMoves ==
  ASSUME RunOK, NEW p \in Pods, NEW n, Upserted(p, n) \/ Failed(p),
         at[p] \in {"get", "create", "update"}
  PROVE  RunOK' /\ NextObject(p, n)
  <1>1. \/ Failed(p) \/ Succeed(p)
        \/ n + 1 # Len(cmd[p].objects) /\ Goto(p, "get", n + 1)
    BY DEF Upserted
  <1>2. Handles("get", cmd[p]) /\ "get" \in Labels /\ at[p] # "idle"
    BY DEF RunOK, Handles, Labels, GitLabels
  <1>3. CASE n + 1 # Len(cmd[p].objects) /\ Goto(p, "get", n + 1)
    BY <1>2, <1>3, GotoMoves DEF NextObject
  <1> QED BY <1>1, <1>2, <1>3, SucceedRests, FailedRests DEF NextObject

LEMMA GetObjectMoves ==
  ASSUME RunOK, NEW p \in Pods, GetObject(p)
  PROVE  LET n == local[p]
             o == objects[Current(p, n)]
         IN /\ RunOK' /\ at[p] = "get" /\ cmd[p].kind = "register"
            /\ \/ NextObject(p, n) \/ Moves(p, "create", n)
               \/ o # None /\ Mine(o) /\ Moves(p, "update", [n |-> n, version |-> o.version])
  <1> DEFINE n == local[p]
             o == objects[Current(p, n)]
  <1>1. /\ at[p] = "get" /\ cmd[p].kind = "register"
        /\ \/ Upserted(p, n) \/ Failed(p) \/ Goto(p, "create", n)
           \/ o # None /\ Mine(o) /\ Goto(p, "update", [n |-> n, version |-> o.version])
    BY DEF GetObject
  <1>2. \A l \in {"create", "update"} : Handles(l, cmd[p]) /\ l \in Labels
    BY <1>1 DEF Handles, Labels, GitLabels
  <1> HIDE DEF n, o
  <1>3. CASE Upserted(p, n) \/ Failed(p)
    <2>1. RunOK' /\ NextObject(p, n)
      BY <1>1, <1>3, UpsertedMoves
    <2> QED BY <1>1, <2>1 DEF n, o
  <1>4. CASE Goto(p, "create", n)
    <2>1. RunOK' /\ Moves(p, "create", n)
      BY <1>1, <1>2, <1>4, GotoMoves
    <2> QED BY <1>1, <2>1 DEF n, o
  <1>5. CASE o # None /\ Mine(o) /\ Goto(p, "update", [n |-> n, version |-> o.version])
    <2>1. RunOK' /\ Moves(p, "update", [n |-> n, version |-> o.version])
      BY <1>1, <1>2, <1>5, GotoMoves
    <2> QED BY <1>1, <1>5, <2>1 DEF n, o
  <1> QED BY <1>1, <1>3, <1>4, <1>5

LEMMA CreateObjectMoves ==
  ASSUME RunOK, NEW p \in Pods, CreateObject(p)
  PROVE  LET o == Current(p, local[p])
         IN /\ RunOK' /\ at[p] = "create" /\ NextObject(p, local[p])
            /\ \/ UNCHANGED <<objects, clock>>
               \/ /\ objects[o] = None
                  /\ WriteObject(o, Made("inari", cmd[p].spec, clock'))
  <1> DEFINE o == Current(p, local[p])
  <1>1. /\ at[p] = "create" /\ (Upserted(p, local[p]) \/ Failed(p))
        /\ \/ UNCHANGED <<objects, clock>>
           \/ /\ objects[o] = None
              /\ WriteObject(o, Made("inari", cmd[p].spec, clock'))
    BY DEF CreateObject
  <1>2. RunOK' /\ NextObject(p, local[p])
    BY <1>1, UpsertedMoves
  <1> QED BY <1>1, <1>2

LEMMA UpdateObjectMoves ==
  ASSUME RunOK, NEW p \in Pods, UpdateObject(p)
  PROVE  LET o == Current(p, local[p].n)
         IN /\ RunOK' /\ at[p] = "update" /\ NextObject(p, local[p].n)
            /\ \/ UNCHANGED <<objects, clock>>
               \/ /\ Fresh(p, o)
                  /\ WriteObject(o, [objects[o] EXCEPT !.spec = cmd[p].spec, !.version = clock'])
  <1> DEFINE o == Current(p, local[p].n)
  <1>1. /\ at[p] = "update" /\ (Upserted(p, local[p].n) \/ Failed(p))
        /\ \/ UNCHANGED <<objects, clock>>
           \/ /\ Fresh(p, o)
              /\ WriteObject(o, [objects[o] EXCEPT !.spec = cmd[p].spec, !.version = clock'])
    BY DEF UpdateObject
  <1>2. RunOK' /\ NextObject(p, local[p].n)
    BY <1>1, UpsertedMoves
  <1> QED BY <1>1, <1>2

LEMMA CheckOwnerMoves ==
  ASSUME RunOK, NEW p \in Pods, CheckOwner(p)
  PROVE  /\ RunOK'
         /\ \/ Rests(p) \/ Moves(p, "redeem", None)
            \/ ~cmd[p].user /\ Moves(p, "call", None)
  <1>1. /\ at[p] = "get" /\ cmd[p].kind = "invoke"
        /\ Failed(p) \/ Goto(p, IF cmd[p].user THEN "redeem" ELSE "call", None)
    BY DEF CheckOwner
  <1>2. \A l \in {"redeem", "call"} : Handles(l, cmd[p]) /\ l \in Labels
    BY <1>1 DEF Handles, Labels, GitLabels
  <1>3. CASE Failed(p)
    BY <1>1, <1>3, FailedRests
  <1>4. CASE ~Failed(p) /\ cmd[p].user
    BY <1>1, <1>2, <1>4, GotoMoves
  <1>5. CASE ~Failed(p) /\ ~cmd[p].user
    BY <1>1, <1>2, <1>5, GotoMoves
  <1> QED BY <1>3, <1>4, <1>5

LEMMA RedeemMoves ==
  ASSUME RunOK, NEW p \in Pods, Redeem(p)
  PROVE  /\ RunOK' /\ at[p] = "redeem"
         /\ \/ Rests(p) /\ redeemed' \in {redeemed, redeemed \cup {cmd[p]}}
            \/ /\ cmd[p] \notin redeemed /\ redeemed' = redeemed \cup {cmd[p]}
               /\ Moves(p, "call", None)
  <1>1. /\ at[p] = "redeem"
        /\ \/ /\ Failed(p) \/ Transient(p)
              /\ redeemed' \in {redeemed, redeemed \cup {cmd[p]}}
           \/ /\ cmd[p] \notin redeemed /\ redeemed' = redeemed \cup {cmd[p]}
              /\ Goto(p, "call", None)
    BY DEF Redeem
  <1>2. Handles("call", cmd[p]) /\ "call" \in Labels
    BY <1>1 DEF RunOK, Handles, Labels, GitLabels
  <1> QED BY <1>1, <1>2, GotoMoves, FailedRests, TransientRests

\* With the token of the user, or with the static one.
TokenOf(c) == IF c.user THEN "user" ELSE "static"

LEMMA InvokeMoves ==
  ASSUME RunOK, NEW p \in Pods, Invoke(p)
  PROVE  /\ RunOK' /\ at[p] = "call" /\ Rests(p)
         /\ UNCHANGED <<objects, clock, calls>> \/ Perform(p)
  <1>1. /\ at[p] = "call" /\ (Failed(p) \/ Succeed(p) \/ Transient(p))
        /\ UNCHANGED <<objects, clock, calls>> \/ Perform(p)
    BY DEF Invoke
  <1>2. RunOK' /\ Rests(p)
    BY <1>1, FailedRests, SucceedRests, TransientRests
  <1> QED BY <1>1, <1>2

----------------------------------------------------------------------------
(***************************************************************************)
(* The repositories.                                                       *)
(***************************************************************************)
USE DEF Named

\* Pod q has not moved.
Still(q) == cmd'[q] = cmd[q] /\ at'[q] = at[q] /\ local'[q] = local[q]

\* A branch that changes gets a head that it has not had.
MainGrows == \A r \in Repos : main'[r] = main[r] \/ main'[r].head > main[r].head

\* What a pod in the middle of a command relies on outlives other steps.
LEMMA PodGitKept ==
  ASSUME GitOK, GitTypes', Named \subseteq Named', MainGrows, NEW q \in Pods, Still(q)
  PROVE  PodGit(q)'
  <1>1. PodGit(q) /\ Target(q)' = Target(q) /\ Base(q)' = Base(q) /\ at'[q] = at[q]
    BY DEF GitOK, Still, Target, Base
  <1>2. ASSUME at[q] = "push" PROVE BuiltOn(Base(q), main[Target(q)])'
    <2>1. /\ Target(q) \in Repos /\ BuiltOn(Base(q), main[Target(q)]) /\ Base(q).head \in Nat
      BY <1>1, <1>2 DEF PodGit, GitOK, GitTypes, GitLabels, Refs
    <2>2. main[Target(q)].head \in Nat /\ main'[Target(q)].head \in Nat
      BY <2>1 DEF GitOK, GitTypes, Refs
    <2> QED BY <1>1, <2>1, <2>2 DEF BuiltOn, MainGrows
  <1> QED BY <1>1, <1>2 DEF PodGit

\* The same, when nothing of git changes.
LEMMA GitStays ==
  ASSUME GitOK, NEW p \in Pods, OnlyPod(p), PodGit(p)', UNCHANGED gitVars
  PROVE  GitOK'
  <1>1. GitTypes' /\ Remote'
    BY DEF gitVars, GitOK, GitTypes, Remote, NoLostFiles, OnlyPod
  <1>2. MainGrows /\ Named \subseteq Named' /\ \A q \in Pods \ {p} : Still(q)
    BY DEF gitVars, MainGrows, OnlyPod, Still
  <1> QED BY <1>1, <1>2, PodGitKept DEF GitOK

LEMMA GitChanges ==
  ASSUME GitOK, NEW p \in Pods, OnlyPod(p), PodGit(p)', GitTypes', Remote',
         Named \subseteq Named', MainGrows
  PROVE  GitOK'
  <1>1. \A q \in Pods \ {p} : Still(q)
    BY DEF OnlyPod, Still
  <1> QED BY <1>1, PodGitKept DEF GitOK

LEMMA GitRests == ASSUME NEW p \in Pods, Rests(p) PROVE PodGit(p)'
  BY DEF Rests, PodGit, GitLabels

LEMMA GitElsewhere ==
  ASSUME GitOK, NEW p \in Pods, OnlyPod(p), UNCHANGED gitVars,
         at'[p] \notin GitLabels
  PROVE  GitOK'
  <1>1. PodGit(p)'
    BY DEF PodGit, GitLabels
  <1> QED BY <1>1, GitStays

LEMMA PrepareGit == ASSUME RunOK, GitOK, NEW p \in Pods, Prepare(p) PROVE GitOK'
  <1>1. UNCHANGED gitVars
    BY DEF Prepare
  <1>2. CASE Rests(p)
    BY <1>1, <1>2, GitRests, GitStays DEF Rests
  <1>3. CASE \E l \in {"topic", "ref"} : Moves(p, l, [target |-> repo[p]])
    <2>1. Target(p)' \in Named' /\ at'[p] \in {"topic", "ref"}
      BY <1>1, <1>3 DEF Moves, Target, gitVars, GitOK, Remote
    <2>2. PodGit(p)'
      BY <2>1 DEF PodGit
    <2> QED BY <1>1, <1>3, <2>2, GitStays DEF Moves
  <1> QED BY <1>2, <1>3, PrepareMoves

LEMMA GetRefGit == ASSUME RunOK, GitOK, NEW p \in Pods, GetRef(p) PROVE GitOK'
  <1>1. UNCHANGED gitVars /\ at[p] = "ref"
    BY DEF GetRef
  <1>2. CASE Rests(p)
    BY <1>1, <1>2, GitRests, GitStays DEF Rests
  <1>3. CASE Moves(p, "push", On(p, main[Target(p)]))
    <2>1. Target(p) \in Named /\ main[Target(p)] \in Refs
      BY <1>1 DEF GitOK, PodGit, GitTypes, GitLabels
    <2>2. Target(p)' = Target(p) /\ Base(p)' = main[Target(p)] /\ at'[p] = "push"
      BY <1>3 DEF Moves, On, Target, Base
    <2>3. BuiltOn(Base(p), main[Target(p)])'
      BY <1>1, <2>1, <2>2 DEF BuiltOn, Refs, gitVars
    <2>4. PodGit(p)'
      BY <1>1, <2>1, <2>2, <2>3 DEF PodGit, gitVars
    <2> QED BY <1>1, <1>3, <2>4, GitStays DEF Moves
  <1> QED BY <1>2, <1>3, GetRefMoves

\* Overlay puts a file of the command into a tree.
LEMMA OverlayTree ==
  ASSUME NEW t \in Trees, NEW c \in Commands, c.kind \in {"write", "delete"}
  PROVE  Overlay(t, c) \in Trees
  BY GitAssumption DEF Overlay, Trees

LEMMA IssuedCommands == ASSUME RunOK PROVE issued \subseteq Commands
  BY RunAssumption DEF RunOK, RunTypes

LEMMA RefPushed ==
  ASSUME NEW b \in Refs, NEW t \in Trees
  PROVE  /\ [b EXCEPT !.head = @ + 1, !.tree = t] \in Refs
         /\ [b EXCEPT !.head = @ + 1, !.tree = t].tree = t
         /\ [b EXCEPT !.head = @ + 1, !.tree = t].head = b.head + 1
  <1>1. b.head \in Nat /\ b.head + 1 \in Nat
    BY DEF Refs
  <1>2. [b EXCEPT !.head = @ + 1] \in Refs /\ [b EXCEPT !.head = @ + 1].head = b.head + 1
    BY <1>1 DEF Refs
  <1> QED BY <1>2 DEF Refs

\* The commit in hand is one on top of the head: its tree is the tree of the
\* branch, with the file of the command.
LEMMA UpdateRefGit == ASSUME RunOK, GitOK, NEW p \in Pods, UpdateRef(p) PROVE GitOK'
  <1>1. /\ at[p] = "push" /\ UNCHANGED <<repo, bound, topic, pr, rebound>>
        /\ \/ UNCHANGED <<main, ledger>>
           \/ FastForward(main[Target(p)].head, p) /\ UpdateMain(p)
    BY DEF UpdateRef
  <1>2. OnlyPod(p) /\ PodGit(p)' /\ issued' = issued
    BY UpdateRefRests, GitRests DEF Rests, OnlyPod
  <1>3. CASE UNCHANGED <<main, ledger>>
    BY <1>1, <1>2, <1>3, GitStays DEF gitVars
  <1>4. CASE FastForward(main[Target(p)].head, p) /\ UpdateMain(p)
    <2> DEFINE r == Target(p)
               c == cmd[p]
               tree == Overlay(main[r].tree, c)
    <2>1. /\ r \in Repos /\ Base(p).tree = main[r].tree /\ main[r] \in Refs
          /\ ledger[r] = main[r].tree
      BY <1>1, <1>4 DEF GitOK, PodGit, BuiltOn, GitTypes, GitLabels, FastForward, Refs, Remote,
                        NoLostFiles
    <2>2. c \in Commands /\ c.kind \in {"write", "delete"}
      BY <1>1, IssuedCommands DEF RunOK, RunTypes, Handles, GitLabels
    <2>3. tree \in Trees
      BY <2>1, <2>2, OverlayTree DEF Refs
    <2>4. /\ main' = [main EXCEPT ![r] = [main[r] EXCEPT !.head = @ + 1, !.tree = tree]]
          /\ ledger' = [ledger EXCEPT ![r] = tree]
      BY <1>4, <2>1 DEF UpdateMain, Pushed
    <2> HIDE DEF r, c, tree
    <2>5. /\ main' \in [Repos -> Refs] /\ ledger' \in [Repos -> Trees]
          /\ main'[r].tree = tree /\ ledger'[r] = tree
          /\ main'[r].head = main[r].head + 1
          /\ \A s \in Repos \ {r} : main'[s] = main[s] /\ ledger'[s] = ledger[s]
      <3> DEFINE new == [main[r] EXCEPT !.head = @ + 1, !.tree = tree]
      <3>1. new \in Refs /\ new.tree = tree /\ new.head = main[r].head + 1
        BY <2>1, <2>3, RefPushed
      <3>2. main' = [main EXCEPT ![r] = new]
        BY <2>4
      <3> HIDE DEF new
      <3>3. main \in [Repos -> Refs] /\ ledger \in [Repos -> Trees]
        BY DEF GitOK, GitTypes
      <3>4. /\ main' \in [Repos -> Refs] /\ main'[r] = new
            /\ \A s \in Repos \ {r} : main'[s] = main[s]
        BY <2>1, <3>1, <3>2, <3>3
      <3>5. /\ ledger' \in [Repos -> Trees] /\ ledger'[r] = tree
            /\ \A s \in Repos \ {r} : ledger'[s] = ledger[s]
        BY <2>1, <2>3, <2>4, <3>3
      <3> QED BY <3>1, <3>4, <3>5
    <2>6. MainGrows
      BY <2>1, <2>5 DEF MainGrows, Refs
    <2>7. GitTypes'
      BY <1>1, <1>2, <2>5 DEF GitOK, GitTypes
    <2>8. NoLostFiles'
      BY <2>5 DEF NoLostFiles, GitOK, Remote
    <2>9. Remote'
      BY <1>1, <1>2, <2>8 DEF GitOK, Remote
    <2> QED BY <1>1, <1>2, <2>6, <2>7, <2>9, GitChanges
  <1> QED BY <1>1, <1>3, <1>4

LEMMA GetTopicGit == ASSUME RunOK, GitOK, NEW p \in Pods, GetTopic(p) PROVE GitOK'
  <1>1. UNCHANGED gitVars /\ at[p] = "topic"
    BY DEF GetTopic
  <1>2. Target(p) \in Named /\ Target(p) \in Repos /\ cmd[p] \in issued
    BY <1>1 DEF GitOK, PodGit, GitTypes, GitLabels, RunOK, RunTypes
  <1>3. CASE Moves(p, "createTopic", On(p, main[Target(p)]))
    <2>1. Target(p)' = Target(p) /\ Base(p)' = main[Target(p)] /\ at'[p] = "createTopic"
      BY <1>3 DEF Moves, On, Target, Base
    <2>2. PodGit(p)'
      BY <1>1, <1>2, <2>1 DEF PodGit, gitVars, GitOK, GitTypes
    <2> QED BY <1>1, <1>3, <2>2, GitStays DEF Moves
  <1>4. CASE /\ topic[Target(p)][cmd[p]] # None
             /\ Moves(p, "pushTopic", On(p, topic[Target(p)][cmd[p]]))
    <2>1. /\ Target(p)' = Target(p) /\ Base(p)' = topic[Target(p)][cmd[p]]
          /\ at'[p] = "pushTopic"
      BY <1>4 DEF Moves, On, Target, Base
    <2>2. PodGit(p)'
      BY <1>1, <1>2, <1>4, <2>1 DEF PodGit, gitVars, GitOK, GitTypes
    <2> QED BY <1>1, <1>4, <2>2, GitStays DEF Moves
  <1> QED BY <1>3, <1>4, GetTopicMoves

\* A topic branch of a write to a repository that the pod may write to.
LEMMA TopicChanges ==
  ASSUME GitOK, NEW r \in Named, NEW c \in issued, c.kind \in {"write", "delete"},
         NEW t \in Branches \cup {None}, t = None => pr'[r][c] # "open",
         topic' = [topic EXCEPT ![r][c] = t],
         \A s \in Repos, d \in issued : pr'[s][d] = "open" => pr[s][d] = "open",
         UNCHANGED <<issued, rebound>>
  PROVE  /\ topic' \in [Repos -> [issued -> Branches \cup {None}]]
         /\ \A s \in Repos, d \in issued :
              /\ topic'[s][d] # None => s \in Named /\ d.kind \in {"write", "delete"}
              /\ pr'[s][d] = "open" => topic'[s][d] # None
  <1>1. r \in Repos /\ topic \in [Repos -> [issued -> Branches \cup {None}]]
    BY DEF GitOK, GitTypes
  <1>2. topic' \in [Repos -> [issued -> Branches \cup {None}]]
    BY <1>1
  <1>3. ASSUME NEW s \in Repos, NEW d \in issued
        PROVE  topic'[s][d] = IF s = r /\ d = c THEN t ELSE topic[s][d]
    BY <1>1
  <1> QED BY <1>2, <1>3 DEF GitOK, Remote

LEMMA CreateTopicGit == ASSUME RunOK, GitOK, NEW p \in Pods, CreateTopic(p) PROVE GitOK'
  <1>1. UNCHANGED <<repo, bound, main, pr, ledger, rebound>> /\ at[p] = "createTopic"
    BY DEF CreateTopic
  <1>2. CASE Rests(p) /\ UNCHANGED topic
    BY <1>1, <1>2, GitRests, GitStays DEF Rests, gitVars
  <1>3. CASE /\ topic' = [topic EXCEPT ![Target(p)][cmd[p]] = NewBranch(p)]
             /\ Moves(p, "pushTopic", On(p, NewBranch(p)))
    <2>1. /\ Target(p) \in Named /\ cmd[p] \in issued /\ cmd[p].kind \in {"write", "delete"}
          /\ NewBranch(p) \in Branches
      BY <1>1 DEF GitOK, PodGit, GitLabels, RunOK, RunTypes, Handles, NewBranch, Refs, Branches
    <2>2. issued' = issued /\ OnlyPod(p)
      BY <1>3 DEF Moves, OnlyPod
    <2>3. NewBranch(p) # None
      BY <2>1, BranchAssumption DEF Branches
    <2>4. /\ topic' \in [Repos -> [issued -> Branches \cup {None}]]
          /\ \A s \in Repos, d \in issued :
               /\ topic'[s][d] # None => s \in Named /\ d.kind \in {"write", "delete"}
               /\ pr'[s][d] = "open" => topic'[s][d] # None
      BY <1>1, <1>3, <2>1, <2>2, <2>3, TopicChanges
    <2>5. GitTypes'
      BY <1>1, <2>2, <2>4 DEF GitOK, GitTypes
    <2>6. Remote'
      BY <1>1, <2>2, <2>4 DEF GitOK, Remote, NoLostFiles
    <2>7. Target(p)' = Target(p) /\ Base(p)' = NewBranch(p) /\ at'[p] = "pushTopic"
      BY <1>3 DEF Moves, On, Target, Base
    <2>8. PodGit(p)'
      BY <1>1, <2>1, <2>7 DEF PodGit
    <2>9. MainGrows /\ Named \subseteq Named'
      BY <1>1 DEF MainGrows
    <2> QED BY <2>2, <2>5, <2>6, <2>8, <2>9, GitChanges
  <1> QED BY <1>2, <1>3, CreateTopicMoves

LEMMA BranchPushed ==
  ASSUME NEW t \in Branches, NEW p \in Pods, Base(p).tree \in Trees, cmd[p] \in Commands,
         cmd[p].kind \in {"write", "delete"}
  PROVE  LET new == [Pushed(t, p) EXCEPT !.ahead = TRUE] IN
         /\ new \in Branches /\ new # None
         /\ new.ahead = TRUE /\ new.tree = Overlay(Base(p).tree, cmd[p])
  <1> DEFINE tree == Overlay(Base(p).tree, cmd[p])
  <1>1. tree \in Trees
    BY OverlayTree
  <1>2. [t EXCEPT !.head = @ + 1] \in Branches
    BY DEF Branches
  <1> HIDE DEF tree
  <1>3. /\ [t EXCEPT !.head = @ + 1, !.tree = tree] \in Branches
        /\ [t EXCEPT !.head = @ + 1, !.tree = tree].tree = tree
    BY <1>1, <1>2 DEF Branches
  <1>4. Pushed(t, p) \in Branches /\ Pushed(t, p).tree = tree
    BY <1>3 DEF Pushed, tree
  <1> QED BY <1>4, BranchAssumption DEF Branches, tree

LEMMA PushTopicGit == ASSUME RunOK, GitOK, NEW p \in Pods, PushTopic(p) PROVE GitOK'
  <1> DEFINE r == Target(p)
             c == cmd[p]
             t == topic[r][c]
             new == [Pushed(t, p) EXCEPT !.ahead = TRUE]
  <1>1. UNCHANGED <<repo, bound, main, pr, ledger, rebound>> /\ at[p] = "pushTopic"
    BY DEF PushTopic
  <1>2. /\ Rests(p) \/ Moves(p, "list", [target |-> r])
        /\ UNCHANGED topic \/ (t # None /\ topic' = [topic EXCEPT ![r][c] = new])
    BY PushTopicMoves
  <1>3. OnlyPod(p) /\ issued' = issued
    BY <1>2 DEF Rests, Moves, OnlyPod
  <1>4. /\ r \in Named /\ r \in Repos /\ c \in issued /\ c.kind \in {"write", "delete"}
        /\ c \in Commands
    BY <1>1, IssuedCommands DEF GitOK, GitTypes, PodGit, GitLabels, RunOK, RunTypes, Handles
  <1>5. PodGit(p)'
    <2>1. CASE Rests(p)
      BY <2>1, GitRests
    <2>2. CASE Moves(p, "list", [target |-> r])
      <3>1. Target(p)' = r /\ at'[p] = "list"
        BY <2>2 DEF Moves, Target
      <3> QED BY <1>1, <1>4, <3>1 DEF PodGit
    <2> QED BY <1>2, <2>1, <2>2
  <1>6. CASE UNCHANGED topic
    BY <1>1, <1>3, <1>5, <1>6, GitStays DEF gitVars
  <1>7. CASE t # None /\ topic' = [topic EXCEPT ![r][c] = new]
    <2>1. new \in Branches /\ new # None
      <3>1. t \in Branches /\ Base(p).tree \in Trees
        BY <1>1, <1>4, <1>7 DEF GitOK, GitTypes, PodGit, Branches
      <3> QED BY <1>4, <3>1, BranchPushed
    <2> HIDE DEF new
    <2>2. new # None
      BY <2>1
    <2>3. /\ topic' \in [Repos -> [issued -> Branches \cup {None}]]
          /\ \A s \in Repos, d \in issued :
               /\ topic'[s][d] # None => s \in Named /\ d.kind \in {"write", "delete"}
               /\ pr'[s][d] = "open" => topic'[s][d] # None
      BY <1>1, <1>3, <1>4, <1>7, <2>1, <2>2, TopicChanges
    <2>4. GitTypes'
      BY <1>1, <1>3, <2>3 DEF GitOK, GitTypes
    <2>5. Remote'
      BY <1>1, <1>3, <2>3 DEF GitOK, Remote, NoLostFiles
    <2>6. MainGrows /\ Named \subseteq Named'
      BY <1>1 DEF MainGrows
    <2> QED BY <1>3, <1>5, <2>4, <2>5, <2>6, GitChanges
  <1> QED BY <1>2, <1>6, <1>7

LEMMA ListPRsGit == ASSUME RunOK, GitOK, NEW p \in Pods, ListPRs(p) PROVE GitOK'
  <1>1. UNCHANGED gitVars
    BY DEF ListPRs
  <1>2. CASE Rests(p)
    BY <1>1, <1>2, GitRests, GitStays DEF Rests
  <1>3. CASE at[p] = "list" /\ Moves(p, "open", local[p])
    <2>1. Target(p)' = Target(p) /\ Target(p) \in Named /\ at'[p] = "open"
      BY <1>3 DEF Moves, Target, GitOK, PodGit, GitLabels
    <2>2. PodGit(p)'
      BY <1>1, <2>1 DEF PodGit, gitVars
    <2> QED BY <1>1, <1>3, <2>2, GitStays DEF Moves
  <1> QED BY <1>2, <1>3, ListPRsMoves

LEMMA CreatePRGit == ASSUME RunOK, GitOK, NEW p \in Pods, CreatePR(p) PROVE GitOK'
  <1> DEFINE r == Target(p)
             c == cmd[p]
  <1>1. /\ at[p] = "open" /\ UNCHANGED <<repo, bound, main, topic, ledger, rebound>>
        /\ \/ UNCHANGED pr
           \/ topic[r][c] # None /\ pr' = [pr EXCEPT ![r][c] = "open"]
    BY DEF CreatePR, CanOpen
  <1>2. OnlyPod(p) /\ issued' = issued /\ PodGit(p)'
    BY CreatePRRests, GitRests DEF Rests, OnlyPod
  <1>3. CASE UNCHANGED pr
    BY <1>1, <1>2, <1>3, GitStays DEF gitVars
  <1>4. CASE topic[r][c] # None /\ pr' = [pr EXCEPT ![r][c] = "open"]
    <2>1. r \in Repos /\ c \in issued
      BY <1>1 DEF GitOK, GitTypes, PodGit, GitLabels, RunOK, RunTypes
    <2>2. pr' \in [Repos -> [issued -> {"none", "open", "merged"}]]
      BY <1>4, <2>1 DEF GitOK, GitTypes
    <2>3. ASSUME NEW s \in Repos, NEW d \in issued, pr'[s][d] = "open"
          PROVE  topic[s][d] # None
      BY <1>4, <2>1, <2>3 DEF GitOK, GitTypes, Remote
    <2>4. GitTypes'
      BY <1>1, <1>2, <2>2 DEF GitOK, GitTypes
    <2>5. Remote'
      BY <1>1, <1>2, <2>3 DEF GitOK, Remote, NoLostFiles
    <2>6. MainGrows /\ Named \subseteq Named'
      BY <1>1 DEF MainGrows
    <2> QED BY <1>2, <2>4, <2>5, <2>6, GitChanges
  <1> QED BY <1>1, <1>3, <1>4

LEMMA GitFailsGit == ASSUME RunOK, GitOK, NEW p \in Pods, GitFails(p) PROVE GitOK'
  BY GitFailsRests, GitRests, GitStays DEF GitFails, Rests

LEMMA RebindGit == ASSUME RunOK, GitOK, NEW p \in Pods, Rebind(p) PROVE GitOK'
  <1>1. UNCHANGED gitVars
    BY DEF Rebind
  <1>2. OnlyPod(p) /\ at'[p] \notin GitLabels
    BY RebindMoves DEF Rests, Moves, GitLabels
  <1> QED BY <1>1, <1>2, GitElsewhere

\* What is persisted is named, and only then used.
LEMMA PersistBindingGit == ASSUME RunOK, GitOK, NEW p \in Pods, PersistBinding(p) PROVE GitOK'
  <1> DEFINE r == cmd[p].repo
             J == JournalNamespace
             new == [head |-> bound[J].head + 1, repo |-> r]
  <1>1. /\ at[p] = "persist" /\ UNCHANGED <<main, topic, pr, ledger>>
        /\ \/ UNCHANGED <<repo, bound, rebound>>
           \/ /\ bound' = [bound EXCEPT ![J] = new] /\ Named' = Named \cup {r}
              /\ repo' = repo \/ repo' = [repo EXCEPT ![p] = r]
    BY DEF PersistBinding
  <1>2. OnlyPod(p) /\ issued' = issued /\ PodGit(p)'
    BY PersistBindingRests, GitRests DEF Rests, OnlyPod
  <1>3. CASE UNCHANGED <<repo, bound, rebound>>
    BY <1>1, <1>2, <1>3, GitStays DEF gitVars
  <1>4. CASE /\ bound' = [bound EXCEPT ![J] = new] /\ Named' = Named \cup {r}
             /\ repo' = repo \/ repo' = [repo EXCEPT ![p] = r]
    <2>1. r \in Repos
      BY <1>1, IssuedCommands, GitAssumption DEF RunOK, RunTypes, Handles
    <2>2. new \in [head : Nat, repo : Repos \cup {None}] /\ new.repo = r
      BY <2>1 DEF GitOK, GitTypes
    <2> HIDE DEF new, r
    <2>3. /\ bound' \in [{SystemNamespace, J} -> [head : Nat, repo : Repos \cup {None}]]
          /\ \A n \in {SystemNamespace, J} : bound'[n] \in {bound[n], new}
      BY <1>4, <2>2 DEF GitOK, GitTypes
    <2>4. repo' \in [Pods -> Repos] /\ \A q \in Pods : repo'[q] \in {repo[q], r}
      BY <1>4, <2>1 DEF GitOK, GitTypes
    <2>5. Named' \subseteq Repos
      BY <1>4, <2>1 DEF GitOK, GitTypes
    <2>6. GitTypes'
      BY <1>1, <1>2, <2>3, <2>4, <2>5 DEF GitOK, GitTypes
    <2>7. \A n \in {SystemNamespace, J} : bound'[n].repo \in Named' \cup {None}
      BY <1>4, <2>2, <2>3 DEF GitOK, Remote
    <2>8. /\ Convention \in Named' /\ \A q \in Pods : repo'[q] \in Named'
      BY <1>4, <2>4 DEF GitOK, Remote
    <2>9. \A s \in Repos, d \in issued :
            /\ topic[s][d] # None => s \in Named' /\ d.kind \in {"write", "delete"}
            /\ pr[s][d] = "open" => topic[s][d] # None
      BY <1>4 DEF GitOK, Remote
    <2>10. Remote'
      BY <1>1, <1>2, <2>7, <2>8, <2>9 DEF GitOK, Remote, NoLostFiles
    <2>11. MainGrows /\ Named \subseteq Named'
      BY <1>1, <1>4 DEF MainGrows
    <2> QED BY <1>2, <2>6, <2>10, <2>11, GitChanges
  <1> QED BY <1>1, <1>3, <1>4

LEMMA StateRepoNamed == ASSUME GitOK PROVE StateRepo \in Named
  BY DEF GitOK, Remote, StateRepo

LEMMA CrashGit == ASSUME RunOK, GitOK, NEW p \in Pods, Crash(p) PROVE GitOK'
  <1>1. OnlyPod(p) /\ PodGit(p)' /\ issued' = issued
    BY CrashRests, GitRests DEF Crash, Rests, OnlyPod
  <1>2. UNCHANGED <<bound, main, topic, pr, ledger, rebound>>
        /\ repo' = [repo EXCEPT ![p] = StateRepo]
    BY DEF Crash, RestartGit, gitRemote
  <1>3. repo' \in [Pods -> Repos] /\ \A q \in Pods : repo'[q] \in Named
    BY <1>2, StateRepoNamed DEF GitOK, GitTypes, Remote
  <1>4. GitTypes'
    BY <1>1, <1>2, <1>3 DEF GitOK, GitTypes
  <1>5. Remote'
    BY <1>1, <1>2, <1>3 DEF GitOK, Remote, NoLostFiles
  <1>6. MainGrows /\ Named \subseteq Named'
    BY <1>2 DEF MainGrows
  <1> QED BY <1>1, <1>4, <1>5, <1>6, GitChanges

LEMMA TenantCommitsGit ==
  ASSUME RunOK, GitOK, NEW r \in Repos, NEW f \in Paths, TenantCommits(r, f) PROVE GitOK'
  <1> DEFINE tree == [main[r].tree EXCEPT ![f] = SomeContent]
             new == [head |-> main[r].head + 1, tree |-> tree]
  <1>1. /\ main' = [main EXCEPT ![r] = new] /\ ledger' = [ledger EXCEPT ![r][f] = SomeContent]
        /\ UNCHANGED <<repo, bound, topic, pr, rebound, issued, cmd, at, local>>
    BY DEF TenantCommits, TenantActs
  <1>2. /\ main[r] \in Refs /\ main[r].tree \in Trees /\ ledger[r] = main[r].tree
        /\ main \in [Repos -> Refs] /\ ledger \in [Repos -> Trees] /\ main[r].head \in Nat
    BY DEF GitOK, GitTypes, Refs, Remote, NoLostFiles
  <1>3. SomeContent \in Contents
    BY GitAssumption DEF SomeContent
  <1>4. tree \in Trees
    BY <1>2, <1>3 DEF Trees
  <1>5. new \in Refs /\ new.tree = tree /\ new.head = main[r].head + 1
    BY <1>2, <1>4 DEF Refs
  <1>6. ledger' = [ledger EXCEPT ![r] = tree]
    BY <1>1, <1>2
  <1> HIDE DEF tree, new
  <1>7. /\ main' \in [Repos -> Refs] /\ main'[r] = new
        /\ \A s \in Repos \ {r} : main'[s] = main[s]
    BY <1>1, <1>2, <1>5
  <1>8. /\ ledger' \in [Repos -> Trees] /\ ledger'[r] = tree
        /\ \A s \in Repos \ {r} : ledger'[s] = ledger[s]
    BY <1>2, <1>4, <1>6
  <1>9. GitTypes'
    BY <1>1, <1>7, <1>8 DEF GitOK, GitTypes
  <1>10. Remote'
    BY <1>1, <1>5, <1>7, <1>8 DEF GitOK, Remote, NoLostFiles
  <1>11. MainGrows
    BY <1>2, <1>5, <1>7 DEF MainGrows
  <1> QED BY <1>1, <1>9, <1>10, <1>11, PodGitKept DEF GitOK, Still

LEMMA MergePRGit ==
  ASSUME RunOK, GitOK, NEW r \in Repos, NEW c \in issued, MergePR(r, c) PROVE GitOK'
  <1> DEFINE tree == Overlay(main[r].tree, c)
             new == [head |-> main[r].head + 1, tree |-> tree]
  <1>1. /\ pr[r][c] = "open" /\ pr' = [pr EXCEPT ![r][c] = "merged"]
        /\ main' = [main EXCEPT ![r] = new] /\ ledger' = [ledger EXCEPT ![r] = Overlay(@, c)]
        /\ UNCHANGED <<repo, bound, rebound, issued, cmd, at, local>>
    BY DEF MergePR, TenantActs
  <1>2. PICK t \in {None} \cup {[topic[r][c] EXCEPT !.ahead = a] : a \in BOOLEAN} :
          topic' = [topic EXCEPT ![r][c] = t]
    BY DEF MergePR
  <1>3. /\ main[r] \in Refs /\ main[r].tree \in Trees /\ ledger[r] = main[r].tree
        /\ main \in [Repos -> Refs] /\ ledger \in [Repos -> Trees] /\ main[r].head \in Nat
    BY DEF GitOK, GitTypes, Refs, Remote, NoLostFiles
  <1>4. /\ topic[r][c] # None /\ r \in Named /\ c.kind \in {"write", "delete"}
        /\ topic[r][c] \in Branches
    BY <1>1 DEF GitOK, GitTypes, Remote
  <1>5. tree \in Trees
    BY <1>3, <1>4, OverlayTree, IssuedCommands
  <1>6. new \in Refs /\ new.tree = tree /\ new.head = main[r].head + 1
    BY <1>3, <1>5 DEF Refs
  <1>7. ledger' = [ledger EXCEPT ![r] = tree]
    BY <1>1, <1>3
  <1> HIDE DEF tree, new
  <1>8. /\ main' \in [Repos -> Refs] /\ main'[r] = new
        /\ \A s \in Repos \ {r} : main'[s] = main[s]
    BY <1>1, <1>3, <1>6
  <1>9. /\ ledger' \in [Repos -> Trees] /\ ledger'[r] = tree
        /\ \A s \in Repos \ {r} : ledger'[s] = ledger[s]
    BY <1>3, <1>5, <1>7
  <1>10. t \in Branches \cup {None}
    BY <1>4 DEF Branches
  <1>11. /\ pr' \in [Repos -> [issued -> {"none", "open", "merged"}]]
         /\ pr'[r][c] # "open"
         /\ \A s \in Repos, d \in issued : pr'[s][d] = "open" => pr[s][d] = "open"
    BY <1>1 DEF GitOK, GitTypes
  <1>12. /\ topic' \in [Repos -> [issued -> Branches \cup {None}]]
         /\ \A s \in Repos, d \in issued :
              /\ topic'[s][d] # None => s \in Named /\ d.kind \in {"write", "delete"}
              /\ pr'[s][d] = "open" => topic'[s][d] # None
    BY <1>1, <1>2, <1>4, <1>10, <1>11, TopicChanges
  <1>13. GitTypes'
    BY <1>1, <1>8, <1>9, <1>11, <1>12 DEF GitOK, GitTypes
  <1>14. Remote'
    BY <1>1, <1>6, <1>8, <1>9, <1>12 DEF GitOK, Remote, NoLostFiles
  <1>15. MainGrows
    BY <1>3, <1>6, <1>8 DEF MainGrows
  <1> QED BY <1>1, <1>13, <1>14, <1>15, PodGitKept DEF GitOK, Still

HIDE DEF Named

----------------------------------------------------------------------------
(***************************************************************************)
(* The objects of ArgoCD.                                                  *)
(***************************************************************************)
\* An object that changes gets a version that no object has had.
Renewed ==
  /\ clock <= clock'
  /\ \A o \in Objects : objects'[o] \in {objects[o], None} \/ objects'[o].version > clock

LEMMA CurrentIsObject ==
  ASSUME RunOK, NEW p \in Pods, at[p] # "idle", cmd[p].kind = "register", NEW n, InHand(p, n)
  PROVE  Current(p, n) \in Objects
  <1> DEFINE os == cmd[p].objects
  <1>1. os \in Seq(Objects)
    BY IssuedCommands, ObjectAssumption DEF RunOK, RunTypes
  <1>2. n + 1 \in 1..Len(os)
    BY <1>1 DEF InHand
  <1> HIDE DEF os
  <1>3. os[n + 1] \in Objects
    BY <1>1, <1>2, ElementOfSeq
  <1> QED BY <1>3 DEF Current, os

LEMMA PodObjectKept ==
  ASSUME RunOK, ObjectsOK, ObjectTypes', Renewed, NEW q \in Pods, Still(q)
  PROVE  PodObject(q)'
  <1>1. PodObject(q) /\ at'[q] = at[q] /\ cmd'[q] = cmd[q] /\ local'[q] = local[q]
    BY DEF ObjectsOK, Still
  <1>2. ASSUME at[q] = "update"
        PROVE  /\ local[q].version <= clock'
               /\ LET o == Current(q, local[q].n) IN Fresh(q, o)' => Mine(objects'[o])
    <2> DEFINE o == Current(q, local[q].n)
    <2>1. /\ local[q].version \in Nat /\ local[q].version <= clock
          /\ Fresh(q, o) => Mine(objects[o])
      BY <1>1, <1>2 DEF PodObject
    <2>2. o \in Objects
      BY <1>1, <1>2, CurrentIsObject DEF PodObject, RunOK, Handles
    <2>3. clock \in Nat /\ clock' \in Nat /\ clock <= clock'
      BY DEF Renewed, ObjectsOK, ObjectTypes
    <2>4. ASSUME objects'[o] # None, objects'[o].version = local[q].version
          PROVE  Mine(objects'[o])
      <3>1. ~(objects'[o].version > clock)
        BY <2>1, <2>3, <2>4
      <3>2. objects'[o] = objects[o]
        BY <2>2, <2>4, <3>1 DEF Renewed
      <3> QED BY <2>1, <2>4, <3>2 DEF Fresh
    <2> HIDE DEF o
    <2>5. Fresh(q, o)' => Mine(objects'[o])
      BY <1>1, <2>4 DEF Fresh, o, Current
    <2> QED BY <2>1, <2>3, <2>5 DEF o
  <1> QED BY <1>1, <1>2 DEF PodObject, InHand, Current, Mine, Fresh

LEMMA ObjectsChange ==
  ASSUME RunOK, ObjectsOK, NEW p \in Pods, OnlyPod(p), PodObject(p)', ObjectTypes', Renewed
  PROVE  ObjectsOK'
  <1>1. \A q \in Pods \ {p} : Still(q)
    BY DEF OnlyPod, Still
  <1> QED BY <1>1, PodObjectKept DEF ObjectsOK

LEMMA ObjectsStay ==
  ASSUME RunOK, ObjectsOK, NEW p \in Pods, OnlyPod(p), PodObject(p)', UNCHANGED <<objects, clock>>
  PROVE  ObjectsOK'
  <1>1. ObjectTypes' /\ Renewed
    BY DEF ObjectsOK, ObjectTypes, Renewed
  <1> QED BY <1>1, ObjectsChange

LEMMA WriteRenews ==
  ASSUME ObjectsOK, NEW o \in Objects, NEW v \in Resources \cup {None}, WriteObject(o, v),
         v # None => v.version = clock'
  PROVE  ObjectTypes' /\ Renewed
  <1>1. /\ clock \in Nat /\ clock' = clock + 1 /\ objects' = [objects EXCEPT ![o] = v]
        /\ objects \in [Objects -> Resources \cup {None}]
    BY DEF WriteObject, ObjectsOK, ObjectTypes
  <1>2. objects' \in [Objects -> Resources \cup {None}]
    BY <1>1
  <1>3. \A x \in Objects : objects'[x] = IF x = o THEN v ELSE objects[x]
    BY <1>1
  <1>4. ASSUME NEW x \in Objects, objects'[x] # None PROVE objects'[x].version <= clock'
    <2>1. CASE x = o
      BY <1>1, <1>3, <1>4, <2>1
    <2>2. CASE x # o
      <3>1. objects[x] \in Resources /\ objects[x].version <= clock
        BY <1>1, <1>3, <1>4, <2>2 DEF ObjectsOK, ObjectTypes
      <3>2. objects[x].version \in Nat
        BY <3>1 DEF Resources
      <3> QED BY <1>1, <1>3, <2>2, <3>1, <3>2
    <2> QED BY <2>1, <2>2
  <1>5. ObjectTypes'
    BY <1>1, <1>2, <1>4 DEF ObjectTypes
  <1>6. Renewed
    BY <1>1, <1>3 DEF Renewed
  <1> QED BY <1>5, <1>6

\* The pod is at a step that is not about objects.
LEMMA NoObject ==
  ASSUME NEW p \in Pods, at'[p] \notin {"get", "create", "update"}
  PROVE  PodObject(p)'
  BY DEF PodObject

LEMMA NextObjectOK ==
  ASSUME RunOK, NEW p \in Pods, NEW n, cmd[p].kind = "register", at[p] # "idle", InHand(p, n),
         NextObject(p, n)
  PROVE  OnlyPod(p) /\ PodObject(p)'
  <1>1. CASE Rests(p)
    BY <1>1, NoObject DEF Rests
  <1>2. CASE n + 1 # Len(cmd[p].objects) /\ Moves(p, "get", n + 1)
    <2>1. cmd[p].objects \in Seq(Objects)
      BY IssuedCommands, ObjectAssumption DEF RunOK, RunTypes
    <2>2. n + 1 \in Nat /\ n + 1 < Len(cmd[p].objects)
      <3>1. Len(cmd[p].objects) \in Nat
        BY <2>1
      <3> QED BY <1>2, <3>1 DEF InHand
    <2>3. InHand(p, n + 1)'
      BY <1>2, <2>2 DEF InHand, Moves
    <2> QED BY <1>2, <2>3 DEF Moves, PodObject
  <1> QED BY <1>1, <1>2 DEF NextObject

LEMMA StartObject ==
  ASSUME RunOK, NEW p \in Pods, at[p] # "idle", Moves(p, "get", 0)
  PROVE  PodObject(p)'
  <1>1. ASSUME cmd[p].kind = "register" PROVE InHand(p, 0)
    <2>1. cmd[p].objects \in Seq(Objects) /\ cmd[p].objects # <<>>
      BY <1>1, IssuedCommands, ObjectAssumption DEF RunOK, RunTypes
    <2>2. Len(cmd[p].objects) \in Nat /\ Len(cmd[p].objects) # 0
      BY <2>1, EmptySeq
    <2> QED BY <2>2 DEF InHand
  <1> QED BY <1>1 DEF Moves, PodObject, InHand

LEMMA GetObjectObjects == ASSUME RunOK, ObjectsOK, NEW p \in Pods, GetObject(p) PROVE ObjectsOK'
  <1> DEFINE n == local[p]
             o == objects[Current(p, n)]
  <1>1. /\ at[p] = "get" /\ cmd[p].kind = "register" /\ UNCHANGED <<objects, clock>>
        /\ \/ NextObject(p, n) \/ Moves(p, "create", n)
           \/ o # None /\ Mine(o) /\ Moves(p, "update", [n |-> n, version |-> o.version])
    BY GetObjectMoves DEF GetObject, argoVars
  <1>2. InHand(p, n)
    BY <1>1 DEF ObjectsOK, PodObject
  <1> HIDE DEF n
  <1>3. CASE NextObject(p, n)
    BY <1>1, <1>2, <1>3, NextObjectOK, ObjectsStay
  <1>4. CASE Moves(p, "create", n)
    <2>1. PodObject(p)'
      BY <1>1, <1>2, <1>4 DEF Moves, PodObject, InHand
    <2> QED BY <1>1, <1>4, <2>1, ObjectsStay DEF Moves
  <1>5. CASE o # None /\ Mine(o) /\ Moves(p, "update", [n |-> n, version |-> o.version])
    <2>1. Current(p, n) \in Objects
      BY <1>1, <1>2, CurrentIsObject
    <2>2. o.version \in Nat /\ o.version <= clock
      BY <1>5, <2>1 DEF ObjectsOK, ObjectTypes, Resources
    <2>3. local'[p].n = n /\ local'[p].version = o.version /\ at'[p] = "update" /\ cmd' = cmd
      BY <1>5 DEF Moves
    <2>4. Mine(objects[Current(p, local[p].n)])'
      BY <1>1, <1>5, <2>3 DEF Current, Mine
    <2>5. PodObject(p)'
      BY <1>1, <1>2, <2>2, <2>3, <2>4 DEF PodObject, InHand
    <2> QED BY <1>1, <1>5, <2>5, ObjectsStay DEF Moves
  <1> QED BY <1>1, <1>3, <1>4, <1>5

LEMMA SpecOfCommand ==
  ASSUME RunOK, NEW p \in Pods, at[p] # "idle", cmd[p].kind = "register"
  PROVE  cmd[p].spec \in Specs
  BY IssuedCommands, ObjectAssumption DEF RunOK, RunTypes

LEMMA CreateObjectObjects ==
  ASSUME RunOK, ObjectsOK, NEW p \in Pods, CreateObject(p) PROVE ObjectsOK'
  <1> DEFINE o == Current(p, local[p])
             v == Made("inari", cmd[p].spec, clock')
  <1>1. /\ at[p] = "create" /\ NextObject(p, local[p])
        /\ UNCHANGED <<objects, clock>> \/ WriteObject(o, v)
    BY CreateObjectMoves
  <1>2. cmd[p].kind = "register" /\ at[p] # "idle" /\ InHand(p, local[p])
    BY <1>1 DEF RunOK, Handles, ObjectsOK, PodObject
  <1>3. OnlyPod(p) /\ PodObject(p)'
    BY <1>1, <1>2, NextObjectOK
  <1>4. CASE WriteObject(o, v)
    <2>1. o \in Objects
      BY <1>2, CurrentIsObject
    <2>2. v \in Resources /\ v.version = clock'
      BY <1>2, <1>4, SpecOfCommand DEF Resources, Made, WriteObject, ObjectsOK, ObjectTypes
    <2> HIDE DEF o, v
    <2>3. ObjectTypes' /\ Renewed
      BY <1>4, <2>1, <2>2, WriteRenews
    <2> QED BY <1>3, <2>3, ObjectsChange
  <1> QED BY <1>1, <1>3, <1>4, ObjectsStay

LEMMA UpdateObjectObjects ==
  ASSUME RunOK, ObjectsOK, NEW p \in Pods, UpdateObject(p) PROVE ObjectsOK'
  <1> DEFINE o == Current(p, local[p].n)
             v == [objects[o] EXCEPT !.spec = cmd[p].spec, !.version = clock']
  <1>1. /\ at[p] = "update" /\ NextObject(p, local[p].n)
        /\ UNCHANGED <<objects, clock>> \/ (Fresh(p, o) /\ WriteObject(o, v))
    BY UpdateObjectMoves
  <1>2. cmd[p].kind = "register" /\ at[p] # "idle" /\ InHand(p, local[p].n)
    BY <1>1 DEF RunOK, Handles, ObjectsOK, PodObject
  <1>3. OnlyPod(p) /\ PodObject(p)'
    BY <1>1, <1>2, NextObjectOK
  <1>4. CASE Fresh(p, o) /\ WriteObject(o, v)
    <2>1. o \in Objects
      BY <1>2, CurrentIsObject
    <2>2. objects[o] \in Resources /\ clock' \in Nat /\ cmd[p].spec \in Specs
      BY <1>2, <1>4, <2>1, SpecOfCommand DEF Fresh, WriteObject, ObjectsOK, ObjectTypes
    <2>3. [objects[o] EXCEPT !.spec = cmd[p].spec] \in Resources
      BY <2>2 DEF Resources
    <2>4. v \in Resources /\ v.version = clock'
      BY <2>2, <2>3 DEF Resources
    <2> HIDE DEF o, v
    <2>5. ObjectTypes' /\ Renewed
      BY <1>4, <2>1, <2>4, WriteRenews
    <2> QED BY <1>3, <2>5, ObjectsChange
  <1> QED BY <1>1, <1>3, <1>4, ObjectsStay

LEMMA InvokeObjects == ASSUME RunOK, ObjectsOK, NEW p \in Pods, Invoke(p) PROVE ObjectsOK'
  <1> DEFINE o == cmd[p].object
             v == [objects[o] EXCEPT !.operation = cmd[p], !.version = clock']
  <1>1. /\ at[p] = "call" /\ OnlyPod(p) /\ PodObject(p)'
        /\ \/ UNCHANGED <<objects, clock>>
           \/ objects[o] # None /\ WriteObject(o, v)
    BY InvokeMoves, NoObject DEF Rests, Perform
  <1>2. CASE objects[o] # None /\ WriteObject(o, v)
    <2>1. cmd[p] \in Commands /\ o \in Objects
      BY <1>1, IssuedCommands, ObjectAssumption DEF RunOK, RunTypes, Handles
    <2>2. objects[o] \in Resources /\ clock' \in Nat
      BY <1>2, <2>1 DEF WriteObject, ObjectsOK, ObjectTypes
    <2>3. [objects[o] EXCEPT !.operation = cmd[p]] \in Resources
      BY <2>1, <2>2 DEF Resources
    <2>4. v \in Resources /\ v.version = clock'
      BY <2>2, <2>3 DEF Resources
    <2> HIDE DEF o, v
    <2>5. ObjectTypes' /\ Renewed
      BY <1>2, <2>1, <2>4, WriteRenews
    <2> QED BY <1>1, <2>5, ObjectsChange
  <1> QED BY <1>1, <1>2, ObjectsStay

LEMMA TenantChangesObjects ==
  ASSUME RunOK, ObjectsOK, NEW o \in Objects, TenantChanges(o) PROVE ObjectsOK'
  <1> DEFINE v == [Made("tenant", SomeSpec, clock') EXCEPT !.racing = Committed(o)]
  <1>1. UNCHANGED <<cmd, at, local>> /\ (WriteObject(o, v) \/ WriteObject(o, None))
    BY DEF TenantChanges, TenantActs
  <1>2. SomeSpec \in Specs
    BY ObjectAssumption DEF SomeSpec
  <1>3. v \in Resources /\ v.version = clock'
    BY <1>1, <1>2 DEF WriteObject, Resources, Made, Committed, ObjectsOK, ObjectTypes
  <1> HIDE DEF v
  <1>4. ObjectTypes' /\ Renewed
    BY <1>1, <1>3, WriteRenews
  <1> QED BY <1>1, <1>4, PodObjectKept DEF ObjectsOK, Still

----------------------------------------------------------------------------
(***************************************************************************)
(* The installation.                                                       *)
(***************************************************************************)
LEMMA InstallStays ==
  ASSUME InstallOK, NEW p \in Pods, OnlyPod(p), PodInstall(p)', UNCHANGED install
  PROVE  InstallOK'
  BY DEF InstallOK, PodInstall, Theirs, OnlyPod

LEMMA InstallElsewhere ==
  ASSUME InstallOK, NEW p \in Pods, OnlyPod(p), at'[p] # "install", UNCHANGED install
  PROVE  InstallOK'
  BY InstallStays DEF PodInstall

\* A pod begins to install when there is nothing to detect, so nothing of the
\* tenant.
LEMMA EnsureReadyInstall ==
  ASSUME RunOK, InstallOK, NEW p \in Pods, EnsureReady(p) PROVE InstallOK'
  <1>1. UNCHANGED install
    BY DEF EnsureReady, argoVars
  <1>2. CASE Rests(p) \/ Moves(p, "get", 0)
    BY <1>1, <1>2, InstallElsewhere DEF Rests, Moves
  <1>3. CASE ~Detected /\ Moves(p, "install", 0)
    <2>1. ~Theirs
      <3>1. ASSUME Theirs PROVE FALSE
        <4>1. install # None /\ install.docs >= ServerDoc
          BY <3>1 DEF InstallOK, Theirs
        <4> QED BY <1>3, <4>1 DEF Detected
      <3> QED BY <3>1
    <2>2. PodInstall(p)'
      BY <1>1, <1>3, <2>1 DEF PodInstall, Moves, Theirs
    <2> QED BY <1>1, <1>3, <2>2, InstallStays DEF Moves
  <1> QED BY <1>2, <1>3, EnsureReadyMoves

LEMMA WithDocKeeps ==
  ASSUME InstallOK, NEW d \in Nat
  PROVE  /\ WithDoc(d) \in Installs
         /\ install # None => /\ WithDoc(d).owner = install.owner
                              /\ WithDoc(d).racing = install.racing
                              /\ WithDoc(d).docs >= install.docs
         /\ install = None => WithDoc(d).owner = "inari"
  <1>1. CASE install = None
    BY <1>1 DEF WithDoc, Installs
  <1>2. CASE install # None
    <2> DEFINE docs == IF install.docs < d THEN d ELSE install.docs
               i == [install EXCEPT !.docs = docs]
               w == [i EXCEPT !.inSkew = @ \/ d = ServerDoc]
    <2>1. install \in Installs /\ install.docs \in Nat
      BY <1>2 DEF InstallOK, Installs
    <2>2. docs \in Nat /\ docs >= install.docs
      BY <2>1
    <2>3. WithDoc(d) = w
      BY <1>2 DEF WithDoc
    <2> HIDE DEF docs
    <2>4. /\ i \in Installs /\ i.owner = install.owner /\ i.racing = install.racing
          /\ i.docs = docs
      BY <2>1, <2>2 DEF Installs
    <2> HIDE DEF i
    <2>5. i.inSkew \in BOOLEAN /\ (i.inSkew \/ d = ServerDoc) \in BOOLEAN
      BY <2>4 DEF Installs
    <2>6. w \in Installs /\ w.owner = i.owner /\ w.racing = i.racing /\ w.docs = i.docs
      BY <2>4, <2>5 DEF Installs
    <2> QED BY <1>2, <2>2, <2>3, <2>4, <2>6
  <1> QED BY <1>1, <1>2

LEMMA ApplyManifestsInstall ==
  ASSUME RunOK, InstallOK, NEW p \in Pods, ApplyManifests(p) PROVE InstallOK'
  <1>1. CASE UNCHANGED install /\ (Rests(p) \/ Moves(p, "get", 0))
    BY <1>1, InstallElsewhere DEF Rests, Moves
  <1>2. CASE /\ at[p] = "install"
             /\ install' = WithDoc(local[p] + 1) /\ Moves(p, "install", local[p] + 1)
    <2>1. local[p] \in Nat
      BY <1>2 DEF InstallOK, PodInstall
    <2>2. local[p] + 1 \in Nat
      BY <2>1
    <2>3. /\ install' \in Installs
          /\ install # None => /\ install'.owner = install.owner
                               /\ install'.racing = install.racing
                               /\ install'.docs >= install.docs
          /\ install = None => install'.owner = "inari"
      BY <1>2, <2>2, WithDocKeeps
    <2>4. Theirs' => Theirs /\ install'.racing = install.racing
      BY <2>3 DEF Theirs
    <2>5. Theirs' => install'.docs >= ServerDoc
      <3>1. ASSUME Theirs' PROVE install'.docs >= ServerDoc
        <4>1. /\ install.docs >= ServerDoc /\ install'.docs >= install.docs
              /\ install.docs \in Nat /\ install'.docs \in Nat
          BY <2>3, <2>4, <3>1 DEF Theirs, InstallOK, Installs
        <4> QED BY <4>1, BundleAssumption
      <3> QED BY <3>1
    <2>6. ASSUME NEW q \in Pods PROVE PodInstall(q)'
      <3>1. CASE q = p
        BY <1>2, <2>2, <2>4, <3>1 DEF Moves, PodInstall, InstallOK
      <3>2. CASE q # p
        BY <1>2, <2>4, <3>2 DEF Moves, OnlyPod, PodInstall, InstallOK
      <3> QED BY <3>1, <3>2
    <2> QED BY <2>3, <2>5, <2>6 DEF InstallOK
  <1> QED BY <1>1, <1>2, ApplyManifestsMoves

LEMMA TenantInstallsInstall ==
  ASSUME RunOK, InstallOK, TenantInstalls PROVE InstallOK'
  <1>1. /\ install' = [owner |-> "tenant", here |-> TRUE, inSkew |-> FALSE, docs |-> Docs,
                       racing |-> {p \in Pods : at[p] = "install"}]
        /\ UNCHANGED <<cmd, at, local>>
    BY DEF TenantInstalls, TenantActs
  <1>2. install' \in Installs /\ install'.docs >= ServerDoc
    BY <1>1, BundleAssumption DEF Installs
  <1>3. \A p \in Pods : PodInstall(p)'
    BY <1>1 DEF InstallOK, PodInstall
  <1> QED BY <1>2, <1>3 DEF InstallOK

----------------------------------------------------------------------------
(***************************************************************************)
(* The credentials.                                                        *)
(***************************************************************************)
LEMMA OnceElsewhere ==
  ASSUME OnceOK, NEW p \in Pods, OnlyPod(p), at'[p] # "call", UNCHANGED calls,
         redeemed \subseteq redeemed', redeemed' \subseteq issued
  PROVE  OnceOK'
  <1>1. \A q \in Pods, c \in issued : Acts(q, c)' => Acts(q, c)
    BY DEF Acts, OnlyPod
  <1> QED BY <1>1 DEF OnceOK, OnlyPod

LEMMA CheckOwnerOnce == ASSUME RunOK, OnceOK, NEW p \in Pods, CheckOwner(p) PROVE OnceOK'
  <1>1. UNCHANGED <<redeemed, calls>>
    BY DEF CheckOwner, argoVars
  <1>2. CASE Rests(p) \/ Moves(p, "redeem", None)
    BY <1>1, <1>2, OnceElsewhere DEF Rests, Moves, OnceOK
  <1>3. CASE ~cmd[p].user /\ Moves(p, "call", None)
    <2>1. issued' = issued /\ \A q \in Pods, c \in issued : Acts(q, c)' /\ c.user => Acts(q, c)
      BY <1>3 DEF Moves, OnlyPod, Acts
    <2> QED BY <1>1, <2>1 DEF OnceOK
  <1> QED BY <1>2, <1>3, CheckOwnerMoves

\* A credential is redeemed once: whoever gets the token is the only one, and
\* has not acted.
LEMMA RedeemOnce == ASSUME RunOK, OnceOK, NEW p \in Pods, Redeem(p) PROVE OnceOK'
  <1>1. at[p] = "redeem" /\ UNCHANGED calls
    BY DEF Redeem
  <1>2. cmd[p] \in issued
    BY <1>1 DEF RunOK, RunTypes
  <1>3. CASE Rests(p) /\ redeemed' \in {redeemed, redeemed \cup {cmd[p]}}
    BY <1>1, <1>2, <1>3, OnceElsewhere DEF Rests, OnceOK
  <1>4. CASE /\ cmd[p] \notin redeemed /\ redeemed' = redeemed \cup {cmd[p]}
             /\ Moves(p, "call", None)
    <2>1. issued' = issued /\ \A q \in Pods, c \in issued :
                                Acts(q, c)' <=> Acts(q, c) \/ (q = p /\ c = cmd[p])
      BY <1>1, <1>4 DEF Moves, OnlyPod, Acts
    <2>2. ASSUME NEW c \in issued, c.kind = "invoke", c.user, NEW q \in Pods, Acts(q, c)'
          PROVE  c \in redeemed' /\ calls[c] = <<>> /\ \A r \in Pods : Acts(r, c)' => r = q
      <3>1. CASE c = cmd[p]
        <4>1. \A r \in Pods : ~Acts(r, c)
          BY <1>4, <2>2, <3>1 DEF OnceOK
        <4> QED BY <1>2, <1>4, <2>1, <2>2, <3>1, <4>1 DEF OnceOK
      <3>2. CASE c # cmd[p]
        BY <1>4, <2>1, <2>2, <3>2 DEF OnceOK
      <3> QED BY <3>1, <3>2
    <2> QED BY <1>1, <1>2, <1>4, <2>1, <2>2 DEF OnceOK
  <1> QED BY <1>3, <1>4, RedeemMoves

LEMMA InvokeOnce == ASSUME RunOK, OnceOK, NEW p \in Pods, Invoke(p) PROVE OnceOK'
  <1> DEFINE d == cmd[p]
  <1>1. /\ at[p] = "call" /\ UNCHANGED redeemed /\ Rests(p)
        /\ \/ UNCHANGED calls
           \/ calls' = [calls EXCEPT ![d] = Append(@, TokenOf(d))]
    BY InvokeMoves DEF Invoke, Perform, TokenOf
  <1>2. CASE UNCHANGED calls
    BY <1>1, <1>2, OnceElsewhere DEF Rests, OnceOK
  <1>3. CASE calls' = [calls EXCEPT ![d] = Append(@, TokenOf(d))]
    <2>1. d \in issued /\ Acts(p, d) /\ calls \in [issued -> Seq({"user", "static"})]
      BY <1>1 DEF RunOK, RunTypes, Acts, OnceOK
    <2>2. TokenOf(d) \in {"user", "static"} /\ (d.user => TokenOf(d) = "user")
      BY DEF TokenOf
    <2>3. Append(calls[d], TokenOf(d)) \in Seq({"user", "static"})
      BY <2>1, <2>2
    <2>4. /\ calls' \in [issued -> Seq({"user", "static"})]
          /\ \A c \in issued : calls'[c] = IF c = d THEN Append(calls[d], TokenOf(d)) ELSE calls[c]
      BY <1>3, <2>1, <2>3
    <2>5. issued' = issued /\ \A q \in Pods, c \in issued : Acts(q, c)' => Acts(q, c) /\ q # p
      BY <1>1 DEF Rests, OnlyPod, Acts
    <2>6. ASSUME NEW c \in issued, c.kind = "invoke", c.user
          PROVE  /\ calls'[c] \in {<<>>, <<"user">>}
                 /\ calls'[c] # <<>> => c \in redeemed
                 /\ \A q \in Pods : Acts(q, c)' =>
                      c \in redeemed /\ calls'[c] = <<>> /\ \A r \in Pods : Acts(r, c)' => r = q
      <3>1. CASE c = d
        <4>1. /\ c \in redeemed /\ calls[d] = <<>> /\ \A q \in Pods : Acts(q, c) => q = p
          BY <2>1, <2>6, <3>1 DEF OnceOK
        <4>2. Append(<<>>, "user") = <<"user">>
          OBVIOUS
        <4>3. calls'[c] = <<"user">>
          BY <2>2, <2>4, <2>6, <3>1, <4>1, <4>2
        <4> QED BY <2>5, <4>1, <4>3
      <3>2. CASE c # d
        BY <2>4, <2>5, <2>6, <3>2 DEF OnceOK
      <3> QED BY <3>1, <3>2
    <2> QED BY <1>1, <2>4, <2>5, <2>6 DEF OnceOK
  <1> QED BY <1>1, <1>2, <1>3

----------------------------------------------------------------------------
(***************************************************************************)
(* The invariant.                                                          *)
(***************************************************************************)
ArgoLabels == {"get", "create", "update", "install", "call"}

ArgoOK == ObjectsOK /\ InstallOK /\ OnceOK

LEMMA ArgoElsewhere ==
  ASSUME RunOK, ArgoOK, NEW p \in Pods, OnlyPod(p), at'[p] \notin ArgoLabels, UNCHANGED argoVars
  PROVE  ArgoOK'
  <1>1. ObjectsOK'
    BY NoObject, ObjectsStay DEF ArgoOK, ArgoLabels, argoVars
  <1>2. InstallOK'
    BY InstallElsewhere DEF ArgoOK, ArgoLabels, argoVars
  <1>3. OnceOK'
    BY OnceElsewhere DEF ArgoOK, ArgoLabels, argoVars, OnceOK
  <1> QED BY <1>1, <1>2, <1>3 DEF ArgoOK

LEMMA GitStepInv ==
  ASSUME IInv, NEW p \in Pods, GitStep(p) \/ GitFails(p), UNCHANGED argoVars PROVE IInv'
  <1> USE DEF Rests, Moves, GitLabels
  <1> DEFINE Done == RunOK' /\ GitOK' /\ OnlyPod(p) /\ at'[p] \notin ArgoLabels
  <1> USE DEF ArgoLabels
  <1>0. RunOK /\ GitOK /\ ArgoOK
    BY DEF IInv, ArgoOK
  <1>1. CASE Prepare(p)
    <2>1. Done
      BY <1>0, <1>1, PrepareMoves, PrepareGit
    <2> QED BY <1>0, <2>1, ArgoElsewhere DEF IInv, ArgoOK
  <1>2. CASE GetRef(p)
    <2>1. Done
      BY <1>0, <1>2, GetRefMoves, GetRefGit
    <2> QED BY <1>0, <2>1, ArgoElsewhere DEF IInv, ArgoOK
  <1>3. CASE UpdateRef(p)
    <2>1. Done
      BY <1>0, <1>3, UpdateRefRests, UpdateRefGit
    <2> QED BY <1>0, <2>1, ArgoElsewhere DEF IInv, ArgoOK
  <1>4. CASE GetTopic(p)
    <2>1. Done
      BY <1>0, <1>4, GetTopicMoves, GetTopicGit
    <2> QED BY <1>0, <2>1, ArgoElsewhere DEF IInv, ArgoOK
  <1>5. CASE CreateTopic(p)
    <2>1. Done
      BY <1>0, <1>5, CreateTopicMoves, CreateTopicGit
    <2> QED BY <1>0, <2>1, ArgoElsewhere DEF IInv, ArgoOK
  <1>6. CASE PushTopic(p)
    <2>1. Done
      BY <1>0, <1>6, PushTopicMoves, PushTopicGit
    <2> QED BY <1>0, <2>1, ArgoElsewhere DEF IInv, ArgoOK
  <1>7. CASE ListPRs(p)
    <2>1. Done
      BY <1>0, <1>7, ListPRsMoves, ListPRsGit
    <2> QED BY <1>0, <2>1, ArgoElsewhere DEF IInv, ArgoOK
  <1>8. CASE CreatePR(p)
    <2>1. Done
      BY <1>0, <1>8, CreatePRRests, CreatePRGit
    <2> QED BY <1>0, <2>1, ArgoElsewhere DEF IInv, ArgoOK
  <1>9. CASE Rebind(p)
    <2>1. Done
      BY <1>0, <1>9, RebindMoves, RebindGit
    <2> QED BY <1>0, <2>1, ArgoElsewhere DEF IInv, ArgoOK
  <1>10. CASE PersistBinding(p)
    <2>1. Done
      BY <1>0, <1>10, PersistBindingRests, PersistBindingGit
    <2> QED BY <1>0, <2>1, ArgoElsewhere DEF IInv, ArgoOK
  <1>11. CASE GitFails(p)
    <2>1. Done
      BY <1>0, <1>11, GitFailsRests, GitFailsGit
    <2> QED BY <1>0, <2>1, ArgoElsewhere DEF IInv, ArgoOK
  <1> QED BY <1>1, <1>2, <1>3, <1>4, <1>5, <1>6, <1>7, <1>8, <1>9, <1>10, <1>11 DEF GitStep

LEMMA ArgoStepInv ==
  ASSUME IInv, NEW p \in Pods, ArgoStep(p), UNCHANGED gitVars PROVE IInv'
  <1> USE DEF Rests, Moves
  <1>0. RunOK /\ GitOK /\ ObjectsOK /\ InstallOK /\ OnceOK
    BY DEF IInv
  <1> DEFINE Done == RunOK' /\ OnlyPod(p) /\ at'[p] \notin GitLabels
  <1>g. Done => GitOK'
    BY <1>0, GitElsewhere
  <1> USE DEF GitLabels
  <1>1. CASE EnsureReady(p)
    <2>1. Done /\ at[p] = "start" /\ at'[p] # "call" /\ UNCHANGED argoVars
      BY <1>0, <1>1, EnsureReadyMoves DEF EnsureReady
    <2>2. PodObject(p)'
      BY <1>0, <1>1, <2>1, EnsureReadyMoves, StartObject, NoObject
    <2>3. ObjectsOK'
      BY <1>0, <2>1, <2>2, ObjectsStay DEF argoVars
    <2>4. OnceOK'
      BY <1>0, <2>1, OnceElsewhere DEF argoVars, OnceOK
    <2> QED BY <1>0, <1>1, <1>g, <2>1, <2>3, <2>4, EnsureReadyInstall DEF IInv
  <1>2. CASE ApplyManifests(p)
    <2>1. Done /\ at[p] = "install" /\ at'[p] # "call"
          /\ UNCHANGED <<objects, clock, redeemed, calls>>
      BY <1>0, <1>2, ApplyManifestsMoves DEF ApplyManifests
    <2>2. PodObject(p)'
      BY <1>0, <1>2, <2>1, ApplyManifestsMoves, StartObject, NoObject
    <2>3. ObjectsOK'
      BY <1>0, <2>1, <2>2, ObjectsStay
    <2>4. OnceOK'
      BY <1>0, <2>1, OnceElsewhere DEF OnceOK
    <2> QED BY <1>0, <1>2, <1>g, <2>1, <2>3, <2>4, ApplyManifestsInstall DEF IInv
  <1>3. CASE GetObject(p)
    <2>1. Done /\ at'[p] \notin {"call", "install"} /\ UNCHANGED argoVars
      BY <1>0, <1>3, GetObjectMoves DEF GetObject, NextObject
    <2>2. InstallOK'
      BY <1>0, <2>1, InstallElsewhere DEF argoVars
    <2>3. OnceOK'
      BY <1>0, <2>1, OnceElsewhere DEF argoVars, OnceOK
    <2> QED BY <1>0, <1>3, <1>g, <2>1, <2>2, <2>3, GetObjectObjects DEF IInv
  <1>4. CASE CreateObject(p) \/ UpdateObject(p)
    <2>1. Done /\ at'[p] \notin {"call", "install"} /\ UNCHANGED <<install, redeemed, calls>>
      BY <1>0, <1>4, CreateObjectMoves, UpdateObjectMoves
         DEF CreateObject, UpdateObject, NextObject
    <2>2. InstallOK'
      BY <1>0, <2>1, InstallElsewhere
    <2>3. OnceOK'
      BY <1>0, <2>1, OnceElsewhere DEF OnceOK
    <2> QED BY <1>0, <1>4, <1>g, <2>1, <2>2, <2>3, CreateObjectObjects, UpdateObjectObjects
            DEF IInv
  <1>5. CASE CheckOwner(p)
    <2>1. Done /\ at'[p] \notin {"get", "create", "update", "install"} /\ UNCHANGED argoVars
      BY <1>0, <1>5, CheckOwnerMoves DEF CheckOwner
    <2>2. ObjectsOK'
      BY <1>0, <2>1, NoObject, ObjectsStay DEF argoVars
    <2>3. InstallOK'
      BY <1>0, <2>1, InstallElsewhere DEF argoVars
    <2> QED BY <1>0, <1>5, <1>g, <2>1, <2>2, <2>3, CheckOwnerOnce DEF IInv
  <1>6. CASE Redeem(p)
    <2>1. /\ Done /\ at'[p] \notin {"get", "create", "update", "install"}
          /\ UNCHANGED <<install, objects, clock>>
      BY <1>0, <1>6, RedeemMoves DEF Redeem
    <2>2. ObjectsOK'
      BY <1>0, <2>1, NoObject, ObjectsStay
    <2>3. InstallOK'
      BY <1>0, <2>1, InstallElsewhere
    <2> QED BY <1>0, <1>6, <1>g, <2>1, <2>2, <2>3, RedeemOnce DEF IInv
  <1>7. CASE Invoke(p)
    <2>1. Done /\ at'[p] # "install" /\ UNCHANGED install
      BY <1>0, <1>7, InvokeMoves DEF Invoke
    <2>2. InstallOK'
      BY <1>0, <2>1, InstallElsewhere
    <2> QED BY <1>0, <1>7, <1>g, <2>1, <2>2, InvokeObjects, InvokeOnce DEF IInv
  <1> QED BY <1>1, <1>2, <1>3, <1>4, <1>5, <1>6, <1>7 DEF ArgoStep

LEMMA RestsInv ==
  ASSUME IInv, NEW p \in Pods, Rests(p), RunOK', GitOK', UNCHANGED argoVars PROVE IInv'
  BY ArgoElsewhere DEF IInv, ArgoOK, Rests, ArgoLabels

LEMMA TenantInv == ASSUME IInv, Tenant PROVE IInv'
  <1>1. RunOK /\ GitOK /\ ObjectsOK /\ InstallOK /\ OnceOK
    BY DEF IInv
  <1>2. ASSUME TenantActs, UNCHANGED gitVars PROVE RunOK' /\ GitOK'
    <2>1. RunOK' /\ UNCHANGED <<issued, cmd, at, local>>
      BY <1>1, <1>2, TenantActsRun
    <2>2. GitTypes' /\ Remote' /\ MainGrows
      BY <1>1, <1>2, <2>1 DEF GitOK, GitTypes, Remote, NoLostFiles, Named, gitVars, MainGrows
    <2> QED BY <1>1, <1>2, <2>1, <2>2, PodGitKept DEF GitOK, Still, Named, gitVars
  <1>3. ASSUME TenantActs, UNCHANGED <<objects, clock>> PROVE ObjectsOK'
    <2>1. UNCHANGED <<issued, cmd, at, local>>
      BY <1>1, <1>3, TenantActsRun
    <2>2. ObjectTypes' /\ Renewed
      BY <1>1, <1>3 DEF ObjectsOK, ObjectTypes, Renewed
    <2> QED BY <1>1, <2>1, <2>2, PodObjectKept DEF ObjectsOK, Still
  <1>4. ASSUME TenantActs, UNCHANGED install PROVE InstallOK'
    BY <1>1, <1>4 DEF TenantActs, InstallOK, PodInstall, Theirs
  <1>5. ASSUME TenantActs, UNCHANGED <<redeemed, calls>> PROVE OnceOK'
    BY <1>1, <1>5 DEF TenantActs, OnceOK, Acts
  <1>6. CASE /\ \/ \E r \in Repos, f \in Paths : TenantCommits(r, f)
                \/ \E r \in Repos, c \in issued : MergePR(r, c)
             /\ UNCHANGED argoVars
    <2>1. TenantActs
      BY <1>6 DEF TenantCommits, MergePR
    <2>2. RunOK' /\ GitOK'
      BY <1>1, <1>6, <2>1, TenantActsRun, TenantCommitsGit, MergePRGit
    <2> QED BY <1>3, <1>4, <1>5, <1>6, <2>1, <2>2 DEF IInv, argoVars
  <1>7. CASE TenantInstalls /\ UNCHANGED gitVars
    BY <1>1, <1>2, <1>3, <1>5, <1>7, TenantInstallsInstall DEF TenantInstalls, IInv
  <1>8. CASE (\E o \in Objects : TenantChanges(o)) /\ UNCHANGED gitVars
    BY <1>1, <1>2, <1>4, <1>5, <1>8, TenantChangesObjects DEF TenantChanges, IInv
  <1> QED BY <1>6, <1>7, <1>8 DEF Tenant

LEMMA InitInv == Init => IInv
  <1> SUFFICES ASSUME Init PROVE IInv
    OBVIOUS
  <1>1. RunOK
    BY RunAssumption DEF Init, RunInit, RunOK, RunTypes, Handles, Labels, GitLabels
  <1>2. GitOK
    <2>1. [f \in Paths |-> None] \in Trees
      BY DEF Trees
    <2>2. main \in [Repos -> Refs] /\ ledger \in [Repos -> Trees] /\ NoLostFiles
      BY <2>1 DEF Init, GitInit, Refs, NoLostFiles
    <2>3. /\ bound \in [{SystemNamespace, JournalNamespace} -> [head : Nat, repo : Repos \cup {None}]]
          /\ \A n \in {SystemNamespace, JournalNamespace} : bound[n].repo \in {None, Convention}
      BY GitAssumption DEF Init, GitInit
    <2>4. /\ topic \in [Repos -> [issued -> Branches \cup {None}]]
          /\ \A r \in Repos, c \in issued : topic[r][c] = None
      BY DEF Init, GitInit
    <2>5. /\ pr \in [Repos -> [issued -> {"none", "open", "merged"}]]
          /\ \A r \in Repos, c \in issued : pr[r][c] = "none"
      BY DEF Init, GitInit
    <2>6. /\ repo \in [Pods -> Repos] /\ Named = {Convention} /\ Named \subseteq Repos
          /\ \A p \in Pods : repo[p] \in Named
      BY GitAssumption DEF Init, GitInit, Named
    <2>7. GitTypes
      BY <2>2, <2>3, <2>4, <2>5, <2>6 DEF GitTypes
    <2>8. Remote
      BY <2>2, <2>3, <2>4, <2>5, <2>6 DEF Remote
    <2>9. \A p \in Pods : PodGit(p)
      BY DEF Init, RunInit, PodGit, GitLabels
    <2> QED BY <2>7, <2>8, <2>9 DEF GitOK
  <1>3. ObjectsOK
    <2>1. SomeSpec \in Specs
      BY ObjectAssumption DEF SomeSpec
    <2>2. Made("inari", SomeSpec, 0) \in Resources /\ Made("inari", SomeSpec, 0).version = 0
      BY <2>1 DEF Resources, Made
    <2>3. objects \in [Objects -> Resources \cup {None}]
      BY <2>2 DEF Init, ArgoInit
    <2>4. clock = 0 /\ \A o \in Objects : objects[o] # None => objects[o].version = 0
      BY <2>2 DEF Init, ArgoInit
    <2>5. ObjectTypes
      BY <2>3, <2>4 DEF ObjectTypes
    <2> QED BY <2>5 DEF ObjectsOK, Init, RunInit, PodObject
  <1>4. InstallOK
    <2>1. install # None => install \in Installs /\ install.docs = Docs
      BY BundleAssumption DEF Init, ArgoInit, Installs
    <2>2. Docs >= ServerDoc
      BY BundleAssumption
    <2>3. \A p \in Pods : PodInstall(p)
      BY DEF Init, RunInit, PodInstall
    <2> QED BY <2>1, <2>2, <2>3 DEF InstallOK, Theirs
  <1>5. OnceOK
    BY DEF Init, RunInit, ArgoInit, OnceOK, Acts
  <1> QED BY <1>1, <1>2, <1>3, <1>4, <1>5 DEF IInv

LEMMA NextInv == IInv /\ [Next]_vars => IInv'
  <1> SUFFICES ASSUME IInv, [Next]_vars PROVE IInv'
    OBVIOUS
  <1>1. RunOK /\ GitOK
    BY DEF IInv
  <1>2. ASSUME NEW p \in Pods, DeliverAny(p) PROVE IInv'
    <2>1. RunOK' /\ Rests(p) /\ UNCHANGED <<gitVars, argoVars>>
      BY <1>1, <1>2, DeliverRests DEF DeliverAny
    <2>2. GitOK'
      BY <1>1, <2>1, GitRests, GitStays DEF Rests
    <2> QED BY <2>1, <2>2, RestsInv
  <1>3. ASSUME NEW p \in Pods, Record(p), UNCHANGED <<gitVars, argoVars>> PROVE IInv'
    <2>1. RunOK' /\ Rests(p)
      BY <1>1, <1>3, RecordRests
    <2>2. GitOK'
      BY <1>1, <1>3, <2>1, GitRests, GitStays DEF Rests
    <2> QED BY <1>3, <2>1, <2>2, RestsInv
  <1>4. ASSUME NEW p \in Pods, Crash(p) PROVE IInv'
    <2>1. RunOK' /\ Rests(p) /\ UNCHANGED argoVars
      BY <1>1, <1>4, CrashRests DEF Crash
    <2> QED BY <1>1, <1>4, <2>1, CrashGit, RestsInv
  <1>5. ASSUME NEW p \in Pods, HandlerStep(p) PROVE IInv'
    BY <1>3, <1>5, GitStepInv, ArgoStepInv DEF HandlerStep
  <1>6. CASE UNCHANGED vars
    <2>1. UNCHANGED <<runVars, gitVars, argoVars>>
      BY <1>6 DEF vars
    <2>2. RunOK'
      BY <1>1, <2>1 DEF runVars, RunOK, RunTypes, Handles
    <2>3. GitOK'
      BY <1>1, <2>1 DEF runVars, gitVars, GitOK, GitTypes, Remote, NoLostFiles, Named, PodGit, Target,
                        Base, BuiltOn
    <2>4. ObjectsOK'
      BY <2>1 DEF runVars, argoVars, IInv, ObjectsOK, ObjectTypes, PodObject, InHand, Current,
                  Fresh, Mine
    <2>5. InstallOK' /\ OnceOK'
      BY <2>1 DEF runVars, argoVars, IInv, InstallOK, PodInstall, Theirs, OnceOK, Acts
    <2> QED BY <2>2, <2>3, <2>4, <2>5 DEF IInv
  <1> QED BY <1>2, <1>4, <1>5, <1>6, GitStepInv, TenantInv DEF Next, ProviderFails

\* The inductive invariant holds.
THEOREM Invariance == Spec => []IInv
  BY InitInv, NextInv, PTL DEF Spec

\* The variables have their types, for every workload.
THEOREM TypeCorrect == Spec => []TypeOK
  <1>1. IInv => TypeOK
    <2> SUFFICES ASSUME IInv PROVE TypeOK
      OBVIOUS
    <2>1. \A r \in Repos : main[r].head \in Nat /\ main[r].tree \in Trees
      BY DEF IInv, GitOK, GitTypes, Refs
    <2>2. \A o \in Objects : objects[o] # None => objects[o].version \in 0..clock
      BY DEF IInv, ObjectsOK, ObjectTypes, Resources
    <2> QED BY <2>1, <2>2 DEF TypeOK, IInv, RunOK, RunTypes, GitOK, GitTypes, OnceOK
  <1> QED BY <1>1, Invariance, PTL

(***************************************************************************)
(* No write is lost (CommitFiles, DeleteFiles): a commit that UpdateRef    *)
(* accepts has the tree of the head it replaces.                           *)
(***************************************************************************)
THEOREM WritesAreKept == Spec => []NoLostFiles
  <1>1. IInv => NoLostFiles
    BY DEF IInv, GitOK, Remote
  <1> QED BY <1>1, Invariance, PTL

(***************************************************************************)
(* Files go to repositories that a registration has named only             *)
(* (resolveTarget, GitopsConfigUpdate).                                    *)
(***************************************************************************)
THEOREM BoundReposOnly == Spec => []OnlyBoundRepos
  <1>1. IInv => OnlyBoundRepos
    BY DEF IInv, GitOK, Remote, OnlyBoundRepos
  <1> QED BY <1>1, Invariance, PTL

\* An action for a user is performed with their token, once (Redeem).
THEOREM UserActionOnce == Spec => []ActsAsUserOnce
  <1>1. IInv => ActsAsUserOnce
    BY DEF IInv, OnceOK, ActsAsUserOnce
  <1> QED BY <1>1, Invariance, PTL

----------------------------------------------------------------------------
(***************************************************************************)
(* What the tenant owns.  A pod about to act on an Application has seen    *)
(* Inari's label on it: the label is there still, or the Application is    *)
(* gone, or the pod is among those that the tenant overtook.               *)
(***************************************************************************)
Acting == {"redeem", "call"}

Sanctioned(p) ==
  LET o == objects[cmd[p].object] IN o = None \/ Mine(o) \/ p \in o.racing

Owners == \A p \in Pods : at[p] \in Acting => Sanctioned(p)

\* An object with another content: what was known of its owner is still true.
Handed(o) ==
  \/ objects'[o] \in {objects[o], None}
  \/ Mine(objects'[o])
  \/ /\ objects[o] # None
     /\ objects'[o].owner = objects[o].owner /\ objects'[o].racing = objects[o].racing
  \/ Committed(o) \subseteq objects'[o].racing

LEMMA ObjectOfAction ==
  ASSUME RunOK, NEW p \in Pods, at[p] \in Acting
  PROVE  cmd[p] \in Commands /\ cmd[p].object \in Objects
  BY IssuedCommands, ObjectAssumption DEF RunOK, RunTypes, Handles, Acting

LEMMA SanctionKept ==
  ASSUME RunOK, Owners, \A o \in Objects : Handed(o), NEW q \in Pods, Still(q), at[q] \in Acting
  PROVE  Sanctioned(q)'
  <1> DEFINE o == cmd[q].object
  <1>1. o \in Objects /\ cmd'[q].object = o /\ Sanctioned(q)
    BY ObjectOfAction DEF Owners, Still
  <1>2. q \in Committed(o)
    BY DEF Committed, Acting
  <1>3. objects'[o] = None \/ Mine(objects'[o]) \/ q \in objects'[o].racing
    BY <1>1, <1>2 DEF Handed, Sanctioned, Mine
  <1> QED BY <1>1, <1>3 DEF Sanctioned, Mine

LEMMA OwnersMove ==
  ASSUME RunOK, Owners, NEW p \in Pods, OnlyPod(p), \A o \in Objects : Handed(o),
         at'[p] \in Acting => Sanctioned(p)'
  PROVE  Owners'
  <1>1. ASSUME NEW q \in Pods, at'[q] \in Acting PROVE Sanctioned(q)'
    <2>1. CASE q = p
      BY <1>1, <2>1
    <2>2. CASE q # p
      BY <1>1, <2>2, SanctionKept DEF OnlyPod, Still
    <2> QED BY <2>1, <2>2
  <1> QED BY <1>1 DEF Owners

LEMMA WriteHands ==
  ASSUME ObjectsOK, NEW o \in Objects, NEW v, WriteObject(o, v),
         \/ v = None \/ Mine(v)
         \/ objects[o] # None /\ v.owner = objects[o].owner /\ v.racing = objects[o].racing
         \/ Committed(o) \subseteq v.racing
  PROVE  \A x \in Objects : Handed(x)
  <1>1. \A x \in Objects : objects'[x] = IF x = o THEN v ELSE objects[x]
    BY DEF WriteObject, ObjectsOK, ObjectTypes
  <1> QED BY <1>1 DEF Handed

LEMMA UpsertOwners ==
  ASSUME IInv, Owners, NEW p \in Pods, CreateObject(p) \/ UpdateObject(p) PROVE Owners'
  <1>1. RunOK /\ ObjectsOK
    BY DEF IInv
  <1>2. ASSUME CreateObject(p)
        PROVE  OnlyPod(p) /\ at'[p] \notin Acting /\ \A x \in Objects : Handed(x)
    <2> DEFINE o == Current(p, local[p])
               v == Made("inari", cmd[p].spec, clock')
    <2>1. /\ at[p] = "create" /\ NextObject(p, local[p])
          /\ UNCHANGED objects \/ WriteObject(o, v)
      BY <1>1, <1>2, CreateObjectMoves
    <2>2. o \in Objects
      BY <1>1, <2>1, CurrentIsObject DEF RunOK, Handles, ObjectsOK, PodObject
    <2>3. Mine(v)
      BY DEF Mine, Made
    <2> HIDE DEF o, v
    <2>4. \A x \in Objects : Handed(x)
      <3>1. CASE UNCHANGED objects
        BY <3>1 DEF Handed
      <3>2. CASE WriteObject(o, v)
        BY <1>1, <2>2, <2>3, <3>2, WriteHands
      <3> QED BY <2>1, <3>1, <3>2
    <2> QED BY <2>1, <2>4 DEF NextObject, Rests, Moves, Acting
  <1>3. ASSUME UpdateObject(p)
        PROVE  OnlyPod(p) /\ at'[p] \notin Acting /\ \A x \in Objects : Handed(x)
    <2> DEFINE o == Current(p, local[p].n)
               v == [objects[o] EXCEPT !.spec = cmd[p].spec, !.version = clock']
    <2>1. /\ at[p] = "update" /\ NextObject(p, local[p].n)
          /\ UNCHANGED objects \/ (Fresh(p, o) /\ WriteObject(o, v))
      BY <1>1, <1>3, UpdateObjectMoves
    <2>2. o \in Objects
      BY <1>1, <2>1, CurrentIsObject DEF RunOK, Handles, ObjectsOK, PodObject
    <2>3. Fresh(p, o) => /\ objects[o] # None
                         /\ v.owner = objects[o].owner /\ v.racing = objects[o].racing
      BY <1>1, <2>2 DEF Fresh, ObjectsOK, ObjectTypes, Resources
    <2> HIDE DEF o, v
    <2>4. \A x \in Objects : Handed(x)
      <3>1. CASE UNCHANGED objects
        BY <3>1 DEF Handed
      <3>2. CASE Fresh(p, o) /\ WriteObject(o, v)
        BY <1>1, <2>2, <2>3, <3>2, WriteHands
      <3> QED BY <2>1, <3>1, <3>2
    <2> QED BY <2>1, <2>4 DEF NextObject, Rests, Moves, Acting
  <1> QED BY <1>1, <1>2, <1>3, OwnersMove

LEMMA ActionOwners ==
  ASSUME IInv, Owners, NEW p \in Pods, CheckOwner(p) \/ Redeem(p) \/ Invoke(p) PROVE Owners'
  <1>1. RunOK /\ ObjectsOK
    BY DEF IInv
  <1>2. CASE CheckOwner(p)
    <2>1. OnlyPod(p) /\ UNCHANGED objects
      BY <1>1, <1>2, CheckOwnerMoves DEF CheckOwner, argoVars, Rests, Moves
    <2>2. ASSUME at'[p] \in Acting PROVE Sanctioned(p)'
      <3>1. ~Failed(p)
        BY <1>1, <2>2 DEF Failed, Return, Leave, RunOK, RunTypes, Acting
      <3>2. Mine(objects[cmd[p].object]) /\ UNCHANGED cmd
        BY <1>2, <3>1 DEF CheckOwner, Goto
      <3> QED BY <2>1, <3>2 DEF Sanctioned, Mine
    <2>3. \A x \in Objects : Handed(x)
      BY <2>1 DEF Handed
    <2> QED BY <1>1, <2>1, <2>2, <2>3, OwnersMove
  <1>3. CASE Redeem(p)
    <2>1. OnlyPod(p) /\ UNCHANGED objects /\ at[p] = "redeem"
      BY <1>1, <1>3, RedeemMoves DEF Redeem, Rests, Moves
    <2>2. ASSUME at'[p] \in Acting PROVE UNCHANGED cmd
      BY <1>1, <1>3, <2>2, RedeemMoves DEF Rests, Moves, Acting
    <2>3. at'[p] \in Acting => Sanctioned(p)'
      BY <2>1, <2>2 DEF Owners, Sanctioned, Mine, Acting
    <2>4. \A x \in Objects : Handed(x)
      BY <2>1 DEF Handed
    <2> QED BY <1>1, <2>1, <2>3, <2>4, OwnersMove
  <1>4. CASE Invoke(p)
    <2> DEFINE o == cmd[p].object
               v == [objects[o] EXCEPT !.operation = cmd[p], !.version = clock']
    <2>1. /\ at[p] = "call" /\ OnlyPod(p) /\ at'[p] \notin Acting
          /\ UNCHANGED objects \/ (objects[o] # None /\ WriteObject(o, v))
      BY <1>1, <1>4, InvokeMoves DEF Rests, Perform, Acting
    <2>2. o \in Objects
      BY <1>1, <2>1, ObjectOfAction DEF Acting
    <2>3. objects[o] # None => v.owner = objects[o].owner /\ v.racing = objects[o].racing
      BY <1>1, <2>2 DEF ObjectsOK, ObjectTypes, Resources
    <2> HIDE DEF o, v
    <2>4. \A x \in Objects : Handed(x)
      <3>1. CASE UNCHANGED objects
        BY <3>1 DEF Handed
      <3>2. CASE objects[o] # None /\ WriteObject(o, v)
        BY <1>1, <2>2, <2>3, <3>2, WriteHands
      <3> QED BY <2>1, <3>1, <3>2
    <2> QED BY <1>1, <2>1, <2>4, OwnersMove
  <1> QED BY <1>2, <1>3, <1>4

\* Every other step leaves the objects alone, and takes no pod to an action.
LEMMA OthersOwners ==
  ASSUME IInv, Owners, NEW p \in Pods, OnlyPod(p), UNCHANGED objects, at'[p] \notin Acting
  PROVE  Owners'
  <1>1. RunOK /\ \A x \in Objects : Handed(x)
    BY DEF IInv, Handed
  <1> QED BY <1>1, OwnersMove

LEMMA TenantOwners == ASSUME IInv, Owners, Tenant PROVE Owners'
  <1>1. RunOK /\ ObjectsOK /\ UNCHANGED <<cmd, at, local>>
    BY DEF IInv, Tenant, TenantCommits, MergePR, TenantInstalls, TenantChanges, TenantActs
  <1>2. \A x \in Objects : Handed(x)
    <2>1. CASE UNCHANGED objects
      BY <2>1 DEF Handed
    <2>2. CASE \E o \in Objects : TenantChanges(o)
      <3>1. PICK o \in Objects : TenantChanges(o)
        BY <2>2
      <3> DEFINE v == [Made("tenant", SomeSpec, clock') EXCEPT !.racing = Committed(o)]
      <3>2. v.racing = Committed(o)
        BY DEF Made
      <3>3. WriteObject(o, v) \/ WriteObject(o, None)
        BY <3>1 DEF TenantChanges
      <3> HIDE DEF v
      <3> QED BY <1>1, <3>2, <3>3, WriteHands
    <2> QED BY <2>1, <2>2 DEF Tenant, TenantInstalls, argoVars
  <1>3. ASSUME NEW q \in Pods, at'[q] \in Acting PROVE Sanctioned(q)'
    BY <1>1, <1>2, <1>3, SanctionKept DEF Still
  <1> QED BY <1>3 DEF Owners

\* Where the steps of the gitops handlers, and those before an action, lead.
LEMMA GitMoves ==
  ASSUME RunOK, NEW p \in Pods, GitStep(p) \/ GitFails(p)
  PROVE  OnlyPod(p) /\ at'[p] \notin Acting
  <1> USE DEF Rests, Moves, Acting
  <1>1. CASE Prepare(p) \/ GetRef(p) \/ UpdateRef(p) \/ GetTopic(p) \/ CreateTopic(p)
    BY <1>1, PrepareMoves, GetRefMoves, UpdateRefRests, GetTopicMoves, CreateTopicMoves
  <1>2. CASE PushTopic(p) \/ ListPRs(p) \/ CreatePR(p)
    BY <1>2, PushTopicMoves, ListPRsMoves, CreatePRRests
  <1>3. CASE Rebind(p) \/ PersistBinding(p) \/ GitFails(p)
    BY <1>3, RebindMoves, PersistBindingRests, GitFailsRests
  <1> QED BY <1>1, <1>2, <1>3 DEF GitStep

LEMMA OwnersNext == ASSUME IInv, Owners, [Next]_vars PROVE Owners'
  <1>1. RunOK
    BY DEF IInv
  <1>2. ASSUME NEW p \in Pods, GitStep(p) \/ GitFails(p), UNCHANGED argoVars PROVE Owners'
    BY <1>1, <1>2, GitMoves, OthersOwners DEF argoVars
  <1>3. ASSUME NEW p \in Pods, ArgoStep(p) PROVE Owners'
    <2>1. CASE EnsureReady(p) \/ ApplyManifests(p) \/ GetObject(p)
      <3>1. OnlyPod(p) /\ at'[p] \notin Acting /\ UNCHANGED objects
        BY <1>1, <2>1, EnsureReadyMoves, ApplyManifestsMoves, GetObjectMoves
           DEF EnsureReady, ApplyManifests, GetObject, argoVars, Rests, Moves, NextObject, Acting
      <3> QED BY <3>1, OthersOwners
    <2> QED BY <1>3, <2>1, UpsertOwners, ActionOwners DEF ArgoStep
  <1>4. ASSUME NEW p \in Pods, DeliverAny(p) \/ Crash(p) \/ (Record(p) /\ UNCHANGED argoVars)
        PROVE  Owners'
    <2>1. Rests(p) /\ UNCHANGED objects
      BY <1>1, <1>4, DeliverRests, CrashRests, RecordRests DEF DeliverAny, Crash, argoVars
    <2> QED BY <2>1, OthersOwners DEF Rests, Acting
  <1>5. CASE UNCHANGED vars
    BY <1>5 DEF vars, runVars, argoVars, Owners, Sanctioned, Mine
  <1> QED BY <1>2, <1>3, <1>4, <1>5, TenantOwners DEF Next, HandlerStep, ProviderFails

LEMMA TenantObjects ==
  ASSUME IInv, Owners, Next, NEW o \in Objects, objects[o] # None, objects[o].owner = "tenant",
         objects'[o] # objects[o]
  PROVE  Tenant \/ \E p \in objects[o].racing : Invoke(p) /\ cmd[p].object = o
  <1>1. RunOK /\ ObjectsOK /\ DOMAIN objects = Objects
    BY DEF IInv, ObjectsOK, ObjectTypes
  <1>2. ASSUME NEW p \in Pods, CreateObject(p) PROVE FALSE
    <2>1. /\ objects[Current(p, local[p])] = None
          /\ \E v : objects' = [objects EXCEPT ![Current(p, local[p])] = v]
      BY <1>2 DEF CreateObject, WriteObject
    <2> QED BY <1>1, <2>1
  <1>3. ASSUME NEW p \in Pods, UpdateObject(p) PROVE FALSE
    <2> DEFINE c == Current(p, local[p].n)
    <2>1. /\ at[p] = "update" /\ Fresh(p, c)
          /\ \E v : objects' = [objects EXCEPT ![c] = v]
      BY <1>3 DEF UpdateObject, WriteObject
    <2>2. Mine(objects[c])
      BY <1>1, <2>1 DEF ObjectsOK, PodObject
    <2> HIDE DEF c
    <2> QED BY <1>1, <2>1, <2>2 DEF Mine
  <1>4. ASSUME NEW p \in Pods, Invoke(p) PROVE p \in objects[o].racing /\ cmd[p].object = o
    <2>1. /\ at[p] = "call"
          /\ \E v : objects' = [objects EXCEPT ![cmd[p].object] = v]
      BY <1>4 DEF Invoke, Perform, WriteObject
    <2>2. cmd[p].object = o
      BY <1>1, <2>1
    <2>3. Sanctioned(p)
      BY <2>1 DEF Owners, Acting
    <2> QED BY <2>2, <2>3 DEF Sanctioned, Mine
  <1>5. ASSUME NEW p \in Pods, ArgoStep(p) PROVE Invoke(p)
    BY <1>2, <1>3, <1>5
       DEF ArgoStep, EnsureReady, ApplyManifests, GetObject, CheckOwner, Redeem, argoVars
  <1> QED BY <1>4, <1>5 DEF Next, DeliverAny, HandlerStep, ProviderFails, Crash, argoVars

LEMMA TenantInstall ==
  ASSUME IInv, Next, install # None, install.owner = "tenant", install' # install
  PROVE  \E p \in install.racing : at[p] = "install"
  <1>1. InstallOK /\ Theirs
    BY DEF IInv, Theirs
  <1>2. ASSUME NEW p \in Pods, ArgoStep(p) PROVE \E q \in install.racing : at[q] = "install"
    <2>1. at[p] = "install"
      BY <1>2 DEF ArgoStep, EnsureReady, ApplyManifests, GetObject, CreateObject, UpdateObject,
                  CheckOwner, Redeem, Invoke, argoVars
    <2> QED BY <1>1, <2>1 DEF InstallOK, PodInstall
  <1>3. ASSUME Tenant PROVE FALSE
    <2>1. ~Detected
      BY <1>3 DEF Tenant, TenantInstalls, TenantChanges, argoVars
    <2> QED BY <1>1, <2>1 DEF InstallOK, Theirs, Detected
  <1> QED BY <1>2, <1>3 DEF Next, DeliverAny, HandlerStep, ProviderFails, Crash, argoVars

(***************************************************************************)
(* What the tenant owns is changed by the tenant only, because an update   *)
(* carries the version of the copy whose label was checked, because only a *)
(* pod that has checked the label acts on an Application, and because an   *)
(* ArgoCD that Detect can see is not installed over (upsert,               *)
(* InvokeActionHandler, EnsureReady); except for pods that the tenant      *)
(* overtakes after the check.                                              *)
(***************************************************************************)
THEOREM TenantIsLeftAlone == Spec => TenantUntouched
  <1>1. Init => Owners
    BY DEF Init, RunInit, Owners, Acting
  <1>2. IInv /\ Owners /\ [Next]_vars => Owners'
    BY OwnersNext
  <1>3. IInv /\ Owners /\ [Next]_vars =>
          [/\ \A o \in Objects :
                objects[o] # None /\ objects[o].owner = "tenant" /\ objects'[o] # objects[o] =>
                  Tenant \/ \E p \in objects[o].racing : Invoke(p) /\ cmd[p].object = o
           /\ install # None /\ install.owner = "tenant" /\ install' # install
                => \E p \in install.racing : at[p] = "install"]_vars
    BY TenantObjects, TenantInstall
  <1> QED BY <1>1, <1>2, <1>3, Invariance, PTL DEF Spec, TenantUntouched

----------------------------------------------------------------------------
(***************************************************************************)
(* The binding.  The registration names what a rebind has written last, if *)
(* any has; a rebind that is through has found its repository in memory or *)
(* has written it, so that it is one that a registration may name; and the *)
(* registration that is written is one that the agent has the right to.    *)
(***************************************************************************)
Written ==
  IF rebound = {} THEN bound[SystemNamespace].repo = None
                  ELSE bound[SystemNamespace].repo \in rebound

Through(c) == verdict[c] = "APPLIED" \/ \E p \in Pods : at[p] = "end" /\ cmd[p] = c

Rebound ==
  /\ Written
  /\ \A c \in issued : c.kind = "rebind" /\ Through(c) => c.repo \in Named
  /\ \A p \in Pods : at[p] = "persist" => JournalNamespace \in Granted

\* Verdicts come from handlers that are through.
Honest(p) == \A c \in issued : verdict'[c] = "APPLIED" =>
               verdict[c] = "APPLIED" \/ (at[p] = "end" /\ cmd[p] = c)

LEMMA BindingMoves ==
  ASSUME Rebound, Written', Named \subseteq Named', NEW p \in Pods, OnlyPod(p), Honest(p),
         at'[p] = "end" /\ cmd'[p].kind = "rebind" => cmd'[p].repo \in Named',
         at'[p] = "persist" => JournalNamespace \in Granted
  PROVE  Rebound'
  <1>1. ASSUME NEW c \in issued', c.kind = "rebind", Through(c)' PROVE c.repo \in Named'
    <2>1. c \in issued
      BY DEF OnlyPod
    <2>2. CASE Through(c)
      BY <1>1, <2>1, <2>2 DEF Rebound
    <2>3. CASE ~Through(c)
      <3>1. verdict'[c] # "APPLIED"
        BY <2>1, <2>3 DEF Through, Honest
      <3>2. PICK q \in Pods : at'[q] = "end" /\ cmd'[q] = c
        BY <1>1, <3>1 DEF Through
      <3>3. q = p
        BY <2>3, <3>2 DEF Through, OnlyPod
      <3> QED BY <1>1, <3>2, <3>3
    <2> QED BY <2>2, <2>3
  <1>2. \A q \in Pods : at'[q] = "persist" => JournalNamespace \in Granted
    BY DEF Rebound, OnlyPod
  <1> QED BY <1>1, <1>2 DEF Rebound

LEMMA BindingStays ==
  ASSUME Rebound, NEW p \in Pods, OnlyPod(p), UNCHANGED <<bound, rebound>>, Honest(p),
         at'[p] = "end" /\ cmd'[p].kind = "rebind" => cmd'[p].repo \in Named,
         at'[p] = "persist" => JournalNamespace \in Granted
  PROVE  Rebound'
  <1>1. Written' /\ Named' = Named
    BY DEF Rebound, Written, Named
  <1> QED BY <1>1, BindingMoves

\* A step of a handler leaves command and verdict, or ends without success.
Outcome(p) ==
  \/ UNCHANGED <<cmd, verdict>>
  \/ Failed(p)
  \/ Transient(p)

LEMMA GitOutcome == ASSUME NEW p \in Pods, GitStep(p) \/ GitFails(p) PROVE Outcome(p)
  <1> USE DEF Goto, Succeed, Outcome
  <1>1. CASE Prepare(p) \/ GetRef(p) \/ UpdateRef(p) \/ GetTopic(p) \/ CreateTopic(p)
    BY <1>1 DEF Prepare, GetRef, UpdateRef, GetTopic, CreateTopic
  <1>2. CASE PushTopic(p) \/ ListPRs(p) \/ CreatePR(p)
    BY <1>2 DEF PushTopic, ListPRs, CreatePR
  <1>3. CASE Rebind(p) \/ PersistBinding(p) \/ GitFails(p)
    BY <1>3 DEF Rebind, PersistBinding, GitFails
  <1> QED BY <1>1, <1>2, <1>3 DEF GitStep

LEMMA ArgoOutcome == ASSUME NEW p \in Pods, ArgoStep(p) PROVE Outcome(p)
  <1> USE DEF Goto, Succeed, Outcome, Upserted
  <1>1. CASE EnsureReady(p) \/ ApplyManifests(p) \/ GetObject(p)
    BY <1>1 DEF EnsureReady, ApplyManifests, GetObject
  <1>2. CASE CreateObject(p) \/ UpdateObject(p)
    BY <1>2 DEF CreateObject, UpdateObject
  <1>3. CASE CheckOwner(p) \/ Redeem(p) \/ Invoke(p)
    BY <1>3 DEF CheckOwner, Redeem, Invoke
  <1> QED BY <1>1, <1>2, <1>3 DEF ArgoStep

LEMMA OutcomeHonest ==
  ASSUME RunOK, NEW p \in Pods, Outcome(p)
  PROVE  Honest(p) /\ (at'[p] # "idle" => UNCHANGED <<cmd, verdict>>)
  <1>1. CASE UNCHANGED <<cmd, verdict>>
    BY <1>1 DEF Honest
  <1>2. CASE Failed(p)
    <2>1. verdict' = [verdict EXCEPT ![cmd[p]] = IF @ = None THEN "FAILED" ELSE @]
      BY <1>2 DEF Failed, Return
    <2>2. Honest(p)
      BY <2>1 DEF Honest, RunOK, RunTypes
    <2>3. at'[p] = "idle"
      BY <1>2 DEF Failed, Return, Leave, RunOK, RunTypes
    <2> QED BY <2>2, <2>3
  <1>3. CASE Transient(p)
    BY <1>3 DEF Transient, Leave, Honest, RunOK, RunTypes
  <1> QED BY <1>1, <1>2, <1>3 DEF Outcome

\* The handlers of other commands.
LEMMA OtherHandlers ==
  ASSUME IInv, IInv', Rebound, NEW p \in Pods,
         \/ (GitStep(p) \/ GitFails(p)) /\ ~Rebind(p) /\ ~PersistBinding(p)
         \/ ArgoStep(p),
         UNCHANGED <<bound, rebound>>, OnlyPod(p)
  PROVE  Rebound'
  <1>1. RunOK
    BY DEF IInv
  <1>2. Honest(p) /\ (at'[p] # "idle" => UNCHANGED <<cmd, verdict>>)
    BY <1>1, GitOutcome, ArgoOutcome, OutcomeHonest
  <1>3. cmd[p].kind # "rebind"
    <2>1. CASE at[p] = "start"
      BY <2>1 DEF GitStep, Prepare, GetRef, UpdateRef, GetTopic, CreateTopic, PushTopic, ListPRs,
                  CreatePR, GitFails, ArgoStep, EnsureReady, ApplyManifests, GetObject,
                  CreateObject, UpdateObject, CheckOwner, Redeem, Invoke
    <2>2. CASE at[p] # "start"
      <3>1. at[p] \in GitLabels \cup {"install", "get", "create", "update", "redeem", "call"}
        BY <2>2 DEF GitStep, Prepare, GetRef, UpdateRef, GetTopic, CreateTopic, PushTopic,
                    ListPRs, CreatePR, GitFails, ArgoStep, EnsureReady, ApplyManifests, GetObject,
                    CreateObject, UpdateObject, CheckOwner, Redeem, Invoke, GitLabels
      <3> QED BY <1>1, <3>1 DEF RunOK, Handles
    <2> QED BY <2>1, <2>2
  <1>4. at'[p] # "persist"
    BY <1>2, <1>3 DEF IInv, RunOK, Handles
  <1> QED BY <1>2, <1>3, <1>4, BindingStays

\* A rebind that changes nothing finds its repository in memory.
LEMMA RebindBinding == ASSUME IInv, Rebound, NEW p \in Pods, Rebind(p) PROVE Rebound'
  <1>1. RunOK /\ GitOK
    BY DEF IInv
  <1>2. UNCHANGED <<bound, rebound>> /\ OnlyPod(p)
    BY <1>1, RebindMoves DEF Rebind, gitVars, Rests, Moves
  <1>3. Honest(p) /\ (at'[p] # "idle" => UNCHANGED <<cmd, verdict>>)
    BY <1>1, GitOutcome, OutcomeHonest DEF GitStep
  <1>4. /\ at'[p] = "end" => cmd[p].repo = repo[p]
        /\ at'[p] = "persist" => JournalNamespace \in Granted
    <2>1. DOMAIN at = Pods
      BY <1>1 DEF RunOK, RunTypes
    <2> QED BY <2>1 DEF Rebind, RefusesRebind, Failed, Return, Leave, Goto, Succeed
  <1>5. repo[p] \in Named
    BY <1>1 DEF GitOK, Remote
  <1> QED BY <1>2, <1>3, <1>4, <1>5, BindingStays

\* The registration that is written is the one that a starting pod reads.
LEMMA PersistBindingBinding ==
  ASSUME Granted = {SystemNamespace}, IInv, Rebound, NEW p \in Pods, PersistBinding(p)
  PROVE  Rebound'
  <1>1. RunOK /\ GitOK
    BY DEF IInv
  <1>2. OnlyPod(p) /\ at[p] = "persist" /\ at'[p] # "persist"
    BY <1>1, PersistBindingRests DEF Rests, PersistBinding
  <1>3. JournalNamespace = SystemNamespace
    BY <1>2 DEF Rebound
  <1>4. Outcome(p)
    BY GitOutcome DEF GitStep
  <1>5. Honest(p) /\ (at'[p] # "idle" => UNCHANGED <<cmd, verdict>>)
    BY <1>1, <1>4, OutcomeHonest
  <1>6. CASE UNCHANGED <<bound, rebound>> /\ Failed(p)
    <2>1. at'[p] = "idle"
      BY <1>1, <1>6 DEF Failed, Return, Leave, RunOK, RunTypes
    <2> QED BY <1>2, <1>5, <1>6, <2>1, BindingStays
  <1>7. CASE /\ bound' = [bound EXCEPT ![SystemNamespace] =
                            [head |-> bound[SystemNamespace].head + 1, repo |-> cmd[p].repo]]
             /\ rebound' = rebound \cup {cmd[p].repo}
    <2>1. bound'[SystemNamespace].repo = cmd[p].repo
      BY <1>1, <1>7 DEF GitOK, GitTypes
    <2>2. Written' /\ Named \subseteq Named' /\ cmd[p].repo \in Named'
      BY <1>7, <2>1 DEF Written, Named
    <2>3. at'[p] = "end" => cmd'[p].repo \in Named'
      BY <1>5, <2>2
    <2> QED BY <1>2, <1>5, <2>2, <2>3, BindingMoves
  <1> QED BY <1>3, <1>6, <1>7 DEF PersistBinding

LEMMA NextBinding ==
  ASSUME Granted = {SystemNamespace}, IInv, Rebound, [Next]_vars
  PROVE  Rebound'
  <1>1. RunOK /\ GitOK /\ IInv'
    BY NextInv DEF IInv
  <1>2. ASSUME NEW p \in Pods, GitStep(p) \/ GitFails(p) PROVE Rebound'
    <2>1. CASE Rebind(p) \/ PersistBinding(p)
      BY <2>1, RebindBinding, PersistBindingBinding
    <2>2. CASE ~(Rebind(p) \/ PersistBinding(p))
      <3>1. UNCHANGED <<bound, rebound>>
        BY <1>2, <2>2 DEF GitStep, GitFails, Prepare, GetRef, UpdateRef, GetTopic, CreateTopic,
                          PushTopic, ListPRs, CreatePR, gitVars
      <3>2. OnlyPod(p)
        BY <1>1, <1>2, GitMoves
      <3> QED BY <1>1, <1>2, <2>2, <3>1, <3>2, OtherHandlers
    <2> QED BY <2>1, <2>2
  <1>3. ASSUME NEW p \in Pods, ArgoStep(p), UNCHANGED gitVars PROVE Rebound'
    <2>1. OnlyPod(p)
      BY <1>1, <1>3, EnsureReadyMoves, ApplyManifestsMoves, GetObjectMoves, CreateObjectMoves,
         UpdateObjectMoves, CheckOwnerMoves, RedeemMoves, InvokeMoves
         DEF ArgoStep, Rests, Moves, NextObject
    <2> QED BY <1>1, <1>3, <2>1, OtherHandlers DEF gitVars
  <1>4. ASSUME NEW p \in Pods, Record(p), UNCHANGED gitVars PROVE Rebound'
    <2>1. OnlyPod(p) /\ UNCHANGED <<bound, rebound>>
      BY <1>1, <1>4, RecordRests DEF Rests, gitVars
    <2>2. at'[p] = "idle"
      BY <1>1, <1>4 DEF Record, Return, Leave, RunOK, RunTypes
    <2>3. Honest(p)
      BY <1>1, <1>4 DEF Record, Return, Honest, RunOK, RunTypes
    <2> QED BY <2>1, <2>2, <2>3, BindingStays
  <1>5. ASSUME NEW p \in Pods, DeliverAny(p) PROVE Rebound'
    <2>1. OnlyPod(p) /\ at'[p] = "start" /\ UNCHANGED <<bound, rebound>> /\ Honest(p)
      BY <1>1, <1>5, DeliverRun DEF DeliverAny, Deliver, gitVars, Honest
    <2> QED BY <2>1, BindingStays
  <1>6. ASSUME NEW p \in Pods, Crash(p) PROVE Rebound'
    <2>1. /\ OnlyPod(p) /\ at'[p] = "idle" /\ UNCHANGED <<bound, rebound>> /\ Honest(p)
      BY <1>1, <1>6, CrashRests DEF Crash, CrashRun, Rests, RestartGit, gitRemote, Honest, Leave,
                                    RunOK, RunTypes
    <2> QED BY <2>1, BindingStays
  <1>7. CASE Tenant \/ UNCHANGED vars
    <2>1. UNCHANGED <<issued, verdict, cmd, at, bound, rebound>>
      BY <1>7 DEF Tenant, TenantCommits, MergePR, TenantInstalls, TenantChanges, TenantActs,
                  gitVars, vars, runVars
    <2> QED BY <2>1 DEF Rebound, Written, Through, Named
  <1> QED BY <1>2, <1>3, <1>4, <1>5, <1>6, <1>7 DEF Next, HandlerStep, ProviderFails

(***************************************************************************)
(* A rebind that was APPLIED survives a restart, with the rights that the  *)
(* chart and the kustomize installation give the agent: to the ConfigMaps  *)
(* of its own namespace only, from which stateRepo reads the binding.      *)
(* Where GitopsConfigUpdate writes to another namespace it is refused.     *)
(***************************************************************************)
THEOREM RebindIsPersistent ==
  ASSUME Granted = {SystemNamespace}
  PROVE  Spec => []RebindSurvives
  <1>1. Init => Rebound
    <2> SUFFICES ASSUME Init PROVE Rebound
      OBVIOUS
    <2>1. Written
      BY DEF Init, GitInit, Written
    <2>2. /\ \A p \in Pods : at[p] \notin {"end", "persist"}
          /\ \A c \in issued : verdict[c] # "APPLIED"
      BY RunAssumption DEF Init, RunInit
    <2> QED BY <2>1, <2>2 DEF Rebound, Through
  <1>2. IInv /\ Rebound /\ [Next]_vars => Rebound'
    BY NextBinding
  <1>3. IInv /\ Rebound => RebindSurvives
    <2> SUFFICES ASSUME IInv, Rebound, NEW c \in issued, c.kind = "rebind",
                        verdict[c] = "APPLIED", rebound \subseteq {c.repo}
                 PROVE  StateRepo = c.repo
      BY DEF RebindSurvives
    <2>1. c.repo \in Named
      BY DEF Rebound, Through
    <2>2. CASE rebound = {}
      BY <2>1, <2>2 DEF Rebound, Written, Named, StateRepo
    <2>3. CASE rebound # {}
      <3>1. c.repo # None
        BY IssuedCommands, GitAssumption DEF IInv
      <3> QED BY <2>3, <3>1 DEF Rebound, Written, StateRepo
    <2> QED BY <2>2, <2>3
  <1> QED BY <1>1, <1>2, <1>3, Invariance, PTL DEF Spec

----------------------------------------------------------------------------
(***************************************************************************)
(* APPLIED.  A pod that is through has seen its goals reached, and one in  *)
(* the middle of a registration those before the object in hand.  It works *)
(* on the repository that it is bound to; a topic branch with a commit of  *)
(* its own has the file, and only such a branch has an open pull request.  *)
(***************************************************************************)
Proposed ==
  \A r \in Repos, c \in issued :
    /\ topic[r][c] # None /\ topic[r][c].ahead => topic[r][c].tree[c.path] = c.content
    /\ pr[r][c] = "open" => topic[r][c] # None /\ topic[r][c].ahead

Grounded(p) == at[p] \in GitLabels => Target(p) = repo[p]

\* The first n objects of command c.
Firsts(c, n) == {c.objects[i] : i \in 1..n}

Passed(p) ==
  IF at[p] = "end" THEN Goals(cmd[p])
  ELSE IF at[p] \in {"get", "create"} /\ cmd[p].kind = "register" THEN Firsts(cmd[p], local[p])
  ELSE IF at[p] = "update" THEN Firsts(cmd[p], local[p].n)
  ELSE {}

Seen(p) == at[p] # "idle" => Passed(p) \subseteq met[p]

Evidence == Proposed /\ \A p \in Pods : Grounded(p) /\ Seen(p)

LEMMA GoalsOf ==
  ASSUME NEW c
  PROVE  /\ c.kind \in {"write", "delete"} => Goals(c) = {c.path}
         /\ c.kind = "register" => Goals(c) = {c.objects[i] : i \in DOMAIN c.objects}
         /\ c.kind = "invoke" => Goals(c) = {c.object}
         /\ c.kind = "rebind" => Goals(c) = {c.repo}
  BY DEF Goals

LEMMA FirstsOf ==
  ASSUME NEW c, c.kind = "register", c.objects \in Seq(Objects), NEW n \in Nat,
         n < Len(c.objects)
  PROVE  /\ Firsts(c, 0) = {}
         /\ Firsts(c, n + 1) = Firsts(c, n) \cup {c.objects[n + 1]}
         /\ n + 1 = Len(c.objects) => Firsts(c, n + 1) = Goals(c)
  <1>1. Firsts(c, 0) = {}
    BY DEF Firsts
  <1>2. Firsts(c, n + 1) = Firsts(c, n) \cup {c.objects[n + 1]}
    <2>1. \A i : i \in 1..(n + 1) <=> i \in 1..n \/ i = n + 1
      OBVIOUS
    <2> QED BY <2>1 DEF Firsts
  <1>3. DOMAIN c.objects = 1..Len(c.objects)
    OBVIOUS
  <1> QED BY <1>1, <1>2, <1>3, GoalsOf DEF Firsts

LEMMA SeenIf ==
  ASSUME RunOK', Observe, NEW p \in Pods,
         at'[p] # "idle" => Passed(p)' \subseteq met[p] \cup Achieved(p)'
  PROVE  Seen(p)'
  <1>1. ASSUME at'[p] # "idle" PROVE Passed(p)' \subseteq met'[p]
    <2>1. cmd'[p] # None
      BY <1>1 DEF RunOK, RunTypes
    <2>2. met'[p] = met[p] \cup Achieved(p)'
      BY <2>1 DEF Observe
    <2> QED BY <1>1, <2>2
  <1> QED BY <1>1 DEF Seen

\* A pod that does not move keeps what it has seen.
LEMMA SeenKept ==
  ASSUME RunOK', Observe, NEW q \in Pods, Still(q), Seen(q)
  PROVE  Seen(q)'
  <1>1. Passed(q)' = Passed(q) /\ at'[q] = at[q]
    BY DEF Still, Passed
  <1> QED BY <1>1, SeenIf DEF Seen

LEMMA EvidenceMoves ==
  ASSUME Evidence, RunOK', Proposed', Observe, NEW p \in Pods, OnlyPod(p),
         \A q \in Pods \ {p} : repo'[q] = repo[q], Grounded(p)', Seen(p)'
  PROVE  Evidence'
  <1>1. ASSUME NEW q \in Pods \ {p} PROVE Grounded(q)' /\ Seen(q)'
    <2>1. Still(q) /\ repo'[q] = repo[q] /\ Grounded(q) /\ Seen(q)
      BY DEF OnlyPod, Still, Evidence
    <2> QED BY <2>1, SeenKept DEF Grounded, Still, Target
  <1> QED BY <1>1 DEF Evidence

\* At these steps nothing has been passed.
LEMMA NothingPassed ==
  ASSUME NEW p \in Pods, at'[p] \notin {"end", "get", "create", "update"}
  PROVE  Passed(p)' = {}
  BY DEF Passed

\* Only the branch and the pull request of c in r have changed.
LEMMA ProposedKept ==
  ASSUME Proposed, NEW r \in Repos, NEW c \in issued, UNCHANGED issued,
         \A s \in Repos, d \in issued :
           s # r \/ d # c => topic'[s][d] = topic[s][d] /\ pr'[s][d] = pr[s][d],
         topic'[r][c] # None /\ topic'[r][c].ahead => topic'[r][c].tree[c.path] = c.content,
         pr'[r][c] = "open" => topic'[r][c] # None /\ topic'[r][c].ahead
  PROVE  Proposed'
  <1> SUFFICES ASSUME NEW s \in Repos, NEW d \in issued
               PROVE  /\ topic'[s][d] # None /\ topic'[s][d].ahead =>
                           topic'[s][d].tree[d.path] = d.content
                      /\ pr'[s][d] = "open" => topic'[s][d] # None /\ topic'[s][d].ahead
    BY DEF Proposed
  <1> QED BY DEF Proposed

\* A table of branches, or of pull requests, with one entry changed.
LEMMA OneEntry ==
  ASSUME NEW V, NEW T \in [Repos -> [issued -> V]], NEW r \in Repos, NEW c \in issued, NEW v
  PROVE  /\ [T EXCEPT ![r][c] = v][r][c] = v
         /\ \A s \in Repos, d \in issued :
              s # r \/ d # c => [T EXCEPT ![r][c] = v][s][d] = T[s][d]
  OBVIOUS

LEMMA InRepo ==
  ASSUME IInv, NEW p \in Pods, at[p] \in GitLabels
  PROVE  /\ Target(p) \in Repos /\ cmd[p] \in issued /\ cmd[p] \in Commands
         /\ cmd[p].kind \in {"write", "delete"} /\ cmd[p].path \in Paths
  <1>1. /\ Target(p) \in Repos /\ cmd[p] \in issued /\ cmd[p] \in Commands
        /\ cmd[p].kind \in {"write", "delete"}
    BY IssuedCommands DEF IInv, GitOK, GitTypes, PodGit, RunOK, RunTypes, Handles, GitLabels
  <1> QED BY <1>1, GitAssumption

LEMMA CreateTopicProposed ==
  ASSUME IInv, Proposed, NEW p \in Pods, CreateTopic(p) PROVE Proposed'
  <1> DEFINE r == Target(p)
             c == cmd[p]
  <1>1. /\ at[p] = "createTopic" /\ UNCHANGED pr
        /\ \/ topic[r][c] = None /\ topic' = [topic EXCEPT ![r][c] = NewBranch(p)]
           \/ UNCHANGED topic
    BY DEF CreateTopic, NewBranch
  <1>2. UNCHANGED issued
    BY CreateTopicMoves DEF IInv, Rests, Moves, OnlyPod
  <1>3. r \in Repos /\ c \in issued
    BY <1>1, InRepo DEF GitLabels
  <1>4. topic \in [Repos -> [issued -> Branches \cup {None}]]
    BY DEF IInv, GitOK, GitTypes
  <1>5. CASE UNCHANGED topic
    BY <1>1, <1>2, <1>5 DEF Proposed
  <1>6. CASE topic[r][c] = None /\ topic' = [topic EXCEPT ![r][c] = NewBranch(p)]
    <2>1. NewBranch(p).ahead = FALSE
      BY DEF NewBranch
    <2>2. pr[r][c] # "open"
      BY <1>3, <1>6 DEF Proposed
    <2> HIDE DEF r, c
    <2>3. /\ topic'[r][c] = NewBranch(p)
          /\ \A s \in Repos, d \in issued : s # r \/ d # c => topic'[s][d] = topic[s][d]
      BY <1>3, <1>4, <1>6, OneEntry
    <2> QED BY <1>1, <1>2, <1>3, <2>1, <2>2, <2>3, ProposedKept
  <1> QED BY <1>1, <1>5, <1>6

\* The branch that is pushed has the file.
LEMMA PushTopicProposed ==
  ASSUME IInv, Proposed, NEW p \in Pods, PushTopic(p) PROVE Proposed'
  <1> DEFINE r == Target(p)
             c == cmd[p]
             t == topic[r][c]
             new == [Pushed(t, p) EXCEPT !.ahead = TRUE]
  <1>1. /\ at[p] = "pushTopic" /\ UNCHANGED pr
        /\ UNCHANGED topic \/ (t # None /\ topic' = [topic EXCEPT ![r][c] = new])
    BY DEF PushTopic
  <1>2. UNCHANGED issued
    BY PushTopicMoves DEF IInv, Rests, Moves, OnlyPod
  <1>3. /\ r \in Repos /\ c \in issued /\ c.path \in Paths
        /\ c \in Commands /\ c.kind \in {"write", "delete"}
    BY <1>1, InRepo DEF GitLabels
  <1>4. topic \in [Repos -> [issued -> Branches \cup {None}]] /\ Base(p).tree \in Trees
    BY <1>1 DEF IInv, GitOK, GitTypes, PodGit, Branches
  <1>5. CASE UNCHANGED topic
    BY <1>1, <1>2, <1>5 DEF Proposed
  <1>6. CASE t # None /\ topic' = [topic EXCEPT ![r][c] = new]
    <2>1. t \in Branches
      BY <1>3, <1>4, <1>6
    <2>2. new # None /\ new.ahead = TRUE /\ new.tree = Overlay(Base(p).tree, c)
      BY <1>3, <1>4, <2>1, BranchPushed
    <2>3. Overlay(Base(p).tree, c)[c.path] = c.content
      BY <1>3, <1>4 DEF Overlay, Trees
    <2> HIDE DEF r, c, new
    <2>4. /\ topic'[r][c] = new
          /\ \A s \in Repos, d \in issued : s # r \/ d # c => topic'[s][d] = topic[s][d]
      BY <1>3, <1>4, <1>6, OneEntry
    <2> QED BY <1>1, <1>2, <1>3, <2>2, <2>3, <2>4, ProposedKept
  <1> QED BY <1>1, <1>5, <1>6

LEMMA CreatePRProposed ==
  ASSUME IInv, Proposed, NEW p \in Pods, CreatePR(p) PROVE Proposed'
  <1> DEFINE r == Target(p)
             c == cmd[p]
  <1>1. /\ at[p] = "open" /\ UNCHANGED topic
        /\ UNCHANGED pr \/ (CanOpen(r, c) /\ pr' = [pr EXCEPT ![r][c] = "open"])
    BY DEF CreatePR
  <1>2. UNCHANGED issued
    BY CreatePRRests DEF IInv, Rests, OnlyPod
  <1>3. r \in Repos /\ c \in issued
    BY <1>1, InRepo DEF GitLabels
  <1>4. CASE UNCHANGED pr
    BY <1>1, <1>2, <1>4 DEF Proposed
  <1>5. CASE CanOpen(r, c) /\ pr' = [pr EXCEPT ![r][c] = "open"]
    <2>1. pr \in [Repos -> [issued -> {"none", "open", "merged"}]]
      BY DEF IInv, GitOK, GitTypes
    <2> HIDE DEF r, c
    <2>2. \A s \in Repos, d \in issued : s # r \/ d # c => pr'[s][d] = pr[s][d]
      BY <1>3, <1>5, <2>1, OneEntry
    <2> QED BY <1>1, <1>2, <1>3, <1>5, <2>2, ProposedKept DEF CanOpen, Proposed
  <1> QED BY <1>1, <1>4, <1>5

LEMMA MergePRProposed ==
  ASSUME IInv, Proposed, NEW r \in Repos, NEW c \in issued, MergePR(r, c) PROVE Proposed'
  <1>1. pr[r][c] = "open" /\ pr' = [pr EXCEPT ![r][c] = "merged"] /\ UNCHANGED issued
    BY DEF MergePR, TenantActs
  <1>2. PICK t \in {None} \cup {[topic[r][c] EXCEPT !.ahead = a] : a \in BOOLEAN} :
          topic' = [topic EXCEPT ![r][c] = t]
    BY DEF MergePR
  <1>3. /\ topic \in [Repos -> [issued -> Branches \cup {None}]]
        /\ pr \in [Repos -> [issued -> {"none", "open", "merged"}]]
    BY DEF IInv, GitOK, GitTypes
  <1>4. /\ topic[r][c] \in Branches /\ topic[r][c].tree[c.path] = c.content
    BY <1>1, <1>3 DEF Proposed
  <1>5. t # None => t.tree[c.path] = c.content
    BY <1>4 DEF Branches
  <1>6. /\ topic'[r][c] = t /\ pr'[r][c] = "merged"
        /\ \A s \in Repos, d \in issued :
             s # r \/ d # c => topic'[s][d] = topic[s][d] /\ pr'[s][d] = pr[s][d]
    BY <1>1, <1>2, <1>3, OneEntry
  <1> QED BY <1>1, <1>5, <1>6, ProposedKept

LEMMA ProposedNext == ASSUME IInv, Proposed, [Next]_vars PROVE Proposed'
  <1>1. CASE UNCHANGED <<issued, topic, pr>>
    BY <1>1 DEF Proposed
  <1>2. ASSUME NEW p \in Pods, GitStep(p) PROVE Proposed'
    <2>1. CASE CreateTopic(p) \/ PushTopic(p) \/ CreatePR(p)
      BY <2>1, CreateTopicProposed, PushTopicProposed, CreatePRProposed
    <2>2. CASE ~(CreateTopic(p) \/ PushTopic(p) \/ CreatePR(p))
      <3>1. UNCHANGED <<topic, pr>>
        BY <1>2, <2>2 DEF GitStep, Prepare, GetRef, UpdateRef, GetTopic, ListPRs, Rebind,
                          PersistBinding, gitVars
      <3>2. UNCHANGED issued
        BY <1>2, GitMoves DEF IInv, OnlyPod
      <3> QED BY <1>1, <3>1, <3>2
    <2> QED BY <2>1, <2>2
  <1>3. ASSUME NEW p \in Pods, ArgoStep(p), UNCHANGED gitVars PROVE UNCHANGED <<issued, topic, pr>>
    BY <1>3, EnsureReadyMoves, ApplyManifestsMoves, GetObjectMoves, CreateObjectMoves,
       UpdateObjectMoves, CheckOwnerMoves, RedeemMoves, InvokeMoves
       DEF IInv, ArgoStep, Rests, Moves, NextObject, OnlyPod, gitVars
  <1>4. ASSUME NEW p \in Pods, DeliverAny(p) \/ ProviderFails(p) \/ Crash(p)
                               \/ (Record(p) /\ UNCHANGED gitVars)
        PROVE  UNCHANGED <<issued, topic, pr>>
    BY <1>4 DEF DeliverAny, Deliver, ProviderFails, GitFails, Transient, Crash, CrashRun,
                RestartGit, gitRemote, Record, Return, gitVars
  <1>5. CASE Tenant
    BY <1>1, <1>5, MergePRProposed
       DEF Tenant, TenantCommits, TenantInstalls, TenantChanges, TenantActs, gitVars
  <1>6. CASE UNCHANGED vars
    BY <1>1, <1>6 DEF vars, runVars, gitVars
  <1> QED BY <1>1, <1>2, <1>3, <1>4, <1>5, <1>6 DEF Next, HandlerStep

\* What the steps of the handlers show to a pod.
LEMMA AtEnd ==
  ASSUME RunOK', Observe, NEW p \in Pods, at'[p] = "end", cmd'[p] = cmd[p], cmd[p] # None,
         \A g \in Goals(cmd[p]) : Reached(p, g)'
  PROVE  Seen(p)'
  <1>1. Passed(p)' = Goals(cmd[p])
    BY DEF Passed
  <1>2. Achieved(p)' = {g \in Goals(cmd'[p]) : Reached(p, g)'}
    BY DEF Achieved
  <1> QED BY <1>1, <1>2, SeenIf

LEMMA Elsewhere ==
  ASSUME RunOK', Observe, NEW p \in Pods, at'[p] \notin {"end", "get", "create", "update"}
  PROVE  Seen(p)'
  BY NothingPassed, SeenIf

\* A pod that goes on has the command that it had.
LEMMA GoesOn ==
  ASSUME RunOK, NEW p \in Pods, GitStep(p) \/ GitFails(p) \/ ArgoStep(p), at'[p] # "idle"
  PROVE  cmd'[p] = cmd[p]
  BY GitOutcome, ArgoOutcome, OutcomeHonest

LEMMA MainEnds ==
  ASSUME IInv, RunOK', Observe, NEW p \in Pods, GetRef(p) \/ UpdateRef(p), Grounded(p)
  PROVE  Seen(p)' /\ Grounded(p)'
  <1> DEFINE c == cmd[p]
             r == repo[p]
  <1>1. /\ RunOK /\ DOMAIN at = Pods /\ DOMAIN local = Pods /\ at[p] \in {"ref", "push"}
        /\ UNCHANGED repo
    BY DEF IInv, RunOK, RunTypes, GetRef, UpdateRef, gitVars
  <1>2. /\ c \in issued /\ c \in Commands /\ c.kind \in {"write", "delete"} /\ c.path \in Paths
        /\ Target(p) = r /\ r \in Repos /\ c.policy # "pr"
    BY <1>1, InRepo DEF GitLabels, RunOK, Handles, Grounded
  <1>3. main[r] \in Refs /\ main \in [Repos -> Refs]
    BY <1>2 DEF IInv, GitOK, GitTypes
  <1>4. ASSUME at'[p] = "end" PROVE main'[r].tree[c.path] = c.content
    <2>1. CASE GetRef(p)
      <3>1. Overlay(main[r].tree, c) = main[r].tree /\ main' = main
        BY <1>1, <1>2, <1>4, <2>1 DEF GetRef, Goto, gitVars
      <3>2. Overlay(main[r].tree, c)[c.path] = c.content
        BY <1>2, <1>3 DEF Overlay, Trees, Refs
      <3> QED BY <3>1, <3>2
    <2>2. CASE UpdateRef(p)
      <3> DEFINE tree == Overlay(Base(p).tree, c)
      <3>1. ~Transient(p)
        BY <1>1, <1>4 DEF Transient, Leave
      <3>2. /\ at[p] = "push"
            /\ main' = [main EXCEPT ![r] = [main[r] EXCEPT !.head = @ + 1, !.tree = tree]]
        BY <1>2, <2>2, <3>1 DEF UpdateRef, UpdateMain, Pushed
      <3>3. Base(p).tree \in Trees
        BY <3>2 DEF IInv, GitOK, PodGit, Refs
      <3>4. tree \in Trees /\ tree[c.path] = c.content
        BY <1>2, <3>3, OverlayTree DEF Overlay, Trees
      <3> HIDE DEF tree
      <3> DEFINE new == [main[r] EXCEPT !.head = @ + 1, !.tree = tree]
      <3>5. new.tree = tree
        BY <1>3, <3>4, RefPushed
      <3>6. main' = [main EXCEPT ![r] = new]
        BY <3>2
      <3> HIDE DEF new
      <3>7. main'[r] = new
        BY <1>2, <1>3, <3>6
      <3> QED BY <3>4, <3>5, <3>7
    <2> QED BY <2>1, <2>2
  <1>5. Seen(p)'
    <2>1. CASE at'[p] = "end"
      <3>1. cmd'[p] = c /\ c # None
        BY <1>1, <1>2, <2>1, GoesOn, RunAssumption DEF GitStep
      <3>2. Reached(p, c.path)'
        BY <1>1, <1>2, <1>4, <2>1, <3>1 DEF Reached
      <3> QED BY <1>2, <2>1, <3>1, <3>2, AtEnd, GoalsOf
    <2>2. CASE at'[p] # "end"
      BY <1>1, <2>2, GetRefMoves, UpdateRefRests, Elsewhere DEF Rests, Moves
    <2> QED BY <2>1, <2>2
  <1>6. Grounded(p)'
    <2>1. Rests(p) \/ Moves(p, "push", On(p, main[Target(p)]))
      BY <1>1, GetRefMoves, UpdateRefRests
    <2> QED BY <1>1, <1>2, <2>1 DEF Rests, Moves, On, Target, Grounded, GitLabels
  <1> QED BY <1>5, <1>6

LEMMA PullEnds ==
  ASSUME IInv, RunOK', Proposed', Observe, NEW p \in Pods, ListPRs(p) \/ CreatePR(p), Grounded(p)
  PROVE  Seen(p)' /\ Grounded(p)'
  <1> DEFINE c == cmd[p]
             r == repo[p]
  <1>1. /\ RunOK /\ DOMAIN at = Pods /\ DOMAIN local = Pods /\ at[p] \in {"list", "open"}
        /\ UNCHANGED repo
    BY DEF IInv, RunOK, RunTypes, ListPRs, CreatePR, gitVars
  <1>2. /\ c \in issued /\ c \in Commands /\ c.kind \in {"write", "delete"}
        /\ Target(p) = r /\ r \in Repos /\ c.policy = "pr"
    BY <1>1, InRepo DEF GitLabels, RunOK, Handles, Grounded
  <1>3. pr \in [Repos -> [issued -> {"none", "open", "merged"}]]
    BY DEF IInv, GitOK, GitTypes
  <1>4. ASSUME at'[p] = "end" PROVE pr'[r][c] = "open"
    <2>1. ~Transient(p)
      BY <1>1, <1>4 DEF Transient, Leave
    <2>2. CASE ListPRs(p)
      BY <1>1, <1>2, <1>4, <2>2 DEF ListPRs, Goto, gitVars
    <2>3. CASE CreatePR(p)
      <3>1. pr' = [pr EXCEPT ![r][c] = "open"]
        BY <1>2, <2>1, <2>3 DEF CreatePR
      <3> QED BY <1>2, <1>3, <3>1
    <2> QED BY <2>2, <2>3
  <1>5. Seen(p)'
    <2>1. CASE at'[p] = "end"
      <3>1. cmd'[p] = c /\ c # None
        BY <1>1, <1>2, <2>1, GoesOn, RunAssumption DEF GitStep
      <3>2. issued' = issued
        BY GitMoves, <1>1 DEF GitStep, OnlyPod
      <3>3. topic'[r][c] # None /\ topic'[r][c].tree[c.path] = c.content
        BY <1>2, <1>4, <2>1, <3>2 DEF Proposed
      <3>4. Reached(p, c.path)'
        BY <1>1, <1>2, <1>4, <2>1, <3>1, <3>3 DEF Reached, Proposes
      <3> QED BY <1>2, <2>1, <3>1, <3>4, AtEnd, GoalsOf
    <2>2. CASE at'[p] # "end"
      BY <1>1, <2>2, ListPRsMoves, CreatePRRests, Elsewhere DEF Rests, Moves
    <2> QED BY <2>1, <2>2
  <1>6. Grounded(p)'
    <2>1. Rests(p) \/ Moves(p, "open", local[p])
      BY <1>1, ListPRsMoves, CreatePRRests
    <2> QED BY <1>1, <1>2, <2>1 DEF Rests, Moves, Target, Grounded, GitLabels
  <1> QED BY <1>5, <1>6

LEMMA BindingEnds ==
  ASSUME IInv, RunOK', Observe, NEW p \in Pods, Rebind(p) \/ PersistBinding(p)
  PROVE  Seen(p)' /\ Grounded(p)'
  <1> DEFINE c == cmd[p]
  <1>1. /\ RunOK /\ DOMAIN at = Pods /\ DOMAIN repo = Pods /\ at[p] \in {"start", "persist"}
        /\ c.kind = "rebind"
    BY DEF IInv, RunOK, RunTypes, GitOK, GitTypes, Handles, Rebind, PersistBinding
  <1>2. c \in Commands /\ c # None
    BY <1>1, IssuedCommands, RunAssumption DEF RunOK, RunTypes
  <1>3. ASSUME at'[p] = "end" PROVE repo'[p] = c.repo
    <2>1. ~Failed(p)
      BY <1>1, <1>3 DEF Failed, Return, Leave
    <2>2. CASE Rebind(p)
      BY <1>1, <1>3, <2>1, <2>2 DEF Rebind, Goto, gitVars
    <2>3. CASE PersistBinding(p)
      BY <1>1, <2>1, <2>3 DEF PersistBinding
    <2> QED BY <2>2, <2>3
  <1>4. Rests(p) \/ \E x : Moves(p, "persist", x)
    BY <1>1, RebindMoves, PersistBindingRests
  <1>5. Seen(p)'
    <2>1. CASE at'[p] = "end"
      <3>1. cmd'[p] = c
        BY <1>1, <2>1, GoesOn DEF GitStep
      <3>2. Reached(p, c.repo)'
        BY <1>1, <1>3, <2>1, <3>1 DEF Reached
      <3> QED BY <1>1, <1>2, <2>1, <3>1, <3>2, AtEnd, GoalsOf
    <2>2. CASE at'[p] # "end"
      BY <1>4, <2>2, Elsewhere DEF Rests, Moves
    <2> QED BY <2>1, <2>2
  <1>6. Grounded(p)'
    BY <1>4 DEF Rests, Moves, Grounded, GitLabels
  <1> QED BY <1>5, <1>6

\* The steps up to the commit.
LEMMA SameTarget ==
  ASSUME NEW p \in Pods, NEW l, NEW x, Moves(p, l, x) PROVE Target(p)' = x.target
  BY DEF Moves, Target

LEMMA GitOnTheWay ==
  ASSUME IInv, RunOK', Observe, NEW p \in Pods, Grounded(p),
         Prepare(p) \/ GetTopic(p) \/ CreateTopic(p) \/ PushTopic(p) \/ GitFails(p)
  PROVE  Seen(p)' /\ Grounded(p)'
  <1>1. RunOK /\ DOMAIN at = Pods /\ UNCHANGED repo
    BY DEF IInv, RunOK, RunTypes, Prepare, GetTopic, CreateTopic, PushTopic, GitFails, gitVars
  <1>2. at'[p] \notin {"end", "get", "create", "update"}
    <2>1. at'[p] # "end"
      BY <1>1 DEF Prepare, GetTopic, CreateTopic, PushTopic, GitFails, Failed, Return, Transient,
                  Leave, Goto
    <2> QED BY <1>1, <2>1, PrepareMoves, GetTopicMoves, CreateTopicMoves, PushTopicMoves,
               GitFailsRests DEF Rests, Moves
  <1>3. CASE Prepare(p) \/ GitFails(p)
    <2>1. Rests(p) \/ Target(p)' = repo[p]
      <3>1. Rests(p) \/ \E l : Moves(p, l, [target |-> repo[p]])
        BY <1>1, <1>3, PrepareMoves, GitFailsRests
      <3>2. [target |-> repo[p]].target = repo[p]
        OBVIOUS
      <3> QED BY <3>1, <3>2, SameTarget
    <2>2. Grounded(p)'
      BY <1>1, <2>1 DEF Rests, Grounded, GitLabels
    <2> QED BY <1>2, <2>2, Elsewhere
  <1>4. CASE GetTopic(p) \/ CreateTopic(p) \/ PushTopic(p)
    <2>1. Target(p) = repo[p]
      BY <1>4 DEF Grounded, GitLabels, GetTopic, CreateTopic, PushTopic
    <2>2. Rests(p) \/ Target(p)' = Target(p)
      <3>1. \/ Rests(p) \/ \E l, b : Moves(p, l, On(p, b))
            \/ \E l : Moves(p, l, [target |-> Target(p)])
        BY <1>1, <1>4, GetTopicMoves, CreateTopicMoves, PushTopicMoves
      <3>2. \A b : On(p, b).target = Target(p)
        BY DEF On
      <3>3. [target |-> Target(p)].target = Target(p)
        OBVIOUS
      <3> QED BY <3>1, <3>2, <3>3, SameTarget
    <2>3. Grounded(p)'
      BY <1>1, <2>1, <2>2 DEF Rests, Grounded, GitLabels
    <2> QED BY <1>2, <2>3, Elsewhere
  <1> QED BY <1>3, <1>4

\* The object in hand is as the command wants it.
LEMMA UpsertedSeen ==
  ASSUME RunOK, RunOK', Observe, NEW p \in Pods, at[p] # "idle", cmd[p].kind = "register",
         NEW n, InHand(p, n), Upserted(p, n), Firsts(cmd[p], n) \subseteq met[p],
         LET o == objects'[Current(p, n)] IN o # None /\ Mine(o) /\ o.spec = cmd[p].spec
  PROVE  Seen(p)'
  <1> DEFINE c == cmd[p]
             o == Current(p, n)
  <1>1. /\ c \in Commands /\ c # None /\ c.objects \in Seq(Objects)
        /\ DOMAIN at = Pods /\ DOMAIN local = Pods
    BY IssuedCommands, ObjectAssumption, RunAssumption DEF RunOK, RunTypes
  <1>2. n \in Nat /\ n < Len(c.objects) /\ o = c.objects[n + 1]
    BY DEF InHand, Current
  <1>3. cmd' = cmd
    BY DEF Upserted, Succeed, Goto
  <1>4. /\ Firsts(c, n + 1) = Firsts(c, n) \cup {o}
        /\ n + 1 = Len(c.objects) => Firsts(c, n + 1) = Goals(c)
    BY <1>1, <1>2, FirstsOf
  <1>5. o \in Goals(c)
    <2>1. n + 1 \in DOMAIN c.objects
      BY <1>1, <1>2
    <2> QED BY <1>2, <2>1, GoalsOf
  <1>6. ASSUME NEW g, objects'[g] # None, Mine(objects'[g]), objects'[g].spec = c.spec
        PROVE  Reached(p, g)'
    BY <1>3, <1>6 DEF Reached, Mine
  <1>7. o \in Achieved(p)'
    <2>1. Achieved(p)' = {g \in Goals(c) : Reached(p, g)'}
      BY <1>1, <1>3 DEF Achieved
    <2>2. o \in {g \in Goals(c) : Reached(p, g)'}
      BY <1>5, <1>6
    <2> QED BY <2>1, <2>2
  <1>8. Passed(p)' = Firsts(c, n + 1)
    <2>1. CASE n + 1 = Len(c.objects)
      <3>1. at'[p] = "end"
        BY <1>1, <2>1 DEF Upserted, Succeed, Goto
      <3> QED BY <1>3, <1>4, <2>1, <3>1 DEF Passed
    <2>2. CASE n + 1 # Len(c.objects)
      <3>1. at'[p] = "get" /\ local'[p] = n + 1
        BY <1>1, <2>2 DEF Upserted, Goto
      <3> QED BY <1>3, <3>1 DEF Passed
    <2> QED BY <2>1, <2>2
  <1> HIDE DEF o, c
  <1>9. Passed(p)' \subseteq met[p] \cup Achieved(p)'
    BY <1>4, <1>7, <1>8 DEF c
  <1> QED BY <1>9, SeenIf

\* The step goes on with the same object.
LEMMA SameObject ==
  ASSUME RunOK', Observe, NEW p \in Pods, cmd' = cmd, NEW n, Firsts(cmd[p], n) \subseteq met[p],
         \/ at'[p] = "create" /\ local'[p] = n
         \/ at'[p] = "update" /\ local'[p].n = n
  PROVE  Seen(p)'
  <1>1. Passed(p)' \subseteq Firsts(cmd[p], n)
    BY DEF Passed
  <1> QED BY <1>1, SeenIf

LEMMA GetObjectSeen ==
  ASSUME IInv, RunOK', Observe, NEW p \in Pods, Seen(p), GetObject(p) PROVE Seen(p)'
  <1> DEFINE n == local[p]
             o == objects[Current(p, n)]
  <1>1. RunOK /\ at[p] = "get" /\ cmd[p].kind = "register" /\ DOMAIN at = Pods /\ DOMAIN local = Pods
    BY DEF IInv, RunOK, RunTypes, GetObject
  <1>2. InHand(p, n) /\ Firsts(cmd[p], n) \subseteq met[p]
    BY <1>1 DEF IInv, ObjectsOK, PodObject, Seen, Passed
  <1>3. UNCHANGED objects
    BY DEF GetObject, argoVars
  <1>4. \/ Failed(p) \/ Goto(p, "create", n)
        \/ o # None /\ Mine(o) /\ o.spec = cmd[p].spec /\ Upserted(p, n)
        \/ Goto(p, "update", [n |-> n, version |-> o.version])
    BY DEF GetObject
  <1> HIDE DEF n
  <1>5. CASE Failed(p)
    BY <1>1, <1>5, Elsewhere DEF Failed, Return, Leave
  <1>6. CASE Goto(p, "create", n)
    BY <1>1, <1>2, <1>6, SameObject DEF Goto
  <1>7. CASE o # None /\ Mine(o) /\ o.spec = cmd[p].spec /\ Upserted(p, n)
    BY <1>1, <1>2, <1>3, <1>7, UpsertedSeen
  <1>8. CASE Goto(p, "update", [n |-> n, version |-> o.version])
    <2>1. cmd' = cmd /\ at'[p] = "update" /\ local'[p].n = n
      BY <1>1, <1>8 DEF Goto
    <2> QED BY <1>2, <2>1, SameObject
  <1> QED BY <1>4, <1>5, <1>6, <1>7, <1>8

LEMMA CreateObjectSeen ==
  ASSUME IInv, RunOK', Observe, NEW p \in Pods, Seen(p), CreateObject(p) PROVE Seen(p)'
  <1> DEFINE n == local[p]
             o == Current(p, n)
             v == Made("inari", cmd[p].spec, clock')
  <1>1. RunOK /\ ObjectsOK /\ at[p] = "create" /\ cmd[p].kind = "register" /\ DOMAIN at = Pods
    BY DEF IInv, RunOK, RunTypes, Handles, CreateObject
  <1>2. InHand(p, n) /\ Firsts(cmd[p], n) \subseteq met[p]
    BY <1>1 DEF IInv, ObjectsOK, PodObject, Seen, Passed
  <1>3. Failed(p) \/ (WriteObject(o, v) /\ Upserted(p, n))
    BY DEF CreateObject
  <1>4. CASE Failed(p)
    BY <1>1, <1>4, Elsewhere DEF Failed, Return, Leave
  <1>5. CASE WriteObject(o, v) /\ Upserted(p, n)
    <2>1. o \in Objects
      BY <1>1, <1>2, CurrentIsObject
    <2>2. cmd[p].spec \in Specs
      BY <1>1, SpecOfCommand
    <2>3. v \in Resources /\ Mine(v) /\ v.spec = cmd[p].spec /\ v # None
      <3>1. clock' \in Nat
        BY <1>1, <1>5 DEF WriteObject, ObjectsOK, ObjectTypes
      <3>2. v \in Resources
        BY <2>2, <3>1 DEF Made, Resources
      <3> QED BY <3>2, ObjectAssumption DEF Made, Mine, Resources
    <2> HIDE DEF o, v, n
    <2>4. objects'[o] = v
      BY <1>1, <1>5, <2>1 DEF WriteObject, ObjectsOK, ObjectTypes
    <2> QED BY <1>1, <1>2, <1>5, <2>3, <2>4, UpsertedSeen DEF o
  <1> QED BY <1>3, <1>4, <1>5

LEMMA UpdateObjectSeen ==
  ASSUME IInv, RunOK', Observe, NEW p \in Pods, Seen(p), UpdateObject(p) PROVE Seen(p)'
  <1> DEFINE n == local[p].n
             o == Current(p, n)
             v == [objects[o] EXCEPT !.spec = cmd[p].spec, !.version = clock']
  <1>1. RunOK /\ ObjectsOK /\ at[p] = "update" /\ cmd[p].kind = "register" /\ DOMAIN at = Pods
    BY DEF IInv, RunOK, RunTypes, Handles, UpdateObject
  <1>2. InHand(p, n) /\ Firsts(cmd[p], n) \subseteq met[p] /\ (Fresh(p, o) => Mine(objects[o]))
    BY <1>1 DEF IInv, ObjectsOK, PodObject, Seen, Passed
  <1>3. Failed(p) \/ (Fresh(p, o) /\ WriteObject(o, v) /\ Upserted(p, n))
    BY DEF UpdateObject
  <1>4. CASE Failed(p)
    BY <1>1, <1>4, Elsewhere DEF Failed, Return, Leave
  <1>5. CASE Fresh(p, o) /\ WriteObject(o, v) /\ Upserted(p, n)
    <2>1. o \in Objects
      BY <1>1, <1>2, CurrentIsObject
    <2>2. cmd[p].spec \in Specs
      BY <1>1, SpecOfCommand
    <2>3. v \in Resources /\ Mine(v) /\ v.spec = cmd[p].spec /\ v # None
      <3>1. clock' \in Nat
        BY <1>1, <1>5 DEF WriteObject, ObjectsOK, ObjectTypes
      <3>2. objects[o] \in Resources /\ Mine(objects[o])
        BY <1>1, <1>2, <1>5, <2>1 DEF Fresh, ObjectsOK, ObjectTypes
      <3>3. v \in Resources /\ v.owner = objects[o].owner /\ v.spec = cmd[p].spec
        BY <2>2, <3>1, <3>2 DEF Resources
      <3>4. v # None
        BY <3>3, ObjectAssumption DEF Resources
      <3> QED BY <3>2, <3>3, <3>4 DEF Mine
    <2> HIDE DEF o, v, n
    <2>4. objects'[o] = v
      BY <1>1, <1>5, <2>1 DEF WriteObject, ObjectsOK, ObjectTypes
    <2> QED BY <1>1, <1>2, <1>5, <2>3, <2>4, UpsertedSeen DEF o
  <1> QED BY <1>3, <1>4, <1>5

LEMMA InvokeSeen ==
  ASSUME IInv, RunOK', Observe, NEW p \in Pods, Invoke(p) PROVE Seen(p)'
  <1> DEFINE c == cmd[p]
             o == c.object
             v == [objects[o] EXCEPT !.operation = c, !.version = clock']
  <1>1. RunOK /\ ObjectsOK /\ at[p] = "call" /\ c.kind = "invoke" /\ DOMAIN at = Pods
    BY DEF IInv, RunOK, RunTypes, Handles, Invoke
  <1>2. o \in Objects /\ c \in Commands /\ c # None
    BY <1>1, ObjectOfAction, IssuedCommands, RunAssumption DEF Acting, RunOK, RunTypes
  <1>3. CASE at'[p] = "end"
    <2>1. ~Failed(p) /\ ~Transient(p)
      BY <1>1, <1>3 DEF Failed, Transient, Return, Leave
    <2>2. objects[o] # None /\ WriteObject(o, v) /\ cmd' = cmd
      BY <2>1 DEF Invoke, Perform, Succeed, Goto
    <2>3. v # None /\ v.operation = c
      <3>1. clock' \in Nat
        BY <1>1, <2>2 DEF WriteObject, ObjectsOK, ObjectTypes
      <3>2. objects[o] \in Resources
        BY <1>1, <1>2, <2>2 DEF ObjectsOK, ObjectTypes
      <3>3. v \in Resources /\ v.operation = c
        BY <1>2, <3>1, <3>2 DEF Resources
      <3> QED BY <3>3, ObjectAssumption DEF Resources
    <2> HIDE DEF v
    <2>4. objects'[o] = v
      BY <1>1, <1>2, <2>2 DEF WriteObject, ObjectsOK, ObjectTypes
    <2>5. Reached(p, o)'
      BY <1>1, <2>2, <2>3, <2>4 DEF Reached
    <2> QED BY <1>1, <1>2, <1>3, <2>2, <2>5, AtEnd, GoalsOf
  <1>4. CASE at'[p] # "end"
    BY <1>1, <1>4, InvokeMoves, Elsewhere DEF Rests
  <1> QED BY <1>3, <1>4

\* The gate, and the steps before an action.
LEMMA ArgoOnTheWay ==
  ASSUME IInv, RunOK', Observe, NEW p \in Pods,
         EnsureReady(p) \/ ApplyManifests(p) \/ CheckOwner(p) \/ Redeem(p)
  PROVE  Seen(p)'
  <1>1. RunOK /\ DOMAIN at = Pods
    BY DEF IInv, RunOK, RunTypes
  <1>2. CASE Moves(p, "get", 0)
    <2>1. Passed(p)' = {}
      BY <1>2 DEF Moves, Passed, Firsts
    <2> QED BY <2>1, SeenIf
  <1>3. CASE ~Moves(p, "get", 0)
    <2>1. at'[p] # "end"
      BY <1>1 DEF EnsureReady, ApplyManifests, CheckOwner, Redeem, Failed, Return, Transient,
                  Leave, Goto
    <2>2. at'[p] \notin {"end", "get", "create", "update"}
      BY <1>1, <1>3, <2>1, EnsureReadyMoves, ApplyManifestsMoves, CheckOwnerMoves, RedeemMoves
         DEF Rests, Moves
    <2> QED BY <2>2, Elsewhere
  <1> QED BY <1>2, <1>3

LEMMA EvidenceGit ==
  ASSUME IInv, RunOK', Proposed', Evidence, Observe, NEW p \in Pods, GitStep(p) \/ GitFails(p)
  PROVE  Evidence'
  <1>1. RunOK /\ GitOK /\ Grounded(p)
    BY DEF IInv, Evidence
  <1>2. OnlyPod(p)
    BY <1>1, GitMoves
  <1>3. Seen(p)' /\ Grounded(p)'
    BY <1>1, MainEnds, PullEnds, BindingEnds, GitOnTheWay DEF GitStep
  <1>4. \A q \in Pods \ {p} : repo'[q] = repo[q]
    <2>1. UNCHANGED repo \/ repo' = [repo EXCEPT ![p] = cmd[p].repo]
      BY DEF GitStep, GitFails, Prepare, GetRef, UpdateRef, GetTopic, CreateTopic, PushTopic,
             ListPRs, CreatePR, Rebind, PersistBinding, gitVars
    <2> QED BY <1>1, <2>1 DEF GitOK, GitTypes
  <1> QED BY <1>2, <1>3, <1>4, EvidenceMoves

LEMMA EvidenceArgo ==
  ASSUME IInv, RunOK', Proposed', Evidence, Observe, NEW p \in Pods, ArgoStep(p), UNCHANGED gitVars
  PROVE  Evidence'
  <1>1. RunOK /\ Seen(p)
    BY DEF IInv, Evidence
  <1>2. OnlyPod(p) /\ at'[p] \notin GitLabels
    <2> USE DEF Rests, Moves, GitLabels
    <2>1. CASE EnsureReady(p) \/ ApplyManifests(p)
      BY <1>1, <2>1, EnsureReadyMoves, ApplyManifestsMoves
    <2>2. CASE GetObject(p) \/ CreateObject(p) \/ UpdateObject(p)
      BY <1>1, <2>2, GetObjectMoves, CreateObjectMoves, UpdateObjectMoves DEF NextObject
    <2>3. CASE CheckOwner(p) \/ Redeem(p) \/ Invoke(p)
      BY <1>1, <2>3, CheckOwnerMoves, RedeemMoves, InvokeMoves
    <2> QED BY <2>1, <2>2, <2>3 DEF ArgoStep
  <1>3. Seen(p)'
    BY <1>1, GetObjectSeen, CreateObjectSeen, UpdateObjectSeen, InvokeSeen, ArgoOnTheWay
       DEF ArgoStep
  <1>4. Grounded(p)' /\ UNCHANGED repo
    BY <1>2 DEF Grounded, gitVars
  <1> QED BY <1>2, <1>3, <1>4, EvidenceMoves

LEMMA EvidenceRests ==
  ASSUME IInv, RunOK', Proposed', Evidence, NEW p \in Pods,
         DeliverAny(p) \/ Crash(p) \/ (Record(p) /\ UNCHANGED <<gitVars, argoVars>> /\ Observe)
  PROVE  Evidence'
  <1>1. RunOK /\ GitOK /\ Observe
    BY DEF IInv, DeliverAny, Crash
  <1>2. OnlyPod(p) /\ at'[p] \in {"idle", "start"}
    BY <1>1, DeliverRun, LeaveMoves
       DEF DeliverAny, Crash, CrashRun, Record, Return, RunOK
  <1>3. \A q \in Pods \ {p} : repo'[q] = repo[q]
    BY <1>1 DEF DeliverAny, Crash, RestartGit, gitVars, GitOK, GitTypes
  <1>4. Grounded(p)' /\ Seen(p)'
    BY <1>1, <1>2, Elsewhere DEF Grounded, GitLabels
  <1> QED BY <1>1, <1>2, <1>3, <1>4, EvidenceMoves

LEMMA EvidenceNext == ASSUME IInv, Evidence, [Next]_vars PROVE Evidence'
  <1>1. RunOK' /\ Proposed'
    BY NextInv, ProposedNext DEF IInv, Evidence
  <1>2. CASE Tenant
    <2>1. UNCHANGED <<cmd, at, local, repo>> /\ Observe
      BY <1>2 DEF Tenant, TenantCommits, MergePR, TenantInstalls, TenantChanges, TenantActs, gitVars
    <2>2. ASSUME NEW q \in Pods PROVE Grounded(q)' /\ Seen(q)'
      <3>1. Still(q) /\ Grounded(q) /\ Seen(q)
        BY <2>1 DEF Still, Evidence
      <3> QED BY <1>1, <2>1, <3>1, SeenKept DEF Grounded, Target
    <2> QED BY <1>1, <2>2 DEF Evidence
  <1>3. CASE UNCHANGED vars
    <2>1. UNCHANGED <<cmd, at, local, repo, met>>
      BY <1>3 DEF vars, runVars, gitVars
    <2>2. ASSUME NEW q \in Pods PROVE Grounded(q)' /\ Seen(q)'
      BY <2>1 DEF Evidence, Grounded, Target, Seen, Passed
    <2> QED BY <1>1, <2>2 DEF Evidence
  <1> QED BY <1>1, <1>2, <1>3, EvidenceGit, EvidenceArgo, EvidenceRests
         DEF Next, HandlerStep, ProviderFails

\* Only Record turns a verdict to APPLIED.
LEMMA OnlyRecorded ==
  ASSUME IInv, Next, NEW c \in issued, verdict[c] = None, verdict'[c] = "APPLIED"
  PROVE  \E p \in Pods : at[p] = "end" /\ cmd[p] = c
  <1>1. RunOK /\ None # "APPLIED"
    BY RunAssumption DEF IInv
  <1>2. ASSUME NEW p \in Pods, GitStep(p) \/ GitFails(p) \/ ArgoStep(p)
        PROVE  at[p] = "end" /\ cmd[p] = c
    BY <1>1, <1>2, GitOutcome, ArgoOutcome, OutcomeHonest DEF Honest
  <1>3. ASSUME NEW p \in Pods, Record(p) PROVE at[p] = "end" /\ cmd[p] = c
    BY <1>1, <1>3 DEF Record, Return, RunOK, RunTypes
  <1> QED BY <1>1, <1>2, <1>3
         DEF Next, HandlerStep, ProviderFails, DeliverAny, Deliver, Crash, CrashRun, Tenant,
             TenantCommits, MergePR, TenantInstalls, TenantChanges, TenantActs

(***************************************************************************)
(* APPLIED is true: what the command is to bring about was there while the *)
(* pod had the command, in the branch, under the pull request, in the      *)
(* objects or in the binding, whatever the tenant and the other pod did in *)
(* between.                                                                *)
(***************************************************************************)
THEOREM AppliedTookEffect == Spec => AppliedIsTrue
  <1>1. Init => Evidence
    <2> SUFFICES ASSUME Init PROVE Evidence
      OBVIOUS
    <2>1. \A p \in Pods : at[p] = "idle"
      BY DEF Init, RunInit
    <2>2. \A r \in Repos, c \in issued : topic[r][c] = None /\ pr[r][c] # "open"
      BY DEF Init, GitInit
    <2> QED BY <2>1, <2>2 DEF Evidence, Proposed, Grounded, Seen, GitLabels
  <1>2. IInv /\ Evidence /\ [Next]_vars => Evidence'
    BY EvidenceNext
  <1>3. IInv /\ Evidence /\ [Next]_vars =>
          [\A c \in issued : verdict[c] = None /\ verdict'[c] = "APPLIED" =>
             \E p \in Pods : cmd[p] = c /\ Goals(c) \subseteq met[p]]_vars
    <2> SUFFICES ASSUME IInv, Evidence, Next, NEW c \in issued, verdict[c] = None,
                        verdict'[c] = "APPLIED"
                 PROVE  \E p \in Pods : cmd[p] = c /\ Goals(c) \subseteq met[p]
      OBVIOUS
    <2>1. PICK p \in Pods : at[p] = "end" /\ cmd[p] = c
      BY OnlyRecorded
    <2>2. Goals(c) \subseteq met[p]
      BY <2>1 DEF Evidence, Seen, Passed
    <2> QED BY <2>1, <2>2
  <1> QED BY <1>1, <1>2, <1>3, Invariance, PTL DEF Spec, AppliedIsTrue

=============================================================================
