--------------------------- MODULE GitopsHandlers ---------------------------
(***************************************************************************)
(* The handlers that write to the tenant's state repository, and the one   *)
(* that binds the agent to another repository: resolveTarget, rendering,   *)
(* CommitFiles, DeleteFiles and OpenPR of the GitHub provider, and         *)
(* GitopsConfigUpdate.                                                     *)
(*                                                                         *)
(* Commands are [kind, repo, path, content, policy, valid] for kind write  *)
(* (an RGD instance, a bundle or a secret store) and delete, where content *)
(* is None, and [kind, repo, valid] for rebind.                            *)
(***************************************************************************)
EXTENDS CommandRun, FiniteSets

CONSTANTS
  Repos,
  Paths,
  Contents,
  Convention,        \* INARI_STATE_REPO, or <org>/<tenant>-inari-state
  SystemNamespace,   \* namespace of the agent, and of its registration
  JournalNamespace,  \* INARI_GIT_CREDS_NAMESPACE
  Granted            \* namespaces whose ConfigMaps the agent's Role gives it

ASSUME GitAssumption ==
  /\ Convention \in Repos /\ None \notin Repos /\ Contents # {}
  /\ \A c \in Commands :
       c.kind \in {"write", "delete"} =>
         /\ c.repo \in Repos \cup {None}
         /\ c.path \in Paths /\ c.content \in Contents \cup {None}
  /\ \A c \in Commands : c.kind = "rebind" => c.repo \in Repos

VARIABLES
  repo,      \* per pod: GitOpsDeps.DefaultStateRepo
  bound,     \* per namespace: the ConfigMap inari-agent-registration, with
             \* its baseline-repo
  main,      \* per repository: head and tree of the target branch
  topic,     \* per repository and command: the branch inari/<command id>
  pr,        \* per repository and command: the pull request
  ledger,    \* history: per repository: what everybody wrote to main
  rebound    \* history: the repositories that a rebind has written to a
             \* registration, also when it was told that it had not

gitVars == <<repo, bound, main, topic, pr, ledger, rebound>>

Trees == [Paths -> Contents \cup {None}]

ASSUME BranchAssumption ==
  None \notin [root : Nat, head : Nat, tree : Trees, ahead : BOOLEAN]

Overlay(tree, c) == [tree EXCEPT ![c.path] = c.content]

\* stateRepo: the binding, or the convention.
StateRepo == LET b == bound[SystemNamespace].repo IN IF b # None THEN b ELSE Convention

\* What a registration may name.
Named == {Convention} \cup rebound

\* A step that changes neither a repository nor a binding.
gitRemote == <<bound, main, topic, pr, ledger, rebound>>

----------------------------------------------------------------------------
(***************************************************************************)
(* The handlers up to the git provider.                                    *)
(***************************************************************************)
\* resolveTarget: None when the command may not write there.
ResolveTarget(p, c) == IF c.repo \in {None, repo[p]} THEN repo[p] ELSE None

\* An unsupported policy, a path that escapes, missing parameters, a checksum
\* that does not match.
Rejected(c) == ~c.valid \/ (c.kind = "delete" /\ c.policy = "pr")

\* Everything before the commit is FAILED when it does not work, a failed
\* fetch of the RGD or of the bundle too.
Prepare(p) ==
  /\ at[p] = "start" /\ cmd[p].kind \in {"write", "delete"}
  /\ LET c == cmd[p]
         r == ResolveTarget(p, c)
     IN \/ (r = None \/ Rejected(c)) /\ Failed(p) /\ NoFault
        \/ r # None /\ c.kind = "write" /\ Failed(p) /\ Fault
        \/ /\ r # None /\ ~Rejected(c)
           /\ Goto(p, IF c.policy = "pr" THEN "topic" ELSE "ref", [target |-> r]) /\ NoFault
  /\ UNCHANGED gitVars

----------------------------------------------------------------------------
(***************************************************************************)
(* CommitFiles and DeleteFiles: GetRef; commitOnto builds the commit, of   *)
(* objects nobody else sees; UpdateRef without force.  Every error is      *)
(* transient.                                                              *)
(***************************************************************************)
\* The repository and the branch in hand.
Target(p) == local[p].target
Base(p) == local[p].base

On(p, branch) == [target |-> Target(p), base |-> branch]

GetRef(p) ==
  /\ at[p] = "ref"
  /\ LET b == main[Target(p)] IN
       IF Overlay(b.tree, cmd[p]) = b.tree THEN Succeed(p) ELSE Goto(p, "push", On(p, b))
  /\ NoFault
  /\ UNCHANGED gitVars

FastForward_Forced(head, p) == TRUE

\* The host takes a commit whose parent is the head.
FastForward(head, p) == head = Base(p).head

\* The branch moves to the commit that p has built.
Pushed(b, p) == [b EXCEPT !.head = @ + 1, !.tree = Overlay(Base(p).tree, cmd[p])]

UpdateMain(p) ==
  /\ LET r == Target(p) IN
     /\ main' = [main EXCEPT ![r] = Pushed(@, p)]
     /\ ledger' = [ledger EXCEPT ![r] = Overlay(@, cmd[p])]

UpdateRef_IgnoresConflict(p) ==
  /\ at[p] = "push"
  /\ \/ FastForward(main[Target(p)].head, p) /\ UpdateMain(p) /\ Succeed(p)
     \/ ~FastForward(main[Target(p)].head, p) /\ Goto(p, "end", None) /\ UNCHANGED <<main, ledger>>
  /\ NoFault
  /\ UNCHANGED <<repo, bound, topic, pr, rebound>>

UpdateRef(p) ==
  /\ at[p] = "push"
  /\ LET ok == FastForward(main[Target(p)].head, p) IN
     \/ ok /\ UpdateMain(p) /\ Succeed(p) /\ NoFault
     \/ ok /\ UpdateMain(p) /\ Transient(p) /\ Fault     \* the answer is lost
     \/ ~ok /\ Transient(p) /\ NoFault /\ UNCHANGED <<main, ledger>>
  /\ UNCHANGED <<repo, bound, topic, pr, rebound>>

----------------------------------------------------------------------------
(***************************************************************************)
(* OpenPR: the topic branch, off the target branch; the commit on it; the  *)
(* pull request.                                                           *)
(***************************************************************************)
\* GetRef of the target branch and of the topic branch.
GetTopic_Always(p) ==
  /\ at[p] = "topic"
  /\ Goto(p, "createTopic", On(p, main[Target(p)]))
  /\ NoFault
  /\ UNCHANGED gitVars

GetTopic(p) ==
  /\ at[p] = "topic"
  /\ LET r == Target(p)
         t == topic[r][cmd[p]]
     IN \/ t = None /\ Goto(p, "createTopic", On(p, main[r]))
        \/ t # None /\ Goto(p, "pushTopic", On(p, t))
  /\ NoFault
  /\ UNCHANGED gitVars

\* CreateRef; another pod may have been faster.
CreateTopic(p) ==
  /\ at[p] = "createTopic"
  /\ LET r == Target(p)
         c == cmd[p]
         branch == [root |-> Base(p).head, head |-> 0, tree |-> Base(p).tree, ahead |-> FALSE]
     IN \/ /\ topic[r][c] = None
           /\ topic' = [topic EXCEPT ![r][c] = branch]
           /\ Goto(p, "pushTopic", On(p, branch))
        \/ topic[r][c] # None /\ Transient(p) /\ UNCHANGED topic
  /\ NoFault
  /\ UNCHANGED <<repo, bound, main, pr, ledger, rebound>>

\* commitOnto and UpdateRef.  The branch may have been deleted since.
PushTopic(p) ==
  /\ at[p] = "pushTopic"
  /\ LET r == Target(p)
         c == cmd[p]
         t == topic[r][c]
         same == Overlay(Base(p).tree, c) = Base(p).tree
         ok == t # None /\ t.root = Base(p).root /\ FastForward(t.head, p)
     IN \/ same /\ Goto(p, "list", [target |-> Target(p)]) /\ UNCHANGED topic
        \/ /\ ~same /\ ok
           /\ topic' = [topic EXCEPT ![r][c] = [Pushed(t, p) EXCEPT !.ahead = TRUE]]
           /\ Goto(p, "list", [target |-> Target(p)])
        \/ ~same /\ ~ok /\ Transient(p) /\ UNCHANGED topic
  /\ NoFault
  /\ UNCHANGED <<repo, bound, main, pr, ledger, rebound>>

\* PullRequests.List: an open one is the result.
ListPRs(p) ==
  /\ at[p] = "list"
  /\ \/ pr[Target(p)][cmd[p]] = "open" /\ Succeed(p)
     \/ pr[Target(p)][cmd[p]] # "open" /\ Goto(p, "open", local[p])
  /\ NoFault
  /\ UNCHANGED gitVars

\* The host refuses a second pull request for a branch, and one for a branch
\* without a commit of its own.
CanOpen(r, c) == pr[r][c] # "open" /\ topic[r][c] # None /\ topic[r][c].ahead

CreatePR(p) ==
  /\ at[p] = "open"
  /\ LET r == Target(p)
         c == cmd[p]
     IN \/ /\ CanOpen(r, c)
           /\ pr' = [pr EXCEPT ![r][c] = "open"]
           /\ \/ Succeed(p) /\ NoFault
              \/ Transient(p) /\ Fault
        \/ ~CanOpen(r, c) /\ Transient(p) /\ NoFault /\ UNCHANGED pr
  /\ UNCHANGED <<repo, bound, main, topic, ledger, rebound>>

\* A call of the provider fails without an effect.
GitFails(p) ==
  /\ at[p] \in {"ref", "push", "topic", "createTopic", "pushTopic", "list", "open"}
  /\ Transient(p) /\ Fault
  /\ UNCHANGED gitVars

----------------------------------------------------------------------------
(***************************************************************************)
(* GitopsConfigUpdate: every error is FAILED, a conflict too, and a        *)
(* registration that the agent has no right to read.                       *)
(***************************************************************************)
RefusesRebind(p) ==
  ~cmd[p].valid \/ (cmd[p].repo # repo[p] /\ JournalNamespace \notin Granted)

Rebind(p) ==
  /\ at[p] = "start" /\ cmd[p].kind = "rebind"
  /\ \/ RefusesRebind(p) /\ Failed(p) /\ NoFault
     \/ ~RefusesRebind(p) /\ cmd[p].repo = repo[p] /\ Succeed(p) /\ NoFault
     \/ /\ ~RefusesRebind(p) /\ cmd[p].repo # repo[p]
        /\ \/ Goto(p, "persist", [base |-> bound[JournalNamespace]]) /\ NoFault
           \/ Failed(p) /\ Fault
  /\ UNCHANGED gitVars

\* Update: the new binding is persisted, then used.
PersistBinding_MemoryFirst(p) ==
  /\ at[p] = "persist"
  /\ repo' = [repo EXCEPT ![p] = cmd[p].repo]
  /\ \/ /\ bound[JournalNamespace].head = Base(p).head
        /\ bound' = [bound EXCEPT ![JournalNamespace] = [head |-> @.head + 1, repo |-> cmd[p].repo]]
        /\ rebound' = rebound \cup {cmd[p].repo}
        /\ Succeed(p) /\ NoFault
     \/ /\ Failed(p) /\ Fault
        /\ UNCHANGED <<bound, rebound>>
  /\ UNCHANGED <<main, topic, pr, ledger>>

PersistBinding_NotPersisted(p) ==
  /\ at[p] = "persist"
  /\ repo' = [repo EXCEPT ![p] = cmd[p].repo]
  /\ rebound' = rebound \cup {cmd[p].repo}
  /\ Succeed(p) /\ NoFault
  /\ UNCHANGED <<bound, main, topic, pr, ledger>>

PersistBinding(p) ==
  /\ at[p] = "persist"
  /\ LET fresh == bound[JournalNamespace].head = Base(p).head
         write == /\ bound' = [bound EXCEPT ![JournalNamespace] =
                                 [head |-> @.head + 1, repo |-> cmd[p].repo]]
                  /\ rebound' = rebound \cup {cmd[p].repo}
     IN \/ /\ fresh /\ write
           /\ repo' = [repo EXCEPT ![p] = cmd[p].repo]
           /\ Succeed(p) /\ NoFault
        \/ fresh /\ write /\ Failed(p) /\ Fault /\ UNCHANGED repo   \* the answer is lost
        \/ /\ ~fresh /\ Failed(p) /\ NoFault
           /\ UNCHANGED <<repo, bound, rebound>>
        \/ /\ Failed(p) /\ Fault
           /\ UNCHANGED <<repo, bound, rebound>>
  /\ UNCHANGED <<main, topic, pr, ledger>>

----------------------------------------------------------------------------
(***************************************************************************)
(* The tenant's people: a commit of their own, a pull request merged.      *)
(***************************************************************************)
SomeContent == CHOOSE x \in Contents : TRUE

TenantCommits(r, f) ==
  /\ TenantActs
  /\ main[r].tree[f] # SomeContent
  /\ main' = [main EXCEPT ![r] = [head |-> @.head + 1, tree |-> [@.tree EXCEPT ![f] = SomeContent]]]
  /\ ledger' = [ledger EXCEPT ![r][f] = SomeContent]
  /\ UNCHANGED <<repo, bound, topic, pr, rebound>>

\* With a merge commit the branch has nothing of its own any more, after a
\* squash it still has; the branch may be deleted.
MergePR(r, c) ==
  /\ TenantActs
  /\ pr[r][c] = "open"
  /\ pr' = [pr EXCEPT ![r][c] = "merged"]
  /\ main' = [main EXCEPT ![r] = [head |-> @.head + 1, tree |-> Overlay(@.tree, c)]]
  /\ ledger' = [ledger EXCEPT ![r] = Overlay(@, c)]
  /\ \E t \in {None} \cup {[topic[r][c] EXCEPT !.ahead = a] : a \in BOOLEAN} :
       topic' = [topic EXCEPT ![r][c] = t]
  /\ UNCHANGED <<repo, bound, rebound>>

\* A pod that starts reads the registration.
RestartGit(p) ==
  /\ repo' = [repo EXCEPT ![p] = StateRepo]
  /\ UNCHANGED gitRemote

GitInit ==
  /\ bound = [n \in {SystemNamespace, JournalNamespace} |->
                [head |-> 0, repo |-> IF n = SystemNamespace THEN None ELSE Convention]]
  /\ repo = [p \in Pods |-> Convention]
  /\ main = [r \in Repos |-> [head |-> 0, tree |-> [f \in Paths |-> None]]]
  /\ topic = [r \in Repos |-> [c \in issued |-> None]]
  /\ pr = [r \in Repos |-> [c \in issued |-> "none"]]
  /\ ledger = [r \in Repos |-> [f \in Paths |-> None]]
  /\ rebound = {}

GitStep(p) ==
  \/ Prepare(p) \/ GetRef(p) \/ UpdateRef(p)
  \/ GetTopic(p) \/ CreateTopic(p) \/ PushTopic(p) \/ ListPRs(p) \/ CreatePR(p)
  \/ Rebind(p) \/ PersistBinding(p)
=============================================================================
