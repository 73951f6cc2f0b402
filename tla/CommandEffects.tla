--------------------------- MODULE CommandEffects ---------------------------
(***************************************************************************)
(* What commands do to the tenant: the handlers of GitopsHandlers and      *)
(* ArgoHandlers under the delivery of CommandRun.  A command may run more  *)
(* than once (a crash before its result is recorded, an error, two pods of *)
(* a rolling update that both get it), among other commands and next to    *)
(* the tenant's own changes.                                               *)
(***************************************************************************)
EXTENDS GitopsHandlers, ArgoHandlers

VARIABLE met   \* history: per pod: the goals of the command in hand that have
               \* been seen to be reached since it was delivered

vars == <<runVars, gitVars, argoVars, met>>

\* What command c is to bring about: a file, objects, an action, a binding.
Goals(c) ==
  CASE c.kind \in {"write", "delete"} -> {c.path}
    [] c.kind = "register" -> {c.objects[i] : i \in DOMAIN c.objects}
    [] c.kind = "invoke" -> {c.object}
    [] c.kind = "rebind" -> {c.repo}

\* Command c proposes its file: the pull request is open, and the branch has it.
Proposes(r, c) ==
  pr[r][c] = "open" /\ topic[r][c] # None /\ topic[r][c].tree[c.path] = c.content

\* Goal g of the command of pod p is reached: the state of the world has it.
Reached(p, g) ==
  LET c == cmd[p] IN
  CASE c.kind \in {"write", "delete"} ->
         IF c.policy = "pr" THEN Proposes(repo[p], c)
                            ELSE main[repo[p]].tree[g] = c.content
    [] c.kind = "register" -> objects[g] # None /\ Mine(objects[g]) /\ objects[g].spec = c.spec
    [] c.kind = "invoke" -> objects[g] # None /\ objects[g].operation = c
    [] c.kind = "rebind" -> repo[p] = g

Achieved(p) == IF cmd[p] = None THEN {} ELSE {g \in Goals(cmd[p]) : Reached(p, g)}

Observe == met' = [p \in Pods |-> IF cmd'[p] = None THEN {} ELSE met[p] \cup Achieved(p)']

\* The commands of a run concern repositories, or ArgoCD; what they do not
\* concern stays as it is, and as it was in one initial state.
Concern(kinds) == \E c \in issued : c.kind \in kinds
ForGit == Concern({"write", "delete", "rebind"})
ForArgo == Concern({"register", "invoke"})

\* The handler that has the command goes on.
HandlerStep(p) ==
  \/ GitStep(p) /\ UNCHANGED argoVars /\ Observe
  \/ ArgoStep(p) /\ UNCHANGED gitVars /\ Observe
  \/ Record(p) /\ UNCHANGED <<gitVars, argoVars>> /\ Observe

ProviderFails(p) == GitFails(p) /\ UNCHANGED argoVars /\ Observe

Crash(p) == CrashRun(p) /\ RestartGit(p) /\ UNCHANGED argoVars /\ Observe

Tenant ==
  \/ /\ ForGit
     /\ \/ \E r \in Repos, f \in Paths : TenantCommits(r, f)
        \/ \E r \in Repos, c \in issued : MergePR(r, c)
     /\ UNCHANGED argoVars /\ Observe
  \/ /\ ForArgo
     /\ TenantInstalls \/ \E o \in Objects : TenantChanges(o)
     /\ UNCHANGED gitVars /\ Observe

DeliverAny(p) == \E c \in issued : Deliver(p, c) /\ UNCHANGED <<gitVars, argoVars>> /\ Observe

Init ==
  /\ RunInit /\ GitInit /\ ArgoInit
  /\ ~ForArgo => mode = "byo" /\ install = None /\ \A o \in Objects : objects[o] = None
  /\ met = [p \in Pods |-> {}]

Next ==
  \/ \E p \in Pods :
       \/ DeliverAny(p)
       \/ HandlerStep(p)
       \/ ProviderFails(p)
       \/ Crash(p)
  \/ Tenant

Spec == Init /\ [][Next]_vars

\* A handler that has a command goes on; the server delivers commands without
\* a verdict.
Fairness ==
  /\ \A p \in Pods : WF_vars(HandlerStep(p))
  /\ WF_vars(\E p \in Pods : DeliverAny(p))

FairSpec == Spec /\ Fairness

----------------------------------------------------------------------------
(***************************************************************************)
(* Properties.                                                             *)
(***************************************************************************)
\* The types of the control variables, of repositories and of objects.
TypeOK ==
  /\ issued \in Workloads /\ verdict \in [issued -> {None, "APPLIED", "FAILED"}]
  /\ cmd \in [Pods -> issued \cup {None}] 
  /\ \A p \in Pods : at[p] = "idle" <=> cmd[p] = None
  /\ repo \in [Pods -> Repos]
  /\ \A r \in Repos : main[r].head \in Nat /\ main[r].tree \in Trees
  /\ \A o \in Objects : objects[o] # None => objects[o].version \in 0..clock
  /\ redeemed \subseteq issued

(***************************************************************************)
(* No write is lost: every file of a branch has the content that was       *)
(* written to it last, by a command, a merged pull request or the tenant,  *)
(* whatever head the commits were built on (CommitFiles, DeleteFiles).     *)
(***************************************************************************)
NoLostFiles == \A r \in Repos : main[r].tree = ledger[r]

(***************************************************************************)
(* APPLIED is true: while a pod had the command, each of its goals was     *)
(* reached at some moment, by this pod or by another.  The file was on the *)
(* branch, or on the topic branch under an open pull request; each object  *)
(* was there, Inari's and with the command's spec; the action was the last *)
(* one performed on the Application; the pod was bound to the repository.  *)
(* Later the tenant may have changed them.                                 *)
(***************************************************************************)
AppliedIsTrue ==
  [][\A c \in issued : verdict[c] = None /\ verdict'[c] = "APPLIED" =>
       \E p \in Pods : cmd[p] = c /\ Goals(c) \subseteq met[p]]_vars

(***************************************************************************)
(* Files go only to the repository of the convention and to those that a   *)
(* rebind has written to a registration: a repository that a rebind named  *)
(* and did not get persisted is not used (GitopsConfigUpdate persists the  *)
(* binding first).                                                         *)
(***************************************************************************)
OnlyBoundRepos ==
  /\ \A p \in Pods : repo[p] \in Named
  /\ \A r \in Repos, c \in issued : topic[r][c] # None => r \in Named

(***************************************************************************)
(* A rebind that was APPLIED survives a restart ("persists the new binding *)
(* to the registration ConfigMap so it survives restarts"): the            *)
(* registration that a pod reads when it starts has the repository of the  *)
(* command, unless a rebind to another one was written to it, before or    *)
(* after.  Rebinds that were only issued, or refused, make no exception.   *)
(***************************************************************************)
RebindSurvives ==
  \A c \in issued :
    c.kind = "rebind" /\ verdict[c] = "APPLIED" /\ rebound \subseteq {c.repo}
    => StateRepo = c.repo

(***************************************************************************)
(* What the tenant owns is changed by the tenant only: an object without   *)
(* Inari's label, also when the label goes between the agent's Get and its *)
(* Update, and an ArgoCD that Detect can see, out of skew or not.  The     *)
(* exceptions are an action by a pod that had seen the label when the      *)
(* tenant took it off, which the ArgoCD API performs nevertheless, and an  *)
(* ArgoCD that comes up between Detect and the documents of the bundle,    *)
(* which are applied with force.                                           *)
(***************************************************************************)
TenantUntouched ==
  [][/\ \A o \in Objects :
          objects[o] # None /\ objects[o].owner = "tenant" /\ objects'[o] # objects[o] =>
            Tenant \/ \E p \in objects[o].racing : Invoke(p) /\ cmd[p].object = o
     /\ install # None /\ install.owner = "tenant" /\ install' # install
          => \E p \in install.racing : at[p] = "install"]_vars

(***************************************************************************)
(* An action on behalf of a user is performed with that user's token, and  *)
(* at most once, however often the command is delivered and to how many    *)
(* pods: the credential is redeemed for each, and it can be redeemed once. *)
(***************************************************************************)
ActsAsUserOnce ==
  \A c \in issued :
    c.kind = "invoke" /\ c.user => calls[c] \in {<<>>, <<"user">>}

\* The topic branch has the files without a commit of its own, because they
\* were on the target branch when it was made or have been merged.
NothingToPropose(c) ==
  /\ c.kind = "write" /\ c.policy = "pr"
  /\ \E r \in Repos : /\ topic[r][c] # None
                      /\ ~topic[r][c].ahead /\ topic[r][c].tree[c.path] = c.content

(***************************************************************************)
(* Every command gets its verdict, through conflicts with the other pod    *)
(* and with the tenant, lost answers and crashes, if the calls it depends  *)
(* on are refused finitely often (MaxTrouble).  The exception is a pull    *)
(* request with nothing to propose: OpenPR ends in an error each time the  *)
(* command is delivered.                                                   *)
(***************************************************************************)
EveryCommandConcludes ==
  \/ <>(\A c \in issued : verdict[c] # None)
  \/ <>[](\E c \in issued : verdict[c] = None /\ NothingToPropose(c))
=============================================================================
