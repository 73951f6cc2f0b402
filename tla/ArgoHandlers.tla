---------------------------- MODULE ArgoHandlers ----------------------------
(***************************************************************************)
(* The handlers that work on the tenant's ArgoCD: Lifecycle.EnsureReady,   *)
(* which gates them; the registration of Applications, ApplicationSets and *)
(* AppProjects; and the actions that are invoked through the ArgoCD API,   *)
(* on behalf of a user whose one-shot credential the agent redeems.        *)
(*                                                                         *)
(* Commands are [kind, objects, spec, decodes, valid] for kind register,   *)
(* where objects is the sequence of the objects to upsert, and [kind,      *)
(* object, user, args, valid] for kind invoke.                             *)
(***************************************************************************)
EXTENDS CommandRun, Sequences

CONSTANTS
  Objects,     \* AppProjects, Applications and ApplicationSets
  Specs,
  Docs,        \* number of documents of the install bundle
  ServerDoc,   \* the one with the Deployment argocd-server
  Setups       \* modes and installations to start from: [mode, install]

ASSUME BundleAssumption ==
  /\ Docs \in Nat \ {0} /\ ServerDoc \in 1..Docs
  /\ \A s \in Setups : s.install # None =>
       s.install \in [owner : {"tenant"}, here : BOOLEAN, inSkew : BOOLEAN, docs : {Docs},
                      racing : {{}}]

ASSUME ObjectAssumption ==
  /\ Specs # {}
  /\ \A c \in Commands : c.kind = "register" =>
       c.objects \in Seq(Objects) /\ c.objects # <<>> /\ c.spec \in Specs
  /\ \A c \in Commands : c.kind = "invoke" => c.object \in Objects
  /\ None \notin [owner : {"inari", "tenant"}, spec : Specs, version : Nat,
                  operation : Commands \cup {None}, racing : SUBSET Pods]

VARIABLES
  mode,        \* bundle or byo
  install,     \* the tenant's ArgoCD, or None: its owner, whether it is in the
               \* agent's namespace and in skew, documents applied, and, for
               \* history, the pods that were installing when it came
  objects,     \* per object, None or: its owner, spec and resourceVersion;
               \* the command whose action was performed on it last; and, for
               \* history, the pods that had seen Inari's label when the tenant
               \* took it off
  clock,       \* the API server's last resourceVersion
  redeemed,    \* the commands whose credential has been redeemed
  calls        \* history: per command: the tokens its action was performed with

argoVars == <<mode, install, objects, clock, redeemed, calls>>

----------------------------------------------------------------------------
(***************************************************************************)
(* EnsureReady.  All its errors are FAILED.                                *)
(***************************************************************************)
\* Detect: there is a Deployment argocd-server.
Detected == install # None /\ install.docs >= ServerDoc

\* EnsureReady goes on with installation i.
Adoptable(i) == i.inSkew /\ (mode = "byo" \/ i.here)

\* Refused before the gate: a manifest that does not decode, an action that is
\* not allowed.  The fields of an Application and the manifest of an object are
\* checked when it is their turn.
Refused(c) == IF c.kind = "register" THEN ~c.decodes ELSE ~c.valid

EnsureReady(p) ==
  /\ at[p] = "start" /\ cmd[p].kind \in {"register", "invoke"}
  /\ \/ Refused(cmd[p]) /\ Failed(p) /\ NoFault
     \/ ~Refused(cmd[p]) /\ Failed(p) /\ Fault
     \/ /\ ~Refused(cmd[p]) /\ NoFault
        /\ \/ Detected /\ Adoptable(install) /\ Goto(p, "get", 0)
           \/ Detected /\ ~Adoptable(install) /\ Failed(p)
           \/ ~Detected /\ mode = "byo" /\ Failed(p)
           \/ ~Detected /\ mode = "bundle" /\ Goto(p, "install", 0)
  /\ UNCHANGED argoVars

\* Document d is applied, with force: it takes the place of what is there.
WithDoc(d) ==
  IF install = None
  THEN [owner |-> "inari", here |-> TRUE, inSkew |-> TRUE, docs |-> d, racing |-> {}]
  ELSE [install EXCEPT !.docs = IF @ < d THEN d ELSE @, !.inSkew = @ \/ d = ServerDoc]

\* ApplyManifests: one document after the other.
ApplyManifests(p) ==
  /\ at[p] = "install"
  /\ LET n == local[p] IN
     \/ n < Docs /\ install' = WithDoc(n + 1) /\ Goto(p, "install", n + 1) /\ NoFault
     \/ n < Docs /\ Failed(p) /\ Fault /\ UNCHANGED install
     \/ n = Docs /\ Goto(p, "get", 0) /\ NoFault /\ UNCHANGED install
  /\ UNCHANGED <<mode, objects, clock, redeemed, calls>>

----------------------------------------------------------------------------
(***************************************************************************)
(* Registration: upsert of every object in turn.  All its errors are       *)
(* FAILED, conflicts too.                                                  *)
(***************************************************************************)
\* The object in hand: local is the number of those before it, with the copy
\* that Get has returned.
Current(p, n) == cmd[p].objects[n + 1]

\* The object is as the command wants it: the next one, or the end.
Upserted(p, n) == IF n + 1 = Len(cmd[p].objects) THEN Succeed(p) ELSE Goto(p, "get", n + 1)

\* The label app.kubernetes.io/managed-by is Inari's.
Mine(o) == o.owner = "inari"

\* The last object is the command's own; those before it are its AppProject.
Malformed(p, n) == ~cmd[p].valid /\ n + 1 = Len(cmd[p].objects)

GetObject(p) ==
  /\ at[p] = "get" /\ cmd[p].kind = "register"
  /\ LET n == local[p]
         o == objects[Current(p, n)]
     IN \/ Malformed(p, n) /\ Failed(p) /\ NoFault
        \/ Failed(p) /\ Fault
        \/ /\ ~Malformed(p, n) /\ NoFault
           /\ \/ o = None /\ Goto(p, "create", n)
              \/ o # None /\ ~Mine(o) /\ Failed(p)
              \/ o # None /\ Mine(o) /\ o.spec = cmd[p].spec /\ Upserted(p, n)
              \/ o # None /\ Mine(o) /\ o.spec # cmd[p].spec
                   /\ Goto(p, "update", [n |-> n, version |-> o.version])
  /\ UNCHANGED argoVars

\* An object that was just made.
Made(owner, spec, version) ==
  [owner |-> owner, spec |-> spec, version |-> version, operation |-> None, racing |-> {}]

WriteObject(o, value) == clock' = clock + 1 /\ objects' = [objects EXCEPT ![o] = value]

CreateObject(p) ==
  /\ at[p] = "create"
  /\ LET n == local[p]
         o == Current(p, n)
         write == WriteObject(o, Made("inari", cmd[p].spec, clock'))
     IN \/ objects[o] = None /\ write /\ Upserted(p, n) /\ NoFault
        \/ objects[o] = None /\ write /\ Failed(p) /\ Fault     \* the answer is lost
        \/ objects[o] # None /\ Failed(p) /\ NoFault /\ UNCHANGED <<objects, clock>>
        \/ Failed(p) /\ Fault /\ UNCHANGED <<objects, clock>>
  /\ UNCHANGED <<mode, install, redeemed, calls>>

\* Update carries the resourceVersion of the copy that was read.
Fresh_Unversioned(p, o) == objects[o] # None

Fresh(p, o) == objects[o] # None /\ objects[o].version = local[p].version

UpdateObject(p) ==
  /\ at[p] = "update"
  /\ LET n == local[p].n
         o == Current(p, n)
         write == WriteObject(o, [objects[o] EXCEPT !.spec = cmd[p].spec, !.version = clock'])
     IN \/ Fresh(p, o) /\ write /\ Upserted(p, n) /\ NoFault
        \/ Fresh(p, o) /\ write /\ Failed(p) /\ Fault
        \/ ~Fresh(p, o) /\ Failed(p) /\ NoFault /\ UNCHANGED <<objects, clock>>
        \/ Failed(p) /\ Fault /\ UNCHANGED <<objects, clock>>
  /\ UNCHANGED <<mode, install, redeemed, calls>>

----------------------------------------------------------------------------
(***************************************************************************)
(* Actions.                                                                *)
(***************************************************************************)
\* The ownership check; then the credential, if the command names one.
CheckOwner(p) ==
  /\ at[p] = "get" /\ cmd[p].kind = "invoke"
  /\ LET o == objects[cmd[p].object] IN
     \/ o # None /\ Mine(o) /\ Goto(p, IF cmd[p].user THEN "redeem" ELSE "call", None) /\ NoFault
     \/ ~(o # None /\ Mine(o)) /\ Failed(p) /\ NoFault
     \/ Failed(p) /\ Fault
  /\ UNCHANGED argoVars

\* Redeem, once: a credential that was redeemed is a terminal failure, like
\* one that is expired, invalid or denied; other errors are transient.
Redeem_FallsBack(p) ==
  /\ at[p] = "redeem"
  /\ redeemed' = redeemed \cup {cmd[p]}
  /\ Goto(p, "call", None) /\ NoFault
  /\ UNCHANGED <<mode, install, objects, clock, calls>>

Redeem(p) ==
  /\ at[p] = "redeem"
  /\ \/ /\ cmd[p] \notin redeemed
        /\ redeemed' = redeemed \cup {cmd[p]}
        /\ \/ Goto(p, "call", None) /\ NoFault
           \/ Transient(p) /\ Fault      \* the answer is lost
           \/ Failed(p) /\ Fault                \* without a token
     \/ cmd[p] \in redeemed /\ Failed(p) /\ NoFault /\ UNCHANGED redeemed
     \/ (Failed(p) \/ Transient(p)) /\ Fault /\ UNCHANGED redeemed
  /\ UNCHANGED <<mode, install, objects, clock, calls>>

\* Sync, Refresh or Rollback, with the user's token if there is one; the
\* arguments of a rollback are only looked at here.  The ArgoCD API performs
\* the action on the Application as it is now, whoever owns it.
Perform(p) ==
  LET c == cmd[p] IN
  /\ objects[c.object] # None
  /\ WriteObject(c.object, [objects[c.object] EXCEPT !.operation = c, !.version = clock'])
  /\ calls' = [calls EXCEPT ![c] = Append(@, IF c.user THEN "user" ELSE "static")]

Invoke(p) ==
  /\ at[p] = "call"
  /\ \/ cmd[p].args /\ Perform(p) /\ Succeed(p) /\ NoFault
     \/ cmd[p].args /\ Perform(p) /\ Transient(p) /\ Fault     \* the answer is lost
     \/ /\ \/ ~cmd[p].args /\ Failed(p) /\ NoFault
           \/ cmd[p].args /\ objects[cmd[p].object] = None /\ Transient(p) /\ NoFault
           \/ cmd[p].args /\ Transient(p) /\ Fault
        /\ UNCHANGED <<objects, clock, calls>>
  /\ UNCHANGED <<mode, install, redeemed>>

----------------------------------------------------------------------------
(***************************************************************************)
(* The tenant: an ArgoCD of their own, objects made, changed, taken over   *)
(* (the label removed) or deleted.                                         *)
(***************************************************************************)
SomeSpec == CHOOSE s \in Specs : TRUE

TenantInstalls ==
  /\ TenantActs
  /\ ~Detected
  /\ install' = [owner |-> "tenant", here |-> TRUE, inSkew |-> FALSE, docs |-> Docs,
                 racing |-> {p \in Pods : at[p] = "install"}]
  /\ UNCHANGED <<mode, objects, clock, redeemed, calls>>

\* The pods that have seen Inari's label on o and are about to act on it.
Committed(o) == {p \in Pods : at[p] \in {"redeem", "call"} /\ cmd[p].object = o}

TenantChanges(o) ==
  /\ TenantActs
  /\ \/ WriteObject(o, [Made("tenant", SomeSpec, clock') EXCEPT !.racing = Committed(o)])
     \/ objects[o] # None /\ WriteObject(o, None)
  /\ UNCHANGED <<mode, install, redeemed, calls>>

ArgoInit ==
  /\ \E s \in Setups : mode = s.mode /\ install = s.install
  /\ \/ objects = [o \in Objects |-> None]
     \/ objects = [o \in Objects |-> Made("inari", SomeSpec, 0)]
  /\ clock = 0
  /\ redeemed = {}
  /\ calls = [c \in issued |-> <<>>]

ArgoStep(p) ==
  \/ EnsureReady(p) \/ ApplyManifests(p)
  \/ GetObject(p) \/ CreateObject(p) \/ UpdateObject(p)
  \/ CheckOwner(p) \/ Redeem(p) \/ Invoke(p)
=============================================================================
