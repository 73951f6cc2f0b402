--------------------------- MODULE AgentLifecycle ---------------------------
(***************************************************************************)
(* AgentReconciler.Start: the exchange of the one-time token, the          *)
(* credentials that are persisted in a ConfigMap, the client secret that   *)
(* the External Secrets Operator delivers, the start of the stream client, *)
(* and the readiness probe that follows the stream.  The pods of a rolling *)
(* update overlap; a Start that returns an error ends the process, and the *)
(* kubelet starts it again.                                                *)
(***************************************************************************)
EXTENDS Naturals

CONSTANTS
  Pods,
  Tokens,      \* one-time registration tokens; each stands for the identity
               \* the control plane gives for it as well
  None,        \* no token, no ConfigMap, no call
  Partial,     \* a ConfigMap that lacks a field
  Grace,       \* readyzDisconnectGrace, in ticks
  MaxFaults,   \* bounds: failed calls
  MaxCrashes

ASSUME LifecycleAssumption ==
  /\ None \notin Tokens \cup BOOLEAN \X {"armed", "connected", "stamp"}
  /\ Partial \notin Tokens \cup {None}
  /\ Grace \in Nat \ {0} /\ MaxFaults \in Nat /\ MaxCrashes \in Nat

VARIABLES
  manifest,      \* INARI_REGISTRATION_TOKEN of the Deployment
  server,        \* the control plane's view of every token
  registration,  \* the identity in the ConfigMap inari-agent-registration
  secret,        \* the client secret: absent, empty (no key) or ready
  pc,            \* per pod: where Start is
  token,         \* per pod: AgentReconciler.BootstrapToken
  creds,         \* per pod: the identity it uses
  up,            \* per pod: the stream is connected
  armed, connected,   \* per pod: StreamTracker
  age,           \* per pod: ticks since lastDisconnect, at most Grace
  call,          \* per pod: the SetConnected that is under way
  outage,        \* history: per pod: ticks without a stream, at most Grace
  hasty,         \* history: a new token was rolled out while an old one could
                 \* still become an identity
  faults, crashes

startVars == <<manifest, server, registration, secret, pc, token, creds>>
trackerVars == <<armed, connected, age, call>>
vars == <<startVars, up, trackerVars, outage, hasty, faults, crashes>>

Fault == faults < MaxFaults /\ faults' = faults + 1

Goto(p, l) == pc' = [pc EXCEPT ![p] = l]

startOnly == <<up, trackerVars, outage, hasty, crashes>>

----------------------------------------------------------------------------
(***************************************************************************)
(* Start.                                                                  *)
(***************************************************************************)
\* buildLifecycle: without a token there is nothing to do.
Boot(p) ==
  /\ pc[p] = "off"
  /\ token' = [token EXCEPT ![p] = manifest]
  /\ Goto(p, IF manifest = None THEN "standalone" ELSE "load")
  /\ UNCHANGED <<manifest, server, registration, secret, creds, startOnly, faults>>

\* loadPersistedCredentials; an incomplete ConfigMap is none.
Load_Nothing(p) ==
  /\ pc[p] = "load"
  /\ Goto(p, "register")
  /\ UNCHANGED <<manifest, server, registration, secret, token, creds, startOnly, faults>>

Load(p) ==
  /\ pc[p] = "load"
  /\ \/ /\ registration \in {None, Partial}
        /\ Goto(p, "register")
        /\ UNCHANGED creds
     \/ /\ registration \in Tokens
        /\ creds' = [creds EXCEPT ![p] = registration]
        /\ Goto(p, "secret")
  /\ UNCHANGED <<manifest, server, registration, secret, token, startOnly, faults>>

\* register: the control plane takes a token once, and the agent forgets it.
Register(p) ==
  /\ pc[p] = "register"
  /\ token' = [token EXCEPT ![p] = None]
  /\ \/ /\ server[token[p]] = "fresh"
        /\ server' = [server EXCEPT ![token[p]] = "used"]
        /\ creds' = [creds EXCEPT ![p] = token[p]]
        /\ Goto(p, "persist")
     \/ /\ server[token[p]] # "fresh"
        /\ Goto(p, "off")
        /\ UNCHANGED <<server, creds>>
  /\ UNCHANGED <<manifest, registration, secret, startOnly, faults>>

\* The exchange fails, before or after the control plane has taken the token.
RegisterFails(p) ==
  /\ pc[p] = "register"
  /\ Fault
  /\ \/ UNCHANGED server
     \/ /\ server[token[p]] = "fresh"
        /\ server' = [server EXCEPT ![token[p]] = "used"]
  /\ Goto(p, "off")
  /\ token' = [token EXCEPT ![p] = None]
  /\ UNCHANGED <<manifest, registration, secret, creds, startOnly>>

\* persistCredentials: Create; a ConfigMap that exists, complete or not, is left
\* alone, and the pod goes on with the identity it has.
Persist_Later(p) ==
  /\ pc[p] = "persist"
  /\ Goto(p, "secret")
  /\ UNCHANGED <<manifest, server, registration, secret, token, creds, startOnly, faults>>

Persist(p) ==
  /\ pc[p] = "persist"
  /\ registration' = IF registration = None THEN creds[p] ELSE registration
  /\ Goto(p, "secret")
  /\ UNCHANGED <<manifest, server, secret, token, creds, startOnly, faults>>

\* ReadSecret polls while the Secret is absent; a Secret without the key is an
\* error at once.
ReadSecret(p) ==
  /\ pc[p] = "secret"
  /\ \/ secret = "ready" /\ Goto(p, "configure")
     \/ secret = "empty" /\ Goto(p, "off")
  /\ UNCHANGED <<manifest, server, registration, secret, token, creds, startOnly, faults>>

\* Every error of a call ends Start: a timeout of the poll, an API error
\* before, in or after it, one from configure.
StepFails(p) ==
  /\ pc[p] \in {"load", "persist", "secret", "configure"}
  /\ Fault
  /\ Goto(p, "off")
  /\ UNCHANGED <<manifest, server, registration, secret, token, creds, startOnly>>

\* configure, the callbacks and the goroutines; the tracker is armed.
Configure(p) ==
  /\ pc[p] = "configure"
  /\ Goto(p, "run")
  /\ call' = [call EXCEPT ![p] = <<FALSE, "armed">>]
  /\ outage' = [outage EXCEPT ![p] = 0]
  /\ UNCHANGED <<manifest, server, registration, secret, token, creds, up, armed, connected, age,
                 hasty, faults, crashes>>

----------------------------------------------------------------------------
(***************************************************************************)
(* The stream and the readiness tracker.                                   *)
(***************************************************************************)
Connect(p) ==
  /\ pc[p] = "run" /\ ~up[p] /\ call[p] = None
  /\ up' = [up EXCEPT ![p] = TRUE]
  /\ outage' = [outage EXCEPT ![p] = 0]
  /\ call' = [call EXCEPT ![p] = <<TRUE, "armed">>]
  /\ UNCHANGED <<startVars, armed, connected, age, hasty, faults, crashes>>

Disconnect(p) ==
  /\ up[p] /\ call[p] = None
  /\ up' = [up EXCEPT ![p] = FALSE]
  /\ call' = [call EXCEPT ![p] = <<FALSE, "armed">>]
  /\ UNCHANGED <<startVars, armed, connected, age, outage, hasty, faults, crashes>>

\* StreamTracker.SetConnected(v): three stores.
Stamped_OnConnect(v) == v

Stamped(v) == ~v

SetConnected(p) ==
  /\ call[p] # None
  /\ LET v == call[p][1] IN
     \/ /\ call[p][2] = "armed"
        /\ armed' = [armed EXCEPT ![p] = TRUE]
        /\ call' = [call EXCEPT ![p] = <<v, "connected">>]
        /\ UNCHANGED <<connected, age>>
     \/ /\ call[p][2] = "connected"
        /\ connected' = [connected EXCEPT ![p] = v]
        /\ call' = [call EXCEPT ![p] = <<v, "stamp">>]
        /\ UNCHANGED <<armed, age>>
     \/ /\ call[p][2] = "stamp"
        /\ age' = IF Stamped(v) THEN [age EXCEPT ![p] = 0] ELSE age
        /\ call' = [call EXCEPT ![p] = None]
        /\ UNCHANGED <<armed, connected>>
  /\ UNCHANGED <<startVars, up, outage, hasty, faults, crashes>>

\* StreamTracker.Check.
Check(p) == ~armed[p] \/ connected[p] \/ age[p] < Grace

\* Time passes; a call of SetConnected takes none of it.
Later(n) == IF n < Grace THEN n + 1 ELSE n

Tick ==
  /\ \A p \in Pods : call[p] = None
  /\ age' = [p \in Pods |-> Later(age[p])]
  /\ outage' = [p \in Pods |-> IF pc[p] = "run" /\ ~up[p] THEN Later(outage[p]) ELSE outage[p]]
  /\ <<age', outage'>> # <<age, outage>>
  /\ UNCHANGED <<startVars, up, armed, connected, call, hasty, faults, crashes>>

----------------------------------------------------------------------------
(***************************************************************************)
(* The environment.                                                        *)
(***************************************************************************)
Crash(p) ==
  /\ pc[p] # "off" /\ crashes < MaxCrashes
  /\ crashes' = crashes + 1
  /\ Goto(p, "off")
  /\ token' = [token EXCEPT ![p] = None]
  /\ up' = [up EXCEPT ![p] = FALSE]
  /\ armed' = [armed EXCEPT ![p] = FALSE]
  /\ connected' = [connected EXCEPT ![p] = FALSE]
  /\ age' = [age EXCEPT ![p] = Grace]
  /\ call' = [call EXCEPT ![p] = None]
  /\ outage' = [outage EXCEPT ![p] = 0]
  /\ UNCHANGED <<manifest, server, registration, secret, creds, hasty, faults>>

\* The External Secrets Operator, once there is an identity.
Deliver ==
  /\ \E t \in Tokens : server[t] = "used"
  /\ \/ secret = "absent" /\ secret' \in {"empty", "ready"}
     \/ secret = "empty" /\ secret' = "ready"
  /\ UNCHANGED <<manifest, server, registration, pc, token, creds, startOnly, faults>>

\* Nobody can register: the token of the manifest is no good, and neither the
\* ConfigMap nor a pod on its way to it has an identity.
Stranded ==
  /\ manifest # None => server[manifest] # "fresh"
  /\ \/ registration = None /\ \A p \in Pods : pc[p] # "persist"
     \/ registration = Partial

ExpireToken(t) ==
  /\ server[t] = "fresh" /\ Fault
  /\ server' = [server EXCEPT ![t] = "expired"]
  /\ UNCHANGED <<manifest, registration, secret, pc, token, creds, startOnly>>

\* The operator rolls out a new token: pods that start from now on have it.
Reissue(t) ==
  /\ server[t] = "fresh" /\ t # manifest
  /\ manifest' = t
  /\ hasty' = (hasty \/ ~Stranded)
  /\ pc' = [p \in Pods |-> IF pc[p] = "standalone" THEN "off" ELSE pc[p]]
  /\ UNCHANGED <<server, registration, secret, token, creds, up, trackerVars, outage, faults,
                 crashes>>

----------------------------------------------------------------------------
Init ==
  /\ manifest \in Tokens \cup {None}
  /\ server = [t \in Tokens |-> "fresh"]
  /\ registration \in {None, Partial}
  /\ secret = "absent"
  /\ pc = [p \in Pods |-> "off"]
  /\ token = [p \in Pods |-> None]
  /\ creds = [p \in Pods |-> None]
  /\ up = [p \in Pods |-> FALSE]
  /\ armed = [p \in Pods |-> FALSE]
  /\ connected = [p \in Pods |-> FALSE]
  /\ age = [p \in Pods |-> Grace]
  /\ call = [p \in Pods |-> None]
  /\ outage = [p \in Pods |-> 0]
  /\ hasty = FALSE /\ faults = 0 /\ crashes = 0

StartStep(p) ==
  Boot(p) \/ Load(p) \/ Register(p) \/ Persist(p) \/ ReadSecret(p) \/ Configure(p)

Next ==
  \/ \E p \in Pods :
       \/ Boot(p) \/ Load(p) \/ Register(p) \/ Persist(p) \/ ReadSecret(p) \/ Configure(p)
       \/ RegisterFails(p) \/ StepFails(p)
       \/ Connect(p) \/ Disconnect(p) \/ SetConnected(p) \/ Crash(p)
  \/ \E t \in Tokens : ExpireToken(t) \/ Reissue(t)
  \/ Tick \/ Deliver

Spec == Init /\ [][Next]_vars

\* Start goes on, pods are started again, and the Secret is delivered.
Fairness == WF_vars(Deliver) /\ \A p \in Pods : WF_vars(StartStep(p))

FairSpec == Spec /\ Fairness

----------------------------------------------------------------------------
(***************************************************************************)
(* Properties.                                                             *)
(***************************************************************************)
\* The types of the variables; a stream needs a client secret.
TypeOK ==
  /\ manifest \in Tokens \cup {None} /\ registration \in Tokens \cup {None, Partial}
  /\ server \in [Tokens -> {"fresh", "used", "expired"}]
  /\ secret \in {"absent", "empty", "ready"}
  /\ pc \in [Pods -> {"off", "standalone", "load", "register", "persist", "secret",
                      "configure", "run"}]
  /\ token \in [Pods -> Tokens \cup {None}] /\ creds \in [Pods -> Tokens \cup {None}]
  /\ up \in [Pods -> BOOLEAN] /\ armed \in [Pods -> BOOLEAN] /\ connected \in [Pods -> BOOLEAN]
  /\ age \in [Pods -> 0..Grace] /\ outage \in [Pods -> 0..Grace]
  /\ call \in [Pods -> {None} \cup BOOLEAN \X {"armed", "connected", "stamp"}]
  /\ hasty \in BOOLEAN /\ faults \in 0..MaxFaults /\ crashes \in 0..MaxCrashes
  /\ (\E p \in Pods : up[p]) => secret = "ready"

(***************************************************************************)
(* persistCredentials "stores the registration output for future           *)
(* restarts": a pod that has come past it finds its identity there when it *)
(* starts again; unless an incomplete ConfigMap was in the way, which      *)
(* loadPersistedCredentials ignores and persistCredentials takes for one.  *)
(***************************************************************************)
OutputIsStored ==
  \/ registration = Partial
  \/ \A p \in Pods : pc[p] \in {"secret", "configure", "run"} => creds[p] = registration

(***************************************************************************)
(* Pods that share a one-time token share an identity: whatever fails or   *)
(* crashes, a pod past the registration uses the one that is persisted, so *)
(* that the pods of a rolling update are one cluster to the control plane. *)
(* The control plane takes a token once, hence two identities need two     *)
(* tokens: one rolled out before the other was spent or lost (hasty).      *)
(***************************************************************************)
RunsArePersisted == hasty \/ OutputIsStored

(***************************************************************************)
(* Readiness follows the stream: between two calls of SetConnected, /readyz *)
(* fails exactly when the stream has been down for the grace period; a pod *)
(* without a stream client is ready.                                       *)
(***************************************************************************)
ReadinessFollows ==
  \A p \in Pods : call[p] = None => (Check(p) <=> (pc[p] = "run" => outage[p] < Grace))

(***************************************************************************)
(* Every pod comes to run, through crashes, failed calls, a token that two *)
(* pods try and a Secret that comes late or without its key; the one way   *)
(* to get stuck is to be stranded: the token was spent and its identity    *)
(* was lost before it was persisted, or the token expired.  An incomplete  *)
(* ConfigMap loses every identity.                                         *)
(***************************************************************************)
EveryPodRuns ==
  <>[](Stranded \/ \A p \in Pods : pc[p] = "run")
=============================================================================
