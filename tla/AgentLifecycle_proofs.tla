----------------------- MODULE AgentLifecycle_proofs -----------------------
(***************************************************************************)
(* Proofs about AgentLifecycle.                                            *)
(***************************************************************************)
EXTENDS AgentLifecycle, TLAPS

PcValues ==
  {"off", "standalone", "load", "register", "persist", "secret", "configure", "run"}

Calls == BOOLEAN \X {"armed", "connected", "stamp"}

(***************************************************************************)
(* What holds of one pod at each point of Start.                           *)
(***************************************************************************)
Starting(p) ==
  /\ pc[p] \in {"load", "register"} => token[p] \in Tokens
  /\ pc[p] \in {"persist", "secret", "configure", "run"} => creds[p] \in Tokens
  /\ pc[p] \in {"configure", "run"} => secret = "ready"

(***************************************************************************)
(* One token at a time: a token that a pod holds is the one of the         *)
(* manifest, or one that is no good any more; so that the identity that a  *)
(* pod is about to persist is the only one there is.                       *)
(***************************************************************************)
OneToken(p) ==
  /\ pc[p] \in {"load", "register"} =>
       token[p] = manifest \/ server[token[p]] # "fresh"
  /\ pc[p] = "persist" =>
       /\ creds[p] = manifest /\ server[manifest] # "fresh"
       /\ registration \in {None, manifest}
  /\ pc[p] \in {"secret", "configure", "run"} =>
       registration # None /\ creds[p] = registration

\* The registration is that of the manifest's token, which is spent.
RegistrationSpent ==
  registration # None => registration = manifest /\ server[manifest] # "fresh"

Calm == ~hasty /\ registration # Partial

(***************************************************************************)
(* The tracker of one pod.  Between two calls of SetConnected it agrees    *)
(* with the stream, and the age of the last disconnect is the length of    *)
(* the outage; during a call no time has passed since the stream changed.  *)
(***************************************************************************)
Tracking(p) ==
  /\ pc[p] # "run" => ~armed[p] /\ ~up[p] /\ call[p] = None
  /\ pc[p] = "run" /\ call[p] = None =>
       /\ armed[p] /\ connected[p] = up[p]
       /\ up[p] => outage[p] = 0
       /\ ~up[p] => age[p] = outage[p]
  /\ call[p] # None =>
       /\ call[p][1] = up[p] /\ outage[p] = 0
       /\ call[p][2] \in {"connected", "stamp"} => armed[p]
       /\ call[p][2] = "stamp" => connected[p] = up[p]

Types ==
  /\ manifest \in Tokens \cup {None} /\ registration \in Tokens \cup {None, Partial}
  /\ server \in [Tokens -> {"fresh", "used", "expired"}]
  /\ secret \in {"absent", "empty", "ready"}
  /\ pc \in [Pods -> PcValues]
  /\ token \in [Pods -> Tokens \cup {None}] /\ creds \in [Pods -> Tokens \cup {None}]
  /\ up \in [Pods -> BOOLEAN] /\ armed \in [Pods -> BOOLEAN] /\ connected \in [Pods -> BOOLEAN]
  /\ age \in [Pods -> 0..Grace] /\ outage \in [Pods -> 0..Grace]
  /\ call \in [Pods -> {None} \cup Calls]
  /\ hasty \in BOOLEAN /\ faults \in 0..MaxFaults /\ crashes \in 0..MaxCrashes

Starts == \A p \in Pods : Starting(p)
OneIdentity == Calm => RegistrationSpent /\ \A p \in Pods : OneToken(p)
Tracks == \A p \in Pods : Tracking(p)

IInv == Types /\ Starts /\ OneIdentity /\ Tracks

USE LifecycleAssumption DEF PcValues

\* A call of SetConnected: what it stores, and what it stores next.
LEMMA CallsAre ==
  /\ None \notin Calls
  /\ \A v \in BOOLEAN, s \in {"armed", "connected", "stamp"} :
       <<v, s>> \in Calls /\ <<v, s>>[1] = v /\ <<v, s>>[2] = s
  /\ \A c \in Calls : c[1] \in BOOLEAN /\ c[2] \in {"armed", "connected", "stamp"}
  BY DEF Calls

LEMMA InitIInv == Init => IInv
  <1> SUFFICES ASSUME Init PROVE IInv
    OBVIOUS
  <1>1. Types
    <2>1. /\ up \in [Pods -> BOOLEAN] /\ armed \in [Pods -> BOOLEAN]
          /\ connected \in [Pods -> BOOLEAN] /\ hasty \in BOOLEAN
      BY DEF Init
    <2>2. age \in [Pods -> 0..Grace] /\ outage \in [Pods -> 0..Grace]
      BY DEF Init
    <2> QED BY <2>1, <2>2 DEF Init, Types
  <1>2. Starts /\ OneIdentity
    BY DEF Init, Starts, Starting, OneIdentity, Calm, RegistrationSpent, OneToken
  <1>3. Tracks
    BY DEF Init, Tracks, Tracking
  <1> QED BY <1>1, <1>2, <1>3 DEF IInv

----------------------------------------------------------------------------
(***************************************************************************)
(* The types.                                                              *)
(***************************************************************************)
LEMMA NextTypes == ASSUME IInv, [Next]_vars PROVE Types'
  <1> USE DEF IInv, Types, Goto, Fault, startOnly, startVars, trackerVars
  <1>1. ASSUME NEW p \in Pods, Boot(p) PROVE Types'
    BY <1>1 DEF Boot
  <1>2. ASSUME NEW p \in Pods, Load(p) PROVE Types'
    BY <1>2 DEF Load
  <1>3. ASSUME NEW p \in Pods, Register(p) PROVE Types'
    BY <1>3 DEF Register, Starts, Starting
  <1>4. ASSUME NEW p \in Pods, Persist(p) PROVE Types'
    BY <1>4 DEF Persist
  <1>5. ASSUME NEW p \in Pods, ReadSecret(p) PROVE Types'
    BY <1>5 DEF ReadSecret
  <1>6. ASSUME NEW p \in Pods, Configure(p) PROVE Types'
    <2>1. call' = [call EXCEPT ![p] = <<FALSE, "armed">>] /\ <<FALSE, "armed">> \in Calls
      BY <1>6, CallsAre DEF Configure
    <2>2. call' \in [Pods -> {None} \cup Calls]
      BY <2>1, Zenon
    <2>3. /\ pc' = [pc EXCEPT ![p] = "run"] /\ outage' = [outage EXCEPT ![p] = 0]
          /\ UNCHANGED <<manifest, server, registration, secret, token, creds, up, armed,
                         connected, age, hasty, faults, crashes>>
      BY <1>6 DEF Configure
    <2> QED BY <2>2, <2>3
  <1>7. ASSUME NEW p \in Pods, RegisterFails(p) PROVE Types'
    BY <1>7 DEF RegisterFails
  <1>8. ASSUME NEW p \in Pods, StepFails(p) PROVE Types'
    BY <1>8 DEF StepFails
  <1>9. ASSUME NEW p \in Pods, Connect(p) PROVE Types'
    <2>1. call' = [call EXCEPT ![p] = <<TRUE, "armed">>] /\ <<TRUE, "armed">> \in Calls
      BY <1>9, CallsAre DEF Connect
    <2>2. call' \in [Pods -> {None} \cup Calls]
      BY <2>1, Zenon
    <2>3. up' \in [Pods -> BOOLEAN]
      BY <1>9 DEF Connect
    <2>4. /\ outage' = [outage EXCEPT ![p] = 0]
          /\ UNCHANGED <<startVars, armed, connected, age, hasty, faults, crashes>>
      BY <1>9 DEF Connect
    <2> QED BY <2>2, <2>3, <2>4
  <1>10. ASSUME NEW p \in Pods, Disconnect(p) PROVE Types'
    BY <1>10, CallsAre DEF Disconnect
  <1>11. ASSUME NEW p \in Pods, SetConnected(p) PROVE Types'
    <2> DEFINE v == call[p][1]
    <2>1. call[p] \in Calls /\ v \in BOOLEAN
      BY <1>11, CallsAre DEF SetConnected
    <2>2. <<v, "connected">> \in Calls /\ <<v, "stamp">> \in Calls
      BY <2>1, CallsAre, Zenon
    <2>3. call' \in [Pods -> {None} \cup Calls]
      BY <1>11, <2>2 DEF SetConnected
    <2>4. connected' \in [Pods -> BOOLEAN]
      BY <1>11, <2>1 DEF SetConnected
    <2>5. armed' \in [Pods -> BOOLEAN]
      <3>1. armed' = armed \/ armed' = [armed EXCEPT ![p] = TRUE]
        BY <1>11 DEF SetConnected
      <3> QED BY <3>1
    <2>6. age' \in [Pods -> 0..Grace]
      <3>1. age' = age \/ age' = [age EXCEPT ![p] = 0]
        BY <1>11 DEF SetConnected
      <3> QED BY <3>1
    <2>7. UNCHANGED <<startVars, up, outage, hasty, faults, crashes>>
      BY <1>11 DEF SetConnected
    <2> QED BY <2>3, <2>4, <2>5, <2>6, <2>7
  <1>12. ASSUME NEW p \in Pods, Crash(p) PROVE Types'
    BY <1>12 DEF Crash
  <1>13. ASSUME NEW t \in Tokens, ExpireToken(t) PROVE Types'
    BY <1>13 DEF ExpireToken
  <1>14. ASSUME NEW t \in Tokens, Reissue(t) PROVE Types'
    BY <1>14 DEF Reissue
  <1>15. CASE Tick
    BY <1>15 DEF Tick, Later
  <1>16. CASE Deliver
    BY <1>16 DEF Deliver
  <1>17. CASE UNCHANGED vars
    BY <1>17 DEF vars
  <1> QED BY <1>1, <1>2, <1>3, <1>4, <1>5, <1>6, <1>7, <1>8, <1>9, <1>10, <1>11, <1>12,
             <1>13, <1>14, <1>15, <1>16, <1>17 DEF Next

----------------------------------------------------------------------------
(***************************************************************************)
(* Start.                                                                  *)
(***************************************************************************)
LEMMA NextStarts == ASSUME IInv, [Next]_vars PROVE Starts'
  <1> USE DEF IInv, Types, Starts, Starting, Goto, Fault, startOnly, startVars, trackerVars
  <1>1. ASSUME NEW p \in Pods, Boot(p) PROVE Starts'
    BY <1>1 DEF Boot
  <1>2. ASSUME NEW p \in Pods, Load(p) PROVE Starts'
    BY <1>2 DEF Load
  <1>3. ASSUME NEW p \in Pods, Register(p) PROVE Starts'
    BY <1>3 DEF Register
  <1>4. ASSUME NEW p \in Pods, Persist(p) PROVE Starts'
    BY <1>4 DEF Persist
  <1>5. ASSUME NEW p \in Pods, ReadSecret(p) PROVE Starts'
    BY <1>5 DEF ReadSecret
  <1>6. ASSUME NEW p \in Pods, Configure(p) PROVE Starts'
    BY <1>6 DEF Configure
  <1>7. ASSUME NEW p \in Pods, RegisterFails(p) PROVE Starts'
    BY <1>7 DEF RegisterFails
  <1>8. ASSUME NEW p \in Pods, StepFails(p) PROVE Starts'
    BY <1>8 DEF StepFails
  <1>9. ASSUME NEW p \in Pods, Connect(p) \/ Disconnect(p) \/ SetConnected(p) PROVE Starts'
    BY <1>9 DEF Connect, Disconnect, SetConnected
  <1>12. ASSUME NEW p \in Pods, Crash(p) PROVE Starts'
    BY <1>12 DEF Crash
  <1>13. ASSUME NEW t \in Tokens, ExpireToken(t) PROVE Starts'
    BY <1>13 DEF ExpireToken
  <1>14. ASSUME NEW t \in Tokens, Reissue(t) PROVE Starts'
    BY <1>14 DEF Reissue
  <1>15. CASE Tick
    BY <1>15 DEF Tick
  <1>16. CASE Deliver
    BY <1>16 DEF Deliver
  <1>17. CASE UNCHANGED vars
    BY <1>17 DEF vars
  <1> QED BY <1>1, <1>2, <1>3, <1>4, <1>5, <1>6, <1>7, <1>8, <1>9, <1>12,
             <1>13, <1>14, <1>15, <1>16, <1>17 DEF Next

\* A token that is rolled out when nobody has another one left to spend is, again,
\* the only one.
LEMMA NextOneIdentity == ASSUME IInv, [Next]_vars PROVE OneIdentity'
  <1> USE DEF IInv, Types, Starts, Starting, OneIdentity, Calm, RegistrationSpent, OneToken, Goto,
              Fault, startOnly, startVars, trackerVars
  <1>1. ASSUME NEW p \in Pods, Boot(p) PROVE OneIdentity'
    BY <1>1 DEF Boot
  <1>2. ASSUME NEW p \in Pods, Load(p) PROVE OneIdentity'
    BY <1>2 DEF Load
  <1>3. ASSUME NEW p \in Pods, Register(p) PROVE OneIdentity'
    BY <1>3 DEF Register
  <1>4. ASSUME NEW p \in Pods, Persist(p) PROVE OneIdentity'
    BY <1>4 DEF Persist
  <1>5. ASSUME NEW p \in Pods, ReadSecret(p) PROVE OneIdentity'
    BY <1>5 DEF ReadSecret
  <1>6. ASSUME NEW p \in Pods, Configure(p) PROVE OneIdentity'
    BY <1>6 DEF Configure
  <1>7. ASSUME NEW p \in Pods, RegisterFails(p) PROVE OneIdentity'
    BY <1>7 DEF RegisterFails
  <1>8. ASSUME NEW p \in Pods, StepFails(p) PROVE OneIdentity'
    BY <1>8 DEF StepFails
  <1>9. ASSUME NEW p \in Pods, Connect(p) \/ Disconnect(p) \/ SetConnected(p) PROVE OneIdentity'
    BY <1>9 DEF Connect, Disconnect, SetConnected
  <1>12. ASSUME NEW p \in Pods, Crash(p) PROVE OneIdentity'
    BY <1>12 DEF Crash
  <1>13. ASSUME NEW t \in Tokens, ExpireToken(t) PROVE OneIdentity'
    BY <1>13 DEF ExpireToken
  <1>14. ASSUME NEW t \in Tokens, Reissue(t) PROVE OneIdentity'
    <2> SUFFICES ASSUME Calm' PROVE RegistrationSpent' /\ \A p \in Pods : OneToken(p)'
      BY DEF OneIdentity
    <2>1. /\ ~hasty /\ Stranded /\ registration # Partial /\ server[t] = "fresh"
          /\ UNCHANGED <<server, registration, token, creds>>
          /\ \A p \in Pods : pc'[p] = pc[p] \/ pc'[p] = "off"
      <3>1. ~hasty' /\ hasty' = (hasty \/ ~Stranded)
        BY <1>14 DEF Reissue, Calm
      <3>2. ~hasty /\ Stranded
        BY <3>1
      <3> QED BY <1>14, <3>2 DEF Reissue, Calm
    <2>2. /\ registration = None /\ (manifest # None => server[manifest] # "fresh")
          /\ \A p \in Pods : pc[p] # "persist"
      BY <2>1 DEF Stranded
    <2>3. RegistrationSpent'
      BY <2>1, <2>2
    <2>4. ASSUME NEW p \in Pods PROVE OneToken(p)'
      BY <2>1, <2>2
    <2> QED BY <2>3, <2>4
  <1>15. CASE Tick
    BY <1>15 DEF Tick
  <1>16. CASE Deliver
    BY <1>16 DEF Deliver
  <1>17. CASE UNCHANGED vars
    BY <1>17 DEF vars
  <1> QED BY <1>1, <1>2, <1>3, <1>4, <1>5, <1>6, <1>7, <1>8, <1>9, <1>12,
             <1>13, <1>14, <1>15, <1>16, <1>17 DEF Next

----------------------------------------------------------------------------
(***************************************************************************)
(* The tracker.                                                            *)
(***************************************************************************)
\* What a step of Start or of the environment must not touch.
LEMMA TrackerIdle ==
  ASSUME IInv, UNCHANGED <<up, armed, connected, age, call, outage>>,
         \A p \in Pods : pc'[p] = "run" <=> pc[p] = "run"
  PROVE  Tracks'
  BY DEF IInv, Tracks, Tracking

LEMMA NextTracks == ASSUME IInv, [Next]_vars PROVE Tracks'
  <1> USE DEF IInv, Types, Goto, Fault, startOnly, startVars, trackerVars
  <1>1. ASSUME NEW p \in Pods, Boot(p) PROVE Tracks'
    BY <1>1, TrackerIdle DEF Boot
  <1>2. ASSUME NEW p \in Pods, Load(p) PROVE Tracks'
    BY <1>2, TrackerIdle DEF Load
  <1>3. ASSUME NEW p \in Pods, Register(p) PROVE Tracks'
    BY <1>3, TrackerIdle DEF Register
  <1>4. ASSUME NEW p \in Pods, Persist(p) PROVE Tracks'
    BY <1>4, TrackerIdle DEF Persist
  <1>5. ASSUME NEW p \in Pods, ReadSecret(p) PROVE Tracks'
    BY <1>5, TrackerIdle DEF ReadSecret
  <1>6. ASSUME NEW p \in Pods, Configure(p) PROVE Tracks'
    <2>1. /\ call' = [call EXCEPT ![p] = <<FALSE, "armed">>] /\ outage'[p] = 0
          /\ <<FALSE, "armed">> # None /\ <<FALSE, "armed">>[1] = FALSE
          /\ <<FALSE, "armed">>[2] = "armed"
      BY <1>6, CallsAre DEF Configure
    <2>2. up[p] = FALSE
      BY <1>6 DEF Configure, Tracks, Tracking
    <2>3. Tracking(p)'
      BY <1>6, <2>1, <2>2 DEF Configure, Tracking
    <2>4. ASSUME NEW q \in Pods, q # p PROVE Tracking(q)'
      BY <1>6, <2>4 DEF Configure, Tracks, Tracking
    <2> QED BY <2>3, <2>4 DEF Tracks
  <1>7. ASSUME NEW p \in Pods, RegisterFails(p) PROVE Tracks'
    BY <1>7, TrackerIdle DEF RegisterFails
  <1>8. ASSUME NEW p \in Pods, StepFails(p) PROVE Tracks'
    BY <1>8, TrackerIdle DEF StepFails
  <1>9. ASSUME NEW p \in Pods, Connect(p) PROVE Tracks'
    <2>1. /\ call' = [call EXCEPT ![p] = <<TRUE, "armed">>]
          /\ <<TRUE, "armed">> # None /\ <<TRUE, "armed">>[1] = TRUE
          /\ <<TRUE, "armed">>[2] = "armed"
      BY <1>9, CallsAre DEF Connect
    <2>2. Tracking(p)
      BY DEF Tracks
    <2>3. Tracking(p)'
      BY <1>9, <2>1, <2>2 DEF Connect, Tracking
    <2>4. ASSUME NEW q \in Pods, q # p PROVE Tracking(q)'
      BY <1>9, <2>4 DEF Connect, Tracks, Tracking
    <2> QED BY <2>3, <2>4 DEF Tracks
  <1>10. ASSUME NEW p \in Pods, Disconnect(p) PROVE Tracks'
    <2>1. /\ call' = [call EXCEPT ![p] = <<FALSE, "armed">>]
          /\ <<FALSE, "armed">> # None /\ <<FALSE, "armed">>[1] = FALSE
          /\ <<FALSE, "armed">>[2] = "armed"
      BY <1>10, CallsAre DEF Disconnect
    <2>2. Tracking(p)
      BY DEF Tracks
    <2>3. Tracking(p)'
      BY <1>10, <2>1, <2>2 DEF Disconnect, Tracking
    <2>4. ASSUME NEW q \in Pods, q # p PROVE Tracking(q)'
      BY <1>10, <2>4 DEF Disconnect, Tracks, Tracking
    <2> QED BY <2>3, <2>4 DEF Tracks
  <1>11. ASSUME NEW p \in Pods, SetConnected(p) PROVE Tracks'
    BY <1>11, CallsAre DEF SetConnected, Stamped, Tracks, Tracking
  <1>12. ASSUME NEW p \in Pods, Crash(p) PROVE Tracks'
    BY <1>12 DEF Crash, Tracks, Tracking
  <1>13. ASSUME NEW t \in Tokens, ExpireToken(t) PROVE Tracks'
    BY <1>13, TrackerIdle DEF ExpireToken
  <1>14. ASSUME NEW t \in Tokens, Reissue(t) PROVE Tracks'
    BY <1>14, TrackerIdle DEF Reissue
  <1>15. CASE Tick
    BY <1>15 DEF Tick, Later, Tracks, Tracking
  <1>16. CASE Deliver
    BY <1>16, TrackerIdle DEF Deliver
  <1>17. CASE UNCHANGED vars
    BY <1>17, TrackerIdle DEF vars
  <1> QED BY <1>1, <1>2, <1>3, <1>4, <1>5, <1>6, <1>7, <1>8, <1>9, <1>10, <1>11, <1>12,
             <1>13, <1>14, <1>15, <1>16, <1>17 DEF Next

----------------------------------------------------------------------------
\* The inductive invariant: a running pod is registered, and Start, the tracker and
\* the stream agree at every point of the code.
THEOREM Invariance == Spec => []IInv
  <1>1. IInv /\ [Next]_vars => IInv'
    BY NextTypes, NextStarts, NextOneIdentity, NextTracks DEF IInv
  <1> QED BY InitIInv, <1>1, PTL DEF Spec

(***************************************************************************)
(* The variables keep their types, and a stream has its client secret.     *)
(***************************************************************************)
THEOREM TypeCorrect == Spec => []TypeOK
  <1>1. IInv => TypeOK
    BY DEF IInv, Types, Starts, Starting, Tracks, Tracking, TypeOK, Calls
  <1> QED BY Invariance, <1>1, PTL

(***************************************************************************)
(* A pod that has come past the registration uses the identity that        *)
(* persistCredentials left in the ConfigMap, with any number of pods,      *)
(* tokens, failed calls and crashes, as long as a new token is rolled out  *)
(* only when the old one is spent and its identity persisted or lost.      *)
(***************************************************************************)
THEOREM RunningIsPersisted == Spec => []RunsArePersisted
  <1>1. IInv => RunsArePersisted
    BY DEF IInv, OneIdentity, Calm, OneToken, RunsArePersisted, OutputIsStored
  <1> QED BY Invariance, <1>1, PTL

(***************************************************************************)
(* Between two calls of SetConnected, /readyz fails exactly when the       *)
(* stream has been down for the grace period, whatever that period is.     *)
(***************************************************************************)
THEOREM ReadyzFollowsStream == Spec => []ReadinessFollows
  <1>1. IInv => ReadinessFollows
    BY DEF IInv, Types, Tracks, Tracking, ReadinessFollows, Check
  <1> QED BY Invariance, <1>1, PTL
=============================================================================
