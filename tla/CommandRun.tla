----------------------------- MODULE CommandRun -----------------------------
(***************************************************************************)
(* What a command handler sees of the server and of the Dispatcher.  The   *)
(* server delivers a command, to any pod that runs, until it has a verdict *)
(* on it; the pod's event loop has one command in hand at a time; a        *)
(* handler ends with a verdict, which is recorded, or with an error, which *)
(* is not.  CommandDispatch models the record itself.                      *)
(***************************************************************************)
EXTENDS Naturals

CONSTANTS
  Pods,
  Commands,    \* records; "kind" says which handler takes them
  Workloads,   \* sets of commands: the server issues one of these sets
  None,
  MaxTrouble   \* bound: failed calls, crashes and steps of the tenant

ASSUME RunAssumption ==
  /\ Workloads \subseteq SUBSET Commands
  /\ None \notin Commands /\ None \notin {"APPLIED", "FAILED"}
  /\ MaxTrouble \in Nat

VARIABLES
  issued,      \* the commands of this run
  verdict,     \* the server's verdict on a command
  cmd, at,     \* per pod: the command in hand, and where its handler is
  local,       \* per pod: what the handler has found out
  trouble

runVars == <<issued, verdict, cmd, at, local, trouble>>

Fault == trouble < MaxTrouble /\ trouble' = trouble + 1

NoFault == UNCHANGED trouble

\* The handler goes on to l with x.
Goto(p, l, x) ==
  /\ at' = [at EXCEPT ![p] = l]
  /\ local' = [local EXCEPT ![p] = x]
  /\ UNCHANGED <<issued, verdict, cmd>>

\* The handler returns APPLIED; what is left is to record it.
Succeed(p) == Goto(p, "end", None)

Leave(p) ==
  /\ cmd' = [cmd EXCEPT ![p] = None]
  /\ at' = [at EXCEPT ![p] = "idle"]
  /\ local' = [local EXCEPT ![p] = None]

\* The handler returns v: the server keeps the first verdict it gets.
Return(p, v) ==
  /\ verdict' = [verdict EXCEPT ![cmd[p]] = IF @ = None THEN v ELSE @]
  /\ Leave(p)
  /\ UNCHANGED issued

Failed(p) == Return(p, "FAILED")

\* The handler returns an error: nothing is recorded, the server delivers the
\* command again.
Transient(p) == Leave(p) /\ UNCHANGED <<issued, verdict>>

\* HandleEvent reaches the handler.
Deliver(p, c) ==
  /\ at[p] = "idle" /\ verdict[c] = None
  /\ cmd' = [cmd EXCEPT ![p] = c]
  /\ at' = [at EXCEPT ![p] = "start"]
  /\ UNCHANGED <<issued, verdict, local, trouble>>

\* The result is recorded; a crash before that loses it.
Record(p) == at[p] = "end" /\ Return(p, "APPLIED") /\ NoFault

CrashRun(p) == Fault /\ Leave(p) /\ UNCHANGED <<issued, verdict>>

\* People and other controllers of the tenant.
TenantActs == Fault /\ UNCHANGED <<issued, verdict, cmd, at, local>>

RunInit ==
  /\ issued \in Workloads
  /\ verdict = [c \in issued |-> None]
  /\ cmd = [p \in Pods |-> None]
  /\ at = [p \in Pods |-> "idle"]
  /\ local = [p \in Pods |-> None]
  /\ trouble = 0
=============================================================================
