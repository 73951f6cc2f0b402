------------------------- MODULE MCCommandDispatch -------------------------
(* Model-checking instances of CommandDispatch.                            *)
EXTENDS CommandDispatch, TLC

CONSTANTS c1, c2, c3

\* Two commands, an event without a command id and one that dispatch drops.
MCEvents ==
  {[type |-> "APPLY_BUNDLE", id |-> c1],
   [type |-> "REGISTER_ARGOCD_APPSET", id |-> c2],
   [type |-> "RENDER_RGD_INSTANCE", id |-> NoId],
   [type |-> "UNKNOWN", id |-> NoId]}

\* One command more than the journal holds; no handler is registered for
\* INVOKE_ACTION.
MCCommands ==
  {[type |-> "APPLY_BUNDLE", id |-> c1],
   [type |-> "INVOKE_ACTION", id |-> c2],
   [type |-> "INVOKE_ACTION", id |-> c3]}

MCRegistered == EventTypes \ {"INVOKE_ACTION", "RESYNC_REQUEST", "UNKNOWN"}

\* Pods are interchangeable, and so are the two INVOKE_ACTION commands.
OverlapSymmetry == Permutations(Pods) \cup Permutations({c2, c3})
============================================================================
