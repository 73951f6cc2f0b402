-------------------------- MODULE MCAgentLifecycle --------------------------
(* Model-checking instances of AgentLifecycle.                             *)
EXTENDS AgentLifecycle, TLC
============================================================================
