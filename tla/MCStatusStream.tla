--------------------------- MODULE MCStatusStream ---------------------------
(* Model-checking instances of StatusStream.                               *)
EXTENDS StatusStream, TLC

\* Ready, not ready, an Application that is reported as the latter, and one
\* whose sync status only shows in the message.
MCContents ==
  {[health |-> "", sync |-> "", ready |-> "True", message |-> "ok"],
   [health |-> "", sync |-> "", ready |-> "False", message |-> "failed"],
   [health |-> "degraded", sync |-> "outofsync", ready |-> "", message |-> "failed"],
   [health |-> "degraded", sync |-> "unknown", ready |-> "", message |-> "failed"]}
=============================================================================
