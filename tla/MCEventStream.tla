--------------------------- MODULE MCEventStream ---------------------------
(* Model-checking instances of EventStream.                                *)
EXTENDS EventStream, TLC
============================================================================
