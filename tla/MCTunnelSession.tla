-------------------------- MODULE MCTunnelSession --------------------------
(* Model-checking instances of TunnelSession.                              *)
EXTENDS TunnelSession, TLC

Upload == [body |-> TRUE, upgrade |-> FALSE]
Watch == [body |-> FALSE, upgrade |-> FALSE]
Exec == [body |-> TRUE, upgrade |-> TRUE]        \* SPDY: a POST
Websocket == [body |-> FALSE, upgrade |-> TRUE]  \* a GET

Bodied == {Upload, Websocket}
Spdy == {Exec}
============================================================================
