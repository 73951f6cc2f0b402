------------------------------- MODULE Uplink -------------------------------
(***************************************************************************)
(* What the stream client promises to those who call Send, and what it     *)
(* does not: events leave in the order in which they were queued, each at  *)
(* most once, and reach the gateway only while a session is up; but an     *)
(* event whose Send has returned may be lost, with the session that broke  *)
(* or to the send pump of a session that has already ended.  EventStream   *)
(* implements this module; the modules of the components that report to    *)
(* the gateway use it as their environment.                                *)
(***************************************************************************)
EXTENDS Naturals, Sequences

CONSTANTS
  Payloads,      \* what can be queued
  SessionIds,    \* names of sessions
  Capacity,      \* room for queued events
  Receive(_, _)  \* how the gateway's state changes with an event

VARIABLES
  link,        \* "down", "opening" (the connection callback runs), "up",
               \* "broken" (the session has not ended, but nothing arrives)
  wire,        \* queued events
  stragglers,  \* ended sessions whose send pump has not noticed yet
  gateway      \* the state of the gateway

uplinkVars == <<link, wire, stragglers, gateway>>

Queue(e) ==
  /\ Len(wire) < Capacity
  /\ wire' = Append(wire, e)
  /\ UNCHANGED <<link, stragglers, gateway>>

Deliver ==
  /\ link = "up"
  /\ wire # <<>>
  /\ gateway' = Receive(gateway, Head(wire))
  /\ wire' = Tail(wire)
  /\ UNCHANGED <<link, stragglers>>

\* The pump of a broken session takes an event and cannot send it.
Lose ==
  /\ link = "broken"
  /\ wire # <<>>
  /\ wire' = Tail(wire)
  /\ UNCHANGED <<link, stragglers, gateway>>

\* The pump of an ended session ends; it may take an event with it: the first
\* one, or the second while the pump of the session that is up sends the first.
StragglerEnds(s) ==
  /\ s \in stragglers
  /\ stragglers' = stragglers \ {s}
  /\ \/ UNCHANGED wire
     \/ wire # <<>> /\ wire' = Tail(wire)
     \/ link = "up" /\ Len(wire) > 1 /\ wire' = <<Head(wire)>> \o Tail(Tail(wire))
  /\ UNCHANGED <<link, gateway>>

\* The handshake is done and the connection callback is called.
Open ==
  /\ link = "down"
  /\ link' = "opening"
  /\ UNCHANGED <<wire, stragglers, gateway>>

\* The callback has returned and the pumps are started; the session may be
\* broken by then.
Start ==
  /\ link = "opening"
  /\ link' \in {"up", "broken"}
  /\ UNCHANGED <<wire, stragglers, gateway>>

\* An event that is being sent goes down with the session.
Interrupt == UNCHANGED wire \/ (link = "up" /\ wire # <<>> /\ wire' = Tail(wire))

Break ==
  /\ link = "up"
  /\ link' = "broken"
  /\ Interrupt
  /\ UNCHANGED <<stragglers, gateway>>

End(s) ==
  /\ link \in {"up", "broken"}
  /\ link' = "down"
  /\ Interrupt
  /\ stragglers' \in {stragglers, stragglers \cup {s}}
  /\ UNCHANGED gateway

\* Some event is queued, the last one of the new wire.
SomeQueued ==
  /\ wire' # <<>>
  /\ wire'[Len(wire')] \in Payloads
  /\ Queue(wire'[Len(wire')])

UplinkNext ==
  \/ SomeQueued
  \/ Deliver \/ Lose \/ Open \/ Start \/ Break
  \/ \E s \in SessionIds : StragglerEnds(s) \/ End(s)

UplinkInit ==
  link = "down" /\ wire = <<>> /\ stragglers = {}

UplinkSpec == UplinkInit /\ [][UplinkNext]_uplinkVars
=============================================================================
