--------------------------- MODULE TunnelSession ---------------------------
(***************************************************************************)
(* The tunnel agent: one stream session after the other to the hub, and a  *)
(* goroutine per proxied connection that relays between the hub and the    *)
(* apiserver.  The hub uses a connection id once, so that the duplicate    *)
(* open that openConn ignores does not occur.                              *)
(***************************************************************************)
EXTENDS Naturals, Sequences

CONSTANTS
  Ids,           \* connection ids
  Kinds,         \* requests the hub opens: [body : BOOLEAN, upgrade : BOOLEAN]
  None,          \* no connection
  QueueCap,      \* of connState.in (64)
  SendCap,       \* of a session's sendCh (256)
  MaxBytes,      \* Handler.MaxConnBytes, in chunks
  HubCap,        \* bound: messages of the hub in flight
  MaxSessions    \* bound

ASSUME TunnelAssumption ==
  /\ Kinds \subseteq [body : BOOLEAN, upgrade : BOOLEAN]
  /\ None \notin Ids
  /\ QueueCap \in Nat \ {0} /\ SendCap \in Nat \ {0} /\ HubCap \in Nat \ {0}
  /\ MaxBytes \in Nat /\ MaxSessions \in Nat

VARIABLES
  sess,      \* the session: down, up, or resetting after its select returned
  n,         \* sessions so far
  hears,     \* the session's receive goroutine runs
  reset,     \* connections of ResetAll's snapshot it has not come to
  waits,     \* the connection whose done ResetAll waits for
  late,      \* messages in the hands of receive goroutines of ended sessions
  fromHub,   \* the stream from the hub
  toHub,     \* sendCh
  kind,      \* per id: the request
  phase,     \* per id: where runConn is; idle: not in Handler.conns
  ctx,       \* per id: its context: live, cancelled or expired
  target,    \* per id: connWriter.w
  inq,       \* per id: connState.in
  pump,      \* per id: inboundPump: wait, write or off
  bytes,     \* per id: connState.bytes
  hub,       \* per id: the hub's view: fresh, asked, open or closed
  relayed,   \* history: per id: chunks passed on
  born,      \* history: per id: the session that opened it
  orphans,   \* history: opened when the session no longer was up
  dropped    \* history: a message of theirs found sendCh full

sessionVars == <<sess, n, hears, reset, waits, late>>
connVars == <<phase, ctx, target, inq, pump, bytes>>
historyVars == <<relayed, born, orphans, dropped>>
vars == <<sessionVars, fromHub, toHub, kind, connVars, hub, historyVars>>

----------------------------------------------------------------------------
(***************************************************************************)
(* What the actions are made of.                                           *)
(***************************************************************************)
\* Handler.send: without a session nothing is sent, with one the message is
\* queued, or dropped when sendCh is full.
Post(i, whats) ==
  IF sess = "up"
  THEN /\ toHub' = SubSeq(toHub \o [k \in DOMAIN whats |-> [id |-> i, what |-> whats[k]]],
                          1, IF Len(toHub) + Len(whats) <= SendCap
                             THEN Len(toHub) + Len(whats) ELSE SendCap)
       /\ dropped' = IF Len(toHub) + Len(whats) > SendCap THEN dropped \cup {i} ELSE dropped
  ELSE UNCHANGED <<toHub, dropped>>

\* The first of cancel and deadline decides what ctx.Err() is.
Ended(i, how) == IF ctx[i] = "live" THEN [ctx EXCEPT ![i] = how] ELSE ctx

\* unregister, with runConn's other deferred calls: reader and context are
\* closed.  Nobody waits for the inbound pump, which may have frames left.
Unregister(i) ==
  /\ phase' = [phase EXCEPT ![i] = "idle"]
  /\ ctx' = [ctx EXCEPT ![i] = "cancelled"]

\* chargeBytes, the addition of one chunk: what is over the cap is counted
\* but not relayed.
Fits_CheckFirst(i) == bytes[i] <= MaxBytes

Fits(i) == bytes[i] + 1 <= MaxBytes

Charge(i) ==
  /\ bytes' = [bytes EXCEPT ![i] = @ + 1]
  /\ relayed' = IF Fits(i) THEN [relayed EXCEPT ![i] = @ + 1] ELSE relayed

----------------------------------------------------------------------------
(***************************************************************************)
(* Handler.Handle, on the receive goroutine.                               *)
(***************************************************************************)
OpenConn(i) ==
  /\ phase' = [phase EXCEPT ![i] = "dialing"]
  /\ ctx' = [ctx EXCEPT ![i] = "live"]
  /\ target' = [target EXCEPT ![i] = IF kind[i].body THEN "pipe" ELSE "discard"]
  /\ pump' = [pump EXCEPT ![i] = "wait"]
  /\ born' = [born EXCEPT ![i] = n]
  /\ orphans' = IF sess = "up" THEN orphans ELSE orphans \cup {i}
  /\ UNCHANGED <<inq, bytes, toHub, relayed, dropped>>

Room(i) == Len(inq[i]) < QueueCap

\* A full queue closes the connection; the receive loop never waits.
DeliverFrame(i, frame) ==
  /\ \/ /\ phase[i] # "idle" /\ Room(i)
        /\ inq' = [inq EXCEPT ![i] = Append(@, frame)]
        /\ UNCHANGED <<ctx, toHub, dropped>>
     \/ /\ phase[i] # "idle" /\ ~Room(i)
        /\ Post(i, <<"close">>)
        /\ ctx' = Ended(i, "cancelled")
        /\ UNCHANGED inq
     \/ phase[i] = "idle" /\ UNCHANGED <<inq, ctx, toHub, dropped>>
  /\ UNCHANGED <<phase, target, pump, bytes, relayed, born, orphans>>

\* deliverFrame has found the queue full before the connection ended and sends
\* its Close only now.
OverflowLate(i) ==
  /\ Post(i, <<"close">>)
  /\ UNCHANGED <<connVars, relayed, born, orphans>>

CloseFromHub(i) ==
  /\ ctx' = IF phase[i] # "idle" THEN Ended(i, "cancelled") ELSE ctx
  /\ UNCHANGED <<phase, target, inq, pump, bytes, toHub, historyVars>>

HandleMessage(m) ==
  \/ m.what = "open" /\ OpenConn(m.id)
  \/ m.what \in {"data", "half"} /\ DeliverFrame(m.id, m.what)
  \/ m.what = "close" /\ CloseFromHub(m.id)
  \/ m.what = "full" /\ OverflowLate(m.id)

\* The receive goroutine goes on until the session's context is cancelled,
\* which is after ResetAll.
Handle ==
  /\ hears /\ fromHub # <<>>
  /\ HandleMessage(Head(fromHub))
  /\ fromHub' = Tail(fromHub)
  /\ UNCHANGED <<sessionVars, kind, hub>>

HandleLate(m) ==
  /\ m \in late
  /\ HandleMessage(m)
  /\ late' = late \ {m}
  /\ UNCHANGED <<sess, n, hears, reset, waits, fromHub, kind, hub>>

----------------------------------------------------------------------------
(***************************************************************************)
(* runConn.                                                                *)
(***************************************************************************)
connOnly == <<sessionVars, fromHub, kind, hub, born, orphans>>

\* Relay.Do fails, which ends the connection: at any time while it dials or waits for an ordinary
\* response, then also because the context has ended; in the middle of an
\* upgrade only when the apiserver's connection breaks.
Fail_Registered(i) ==
  /\ phase[i] \in {"dialing", "awaiting"}
  /\ Post(i, <<"error", "close">>)
  /\ ctx' = [ctx EXCEPT ![i] = "cancelled"]
  /\ UNCHANGED <<connOnly, phase, target, inq, pump, bytes, relayed>>

Fail(i) ==
  /\ phase[i] \in {"dialing", "awaiting"}
  /\ Post(i, <<"error", "close">>)
  /\ Unregister(i)
  /\ UNCHANGED <<connOnly, target, inq, pump, bytes, relayed>>

\* doUpgrade has written its request and waits for the response without
\* regard to the context.
Dialed(i) ==
  /\ phase[i] = "dialing" /\ kind[i].upgrade
  /\ phase' = [phase EXCEPT ![i] = "awaiting"]
  /\ UNCHANGED <<connOnly, toHub, ctx, target, inq, pump, bytes, relayed, dropped>>

\* The response head; an upgrade may be refused with an ordinary response.
Answer(i, upgraded) ==
  /\ phase[i] = IF kind[i].upgrade THEN "awaiting" ELSE "dialing"
  /\ upgraded => kind[i].upgrade
  /\ Post(i, <<"result">>)
  /\ phase' = [phase EXCEPT ![i] = IF upgraded THEN "swapping" ELSE "relaying"]
  /\ UNCHANGED <<connOnly, ctx, target, inq, pump, bytes, relayed>>

\* upgradeTo takes connWriter's lock, which a blocked write holds.
UpgradeTo(i) ==
  /\ phase[i] = "swapping" /\ pump[i] # "write"
  /\ target' = [target EXCEPT ![i] = "socket"]
  /\ phase' = [phase EXCEPT ![i] = "relaying"]
  /\ UNCHANGED <<connOnly, toHub, ctx, inq, pump, bytes, relayed, dropped>>

\* outboundPump reads a chunk.
Relay(i) ==
  /\ phase[i] = "relaying"
  /\ Charge(i)
  /\ \/ /\ Fits(i)
        /\ Post(i, <<"frame">>)
        /\ UNCHANGED <<phase, ctx>>
     \/ ~Fits(i) /\ Post(i, <<"close">>) /\ Unregister(i)
  /\ UNCHANGED <<connOnly, target, inq, pump>>

\* The reason with which outboundPump ends: none for a read that fails because
\* the connection was cancelled; every other end is told to the hub.
EndTold_NotExpired(i, eof) == eof \/ ctx[i] = "live"

EndTold(i, eof) == eof \/ ctx[i] # "cancelled"

ReadEnds(i, eof) ==
  /\ phase[i] = "relaying"
  /\ Post(i, IF EndTold(i, eof) THEN <<"close">> ELSE <<>>)
  /\ Unregister(i)
  /\ UNCHANGED <<connOnly, target, inq, pump, bytes, relayed>>

Expire_NoDeadline(i) ==
  /\ phase[i] # "idle" /\ ctx[i] = "live"
  /\ UNCHANGED vars

\* The deadline of the connection's context.
Expire(i) ==
  /\ phase[i] # "idle" /\ ctx[i] = "live"
  /\ ctx' = Ended(i, "expired")
  /\ UNCHANGED <<connOnly, toHub, phase, target, inq, pump, bytes, relayed, dropped>>

\* inboundPump takes a frame, also after runConn has returned: its select may
\* prefer the frame to done, and chargeBytes then tells the hub of the session
\* that is up by then.
Take(i) ==
  /\ pump[i] = "wait" /\ inq[i] # <<>>
  /\ inq' = [inq EXCEPT ![i] = Tail(@)]
  /\ \/ /\ Head(inq[i]) = "half"
        /\ pump' = [pump EXCEPT ![i] = "off"]
        /\ UNCHANGED <<toHub, ctx, bytes, relayed, dropped>>
     \/ /\ Head(inq[i]) = "data" /\ Fits(i)
        /\ Charge(i)
        /\ pump' = [pump EXCEPT ![i] = IF target[i] = "discard" THEN "wait" ELSE "write"]
        /\ UNCHANGED <<toHub, ctx, dropped>>
     \/ /\ Head(inq[i]) = "data" /\ ~Fits(i)
        /\ Charge(i)
        /\ Post(i, <<"close">>)
        /\ ctx' = Ended(i, "cancelled")
        /\ pump' = [pump EXCEPT ![i] = "off"]
  /\ UNCHANGED <<connOnly, phase, target>>

\* A write returns when its reader has taken the bytes or is gone.  Nobody
\* reads the body pipe of an upgrade.
Written(i) ==
  /\ pump[i] = "write"
  /\ target[i] = "socket" \/ ~kind[i].upgrade \/ phase[i] = "idle"
  /\ \E p \in {"wait", "off"} : pump' = [pump EXCEPT ![i] = p]
  /\ UNCHANGED <<connOnly, toHub, phase, ctx, target, inq, bytes, relayed, dropped>>

PumpStops(i) ==
  /\ pump[i] = "wait" /\ ctx[i] # "live"
  /\ pump' = [pump EXCEPT ![i] = "off"]
  /\ UNCHANGED <<connOnly, toHub, phase, ctx, target, inq, bytes, relayed, dropped>>

----------------------------------------------------------------------------
(***************************************************************************)
(* Client.Run and session.                                                 *)
(***************************************************************************)
Registered == {i \in Ids : phase[i] # "idle"}

\* The hub forgets the connections of a stream that has ended.
HubDrops == hub' = [i \in Ids |-> IF hub[i] = "fresh" THEN "fresh" ELSE "closed"]

Connect ==
  /\ sess = "down" /\ n < MaxSessions
  /\ sess' = "up" /\ n' = n + 1 /\ hears' = TRUE
  /\ UNCHANGED <<reset, waits, late, fromHub, toHub, kind, connVars, hub, historyVars>>

\* The send pump.
SendPump ==
  /\ sess # "down" /\ toHub # <<>>
  /\ LET m == Head(toHub) IN
     hub' = CASE m.what = "close" -> [hub EXCEPT ![m.id] = "closed"]
              [] m.what = "result" /\ hub[m.id] = "asked" -> [hub EXCEPT ![m.id] = "open"]
              [] OTHER -> hub
  /\ toHub' = Tail(toHub)
  /\ UNCHANGED <<sessionVars, fromHub, kind, connVars, historyVars>>

\* The select of session returns; SetSend(nil) and the snapshot of ResetAll.
\* A rotation leaves both pumps running, a broken stream does not.
EndSession(broken) ==
  /\ sess = "up"
  /\ sess' = "resetting"
  /\ reset' = Registered
  /\ \/ broken /\ hears' = FALSE /\ fromHub' = <<>> /\ toHub' = <<>> /\ HubDrops
     \/ ~broken /\ UNCHANGED <<hears, fromHub, toHub, hub>>
  /\ UNCHANGED <<n, waits, late, kind, connVars, historyVars>>

\* ResetAll comes to the next connection of its snapshot.
ResetConn(i) ==
  /\ sess = "resetting" /\ waits = None /\ i \in reset
  /\ reset' = reset \ {i}
  /\ waits' = i
  /\ ctx' = Ended(i, "cancelled")
  /\ UNCHANGED <<sess, n, hears, late, fromHub, toHub, kind, phase, target, inq, pump, bytes,
                 hub, historyVars>>

\* The connection's done channel is closed.
ResetDone_NoWait == waits # None

ResetDone == waits # None /\ phase[waits] = "idle"

ResetNext ==
  /\ ResetDone
  /\ waits' = None
  /\ UNCHANGED <<sess, n, hears, reset, late, fromHub, toHub, kind, connVars, hub, historyVars>>

\* What a receive goroutine can be busy with that its session does not wait
\* for: a message that it has yet to hand to Handle, or a frame for which
\* deliverFrame has found the queue full.
InHand(m) ==
  {m} \cup IF m.what \in {"data", "half"} /\ ~Room(m.id)
           THEN {[id |-> m.id, what |-> "full"]} ELSE {}

\* The session's context is cancelled.
SessionOver ==
  /\ sess = "resetting" /\ reset = {} /\ waits = None
  /\ sess' = "down" /\ hears' = FALSE
  /\ \/ UNCHANGED late
     \/ hears /\ fromHub # <<>> /\ \E m \in InHand(Head(fromHub)) : late' = late \cup {m}
  /\ fromHub' = <<>> /\ toHub' = <<>>
  /\ HubDrops
  /\ UNCHANGED <<n, reset, waits, kind, connVars, historyVars>>

----------------------------------------------------------------------------
(***************************************************************************)
(* The hub.                                                                *)
(***************************************************************************)
HubSends(i, what) ==
  /\ hears /\ Len(fromHub) < HubCap
  /\ fromHub' = Append(fromHub, [id |-> i, what |-> what])
  /\ UNCHANGED <<sessionVars, toHub, kind, connVars, historyVars>>

HubOpen(i) ==
  /\ hub[i] = "fresh"
  /\ hub' = [hub EXCEPT ![i] = "asked"]
  /\ HubSends(i, "open")

HubFrame(i) ==
  /\ \/ hub[i] = "open"
     \/ hub[i] = "asked" /\ ~kind[i].upgrade
  /\ \E what \in {"data", "half"} : HubSends(i, what)
  /\ UNCHANGED hub

HubClose(i) ==
  /\ hub[i] \in {"asked", "open"}
  /\ hub' = [hub EXCEPT ![i] = "closed"]
  /\ HubSends(i, "close")

----------------------------------------------------------------------------
Init ==
  /\ sess = "down" /\ n = 0 /\ hears = FALSE /\ reset = {} /\ waits = None /\ late = {}
  /\ fromHub = <<>> /\ toHub = <<>>
  /\ kind \in [Ids -> Kinds]
  /\ phase = [i \in Ids |-> "idle"]
  /\ ctx = [i \in Ids |-> "cancelled"]
  /\ target = [i \in Ids |-> "discard"]
  /\ inq = [i \in Ids |-> <<>>]
  /\ pump = [i \in Ids |-> "off"]
  /\ bytes = [i \in Ids |-> 0]
  /\ hub = [i \in Ids |-> "fresh"]
  /\ relayed = [i \in Ids |-> 0]
  /\ born = [i \in Ids |-> 0]
  /\ orphans = {} /\ dropped = {}

Serve(i) == \E upgraded \in BOOLEAN : Answer(i, upgraded)

Next ==
  \/ Connect \/ SendPump \/ Handle \/ ResetNext \/ SessionOver
  \/ \E broken \in BOOLEAN : EndSession(broken)
  \/ \E m \in late : HandleLate(m)
  \/ \E i \in Ids :
       \/ Fail(i) \/ Dialed(i) \/ Serve(i) \/ UpgradeTo(i) \/ Relay(i) \/ Expire(i)
       \/ \E eof \in BOOLEAN : ReadEnds(i, eof)
       \/ Take(i) \/ Written(i) \/ PumpStops(i)
       \/ ResetConn(i)
       \/ HubOpen(i) \/ HubFrame(i) \/ HubClose(i)

Spec == Init /\ [][Next]_vars

\* Goroutines go on and lifetimes pass.  A dial, an ordinary request, a read of
\* its body and one of an upgraded connection end with their context; a write
\* ends with its reader.  The body of a refused upgrade is read from a raw
\* connection, and closing that waits for the read that is in progress.
Fairness ==
  /\ WF_vars(SendPump) /\ WF_vars(Handle) /\ WF_vars(ResetNext) /\ WF_vars(SessionOver)
  /\ \A i \in Ids :
       /\ WF_vars(Expire(i)) /\ WF_vars(ResetConn(i)) /\ WF_vars(UpgradeTo(i))
       /\ WF_vars(phase[i] = "dialing" /\ ctx[i] # "live" /\ (Fail(i) \/ Dialed(i)))
       /\ WF_vars(/\ ctx[i] # "live" /\ kind[i].upgrade => target[i] = "socket"
                  /\ \E eof \in BOOLEAN : ReadEnds(i, eof))
       /\ WF_vars(Written(i))

\* The apiserver answers every upgrade request, or breaks the connection.
AnswerFairness == \A i \in Ids : WF_vars(phase[i] = "awaiting" /\ (Serve(i) \/ Fail(i)))

\* It ends the response with which it refuses an upgrade.
RefusalFairness ==
  \A i \in Ids : WF_vars(/\ kind[i].upgrade /\ target[i] # "socket"
                        /\ \E eof \in BOOLEAN : ReadEnds(i, eof))

FairSpec == Spec /\ Fairness /\ AnswerFairness /\ RefusalFairness

----------------------------------------------------------------------------
(***************************************************************************)
(* Properties.                                                             *)
(***************************************************************************)
Messages(whats) == [id : Ids, what : whats]
FromHub == Messages({"open", "data", "half", "close"})
Late == Messages({"open", "data", "half", "close", "full"})
ToHub == Messages({"error", "result", "frame", "close"})

\* The types of the variables.
TypeOK ==
  /\ sess \in {"down", "up", "resetting"} /\ n \in 0..MaxSessions /\ hears \in BOOLEAN
  /\ reset \subseteq Ids /\ waits \in Ids \cup {None} /\ late \subseteq Late
  /\ fromHub \in Seq(FromHub) /\ Len(fromHub) <= HubCap
  /\ toHub \in Seq(ToHub) /\ Len(toHub) <= SendCap
  /\ kind \in [Ids -> Kinds]
  /\ phase \in [Ids -> {"idle", "dialing", "awaiting", "swapping", "relaying"}]
  /\ ctx \in [Ids -> {"live", "cancelled", "expired"}]
  /\ target \in [Ids -> {"pipe", "discard", "socket"}]
  /\ inq \in [Ids -> Seq({"data", "half"})]
  /\ \A i \in Ids : Len(inq[i]) <= QueueCap
  /\ pump \in [Ids -> {"wait", "write", "off"}]
  /\ bytes \in [Ids -> Nat]
  /\ hub \in [Ids -> {"fresh", "asked", "open", "closed"}]
  /\ relayed \in [Ids -> Nat] /\ born \in [Ids -> 0..MaxSessions]
  /\ orphans \subseteq Ids /\ dropped \subseteq Ids

(***************************************************************************)
(* The byte cap holds for both directions together, although the two pumps *)
(* of a connection charge it concurrently (chargeBytes).                   *)
(***************************************************************************)
ByteCapHolds == \A i \in Ids : relayed[i] <= MaxBytes

(***************************************************************************)
(* A connection speaks on the session that opened it only: results, errors *)
(* and frames that are queued for the hub belong to a connection of this   *)
(* session, because session does not return before every connection it     *)
(* knew has ended.  A Close may come late: nobody waits for inboundPump,   *)
(* nor for a receive goroutine in deliverFrame.  The connections that such *)
(* a goroutine opens after the snapshot of ResetAll are the exception.     *)
(***************************************************************************)
SessionIsolation ==
  \A k \in DOMAIN toHub :
    born[toHub[k].id] = n \/ toHub[k].id \in orphans \/ toHub[k].what = "close"

(***************************************************************************)
(* No ghosts: a connection that has ended while the session is up is one   *)
(* that the hub has closed, or a Close for it is on its way, whoever ended *)
(* it: the hub, the apiserver, a full queue, the byte cap, the lifetime;   *)
(* unless a message of it found sendCh full.                               *)
(***************************************************************************)
EndIsTold ==
  \A i \in Ids :
    /\ sess = "up" /\ born[i] = n /\ phase[i] = "idle"
    /\ i \notin orphans \cup dropped
    => hub[i] = "closed" \/ [id |-> i, what |-> "close"] \in {toHub[k] : k \in DOMAIN toHub}

(***************************************************************************)
(* The end of a session comes to its end: ResetAll does not wait for ever, *)
(* so that the client reconnects.                                          *)
(***************************************************************************)
TeardownEnds == sess = "resetting" ~> sess = "down"

(***************************************************************************)
(* Every connection ends, also one that was opened after the reset and     *)
(* that no session knows of: its lifetime is over some day.                *)
(***************************************************************************)
ConnectionsEnd == \A i \in Ids : phase[i] # "idle" ~> phase[i] = "idle"
=============================================================================
