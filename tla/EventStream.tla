---------------------------- MODULE EventStream ----------------------------
(***************************************************************************)
(* The agent's half of the event stream: ConnectClient with its supervisor *)
(* (Run and session), the receive and the send pump of every session, the  *)
(* two bounded channels between them and the rest of the agent, and what   *)
(* runs on these channels: the controller's event loop, the informer and   *)
(* aggregator goroutines that call Send, and the connection callback, in   *)
(* which the add-on scanner sends its snapshot again.                      *)
(*                                                                         *)
(* Payloads are abstracted away: an outbound event is its sequence number  *)
(* (a pong has none), an inbound one the number of its arrival.  Shutdown, *)
(* which cancels the context of Start, is not modelled.                    *)
(***************************************************************************)
EXTENDS Integers, Sequences, FiniteSets

CONSTANTS
  Producers,      \* goroutines that call Send: informer handlers, aggregator
  SendCap,        \* capacity of sendCh, 256 in the code
  EventsCap,      \* capacity of events, 64
  ReplayEvents,   \* Sends of one ReplayFullState, the terminal chunk included
  Scanner,        \* an add-on scanner is configured
  MaxSessions,    \* bounds, one per thing that may happen again and again
  MaxResyncs,
  MaxHandshakeErrors,
  MaxBreaks,
  MaxRotations,
  MaxInbound,
  MaxPings,
  MaxProduced

ASSUME StreamAssumption ==
  /\ "main" \notin Producers /\ "callback" \notin Producers
  /\ SendCap \in Nat \ {0} /\ EventsCap \in Nat \ {0}
  /\ ReplayEvents \in Nat \ {0}
  /\ Scanner \in BOOLEAN
  /\ MaxSessions \in Nat \ {0} /\ MaxResyncs \in Nat
  /\ MaxHandshakeErrors \in Nat /\ MaxBreaks \in Nat /\ MaxRotations \in Nat
  /\ MaxInbound \in Nat /\ MaxPings \in Nat /\ MaxProduced \in Nat

Sessions == 1..MaxSessions

\* The goroutines that call Send: the event loop, the connection callback
\* (which runs on the supervisor's goroutine) and the producers.
Senders == Producers \cup {"main", "callback"}

VARIABLES
  sup,        \* where Run and session are
  sess,       \* number of the current or last session
  connected,  \* ConnectClient.connected
  transport,  \* per session: none, open, silent, failed, closed (cancelled)
  recv,       \* per session: its receive pump: off, recv, emit; off once the
              \* pumps were started means that recvErr holds its error
  hand,       \* the event the receive pump is emitting, 0 if none
  pump,       \* per session: its send pump: off, select, send; off once the
              \* pumps were started means that sendDone is closed
  out,        \* the event the send pump is sending
  events,     \* the channel of inbound events; ResyncEvent or an arrival
  sendCh,     \* the channel of outbound events; Pong or a sequence number
  seq,        \* ConnectClient.seq
  announced,  \* history: sessions for which the connection callback was called
  todo,       \* per sender: calls of Send still to make
  stamped,    \* per sender: number of the event Send waits to queue, 0 if none
  arrivals,   \* history: the session each inbound event arrived in
  handled,    \* history: inbound events the event loop has taken
  delivered,  \* history: sequence numbers that reached the gateway
  lost,       \* history: sequence numbers that a send pump lost
  budget      \* what the environment may still do

supVars == <<sup, sess, connected, announced>>
recvVars == <<recv, hand>>
pumpVars == <<pump, out>>
sendVars == <<seq, todo, stamped>>
wireVars == <<arrivals, handled, delivered, lost>>
vars == <<supVars, transport, recvVars, pumpVars, events, sendCh, sendVars,
          wireVars, budget>>

ResyncEvent == 0
Pong == 0
Idle == 0

Faults == {"handshake", "resync", "break", "rotate", "inbound", "ping", "produce"}

Bound ==
  [k \in Faults |->
     CASE k = "handshake" -> MaxHandshakeErrors
       [] k = "resync"    -> MaxResyncs
       [] k = "break"     -> MaxBreaks
       [] k = "rotate"    -> MaxRotations
       [] k = "inbound"   -> MaxInbound
       [] k = "ping"      -> MaxPings
       [] k = "produce"   -> MaxProduced]

Spend(k) == budget[k] > 0 /\ budget' = [budget EXCEPT ![k] = @ - 1]

Queued(q) == {q[i] : i \in 1..Len(q)}

----------------------------------------------------------------------------
(***************************************************************************)
(* Send: stamp the event, then wait for room in sendCh.  The two are       *)
(* separate steps: nothing orders the senders between them.                *)
(***************************************************************************)
NextSeq_Reused == IF seq = 0 THEN 1 ELSE seq

NextSeq == seq + 1

Stamp(x) ==
  /\ todo[x] > 0
  /\ stamped[x] = Idle
  /\ seq' = NextSeq
  /\ stamped' = [stamped EXCEPT ![x] = NextSeq]
  /\ UNCHANGED <<supVars, transport, recvVars, pumpVars, events, sendCh, todo,
                 wireVars, budget>>

Enqueue(x) ==
  /\ stamped[x] # Idle
  /\ Len(sendCh) < SendCap
  /\ sendCh' = Append(sendCh, stamped[x])
  /\ stamped' = [stamped EXCEPT ![x] = Idle]
  /\ todo' = [todo EXCEPT ![x] = @ - 1]
  /\ UNCHANGED <<supVars, transport, recvVars, pumpVars, events, seq,
                 wireVars, budget>>

\* A watch event or a batch of capabilities makes a producer call Send.
Produce(p) ==
  /\ todo[p] = 0
  /\ Spend("produce")
  /\ todo' = [todo EXCEPT ![p] = 1]
  /\ UNCHANGED <<supVars, transport, recvVars, pumpVars, events, sendCh, seq,
                 stamped, wireVars>>

\* The event loop takes the next event when it has nothing left to send: a
\* resync request is replayed, a command is answered, other types are dropped.
Dispatch ==
  /\ todo["main"] = 0
  /\ events # <<>>
  /\ events' = Tail(events)
  /\ handled' = handled \cup ({Head(events)} \ {ResyncEvent})
  /\ \E n \in IF Head(events) = ResyncEvent THEN {ReplayEvents}
              ELSE {0, 1, ReplayEvents} :
       todo' = [todo EXCEPT !["main"] = n]
  /\ UNCHANGED <<supVars, transport, recvVars, pumpVars, sendCh, seq, stamped,
                 arrivals, delivered, lost, budget>>

----------------------------------------------------------------------------
(***************************************************************************)
(* Run and session, on the supervisor's goroutine.                         *)
(***************************************************************************)

\* session has its token, opens the bidi stream and sends the handshake.
Dial ==
  /\ sup = "connect"
  /\ sess < MaxSessions
  /\ sess' = sess + 1
  /\ transport' = [transport EXCEPT ![sess + 1] = "open"]
  /\ sup' = "handshake"
  /\ UNCHANGED <<connected, announced, recvVars, pumpVars, events, sendCh,
                 sendVars, wireVars, budget>>

\* There is no token or no stream: session returns.
DialFails ==
  /\ sup = "connect"
  /\ Spend("handshake")
  /\ sup' = "failed"
  /\ UNCHANGED <<sess, connected, announced, transport, recvVars, pumpVars,
                 events, sendCh, sendVars, wireVars>>

\* setConnected(TRUE) on the handshake's response.  The callback runs only if
\* this is a transition; in it the scanner sends its snapshot unless that is
\* empty.
HandshakeDone ==
  /\ sup = "handshake"
  /\ transport[sess] = "open"
  /\ connected' = TRUE
  /\ sup' = "callback"
  /\ \/ /\ ~connected
        /\ announced' = announced \cup {sess}
        /\ \E n \in IF Scanner THEN {0, 1} ELSE {0} :
             todo' = [todo EXCEPT !["callback"] = n]
     \/ connected /\ UNCHANGED <<announced, todo>>
  /\ UNCHANGED <<sess, transport, recvVars, pumpVars, events, sendCh, seq,
                 stamped, wireVars, budget>>

\* session returns and its deferred cancel ends the transport.  The gate is
\* still open: that is for Run to change.
CancelSession_Leaks ==
  UNCHANGED <<transport, sess, connected, announced, recvVars, pumpVars, events,
              sendCh, sendVars, wireVars>>

CancelSession ==
  /\ transport' = [transport EXCEPT ![sess] = "closed"]
  /\ UNCHANGED <<sess, connected, announced, recvVars, pumpVars, events, sendCh,
                 sendVars, wireVars>>

\* The answer is not a handshake response, or the transport fails before one.
\* No timer runs yet: on a silent transport session waits.
HandshakeFails ==
  /\ sup = "handshake"
  /\ \/ transport[sess] = "open" /\ Spend("handshake")
     \/ transport[sess] = "failed" /\ UNCHANGED budget
  /\ CancelSession
  /\ sup' = "failed"

\* The goroutines of the two pumps and the dead-man timer are started.
StartPumps ==
  /\ sup' = "select"
  /\ recv' = [recv EXCEPT ![sess] = "recv"]
  /\ pump' = [pump EXCEPT ![sess] = "select"]

\* The callback has returned; without ResyncRequired the pumps start.
CallbackReturns ==
  /\ sup = "callback"
  /\ todo["callback"] = 0
  /\ \/ StartPumps /\ UNCHANGED budget
     \/ Spend("resync") /\ sup' = "resync" /\ UNCHANGED <<recv, pump>>
  /\ UNCHANGED <<sess, connected, announced, transport, hand, out, events, sendCh,
                 sendVars, wireVars>>

\* emit of the resync request, before there is a pump or a dead-man timer.
EmitResync ==
  /\ sup = "resync"
  /\ Len(events) < EventsCap
  /\ events' = Append(events, ResyncEvent)
  /\ StartPumps
  /\ UNCHANGED <<sess, connected, announced, transport, hand, out, sendCh, sendVars,
                 wireVars, budget>>

\* The server pings an idle session, so the timer runs out only when nothing
\* comes in any more or when the receive pump is stuck in emit.
DeadmanExpired_Reset == FALSE

DeadmanExpired == transport[sess] # "open" \/ recv[sess] = "emit"

SessionFails ==
  /\ sup = "select"
  /\ recv[sess] = "off" \/ pump[sess] = "off" \/ DeadmanExpired
  /\ CancelSession
  /\ sup' = "failed"
  /\ UNCHANGED budget

\* The token nears its expiry.
RotateToken ==
  /\ sup = "select"
  /\ Spend("rotate")
  /\ CancelSession
  /\ sup' = "rotated"

\* A rotation that reconnects without a transition of the gate.
CloseGate_NotOnRotation ==
  /\ sup \in {"rotated", "failed"}
  /\ connected' = (sup = "rotated" /\ connected)
  /\ sup' = IF sup = "rotated" THEN "connect" ELSE "backoff"
  /\ UNCHANGED <<sess, announced, transport, recvVars, pumpVars, events, sendCh,
                 sendVars, wireVars, budget>>

\* Run calls setConnected(FALSE), whose callback sends nothing, and reconnects
\* at once after a rotation.
CloseGate ==
  /\ sup \in {"rotated", "failed"}
  /\ connected' = FALSE
  /\ sup' = IF sup = "rotated" THEN "connect" ELSE "backoff"
  /\ UNCHANGED <<sess, announced, transport, recvVars, pumpVars, events, sendCh,
                 sendVars, wireVars, budget>>

\* The wait is over.  How long it was is not modelled.
Backoff ==
  /\ sup = "backoff"
  /\ sup' = "connect"
  /\ UNCHANGED <<sess, connected, announced, transport, recvVars, pumpVars,
                 events, sendCh, sendVars, wireVars, budget>>

----------------------------------------------------------------------------
(***************************************************************************)
(* The receive pump of session s.                                          *)
(***************************************************************************)

QueuePong_Unbounded == sendCh' = Append(sendCh, Pong)

\* A ping is answered with a pong if there is room for it; pongs are not
\* numbered.
QueuePong ==
  \/ Len(sendCh) < SendCap /\ sendCh' = Append(sendCh, Pong)
  \/ Len(sendCh) >= SendCap /\ UNCHANGED sendCh

\* A pong that takes a number, also when it is dropped.
ReceivePing_Numbered(s) ==
  /\ recv[s] = "recv"
  /\ transport[s] = "open"
  /\ Spend("ping")
  /\ seq' = NextSeq
  /\ \/ Len(sendCh) < SendCap /\ sendCh' = Append(sendCh, NextSeq)
     \/ Len(sendCh) >= SendCap /\ UNCHANGED sendCh
  /\ UNCHANGED <<supVars, transport, recvVars, pumpVars, events, todo, stamped,
                 wireVars>>

ReceivePing(s) ==
  /\ recv[s] = "recv"
  /\ transport[s] = "open"
  /\ Spend("ping")
  /\ QueuePong
  /\ UNCHANGED seq
  /\ UNCHANGED <<supVars, transport, recvVars, pumpVars, events, todo, stamped,
                 wireVars>>

ReceiveEvent(s) ==
  /\ recv[s] = "recv"
  /\ transport[s] = "open"
  /\ Spend("inbound")
  /\ arrivals' = Append(arrivals, s)
  /\ hand' = [hand EXCEPT ![s] = Len(arrivals) + 1]
  /\ recv' = [recv EXCEPT ![s] = "emit"]
  /\ UNCHANGED <<supVars, transport, pumpVars, events, sendCh,
                 sendVars, handled, delivered, lost>>

ReceiveFails(s) ==
  /\ recv[s] = "recv"
  /\ transport[s] \in {"failed", "closed"}
  /\ recv' = [recv EXCEPT ![s] = "off"]
  /\ UNCHANGED <<supVars, transport, hand, pumpVars, events, sendCh, sendVars,
                 wireVars, budget>>

\* emit blocks on a full channel; a cancelled session may drop the event.
EmitMayDrop_Full(s) == transport[s] = "closed" \/ Len(events) = EventsCap

EmitMayDrop(s) == transport[s] = "closed"

Emit(s) ==
  /\ recv[s] = "emit"
  /\ \/ Len(events) < EventsCap /\ events' = Append(events, hand[s])
     \/ EmitMayDrop(s) /\ UNCHANGED events
  /\ hand' = [hand EXCEPT ![s] = Idle]
  /\ recv' = [recv EXCEPT ![s] = "recv"]
  /\ UNCHANGED <<supVars, transport, pumpVars, sendCh, sendVars,
                 wireVars, budget>>

----------------------------------------------------------------------------
(***************************************************************************)
(* The send pump of session s.  The pump of a cancelled session may still  *)
(* win the race for one event, which it then loses.                        *)
(***************************************************************************)
PumpTake(s) ==
  /\ pump[s] = "select"
  /\ sendCh # <<>>
  /\ out' = [out EXCEPT ![s] = Head(sendCh)]
  /\ sendCh' = Tail(sendCh)
  /\ pump' = [pump EXCEPT ![s] = "send"]
  /\ UNCHANGED <<supVars, transport, recvVars, events, sendVars,
                 wireVars, budget>>

\* bidi.Send succeeds while the transport is open, may seem to on a silent one
\* (or block, see Fairness), and fails on a failed or cancelled one.
PumpSend(s) ==
  /\ pump[s] = "send"
  /\ IF transport[s] = "open"
     THEN delivered' = delivered \cup ({out[s]} \ {Pong}) /\ UNCHANGED lost
     ELSE lost' = lost \cup ({out[s]} \ {Pong}) /\ UNCHANGED delivered
  /\ IF transport[s] \in {"open", "silent"}
     THEN pump' = [pump EXCEPT ![s] = "select"]
     ELSE pump' = [pump EXCEPT ![s] = "off"]
  /\ out' = [out EXCEPT ![s] = Idle]
  /\ UNCHANGED <<supVars, transport, recvVars, events, sendCh, sendVars,
                 arrivals, handled, budget>>

PumpCancelled(s) ==
  /\ pump[s] = "select"
  /\ transport[s] = "closed"
  /\ pump' = [pump EXCEPT ![s] = "off"]
  /\ UNCHANGED <<supVars, transport, recvVars, out, events, sendCh, sendVars,
                 wireVars, budget>>

\* The network: the transport goes silent or fails; the HTTP/2 keepalive may
\* turn silence into a failure.
Break(s) ==
  /\ \/ /\ transport[s] = "open"
        /\ Spend("break")
        /\ \E t \in {"silent", "failed"} : transport' = [transport EXCEPT ![s] = t]
     \/ /\ transport[s] = "silent"
        /\ transport' = [transport EXCEPT ![s] = "failed"]
        /\ UNCHANGED budget
  /\ UNCHANGED <<supVars, recvVars, pumpVars, events, sendCh, sendVars, wireVars>>

----------------------------------------------------------------------------
Init ==
  /\ sup = "connect" /\ sess = 0 /\ connected = FALSE /\ announced = {}
  /\ transport = [s \in Sessions |-> "none"]
  /\ recv = [s \in Sessions |-> "off"]
  /\ hand = [s \in Sessions |-> Idle]
  /\ pump = [s \in Sessions |-> "off"]
  /\ out = [s \in Sessions |-> Idle]
  /\ events = <<>> /\ sendCh = <<>>
  /\ seq = 0
  /\ todo = [x \in Senders |-> 0]
  /\ stamped = [x \in Senders |-> Idle]
  /\ arrivals = <<>> /\ handled = {} /\ delivered = {} /\ lost = {}
  /\ budget = Bound

Supervise ==
  \/ Dial \/ DialFails \/ HandshakeDone \/ HandshakeFails
  \/ CallbackReturns \/ EmitResync
  \/ SessionFails \/ RotateToken \/ CloseGate \/ Backoff

ReceivePump(s) ==
  ReceivePing(s) \/ ReceiveEvent(s) \/ ReceiveFails(s) \/ Emit(s)

SendPump(s) == PumpTake(s) \/ PumpSend(s) \/ PumpCancelled(s)

Next ==
  \/ Supervise
  \/ Dispatch
  \/ \E x \in Senders : Stamp(x) \/ Enqueue(x)
  \/ \E p \in Producers : Produce(p)
  \/ \E s \in Sessions : ReceivePump(s) \/ SendPump(s) \/ Break(s)

Spec == Init /\ [][Next]_vars

\* Every goroutine that can take a step takes one in the end, timers run out,
\* and a gateway reached over an open transport answers the handshake.  Nothing
\* else is assumed of it, of the network or of the producers; a Send on a
\* silent transport may block for as long as the transport is silent.
Fairness ==
  /\ WF_vars(Dial) /\ WF_vars(HandshakeDone)
  /\ WF_vars(HandshakeFails /\ transport[sess] = "failed")
  /\ WF_vars(CallbackReturns) /\ WF_vars(EmitResync)
  /\ WF_vars(SessionFails) /\ WF_vars(CloseGate) /\ WF_vars(Backoff)
  /\ WF_vars(Dispatch)
  /\ \A x \in Senders : WF_vars(Stamp(x)) /\ WF_vars(Enqueue(x))
  /\ \A s \in Sessions :
       /\ WF_vars(ReceiveFails(s)) /\ WF_vars(Emit(s))
       /\ WF_vars(PumpTake(s) \/ PumpCancelled(s))
       /\ WF_vars(transport[s] # "silent" /\ PumpSend(s))

FairSpec == Spec /\ Fairness

----------------------------------------------------------------------------
(***************************************************************************)
(* Properties.                                                             *)
(***************************************************************************)
SupStates == {"connect", "handshake", "callback", "resync", "select",
              "rotated", "failed", "backoff"}
TransportStates == {"none", "open", "silent", "failed", "closed"}

\* The types of the variables, the capacities of the channels included.
TypeOK ==
  /\ sup \in SupStates
  /\ sess \in 0..MaxSessions
  /\ connected \in BOOLEAN
  /\ announced \subseteq Sessions
  /\ transport \in [Sessions -> TransportStates]
  /\ recv \in [Sessions -> {"off", "recv", "emit"}]
  /\ hand \in [Sessions -> Nat]
  /\ pump \in [Sessions -> {"off", "select", "send"}]
  /\ out \in [Sessions -> Nat]
  /\ events \in Seq(Nat) /\ Len(events) <= EventsCap
  /\ sendCh \in Seq(Nat) /\ Len(sendCh) <= SendCap
  /\ seq \in Nat
  /\ todo \in [Senders -> Nat]
  /\ stamped \in [Senders -> Nat]
  /\ arrivals \in Seq(Sessions)
  /\ handled \subseteq Nat
  /\ delivered \subseteq Nat
  /\ lost \subseteq Nat
  /\ budget \in [Faults -> Nat]

(***************************************************************************)
(* Every sequence number ever stamped belongs to an event that is waiting  *)
(* in Send, in sendCh or with a send pump, has reached the gateway, or was *)
(* lost by a pump: dropped pongs, reconnects and blocked senders open no   *)
(* gap of their own (the comment on pongs in session).                     *)
(***************************************************************************)
NumbersAccounted ==
  \A n \in 1..seq :
    \/ \E x \in Senders : stamped[x] = n
    \/ n \in Queued(sendCh)
    \/ \E s \in Sessions : out[s] = n
    \/ n \in delivered \cup lost

(***************************************************************************)
(* No event goes out twice: a number that has been delivered or lost is    *)
(* nowhere in the agent any more, although the pump of a cancelled session *)
(* and its successor read the same channel.                                *)
(***************************************************************************)
SentOnce ==
  \A n \in delivered \cup lost :
    /\ \A x \in Senders : stamped[x] # n
    /\ n \notin Queued(sendCh)
    /\ \A s \in Sessions : out[s] # n

(***************************************************************************)
(* Back-pressure instead of dropping (emit): an event that arrived is with *)
(* the receive pump, in the channel or handled, unless its session was     *)
(* cancelled.                                                              *)
(***************************************************************************)
InboundKept ==
  \A n \in 1..Len(arrivals) :
    \/ hand[arrivals[n]] = n
    \/ n \in Queued(events)
    \/ n \in handled
    \/ transport[arrivals[n]] = "closed"

(***************************************************************************)
(* Sessions follow one another: only the transport of the latest one is    *)
(* uncancelled, so that the pumps of earlier ones cannot reach the gateway *)
(* beside its own.  And each is a transition of the gate: neither is the   *)
(* gate open in a session nor does a pump run for it before the connection *)
(* callback was called for this very session, which resets the streamer    *)
(* and the scanner.  setConnected calls back on a change only, so that a   *)
(* path of Run back to session that leaves the gate open breaks this.      *)
(***************************************************************************)
OneLiveSession ==
  \A s \in Sessions :
    /\ transport[s] \in {"open", "silent", "failed"} => s = sess
    /\ connected /\ s = sess => s \in announced
    /\ pump[s] # "off" => s \in announced

(***************************************************************************)
(* The client as its callers see it.  An event that the pump of the        *)
(* current session is sending is still queued while the transport is open  *)
(* and gone as soon as it is not.                                          *)
(***************************************************************************)
Link ==
  CASE sup \in {"callback", "resync"} -> "opening"
    [] sup = "select" -> IF transport[sess] = "open" THEN "up" ELSE "broken"
    [] OTHER -> "down"

Wire ==
  IF Link = "up" /\ pump[sess] = "send" THEN <<out[sess]>> \o sendCh ELSE sendCh

Stragglers ==
  {s \in Sessions : transport[s] = "closed" /\ pump[s] = "select"}

Acknowledge(g, e) == g \cup ({e} \ {Pong})

U == INSTANCE Uplink WITH
       Payloads <- Nat, SessionIds <- Sessions, Capacity <- SendCap + 1,
       Receive <- Acknowledge, link <- Link, wire <- Wire,
       stragglers <- Stragglers, gateway <- delivered

(***************************************************************************)
(* ConnectClient implements Uplink: through full channels, reconnects,     *)
(* rotations and pumps that outlive their session, what Send has queued    *)
(* leaves in that order and at most once, and reaches the gateway only     *)
(* over a session that is up.                                              *)
(***************************************************************************)
ImplementsUplink == U!UplinkSpec

(***************************************************************************)
(* Reconnect when the transport is dead (ReceiveTimeout: "reconnect when   *)
(* no inbound traffic for this long"): a session that has had its          *)
(* handshake is given up, also when its receive pump is stuck in emit or   *)
(* its send pump in Send.                                                  *)
(***************************************************************************)
ConnectedSessionEnds ==
  \A s \in Sessions :
    transport[s] \in {"silent", "failed"} /\ connected /\ s = sess
      ~> transport[s] = "closed"

\* The bound on sessions is used up: the model reconnects no more.
OutOfSessions == sess = MaxSessions /\ transport[MaxSessions] = "closed"

\* session waits for the answer to its handshake on a silent transport.
HandshakeHangs == sup = "handshake" /\ transport[sess] = "silent"

(***************************************************************************)
(* No caller of Send (an informer handler, the event loop) is blocked for  *)
(* ever: sendCh is drained again after every outage, unless a handshake    *)
(* hangs for ever.                                                         *)
(***************************************************************************)
SendReturns ==
  \/ <>[]HandshakeHangs
  \/ \A x \in Senders : stamped[x] # Idle ~> stamped[x] = Idle \/ OutOfSessions
============================================================================
