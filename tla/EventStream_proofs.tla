------------------------- MODULE EventStream_proofs -------------------------
(***************************************************************************)
(* Proofs about EventStream, for every capacity of the channels, every     *)
(* number of producers and every bound on what the environment does.  They *)
(* rest on one inductive invariant:                                        *)
(*   TypeOK      the types and the capacities of the channels,             *)
(*   Life        which pumps can run in which state of the supervisor,     *)
(*   Sending     a sender waits in Send only while it has something to     *)
(*               send, the callback only while it runs,                    *)
(*   Accounted   NumbersAccounted,                                         *)
(*   Unique      no number is in two places,                               *)
(*   Kept        InboundKept.                                              *)
(***************************************************************************)
EXTENDS EventStream, SequenceTheorems, TLAPS

\* The supervisor's states with a transport, and the ones past the handshake.
Alive == {"handshake", "callback", "resync", "select"}
Established == {"callback", "resync", "select"}

Live == {"open", "silent", "failed"}

Life ==
  /\ sup \in Established => connected
  /\ sup \in {"connect", "handshake", "backoff"} => ~connected
  /\ sup \in Alive => sess >= 1
  /\ \A s \in Sessions : transport[s] \in Live <=> s = sess /\ sup \in Alive
  /\ \A s \in Sessions :
       s > sess => transport[s] = "none" /\ recv[s] = "off" /\ pump[s] = "off"
  /\ sup \in Alive \ {"select"} =>
       \A s \in Sessions : s = sess => recv[s] = "off" /\ pump[s] = "off"
  /\ \A s \in Sessions : pump[s] # "send" => out[s] = Idle
  /\ \A s \in Sessions : recv[s] # "emit" => hand[s] = Idle

Sending ==
  /\ \A x \in Senders : stamped[x] # Idle => todo[x] > 0
  /\ sup # "callback" => todo["callback"] = 0

\* No number but Pong occurs twice in q.
Distinct(q) ==
  \A i, j \in 1..Len(q) : i # j /\ q[i] # Pong => q[i] # q[j]

Unique ==
  /\ \A x, y \in Senders : x # y /\ stamped[x] # Idle => stamped[x] # stamped[y]
  /\ \A x \in Senders : stamped[x] # Idle => stamped[x] \notin Queued(sendCh)
  /\ \A x \in Senders, s \in Sessions : stamped[x] # Idle => out[s] # stamped[x]
  /\ Distinct(sendCh)
  /\ \A s \in Sessions : out[s] # Idle => out[s] \notin Queued(sendCh)
  /\ \A s, t \in Sessions : s # t /\ out[s] # Idle => out[s] # out[t]

\* No number above seq has been given out.
Stamped ==
  /\ \A x \in Senders : stamped[x] <= seq
  /\ \A n \in Queued(sendCh) : n <= seq
  /\ \A s \in Sessions : out[s] <= seq
  /\ \A n \in delivered \cup lost : 1 <= n /\ n <= seq

Numbered == Unique /\ Stamped /\ SentOnce

IInv ==
  /\ TypeOK /\ Life /\ Sending /\ OneLiveSession
  /\ NumbersAccounted /\ Numbered /\ InboundKept

----------------------------------------------------------------------------
(***************************************************************************)
(* Facts about the channels.                                               *)
(***************************************************************************)

\* What a channel holds after a send on it.
LEMMA QueuedAppend ==
  ASSUME NEW q \in Seq(Nat), NEW e \in Nat
  PROVE  /\ Append(q, e) \in Seq(Nat)
         /\ Len(Append(q, e)) = Len(q) + 1
         /\ Queued(Append(q, e)) = Queued(q) \cup {e}
<1>1. Append(q, e) \in Seq(Nat) /\ Len(Append(q, e)) = Len(q) + 1
  OBVIOUS
<1>2. \A i \in 1..Len(q) : Append(q, e)[i] = q[i]
  OBVIOUS
<1>3. Append(q, e)[Len(q) + 1] = e
  OBVIOUS
<1>4. 1..(Len(q) + 1) = 1..Len(q) \cup {Len(q) + 1}
  <2>1. Len(q) \in Nat
    OBVIOUS
  <2> QED BY <2>1
<1>5. Queued(Append(q, e)) \subseteq Queued(q) \cup {e}
  BY <1>1, <1>2, <1>3, <1>4 DEF Queued
<1>6. Queued(q) \cup {e} \subseteq Queued(Append(q, e))
  BY <1>1, <1>2, <1>3, <1>4 DEF Queued
<1> QED BY <1>1, <1>5, <1>6

\* What a channel holds before and after a receive from it.
LEMMA QueuedTail ==
  ASSUME NEW q \in Seq(Nat), q # <<>>
  PROVE  /\ Tail(q) \in Seq(Nat)
         /\ Len(Tail(q)) = Len(q) - 1
         /\ Head(q) \in Nat
         /\ Head(q) \in Queued(q)
         /\ Queued(q) = Queued(Tail(q)) \cup {Head(q)}
<1>1. /\ Tail(q) \in Seq(Nat) /\ Len(Tail(q)) = Len(q) - 1
      /\ Head(q) = q[1] /\ Len(q) >= 1 /\ Len(q) \in Nat
  OBVIOUS
<1>2. \A i \in 1..(Len(q) - 1) : Tail(q)[i] = q[i + 1]
  OBVIOUS
<1>3. Head(q) \in Nat /\ Head(q) \in Queued(q)
  BY <1>1 DEF Queued
<1>4. Queued(Tail(q)) \subseteq Queued(q)
  BY <1>1, <1>2 DEF Queued
<1>5. ASSUME NEW i \in 1..Len(q)
      PROVE  q[i] \in Queued(Tail(q)) \cup {Head(q)}
  <2>1. CASE i = 1
    BY <1>1, <2>1
  <2>2. CASE i # 1
    <3>1. i - 1 \in 1..(Len(q) - 1) /\ (i - 1) + 1 = i
      BY <1>1, <2>2
    <3>2. Tail(q)[i - 1] = q[i]
      BY <1>2, <3>1
    <3> QED BY <1>1, <3>1, <3>2 DEF Queued
  <2> QED BY <2>1, <2>2
<1>6. Queued(q) \subseteq Queued(Tail(q)) \cup {Head(q)}
  BY <1>5 DEF Queued
<1> QED BY <1>1, <1>3, <1>4, <1>6

\* A new number, or a pong, leaves a channel without duplicates.
LEMMA DistinctAppend ==
  ASSUME NEW q \in Seq(Nat), NEW e \in Nat, Distinct(q),
         e = Pong \/ e \notin Queued(q)
  PROVE  Distinct(Append(q, e))
<1>1. Len(q) \in Nat /\ Len(Append(q, e)) = Len(q) + 1
  OBVIOUS
<1>2. \A i \in 1..Len(q) : Append(q, e)[i] = q[i] /\ q[i] \in Queued(q)
  BY DEF Queued
<1>3. Append(q, e)[Len(q) + 1] = e
  OBVIOUS
<1>4. ASSUME NEW i \in 1..(Len(q) + 1), NEW j \in 1..(Len(q) + 1), i # j,
             Append(q, e)[i] # Pong
      PROVE  Append(q, e)[i] # Append(q, e)[j]
  <2>1. CASE i \in 1..Len(q) /\ j \in 1..Len(q)
    BY <1>2, <1>4, <2>1 DEF Distinct
  <2>2. CASE i = Len(q) + 1 /\ j \in 1..Len(q)
    BY <1>2, <1>3, <1>4, <2>2
  <2>3. CASE i \in 1..Len(q) /\ j = Len(q) + 1
    BY <1>2, <1>3, <1>4, <2>3
  <2> QED BY <1>1, <1>4, <2>1, <2>2, <2>3
<1> QED BY <1>1, <1>4 DEF Distinct

\* The event a pump takes is not in the channel any more.
LEMMA DistinctTail ==
  ASSUME NEW q \in Seq(Nat), q # <<>>, Distinct(q)
  PROVE  /\ Distinct(Tail(q))
         /\ Head(q) # Pong => Head(q) \notin Queued(Tail(q))
<1>1. /\ Len(Tail(q)) = Len(q) - 1 /\ Head(q) = q[1]
      /\ Len(q) >= 1 /\ Len(q) \in Nat
  OBVIOUS
<1>2. \A i \in 1..(Len(q) - 1) : Tail(q)[i] = q[i + 1]
  OBVIOUS
<1>3. ASSUME NEW i \in 1..(Len(q) - 1), NEW j \in 1..(Len(q) - 1), i # j,
             Tail(q)[i] # Pong
      PROVE  Tail(q)[i] # Tail(q)[j]
  <2>1. i + 1 \in 1..Len(q) /\ j + 1 \in 1..Len(q) /\ i + 1 # j + 1
    BY <1>1, <1>3
  <2> QED BY <1>2, <1>3, <2>1 DEF Distinct
<1>4. ASSUME NEW i \in 1..(Len(q) - 1), Head(q) # Pong
      PROVE  Tail(q)[i] # Head(q)
  <2>1. i + 1 \in 1..Len(q) /\ 1 \in 1..Len(q) /\ i + 1 # 1
    BY <1>1
  <2> QED BY <1>1, <1>2, <1>4, <2>1 DEF Distinct
<1>5. Distinct(Tail(q))
  BY <1>1, <1>3 DEF Distinct
<1> QED BY <1>1, <1>4, <1>5 DEF Queued

----------------------------------------------------------------------------

\* The supervisor's states and the pumps that can run in them.
LEMMA LifeStep ==
  ASSUME TypeOK, Life, [Next]_vars
  PROVE  Life'
<1>1. CASE Dial
  BY <1>1
  DEF Dial, TypeOK, Life, Sessions, SupStates, TransportStates, Alive, Established, Live, Idle,
      vars, supVars, recvVars, pumpVars, sendVars, wireVars
<1>2. CASE HandshakeFails
  BY <1>2
  DEF HandshakeFails, CancelSession, Spend, TypeOK, Life, Sessions, SupStates, TransportStates, Alive, Established, Live, Idle,
      vars, supVars, recvVars, pumpVars, sendVars, wireVars
<1>3. CASE CallbackReturns
  <2> USE DEF TypeOK, Life, Sessions, SupStates, TransportStates, Alive, Established, Live, Idle, vars, supVars,
        recvVars, pumpVars, sendVars, wireVars
  <2>1. CASE StartPumps /\ UNCHANGED budget
    BY <1>3, <2>1 DEF CallbackReturns, StartPumps
  <2>2. CASE sup' = "resync" /\ UNCHANGED <<recv, pump>>
    BY <1>3, <2>2 DEF CallbackReturns
  <2> QED BY <1>3, <2>1, <2>2 DEF CallbackReturns
<1>4. CASE EmitResync
  BY <1>4
  DEF EmitResync, StartPumps, TypeOK, Life, Sessions, SupStates, TransportStates, Alive, Established, Live, Idle,
      vars, supVars, recvVars, pumpVars, sendVars, wireVars
<1>5. CASE SessionFails
  BY <1>5
  DEF SessionFails, CancelSession, TypeOK, Life, Sessions, SupStates, TransportStates, Alive, Established, Live, Idle,
      vars, supVars, recvVars, pumpVars, sendVars, wireVars
<1>6. CASE RotateToken
  BY <1>6
  DEF RotateToken, CancelSession, Spend, TypeOK, Life, Sessions, SupStates, TransportStates, Alive, Established, Live, Idle,
      vars, supVars, recvVars, pumpVars, sendVars, wireVars
<1>7. CASE Backoff
  BY <1>7
  DEF Backoff, TypeOK, Life, Sessions, SupStates, TransportStates, Alive, Established, Live, Idle,
      vars, supVars, recvVars, pumpVars, sendVars, wireVars
<1>8. CASE Dispatch
  BY <1>8
  DEF Dispatch, TypeOK, Life, Sessions, SupStates, TransportStates, Alive, Established, Live, Idle,
      vars, supVars, recvVars, pumpVars, sendVars, wireVars
<1>9. ASSUME NEW x \in Senders, Stamp(x)
      PROVE  Life'
  BY <1>9
  DEF Stamp, NextSeq, TypeOK, Life, Sessions, SupStates, TransportStates, Alive, Established, Live, Idle,
      vars, supVars, recvVars, pumpVars, sendVars, wireVars
<1>10. ASSUME NEW x \in Senders, Enqueue(x)
      PROVE  Life'
  BY <1>10
  DEF Enqueue, TypeOK, Life, Sessions, SupStates, TransportStates, Alive, Established, Live, Idle,
      vars, supVars, recvVars, pumpVars, sendVars, wireVars
<1>11. ASSUME NEW p \in Producers, Produce(p)
      PROVE  Life'
  BY <1>11
  DEF Produce, Spend, TypeOK, Life, Sessions, SupStates, TransportStates, Alive, Established, Live, Idle,
      vars, supVars, recvVars, pumpVars, sendVars, wireVars
<1>12. ASSUME NEW s \in Sessions, ReceivePing(s)
      PROVE  Life'
  BY <1>12
  DEF ReceivePing, Spend, QueuePong, TypeOK, Life, Sessions, SupStates, TransportStates, Alive, Established, Live, Idle,
      vars, supVars, recvVars, pumpVars, sendVars, wireVars
<1>13. ASSUME NEW s \in Sessions, ReceiveEvent(s)
      PROVE  Life'
  BY <1>13
  DEF ReceiveEvent, Spend, TypeOK, Life, Sessions, SupStates, TransportStates, Alive, Established, Live, Idle,
      vars, supVars, recvVars, pumpVars, sendVars, wireVars
<1>14. ASSUME NEW s \in Sessions, ReceiveFails(s)
      PROVE  Life'
  BY <1>14
  DEF ReceiveFails, TypeOK, Life, Sessions, SupStates, TransportStates, Alive, Established, Live, Idle,
      vars, supVars, recvVars, pumpVars, sendVars, wireVars
<1>15. ASSUME NEW s \in Sessions, Emit(s)
      PROVE  Life'
  BY <1>15
  DEF Emit, EmitMayDrop, TypeOK, Life, Sessions, SupStates, TransportStates, Alive, Established, Live, Idle,
      vars, supVars, recvVars, pumpVars, sendVars, wireVars
<1>16. ASSUME NEW s \in Sessions, PumpTake(s)
      PROVE  Life'
  BY <1>16
  DEF PumpTake, TypeOK, Life, Sessions, SupStates, TransportStates, Alive, Established, Live, Idle,
      vars, supVars, recvVars, pumpVars, sendVars, wireVars
<1>17. ASSUME NEW s \in Sessions, PumpSend(s)
      PROVE  Life'
  BY <1>17
  DEF PumpSend, TypeOK, Life, Sessions, SupStates, TransportStates, Alive, Established, Live, Idle,
      vars, supVars, recvVars, pumpVars, sendVars, wireVars
<1>18. ASSUME NEW s \in Sessions, PumpCancelled(s)
      PROVE  Life'
  BY <1>18
  DEF PumpCancelled, TypeOK, Life, Sessions, SupStates, TransportStates, Alive, Established, Live, Idle,
      vars, supVars, recvVars, pumpVars, sendVars, wireVars
<1>19. ASSUME NEW s \in Sessions, Break(s)
      PROVE  Life'
  BY <1>19
  DEF Break, Spend, TypeOK, Life, Sessions, SupStates, TransportStates, Alive, Established, Live, Idle,
      vars, supVars, recvVars, pumpVars, sendVars, wireVars
<1>20. CASE UNCHANGED vars
  BY <1>20
  DEF TypeOK, Life, Sessions, SupStates, TransportStates, Alive, Established, Live, Idle,
      vars, supVars, recvVars, pumpVars, sendVars, wireVars
<1>21. CASE DialFails
  BY <1>21
  DEF DialFails, Spend, TypeOK, Life, Sessions, SupStates, TransportStates, Alive, Established, Live, Idle,
      vars, supVars, recvVars, pumpVars, sendVars, wireVars
<1>22. CASE HandshakeDone
  BY <1>22
  DEF HandshakeDone, TypeOK, Life, Sessions, SupStates, TransportStates, Alive, Established, Live, Idle,
      vars, supVars, recvVars, pumpVars, sendVars, wireVars
<1>23. CASE CloseGate
  BY <1>23
  DEF CloseGate, TypeOK, Life, Sessions, SupStates, TransportStates, Alive, Established, Live, Idle,
      vars, supVars, recvVars, pumpVars, sendVars, wireVars
<1> QED
  BY <1>1, <1>2, <1>3, <1>4, <1>5, <1>6, <1>7, <1>8, <1>9, <1>10, <1>11, <1>12, <1>13, <1>14, <1>15, <1>16, <1>17, <1>18, <1>19, <1>20,
     <1>21, <1>22, <1>23
  DEF Next, Supervise, ReceivePump, SendPump

\* The step of OneLiveSession: a session is opened only after the last one
\* was cancelled.
LEMMA OneLiveStep ==
  ASSUME TypeOK, Life, OneLiveSession, [Next]_vars
  PROVE  OneLiveSession'
<1>1. CASE Dial
  BY <1>1
  DEF Dial, TypeOK, Life, OneLiveSession, Sessions, SupStates, TransportStates, Alive, Established, Live, Idle,
      vars, supVars, recvVars, pumpVars, sendVars, wireVars
<1>2. CASE HandshakeFails
  BY <1>2
  DEF HandshakeFails, CancelSession, Spend, TypeOK, Life, OneLiveSession, Sessions, SupStates, TransportStates, Alive, Established, Live, Idle,
      vars, supVars, recvVars, pumpVars, sendVars, wireVars
<1>3. CASE CallbackReturns
  <2>1. sup = "callback" /\ UNCHANGED <<sess, connected, announced, transport>>
    BY <1>3 DEF CallbackReturns
  <2>2. connected /\ \A s \in Sessions : pump'[s] # "off" => pump[s] # "off" \/ s = sess
    BY <1>3, <2>1 DEF CallbackReturns, StartPumps, TypeOK, Life, Established
  <2> QED BY <2>1, <2>2 DEF OneLiveSession
<1>4. CASE EmitResync
  BY <1>4
  DEF EmitResync, StartPumps, TypeOK, Life, OneLiveSession, Sessions, SupStates, TransportStates, Alive, Established, Live, Idle,
      vars, supVars, recvVars, pumpVars, sendVars, wireVars
<1>5. CASE SessionFails
  BY <1>5
  DEF SessionFails, CancelSession, TypeOK, Life, OneLiveSession, Sessions, SupStates, TransportStates, Alive, Established, Live, Idle,
      vars, supVars, recvVars, pumpVars, sendVars, wireVars
<1>6. CASE RotateToken
  BY <1>6
  DEF RotateToken, CancelSession, Spend, TypeOK, Life, OneLiveSession, Sessions, SupStates, TransportStates, Alive, Established, Live, Idle,
      vars, supVars, recvVars, pumpVars, sendVars, wireVars
<1>7. CASE Backoff
  BY <1>7
  DEF Backoff, TypeOK, Life, OneLiveSession, Sessions, SupStates, TransportStates, Alive, Established, Live, Idle,
      vars, supVars, recvVars, pumpVars, sendVars, wireVars
<1>8. CASE Dispatch
  BY <1>8
  DEF Dispatch, TypeOK, Life, OneLiveSession, Sessions, SupStates, TransportStates, Alive, Established, Live, Idle,
      vars, supVars, recvVars, pumpVars, sendVars, wireVars
<1>9. ASSUME NEW x \in Senders, Stamp(x)
      PROVE  OneLiveSession'
  BY <1>9
  DEF Stamp, NextSeq, TypeOK, Life, OneLiveSession, Sessions, SupStates, TransportStates, Alive, Established, Live, Idle,
      vars, supVars, recvVars, pumpVars, sendVars, wireVars
<1>10. ASSUME NEW x \in Senders, Enqueue(x)
      PROVE  OneLiveSession'
  BY <1>10
  DEF Enqueue, TypeOK, Life, OneLiveSession, Sessions, SupStates, TransportStates, Alive, Established, Live, Idle,
      vars, supVars, recvVars, pumpVars, sendVars, wireVars
<1>11. ASSUME NEW p \in Producers, Produce(p)
      PROVE  OneLiveSession'
  BY <1>11
  DEF Produce, Spend, TypeOK, Life, OneLiveSession, Sessions, SupStates, TransportStates, Alive, Established, Live, Idle,
      vars, supVars, recvVars, pumpVars, sendVars, wireVars
<1>12. ASSUME NEW s \in Sessions, ReceivePing(s)
      PROVE  OneLiveSession'
  BY <1>12
  DEF ReceivePing, Spend, QueuePong, TypeOK, Life, OneLiveSession, Sessions, SupStates, TransportStates, Alive, Established, Live, Idle,
      vars, supVars, recvVars, pumpVars, sendVars, wireVars
<1>13. ASSUME NEW s \in Sessions, ReceiveEvent(s)
      PROVE  OneLiveSession'
  BY <1>13
  DEF ReceiveEvent, Spend, TypeOK, Life, OneLiveSession, Sessions, SupStates, TransportStates, Alive, Established, Live, Idle,
      vars, supVars, recvVars, pumpVars, sendVars, wireVars
<1>14. ASSUME NEW s \in Sessions, ReceiveFails(s)
      PROVE  OneLiveSession'
  BY <1>14
  DEF ReceiveFails, TypeOK, Life, OneLiveSession, Sessions, SupStates, TransportStates, Alive, Established, Live, Idle,
      vars, supVars, recvVars, pumpVars, sendVars, wireVars
<1>15. ASSUME NEW s \in Sessions, Emit(s)
      PROVE  OneLiveSession'
  BY <1>15
  DEF Emit, EmitMayDrop, TypeOK, Life, OneLiveSession, Sessions, SupStates, TransportStates, Alive, Established, Live, Idle,
      vars, supVars, recvVars, pumpVars, sendVars, wireVars
<1>16. ASSUME NEW s \in Sessions, PumpTake(s)
      PROVE  OneLiveSession'
  BY <1>16
  DEF PumpTake, TypeOK, Life, OneLiveSession, Sessions, SupStates, TransportStates, Alive, Established, Live, Idle,
      vars, supVars, recvVars, pumpVars, sendVars, wireVars
<1>17. ASSUME NEW s \in Sessions, PumpSend(s)
      PROVE  OneLiveSession'
  BY <1>17
  DEF PumpSend, TypeOK, Life, OneLiveSession, Sessions, SupStates, TransportStates, Alive, Established, Live, Idle,
      vars, supVars, recvVars, pumpVars, sendVars, wireVars
<1>18. ASSUME NEW s \in Sessions, PumpCancelled(s)
      PROVE  OneLiveSession'
  BY <1>18
  DEF PumpCancelled, TypeOK, Life, OneLiveSession, Sessions, SupStates, TransportStates, Alive, Established, Live, Idle,
      vars, supVars, recvVars, pumpVars, sendVars, wireVars
<1>19. ASSUME NEW s \in Sessions, Break(s)
      PROVE  OneLiveSession'
  BY <1>19
  DEF Break, Spend, TypeOK, Life, OneLiveSession, Sessions, SupStates, TransportStates, Alive, Established, Live, Idle,
      vars, supVars, recvVars, pumpVars, sendVars, wireVars
<1>20. CASE UNCHANGED vars
  BY <1>20
  DEF TypeOK, Life, OneLiveSession, Sessions, SupStates, TransportStates, Alive, Established, Live, Idle,
      vars, supVars, recvVars, pumpVars, sendVars, wireVars
<1>21. CASE DialFails
  BY <1>21
  DEF DialFails, Spend, TypeOK, Life, OneLiveSession, Sessions, SupStates, TransportStates, Alive, Established, Live, Idle,
      vars, supVars, recvVars, pumpVars, sendVars, wireVars
<1>22. CASE HandshakeDone
  BY <1>22
  DEF HandshakeDone, TypeOK, Life, OneLiveSession, Sessions, SupStates, TransportStates, Alive, Established, Live, Idle,
      vars, supVars, recvVars, pumpVars, sendVars, wireVars
<1>23. CASE CloseGate
  BY <1>23
  DEF CloseGate, TypeOK, Life, OneLiveSession, Sessions, SupStates, TransportStates, Alive, Established, Live, Idle,
      vars, supVars, recvVars, pumpVars, sendVars, wireVars
<1> QED
  BY <1>1, <1>2, <1>3, <1>4, <1>5, <1>6, <1>7, <1>8, <1>9, <1>10, <1>11, <1>12, <1>13, <1>14, <1>15, <1>16, <1>17, <1>18, <1>19, <1>20,
     <1>21, <1>22, <1>23
  DEF Next, Supervise, ReceivePump, SendPump

\* Who waits in Send.
LEMMA SendingStep ==
  ASSUME StreamAssumption, TypeOK, Life, Sending, [Next]_vars
  PROVE  Sending'
<1>1. CASE Dial
  BY <1>1
  DEF Dial, StreamAssumption, TypeOK, Life, Sending, Senders, SupStates, TransportStates, Alive, Established, Live, Idle,
      vars, supVars, recvVars, pumpVars, sendVars, wireVars
<1>2. CASE HandshakeFails
  BY <1>2
  DEF HandshakeFails, CancelSession, Spend, StreamAssumption, TypeOK, Life, Sending, Senders, SupStates, TransportStates, Alive, Established, Live, Idle,
      vars, supVars, recvVars, pumpVars, sendVars, wireVars
<1>3. CASE CallbackReturns
  BY <1>3
  DEF CallbackReturns, StartPumps, Spend, StreamAssumption, TypeOK, Life, Sending, Senders, SupStates, TransportStates, Alive, Established, Live, Idle,
      vars, supVars, recvVars, pumpVars, sendVars, wireVars
<1>4. CASE EmitResync
  BY <1>4
  DEF EmitResync, StartPumps, StreamAssumption, TypeOK, Life, Sending, Senders, SupStates, TransportStates, Alive, Established, Live, Idle,
      vars, supVars, recvVars, pumpVars, sendVars, wireVars
<1>5. CASE SessionFails
  BY <1>5
  DEF SessionFails, CancelSession, StreamAssumption, TypeOK, Life, Sending, Senders, SupStates, TransportStates, Alive, Established, Live, Idle,
      vars, supVars, recvVars, pumpVars, sendVars, wireVars
<1>6. CASE RotateToken
  BY <1>6
  DEF RotateToken, CancelSession, Spend, StreamAssumption, TypeOK, Life, Sending, Senders, SupStates, TransportStates, Alive, Established, Live, Idle,
      vars, supVars, recvVars, pumpVars, sendVars, wireVars
<1>7. CASE Backoff
  BY <1>7
  DEF Backoff, StreamAssumption, TypeOK, Life, Sending, Senders, SupStates, TransportStates, Alive, Established, Live, Idle,
      vars, supVars, recvVars, pumpVars, sendVars, wireVars
<1>8. CASE Dispatch
  BY <1>8
  DEF Dispatch, StreamAssumption, TypeOK, Life, Sending, Senders, SupStates, TransportStates, Alive, Established, Live, Idle,
      vars, supVars, recvVars, pumpVars, sendVars, wireVars
<1>9. ASSUME NEW x \in Senders, Stamp(x)
      PROVE  Sending'
  BY <1>9
  DEF Stamp, NextSeq, StreamAssumption, TypeOK, Life, Sending, Senders, SupStates, TransportStates, Alive, Established, Live, Idle,
      vars, supVars, recvVars, pumpVars, sendVars, wireVars
<1>10. ASSUME NEW x \in Senders, Enqueue(x)
      PROVE  Sending'
  BY <1>10
  DEF Enqueue, StreamAssumption, TypeOK, Life, Sending, Senders, SupStates, TransportStates, Alive, Established, Live, Idle,
      vars, supVars, recvVars, pumpVars, sendVars, wireVars
<1>11. ASSUME NEW p \in Producers, Produce(p)
      PROVE  Sending'
  BY <1>11
  DEF Produce, Spend, StreamAssumption, TypeOK, Life, Sending, Senders, SupStates, TransportStates, Alive, Established, Live, Idle,
      vars, supVars, recvVars, pumpVars, sendVars, wireVars
<1>12. ASSUME NEW s \in Sessions, ReceivePing(s)
      PROVE  Sending'
  BY <1>12
  DEF ReceivePing, Spend, QueuePong, StreamAssumption, TypeOK, Life, Sending, Senders, SupStates, TransportStates, Alive, Established, Live, Idle,
      vars, supVars, recvVars, pumpVars, sendVars, wireVars
<1>13. ASSUME NEW s \in Sessions, ReceiveEvent(s)
      PROVE  Sending'
  BY <1>13
  DEF ReceiveEvent, Spend, StreamAssumption, TypeOK, Life, Sending, Senders, SupStates, TransportStates, Alive, Established, Live, Idle,
      vars, supVars, recvVars, pumpVars, sendVars, wireVars
<1>14. ASSUME NEW s \in Sessions, ReceiveFails(s)
      PROVE  Sending'
  BY <1>14
  DEF ReceiveFails, StreamAssumption, TypeOK, Life, Sending, Senders, SupStates, TransportStates, Alive, Established, Live, Idle,
      vars, supVars, recvVars, pumpVars, sendVars, wireVars
<1>15. ASSUME NEW s \in Sessions, Emit(s)
      PROVE  Sending'
  BY <1>15
  DEF Emit, EmitMayDrop, StreamAssumption, TypeOK, Life, Sending, Senders, SupStates, TransportStates, Alive, Established, Live, Idle,
      vars, supVars, recvVars, pumpVars, sendVars, wireVars
<1>16. ASSUME NEW s \in Sessions, PumpTake(s)
      PROVE  Sending'
  BY <1>16
  DEF PumpTake, StreamAssumption, TypeOK, Life, Sending, Senders, SupStates, TransportStates, Alive, Established, Live, Idle,
      vars, supVars, recvVars, pumpVars, sendVars, wireVars
<1>17. ASSUME NEW s \in Sessions, PumpSend(s)
      PROVE  Sending'
  BY <1>17
  DEF PumpSend, StreamAssumption, TypeOK, Life, Sending, Senders, SupStates, TransportStates, Alive, Established, Live, Idle,
      vars, supVars, recvVars, pumpVars, sendVars, wireVars
<1>18. ASSUME NEW s \in Sessions, PumpCancelled(s)
      PROVE  Sending'
  BY <1>18
  DEF PumpCancelled, StreamAssumption, TypeOK, Life, Sending, Senders, SupStates, TransportStates, Alive, Established, Live, Idle,
      vars, supVars, recvVars, pumpVars, sendVars, wireVars
<1>19. ASSUME NEW s \in Sessions, Break(s)
      PROVE  Sending'
  BY <1>19
  DEF Break, Spend, StreamAssumption, TypeOK, Life, Sending, Senders, SupStates, TransportStates, Alive, Established, Live, Idle,
      vars, supVars, recvVars, pumpVars, sendVars, wireVars
<1>20. CASE UNCHANGED vars
  BY <1>20
  DEF StreamAssumption, TypeOK, Life, Sending, Senders, SupStates, TransportStates, Alive, Established, Live, Idle,
      vars, supVars, recvVars, pumpVars, sendVars, wireVars
<1>21. CASE DialFails
  BY <1>21
  DEF DialFails, Spend, StreamAssumption, TypeOK, Life, Sending, Senders, SupStates, TransportStates, Alive, Established, Live, Idle,
      vars, supVars, recvVars, pumpVars, sendVars, wireVars
<1>22. CASE HandshakeDone
  BY <1>22
  DEF HandshakeDone, StreamAssumption, TypeOK, Life, Sending, Senders, SupStates, TransportStates, Alive, Established, Live, Idle,
      vars, supVars, recvVars, pumpVars, sendVars, wireVars
<1>23. CASE CloseGate
  BY <1>23
  DEF CloseGate, StreamAssumption, TypeOK, Life, Sending, Senders, SupStates, TransportStates, Alive, Established, Live, Idle,
      vars, supVars, recvVars, pumpVars, sendVars, wireVars
<1> QED
  BY <1>1, <1>2, <1>3, <1>4, <1>5, <1>6, <1>7, <1>8, <1>9, <1>10, <1>11, <1>12, <1>13, <1>14, <1>15, <1>16, <1>17, <1>18, <1>19, <1>20,
     <1>21, <1>22, <1>23
  DEF Next, Supervise, ReceivePump, SendPump

\* A bound that is spent stays a natural number.
LEMMA SpendType ==
  ASSUME NEW k \in Faults, budget \in [Faults -> Nat], Spend(k)
  PROVE  budget' \in [Faults -> Nat]
BY DEF Spend

\* The types are preserved; the channels never exceed their capacity.
LEMMA TypeStep ==
  ASSUME TypeOK, Life, Sending, [Next]_vars
  PROVE  TypeOK'
<1>1. CASE Dial
  <2>1. sess + 1 \in Sessions /\ sess + 1 \in 0..MaxSessions
    BY <1>1, StreamAssumption DEF Dial, TypeOK, Sessions, StreamAssumption
  <2>2. transport' \in [Sessions -> TransportStates]
    BY <1>1, <2>1 DEF Dial, TypeOK, TransportStates
  <2> QED
    BY <1>1, <2>1, <2>2 DEF Dial, TypeOK, Senders, Sessions, SupStates,
      TransportStates, vars, supVars, recvVars, pumpVars, sendVars, wireVars
<1>2. CASE HandshakeFails
  <2>1. "handshake" \in Faults
    BY DEF Faults
  <2>2. budget' \in [Faults -> Nat]
    BY <1>2, <2>1, SpendType DEF HandshakeFails, TypeOK
  <2> QED
    BY <1>2, <2>2 DEF HandshakeFails, CancelSession, TypeOK, Senders, Sessions, SupStates,
      TransportStates, vars, supVars, recvVars, pumpVars, sendVars, wireVars
<1>21. CASE DialFails
  <2>1. "handshake" \in Faults
    BY DEF Faults
  <2>2. budget' \in [Faults -> Nat]
    BY <1>21, <2>1, SpendType DEF DialFails, TypeOK
  <2> QED
    BY <1>21, <2>2 DEF DialFails, TypeOK, Senders, Sessions, SupStates,
      TransportStates, vars, supVars, recvVars, pumpVars, sendVars, wireVars
<1>22. CASE HandshakeDone
  <2>1. todo' \in [Senders -> Nat]
    <3>1. CASE UNCHANGED todo
      BY <3>1 DEF TypeOK
    <3>2. CASE \E n \in IF Scanner THEN {0, 1} ELSE {0} :
                 todo' = [todo EXCEPT !["callback"] = n]
      <4>1. PICK n \in IF Scanner THEN {0, 1} ELSE {0} :
              todo' = [todo EXCEPT !["callback"] = n]
        BY <3>2
      <4>2. n \in Nat
        BY <4>1
      <4> QED BY <4>1, <4>2 DEF TypeOK
    <3> QED BY <1>22, <3>1, <3>2 DEF HandshakeDone
  <2>2. sess \in Sessions
    BY <1>22, StreamAssumption DEF HandshakeDone, TypeOK, Life, Alive, Sessions
  <2>3. announced' \subseteq Sessions
    BY <1>22, <2>2 DEF HandshakeDone, TypeOK
  <2> QED
    BY <1>22, <2>1, <2>3 DEF HandshakeDone, TypeOK, Senders, Sessions, SupStates,
      TransportStates, vars, supVars, recvVars, pumpVars, sendVars, wireVars
<1>23. CASE CloseGate
  BY <1>23 DEF CloseGate, TypeOK, Senders, Sessions, SupStates,
      TransportStates, vars, supVars, recvVars, pumpVars, sendVars, wireVars
<1>3. CASE CallbackReturns
  <2>1. "resync" \in Faults
    BY DEF Faults
  <2>2. budget' \in [Faults -> Nat]
    BY <1>3, <2>1, SpendType DEF CallbackReturns, TypeOK
  <2>3. CASE StartPumps
    BY <1>3, <2>2, <2>3 DEF CallbackReturns, StartPumps, TypeOK, Senders, Sessions, SupStates,
      TransportStates, vars, supVars, recvVars, pumpVars, sendVars, wireVars
  <2>4. CASE sup' = "resync" /\ UNCHANGED <<recv, pump>>
    BY <1>3, <2>2, <2>4 DEF CallbackReturns, TypeOK, Senders, Sessions, SupStates,
      TransportStates, vars, supVars, recvVars, pumpVars, sendVars, wireVars
  <2> QED BY <1>3, <2>3, <2>4 DEF CallbackReturns
<1>4. CASE EmitResync
  <2>1. events' \in Seq(Nat) /\ Len(events') <= EventsCap
    BY <1>4, QueuedAppend, StreamAssumption
    DEF EmitResync, TypeOK, ResyncEvent, StreamAssumption
  <2> QED
    BY <1>4, <2>1 DEF EmitResync, StartPumps, TypeOK, Senders, Sessions, SupStates,
      TransportStates, vars, supVars, recvVars, pumpVars, sendVars, wireVars
<1>5. CASE SessionFails
  BY <1>5
  DEF SessionFails, CancelSession, TypeOK, Senders, Sessions, SupStates,
      TransportStates, Idle, vars, supVars, recvVars, pumpVars, sendVars,
      wireVars
<1>6. CASE RotateToken
  <2>1. "rotate" \in Faults
    BY DEF Faults
  <2>2. budget' \in [Faults -> Nat]
    BY <1>6, <2>1, SpendType DEF RotateToken, TypeOK
  <2> QED
    BY <1>6, <2>2 DEF RotateToken, CancelSession, TypeOK, Senders, Sessions, SupStates,
      TransportStates, vars, supVars, recvVars, pumpVars, sendVars, wireVars
<1>7. CASE Backoff
  BY <1>7
  DEF Backoff, TypeOK, Senders, Sessions, SupStates, TransportStates, Idle,
      vars, supVars, recvVars, pumpVars, sendVars, wireVars
<1>8. CASE Dispatch
  <2>1. /\ events' \in Seq(Nat) /\ Len(events') <= EventsCap
        /\ Head(events) \in Nat
    BY <1>8, QueuedTail, StreamAssumption DEF Dispatch, TypeOK, StreamAssumption
  <2>2. handled' \subseteq Nat
    BY <1>8, <2>1 DEF Dispatch, TypeOK
  <2>3. todo' \in [Senders -> Nat]
    BY <1>8, StreamAssumption DEF Dispatch, TypeOK, Senders, StreamAssumption
  <2> QED
    BY <1>8, <2>1, <2>2, <2>3 DEF Dispatch, TypeOK, Senders, Sessions, SupStates,
      TransportStates, vars, supVars, recvVars, pumpVars, sendVars, wireVars
<1>9. ASSUME NEW x \in Senders, Stamp(x)
      PROVE  TypeOK'
  BY <1>9 DEF Stamp, NextSeq, TypeOK, Senders, Sessions, SupStates,
      TransportStates, vars, supVars, recvVars, pumpVars, sendVars, wireVars
<1>10. ASSUME NEW x \in Senders, Enqueue(x)
      PROVE  TypeOK'
  <2>1. sendCh' \in Seq(Nat) /\ Len(sendCh') <= SendCap
    BY <1>10, QueuedAppend, StreamAssumption DEF Enqueue, TypeOK, StreamAssumption
  <2>2. todo[x] \in Nat /\ todo[x] > 0
    BY <1>10 DEF Enqueue, Sending, TypeOK
  <2>3. todo' \in [Senders -> Nat] /\ stamped' \in [Senders -> Nat]
    BY <1>10, <2>2 DEF Enqueue, TypeOK, Idle
  <2> QED
    BY <1>10, <2>1, <2>3 DEF Enqueue, TypeOK, Senders, Sessions, SupStates,
      TransportStates, vars, supVars, recvVars, pumpVars, sendVars, wireVars
<1>11. ASSUME NEW p \in Producers, Produce(p)
      PROVE  TypeOK'
  <2>1. "produce" \in Faults
    BY DEF Faults
  <2>2. budget' \in [Faults -> Nat]
    BY <1>11, <2>1, SpendType DEF Produce, TypeOK
  <2> QED
    BY <1>11, <2>2 DEF Produce, TypeOK, Senders, Sessions, SupStates,
      TransportStates, vars, supVars, recvVars, pumpVars, sendVars, wireVars
<1>12. ASSUME NEW s \in Sessions, ReceivePing(s)
      PROVE  TypeOK'
  <2>1. "ping" \in Faults
    BY DEF Faults
  <2>2. budget' \in [Faults -> Nat]
    BY <1>12, <2>1, SpendType DEF ReceivePing, TypeOK
  <2>3. sendCh' \in Seq(Nat) /\ Len(sendCh') <= SendCap
    <3>1. CASE Len(sendCh) < SendCap /\ sendCh' = Append(sendCh, Pong)
      BY <3>1, QueuedAppend, StreamAssumption DEF Pong, TypeOK, StreamAssumption
    <3>2. CASE UNCHANGED sendCh
      BY <3>2 DEF TypeOK
    <3> QED BY <1>12, <3>1, <3>2 DEF ReceivePing, QueuePong
  <2> QED
    BY <1>12, <2>2, <2>3 DEF ReceivePing, TypeOK, Senders, Sessions, SupStates,
      TransportStates, vars, supVars, recvVars, pumpVars, sendVars, wireVars
<1>13. ASSUME NEW s \in Sessions, ReceiveEvent(s)
      PROVE  TypeOK'
  <2>1. "inbound" \in Faults
    BY DEF Faults
  <2>2. budget' \in [Faults -> Nat]
    BY <1>13, <2>1, SpendType DEF ReceiveEvent, TypeOK
  <2>3. arrivals' \in Seq(Sessions) /\ Len(arrivals) + 1 \in Nat
    BY <1>13 DEF ReceiveEvent, TypeOK
  <2> QED
    BY <1>13, <2>2, <2>3 DEF ReceiveEvent, TypeOK, Senders, SupStates,
      TransportStates, vars, supVars, recvVars, pumpVars, sendVars, wireVars
<1>14. ASSUME NEW s \in Sessions, ReceiveFails(s)
      PROVE  TypeOK'
  BY <1>14
  DEF ReceiveFails, TypeOK, Senders, Sessions, SupStates, TransportStates,
      Idle, vars, supVars, recvVars, pumpVars, sendVars, wireVars
<1>15. ASSUME NEW s \in Sessions, Emit(s)
      PROVE  TypeOK'
  <2>1. events' \in Seq(Nat) /\ Len(events') <= EventsCap
    <3>1. CASE Len(events) < EventsCap /\ events' = Append(events, hand[s])
      BY <3>1, QueuedAppend, StreamAssumption DEF TypeOK, StreamAssumption
    <3>2. CASE UNCHANGED events
      BY <3>2 DEF TypeOK
    <3> QED BY <1>15, <3>1, <3>2 DEF Emit
  <2> QED
    BY <1>15, <2>1 DEF Emit, Idle, TypeOK, Senders, Sessions, SupStates,
      TransportStates, vars, supVars, recvVars, pumpVars, sendVars, wireVars
<1>16. ASSUME NEW s \in Sessions, PumpTake(s)
      PROVE  TypeOK'
  <2>1. /\ sendCh' \in Seq(Nat) /\ Len(sendCh') <= SendCap
        /\ Head(sendCh) \in Nat
    BY <1>16, QueuedTail, StreamAssumption DEF PumpTake, TypeOK, StreamAssumption
  <2> QED
    BY <1>16, <2>1 DEF PumpTake, TypeOK, Senders, Sessions, SupStates,
      TransportStates, vars, supVars, recvVars, pumpVars, sendVars, wireVars
<1>17. ASSUME NEW s \in Sessions, PumpSend(s)
      PROVE  TypeOK'
  <2>1. delivered' \subseteq Nat /\ lost' \subseteq Nat
    <3>1. out[s] \in Nat
      BY <1>17 DEF TypeOK
    <3> QED BY <1>17, <3>1 DEF PumpSend, TypeOK
  <2>2. pump' \in [Sessions -> {"off", "select", "send"}] /\ out' \in [Sessions -> Nat]
    BY <1>17 DEF PumpSend, TypeOK, Idle
  <2> QED
    BY <1>17, <2>1, <2>2 DEF PumpSend, TypeOK, Senders, Sessions, SupStates,
      TransportStates, vars, supVars, recvVars, pumpVars, sendVars, wireVars
<1>18. ASSUME NEW s \in Sessions, PumpCancelled(s)
      PROVE  TypeOK'
  BY <1>18
  DEF PumpCancelled, TypeOK, Senders, Sessions, SupStates, TransportStates,
      Idle, vars, supVars, recvVars, pumpVars, sendVars, wireVars
<1>19. ASSUME NEW s \in Sessions, Break(s)
      PROVE  TypeOK'
  <2>1. "break" \in Faults
    BY DEF Faults
  <2>2. budget' \in [Faults -> Nat]
    BY <1>19, <2>1, SpendType DEF Break, TypeOK
  <2>3. transport' \in [Sessions -> TransportStates]
    BY <1>19 DEF Break, TypeOK, TransportStates
  <2> QED
    BY <1>19, <2>2, <2>3 DEF Break, TypeOK, Senders, Sessions, SupStates,
      TransportStates, vars, supVars, recvVars, pumpVars, sendVars, wireVars
<1>20. CASE UNCHANGED vars
  BY <1>20
  DEF TypeOK, Senders, Sessions, SupStates, TransportStates, Idle, vars,
      supVars, recvVars, pumpVars, sendVars, wireVars
<1> QED
  BY <1>1, <1>2, <1>3, <1>4, <1>5, <1>6, <1>7, <1>8, <1>9, <1>10, <1>11,
      <1>12, <1>13, <1>14, <1>15, <1>16, <1>17, <1>18, <1>19, <1>20,
      <1>21, <1>22, <1>23
  DEF Next, Supervise, ReceivePump, SendPump

----------------------------------------------------------------------------
\* What the accounts of outbound and of inbound events are about.
numberVars == <<seq, stamped, sendCh, out, delivered, lost>>
inboundVars == <<arrivals, hand, events, handled, transport>>

\* The steps that move a sequence number.
LEMMA NumbersMove ==
  ASSUME [Next]_vars
  PROVE  \/ UNCHANGED numberVars
         \/ \E x \in Senders : Stamp(x)
         \/ \E x \in Senders : Enqueue(x)
         \/ \E s \in Sessions : ReceivePing(s)
         \/ \E s \in Sessions : PumpTake(s)
         \/ \E s \in Sessions : PumpSend(s)
BY DEF Next, Supervise, ReceivePump, SendPump, Dial, DialFails, HandshakeDone, HandshakeFails,
      CloseGate,
      CallbackReturns, StartPumps, EmitResync, SessionFails, CancelSession,
      RotateToken, Backoff, Dispatch, Produce, ReceiveEvent, ReceiveFails,
      Emit, PumpCancelled, Break, numberVars, vars, supVars, recvVars,
      pumpVars, sendVars, wireVars

\* The steps that move an inbound event or change a transport.
LEMMA InboundMoves ==
  ASSUME [Next]_vars
  PROVE  \/ UNCHANGED inboundVars
         \/ Dial
         \/ HandshakeFails
         \/ EmitResync
         \/ SessionFails
         \/ RotateToken
         \/ Dispatch
         \/ \E s \in Sessions : ReceiveEvent(s)
         \/ \E s \in Sessions : Emit(s)
         \/ \E s \in Sessions : Break(s)
BY DEF Next, Supervise, ReceivePump, SendPump, DialFails, HandshakeDone, CloseGate,
      CallbackReturns, StartPumps, Backoff, Stamp, Enqueue, Produce,
      ReceivePing, ReceiveFails, PumpTake, PumpSend, PumpCancelled,
      inboundVars, vars, supVars, recvVars, pumpVars, sendVars, wireVars

\* No step makes a number disappear: it moves from Send to sendCh, to a pump,
\* and from there to the gateway or to the lost.
LEMMA AccountedStep ==
  ASSUME TypeOK, Life, NumbersAccounted, [Next]_vars
  PROVE  NumbersAccounted'
<1>1. ASSUME NEW x \in Senders, Stamp(x)
      PROVE  NumbersAccounted'
  <2>1. /\ seq \in Nat /\ seq' = seq + 1 /\ 1..seq' = 1..seq \cup {seq + 1}
        /\ stamped'[x] = seq + 1
        /\ \A y \in Senders : y # x => stamped'[y] = stamped[y]
        /\ stamped[x] = 0
        /\ UNCHANGED <<sendCh, out, delivered, lost>>
    BY <1>1 DEF Stamp, NextSeq, TypeOK, Idle, pumpVars, wireVars
  <2> QED BY <2>1 DEF NumbersAccounted
<1>2. ASSUME NEW x \in Senders, Enqueue(x)
      PROVE  NumbersAccounted'
  <2>1. Queued(sendCh') = Queued(sendCh) \cup {stamped[x]}
    BY <1>2, QueuedAppend DEF Enqueue, TypeOK
  <2>2. /\ \A y \in Senders : y # x => stamped'[y] = stamped[y]
        /\ UNCHANGED <<seq, out, delivered, lost>>
    BY <1>2 DEF Enqueue, TypeOK, pumpVars, wireVars
  <2> QED BY <2>1, <2>2 DEF NumbersAccounted
<1>3. ASSUME NEW s \in Sessions, ReceivePing(s)
      PROVE  NumbersAccounted'
  <2>1. Queued(sendCh) \subseteq Queued(sendCh')
    <3>1. CASE sendCh' = Append(sendCh, Pong)
      BY <3>1, QueuedAppend DEF TypeOK, Pong
    <3> QED BY <1>3, <3>1 DEF ReceivePing, QueuePong
  <2>2. UNCHANGED <<seq, stamped, out, delivered, lost>>
    BY <1>3 DEF ReceivePing, pumpVars, wireVars
  <2> QED BY <2>1, <2>2 DEF NumbersAccounted
<1>4. ASSUME NEW s \in Sessions, PumpTake(s)
      PROVE  NumbersAccounted'
  <2>1. Queued(sendCh) = Queued(sendCh') \cup {Head(sendCh)}
    BY <1>4, QueuedTail DEF PumpTake, TypeOK
  <2>2. /\ out[s] = 0 /\ out'[s] = Head(sendCh)
        /\ \A t \in Sessions : t # s => out'[t] = out[t]
        /\ UNCHANGED <<seq, stamped, delivered, lost>>
    BY <1>4 DEF PumpTake, TypeOK, Life, Idle, sendVars, wireVars
  <2> QED BY <2>1, <2>2 DEF NumbersAccounted
<1>5. ASSUME NEW s \in Sessions, PumpSend(s)
      PROVE  NumbersAccounted'
  <2>1. (delivered \cup lost) \cup ({out[s]} \ {0}) \subseteq delivered' \cup lost'
    BY <1>5 DEF PumpSend, Pong
  <2>2. /\ \A t \in Sessions : t # s => out'[t] = out[t]
        /\ UNCHANGED <<seq, stamped, sendCh>>
    BY <1>5 DEF PumpSend, TypeOK, sendVars
  <2>3. \A n \in 1..seq : n # 0
    BY DEF TypeOK
  <2> QED BY <2>1, <2>2, <2>3 DEF NumbersAccounted
<1>6. CASE UNCHANGED numberVars
  BY <1>6 DEF NumbersAccounted, numberVars
<1> QED
  BY <1>1, <1>2, <1>3, <1>4, <1>5, <1>6, NumbersMove

\* No step puts a number in a second place: a number is new when it is
\* stamped, and every hand-over takes it from where it was.
LEMMA NumberedStep ==
  ASSUME TypeOK, Numbered, [Next]_vars
  PROVE  Numbered'
<1>1. ASSUME NEW x \in Senders, Stamp(x)
      PROVE  Numbered'
  <2>1. /\ seq \in Nat /\ seq' = seq + 1
        /\ stamped'[x] = seq + 1
        /\ \A y \in Senders : y # x => stamped'[y] = stamped[y]
        /\ \A y \in Senders : stamped[y] \in Nat
        /\ UNCHANGED <<sendCh, out, delivered, lost>>
    BY <1>1 DEF Stamp, NextSeq, TypeOK, pumpVars, wireVars
  <2>2. /\ Queued(sendCh) \subseteq Nat /\ delivered \cup lost \subseteq Nat
        /\ \A s \in Sessions : out[s] \in Nat
    BY DEF TypeOK, Queued
  <2>3. Stamped'
    BY <2>1, <2>2 DEF Numbered, Stamped
  <2>4. SentOnce'
    BY <2>1, <2>2 DEF Numbered, Stamped, SentOnce
  <2>5. Unique'
    BY <2>1, <2>2 DEF Numbered, Stamped, Unique, Idle
  <2> QED BY <2>3, <2>4, <2>5 DEF Numbered
<1>2. ASSUME NEW x \in Senders, Enqueue(x)
      PROVE  Numbered'
  <2>1. /\ Queued(sendCh') = Queued(sendCh) \cup {stamped[x]}
        /\ sendCh' = Append(sendCh, stamped[x])
    BY <1>2, QueuedAppend DEF Enqueue, TypeOK
  <2>2. /\ stamped'[x] = 0 /\ stamped[x] # 0
        /\ stamped[x] \in Nat /\ seq \in Nat
        /\ \A y \in Senders : y # x => stamped'[y] = stamped[y]
        /\ UNCHANGED <<seq, out, delivered, lost>>
    BY <1>2 DEF Enqueue, TypeOK, Idle, pumpVars, wireVars
  <2>3. Distinct(sendCh')
    BY <2>1, <2>2, DistinctAppend DEF Numbered, Unique, TypeOK, Idle
  <2>4. Stamped'
    BY <2>1, <2>2 DEF Numbered, Stamped
  <2>5. SentOnce'
    BY <2>1, <2>2 DEF Numbered, Stamped, SentOnce
  <2>6. Unique'
    BY <2>1, <2>2, <2>3 DEF Numbered, Unique, Idle
  <2> QED BY <2>4, <2>5, <2>6 DEF Numbered
<1>3. ASSUME NEW s \in Sessions, ReceivePing(s)
      PROVE  Numbered'
  <2>1. /\ UNCHANGED <<seq, stamped, out, delivered, lost>>
        /\ seq \in Nat
    BY <1>3 DEF ReceivePing, TypeOK, pumpVars, wireVars
  <2>2. CASE UNCHANGED sendCh
    BY <2>1, <2>2 DEF Numbered, Unique, Stamped, SentOnce
  <2>3. CASE sendCh' = Append(sendCh, Pong)
    <3>1. Queued(sendCh') = Queued(sendCh) \cup {0}
      BY <2>3, QueuedAppend DEF TypeOK, Pong
    <3>2. Distinct(sendCh')
      BY <2>3, DistinctAppend DEF Numbered, Unique, TypeOK, Pong
    <3>3. Stamped'
      BY <2>1, <3>1 DEF Numbered, Stamped
    <3>4. SentOnce'
      BY <2>1, <3>1 DEF Numbered, Stamped, SentOnce
    <3>5. Unique'
      BY <2>1, <3>1, <3>2 DEF Numbered, Unique, Idle
    <3> QED BY <3>3, <3>4, <3>5 DEF Numbered
  <2> QED BY <1>3, <2>2, <2>3 DEF ReceivePing, QueuePong
<1>4. ASSUME NEW s \in Sessions, PumpTake(s)
      PROVE  Numbered'
  <2> DEFINE n == Head(sendCh)
  <2>1. /\ Queued(sendCh) = Queued(sendCh') \cup {n}
        /\ Distinct(sendCh')
        /\ n # 0 => n \notin Queued(sendCh')
    BY <1>4, QueuedTail, DistinctTail DEF PumpTake, TypeOK, Numbered, Unique, Pong
  <2>2. /\ out'[s] = n
        /\ \A t \in Sessions : t # s => out'[t] = out[t]
        /\ UNCHANGED <<seq, stamped, delivered, lost>>
    BY <1>4 DEF PumpTake, TypeOK, sendVars, wireVars
  <2> HIDE DEF n
  <2>3. Stamped'
    BY <2>1, <2>2 DEF Numbered, Stamped
  <2>4. SentOnce'
    BY <2>1, <2>2 DEF Numbered, SentOnce
  <2>5. Unique'
    BY <2>1, <2>2 DEF Numbered, Unique, Idle
  <2> QED BY <2>3, <2>4, <2>5 DEF Numbered
<1>5. ASSUME NEW s \in Sessions, PumpSend(s)
      PROVE  Numbered'
  <2>1. delivered' \cup lost' = (delivered \cup lost) \cup ({out[s]} \ {0})
    BY <1>5 DEF PumpSend, Pong
  <2>2. /\ out'[s] = 0 /\ out[s] \in Nat /\ seq \in Nat
        /\ \A t \in Sessions : t # s => out'[t] = out[t]
        /\ UNCHANGED <<seq, stamped, sendCh>>
    BY <1>5 DEF PumpSend, TypeOK, Idle, sendVars
  <2>3. Stamped'
    BY <2>1, <2>2 DEF Numbered, Stamped
  <2>4. SentOnce'
    BY <2>1, <2>2, <2>3 DEF Numbered, Unique, Stamped, SentOnce, Idle
  <2>5. Unique'
    BY <2>2 DEF Numbered, Unique, Idle
  <2> QED BY <2>3, <2>4, <2>5 DEF Numbered
<1>6. CASE UNCHANGED numberVars
  BY <1>6 DEF Numbered, Unique, Stamped, SentOnce, numberVars
<1> QED
  BY <1>1, <1>2, <1>3, <1>4, <1>5, <1>6, NumbersMove

\* An event that arrived leaves a receive pump only into the channel or with
\* the cancellation of its session, and the channel only into the event loop.
LEMMA KeptStep ==
  ASSUME TypeOK, Life, InboundKept, [Next]_vars
  PROVE  InboundKept'
<1>1. CASE Dial
  <2>1. \A s \in Sessions : transport[s] = "closed" => transport'[s] = "closed"
    BY <1>1 DEF Dial, TypeOK, Life, Sessions
  <2>2. UNCHANGED <<arrivals, hand, events, handled>> /\ arrivals \in Seq(Sessions)
    BY <1>1 DEF Dial, TypeOK, recvVars, wireVars
  <2> QED BY <2>1, <2>2 DEF InboundKept
<1>10. CASE HandshakeFails
  <2>1. \A s \in Sessions : transport[s] = "closed" => transport'[s] = "closed"
    BY <1>10 DEF HandshakeFails, CancelSession, TypeOK
  <2>2. UNCHANGED <<arrivals, hand, events, handled>> /\ arrivals \in Seq(Sessions)
    BY <1>10 DEF HandshakeFails, CancelSession, TypeOK, recvVars, wireVars
  <2> QED BY <2>1, <2>2 DEF InboundKept
<1>2. CASE EmitResync
  <2>1. Queued(events) \subseteq Queued(events')
    BY <1>2, QueuedAppend DEF EmitResync, TypeOK, ResyncEvent
  <2>2. UNCHANGED <<arrivals, hand, handled, transport>>
    BY <1>2 DEF EmitResync, wireVars
  <2> QED BY <2>1, <2>2 DEF InboundKept
<1>3. CASE SessionFails
  <2>1. \A s \in Sessions : transport[s] = "closed" => transport'[s] = "closed"
    BY <1>3 DEF SessionFails, CancelSession, TypeOK
  <2>2. UNCHANGED <<arrivals, hand, events, handled>> /\ arrivals \in Seq(Sessions)
    BY <1>3 DEF SessionFails, CancelSession, TypeOK, recvVars, wireVars
  <2> QED BY <2>1, <2>2 DEF InboundKept
<1>4. CASE RotateToken
  <2>1. \A s \in Sessions : transport[s] = "closed" => transport'[s] = "closed"
    BY <1>4 DEF RotateToken, CancelSession, TypeOK
  <2>2. UNCHANGED <<arrivals, hand, events, handled>> /\ arrivals \in Seq(Sessions)
    BY <1>4 DEF RotateToken, CancelSession, TypeOK, recvVars, wireVars
  <2> QED BY <2>1, <2>2 DEF InboundKept
<1>5. CASE Dispatch
  <2>1. Queued(events) = Queued(events') \cup {Head(events)}
    BY <1>5, QueuedTail DEF Dispatch, TypeOK
  <2>2. /\ handled' = handled \cup ({Head(events)} \ {0})
        /\ UNCHANGED <<arrivals, hand, transport>>
    BY <1>5 DEF Dispatch, ResyncEvent, recvVars
  <2>3. \A n \in 1..Len(arrivals) : n # 0
    BY DEF TypeOK
  <2> QED BY <2>1, <2>2, <2>3 DEF InboundKept
<1>6. ASSUME NEW s \in Sessions, ReceiveEvent(s)
      PROVE  InboundKept'
  <2>1. /\ Len(arrivals) \in Nat
        /\ Len(arrivals') = Len(arrivals) + 1
        /\ 1..Len(arrivals') = 1..Len(arrivals) \cup {Len(arrivals) + 1}
        /\ \A n \in 1..Len(arrivals) : /\ arrivals'[n] = arrivals[n]
                                       /\ arrivals[n] \in Sessions /\ n # 0
        /\ arrivals'[Len(arrivals) + 1] = s
    BY <1>6 DEF ReceiveEvent, TypeOK
  <2>2. /\ hand[s] = 0 /\ hand'[s] = Len(arrivals) + 1
        /\ \A t \in Sessions : t # s => hand'[t] = hand[t]
        /\ UNCHANGED <<events, handled, transport>>
    BY <1>6 DEF ReceiveEvent, TypeOK, Life, Idle
  <2> QED BY <2>1, <2>2 DEF InboundKept
<1>7. ASSUME NEW s \in Sessions, Emit(s)
      PROVE  InboundKept'
  <2>1. \A n \in 1..Len(arrivals) : arrivals[n] \in Sessions
    BY DEF TypeOK
  <2>2. /\ \A t \in Sessions : t # s => hand'[t] = hand[t]
        /\ UNCHANGED <<arrivals, handled, transport>>
    BY <1>7 DEF Emit, TypeOK, wireVars
  <2>3. CASE events' = Append(events, hand[s])
    <3>1. Queued(events') = Queued(events) \cup {hand[s]}
      BY <2>3, QueuedAppend DEF TypeOK
    <3> QED BY <2>1, <2>2, <3>1 DEF InboundKept
  <2>4. CASE EmitMayDrop(s) /\ UNCHANGED events
    BY <2>1, <2>2, <2>4 DEF InboundKept, EmitMayDrop
  <2> QED BY <1>7, <2>3, <2>4 DEF Emit
<1>8. ASSUME NEW s \in Sessions, Break(s)
      PROVE  InboundKept'
  <2>1. \A t \in Sessions : transport[t] = "closed" => transport'[t] = "closed"
    BY <1>8 DEF Break, TypeOK
  <2>2. UNCHANGED <<arrivals, hand, events, handled>> /\ arrivals \in Seq(Sessions)
    BY <1>8 DEF Break, TypeOK, recvVars, wireVars
  <2> QED BY <2>1, <2>2 DEF InboundKept
<1>9. CASE UNCHANGED inboundVars
  BY <1>9 DEF InboundKept, inboundVars
<1> QED
  BY <1>1, <1>2, <1>3, <1>4, <1>5, <1>6, <1>7, <1>8, <1>9, <1>10, InboundMoves

----------------------------------------------------------------------------
\* The invariant holds initially.
LEMMA InvInit ==
  ASSUME Init
  PROVE  IInv
<1>1. Queued(<<>>) = {} /\ Distinct(<<>>)
  BY DEF Queued, Distinct
<1>2. Bound \in [Faults -> Nat]
  BY StreamAssumption DEF Bound, Faults, StreamAssumption
<1>3. TypeOK
  <2>1. /\ events \in Seq(Nat) /\ Len(events) <= EventsCap
        /\ sendCh \in Seq(Nat) /\ Len(sendCh) <= SendCap
        /\ arrivals \in Seq(Sessions)
    BY StreamAssumption DEF Init, StreamAssumption
  <2>2. sess \in 0..MaxSessions /\ seq \in Nat
    BY StreamAssumption DEF Init, StreamAssumption
  <2> QED
    BY <1>2, <2>1, <2>2 DEF Init, TypeOK, SupStates, TransportStates, Idle
<1>4. Life /\ Sending /\ OneLiveSession
  BY DEF Init, Life, Sending, OneLiveSession, Alive, Established, Live, Idle, Senders
<1>5. NumbersAccounted /\ InboundKept
  BY DEF Init, NumbersAccounted, InboundKept
<1>6. Numbered
  BY <1>1 DEF Init, Numbered, Unique, Stamped, SentOnce, Idle
<1> QED BY <1>3, <1>4, <1>5, <1>6 DEF IInv

\* Every step preserves it.
LEMMA InvStep ==
  ASSUME IInv, [Next]_vars
  PROVE  IInv'
BY StreamAssumption, TypeStep, LifeStep, SendingStep, OneLiveStep, AccountedStep, NumberedStep,
   KeptStep
DEF IInv

\* The invariant holds throughout every behaviour of the stream.
THEOREM Invariance == Spec => []IInv
BY InvInit, InvStep, PTL DEF Spec

\* Types, and the capacity of both channels (sendCh and events of
\* ConnectClient) for every number of producers.
THEOREM TypeCorrect == Spec => []TypeOK
<1>1. IInv => TypeOK
  BY DEF IInv
<1> QED BY <1>1, Invariance, PTL

\* Send, the pumps and the pongs: no sequence number is ever unaccounted for.
THEOREM NoNumberVanishes == Spec => []NumbersAccounted
<1>1. IInv => NumbersAccounted
  BY DEF IInv
<1> QED BY <1>1, Invariance, PTL

\* The send pumps of consecutive sessions never send the same event.
THEOREM NoEventSentTwice == Spec => []SentOnce
<1>1. IInv => SentOnce
  BY DEF IInv, Numbered
<1> QED BY <1>1, Invariance, PTL

\* emit exerts back-pressure: only a cancelled session drops an event.
THEOREM NoEventDropped == Spec => []InboundKept
<1>1. IInv => InboundKept
  BY DEF IInv
<1> QED BY <1>1, Invariance, PTL

\* Run holds at most one session that can reach the gateway, and the gate and
\* the pumps are never ahead of the connection callback of their session, for
\* every number of sessions, whichever way the earlier ones ended.
THEOREM SessionsAreExclusive == Spec => []OneLiveSession
<1>1. IInv => OneLiveSession
  BY DEF IInv
<1> QED BY <1>1, Invariance, PTL

----------------------------------------------------------------------------
(***************************************************************************)
(* ConnectClient implements Uplink.  Every step of the client is a step of *)
(* the uplink or changes nothing its callers could see.                    *)
(***************************************************************************)
\* A session that was started has a transport.
Opened == \A s \in Sessions : s <= sess => transport[s] # "none"

LEMMA OpenedStep == ASSUME IInv, Opened, [Next]_vars PROVE Opened'
<1>1. sess \in Nat /\ transport \in [Sessions -> TransportStates]
  BY StreamAssumption DEF IInv, TypeOK
<1>2. CASE Dial
  <2>1. sess' = sess + 1 /\ transport' = [transport EXCEPT ![sess + 1] = "open"]
    BY <1>2 DEF Dial
  <2>2. ASSUME NEW s \in Sessions, s <= sess' PROVE transport'[s] # "none"
    BY <1>1, <2>1, <2>2 DEF Opened, Sessions
  <2> QED BY <2>2 DEF Opened
<1>3. CASE UNCHANGED sess /\ \E t \in {"closed"} : transport' = [transport EXCEPT ![sess] = t]
  BY <1>1, <1>3 DEF Opened
<1>4. ASSUME NEW s \in Sessions, UNCHANGED sess,
             \E t \in {"silent", "failed"} : transport' = [transport EXCEPT ![s] = t]
      PROVE  Opened'
  BY <1>1, <1>4 DEF Opened
<1>5. CASE UNCHANGED <<sess, transport>>
  BY <1>5 DEF Opened
<1> QED BY <1>2, <1>3, <1>4, <1>5
  DEF Next, Supervise, DialFails, HandshakeDone, HandshakeFails, CloseGate, CallbackReturns, EmitResync, SessionFails, RotateToken,
      CancelSession, Backoff, Dispatch, Stamp, Enqueue, Produce, ReceivePump, SendPump, ReceivePing,
      ReceiveEvent, ReceiveFails, Emit, PumpTake, PumpSend, PumpCancelled, Break, vars, supVars

\* The event with the pump is the first of the wire.
LEMMA Prefixed ==
  ASSUME NEW q \in Seq(Nat), NEW a \in Nat, NEW e \in Nat
  PROVE  LET w == <<a>> \o q
         IN /\ w \in Seq(Nat) /\ w # <<>> /\ Len(w) = Len(q) + 1
            /\ Head(w) = a /\ Tail(w) = q
            /\ Append(w, e) = <<a>> \o Append(q, e)
            /\ q # <<>> => <<Head(q)>> \o Tail(q) = q
<1> DEFINE w == <<a>> \o q
<1>1. <<a>> \in Seq(Nat) /\ Len(<<a>>) = 1 /\ <<a>>[1] = a /\ <<e>> \in Seq(Nat)
  OBVIOUS
<1>2. /\ w \in Seq(Nat) /\ Len(w) = 1 + Len(q)
      /\ \A i \in 1..1 + Len(q) : w[i] = IF i <= 1 THEN <<a>>[i] ELSE q[i - 1]
  BY <1>1, ConcatProperties, Zenon
<1>3. Len(q) \in Nat
  OBVIOUS
<1>4. w[1] = a /\ \A i \in 1..Len(q) : w[i + 1] = q[i]
  <2> HIDE DEF w
  <2>1. w[1] = a
    BY <1>1, <1>2, <1>3
  <2>2. ASSUME NEW i \in 1..Len(q) PROVE w[i + 1] = q[i]
    <3>1. i + 1 \in 1..1 + Len(q) /\ ~(i + 1 <= 1) /\ (i + 1) - 1 = i
      BY <1>3
    <3>2. w[i + 1] = q[(i + 1) - 1]
      BY <1>2, <3>1, Zenon
    <3> QED BY <3>1, <3>2
  <2> QED BY <2>1, <2>2
<1>5. Append(w, e) = <<a>> \o Append(q, e)
  <2>1. Append(w, e) = w \o <<e>> /\ Append(q, e) = q \o <<e>>
    BY <1>2, AppendIsConcat
  <2>2. (<<a>> \o q) \o <<e>> = <<a>> \o (q \o <<e>>)
    BY <1>1, ConcatAssociative
  <2> QED BY <2>1, <2>2
<1>6. q # <<>> => <<Head(q)>> \o Tail(q) = q
  BY HeadTailProperties, ConcatProperties
<1> HIDE DEF w
<1>7. w # <<>>
  BY <1>2, <1>3
<1>8. Head(w) = a /\ Tail(w) \in Seq(Nat) /\ Len(Tail(w)) = Len(q)
      /\ \A i \in 1..Len(q) : Tail(w)[i] = q[i]
  BY <1>2, <1>3, <1>4, <1>7, HeadTailProperties
<1>9. Tail(w) = q
  BY <1>8, SeqEqual
<1> QED BY <1>2, <1>3, <1>5, <1>6, <1>7, <1>8, <1>9 DEF w

\* The views of the supervisor's states.
LEMMA Views ==
  ASSUME IInv
  PROVE  /\ sendCh \in Seq(Nat) /\ \A s \in Sessions : out[s] \in Nat
         /\ sup \notin Established => Link = "down"
         /\ sup \in {"callback", "resync"} => Link = "opening"
         /\ sup = "select" => /\ sess \in Sessions /\ transport[sess] \in {"open", "silent", "failed"}
                              /\ Link = IF transport[sess] = "open" THEN "up" ELSE "broken"
         /\ Link = "up" => sup = "select" /\ transport[sess] = "open"
         /\ ~(Link = "up" /\ pump[sess] = "send") => Wire = sendCh
         /\ Link = "up" /\ pump[sess] = "send" => Wire = <<out[sess]>> \o sendCh
<1>1. sendCh \in Seq(Nat) /\ \A s \in Sessions : out[s] \in Nat
  BY DEF IInv, TypeOK
<1>2. sup \notin Established => Link = "down"
  BY DEF Link, Established
<1>3. sup \in {"callback", "resync"} => Link = "opening"
  BY DEF Link
<1>4. sup = "select" => sess \in Sessions /\ transport[sess] \in {"open", "silent", "failed"}
  BY StreamAssumption DEF IInv, TypeOK, Life, Alive, Live, Sessions
<1>5. sup = "select" => Link = IF transport[sess] = "open" THEN "up" ELSE "broken"
  BY DEF Link
<1>6. sup \in SupStates
  BY DEF IInv, TypeOK
<1>7. Link = "up" => sup = "select" /\ transport[sess] = "open"
  BY <1>2, <1>3, <1>5, <1>6 DEF SupStates, Established
<1> QED BY <1>1, <1>2, <1>3, <1>4, <1>5, <1>7 DEF Wire

\* The session ends: what the pump is sending goes down with it.
LEMMA CloseRefines ==
  ASSUME IInv, CancelSession, sup = "select", sup' \in {"rotated", "failed"}
  PROVE  \E s \in Sessions : U!End(s)
<1>1. /\ sup = "select" /\ transport' = [transport EXCEPT ![sess] = "closed"]
      /\ UNCHANGED <<sess, pump, out, sendCh, delivered>>
  BY DEF CancelSession, pumpVars, wireVars
<1>2. sess \in Sessions /\ transport[sess] \in {"open", "silent", "failed"} /\ sendCh \in Seq(Nat)
      /\ out[sess] \in Nat
  BY <1>1, Views
<1>3. Link \in {"up", "broken"} /\ Link' = "down"
  BY <1>1, Views DEF Link
<1>4. Wire' = sendCh
  BY <1>1, <1>3 DEF Wire
<1>5. UNCHANGED Wire \/ (Link = "up" /\ Wire # <<>> /\ Wire' = Tail(Wire))
  <2>1. CASE Link = "up" /\ pump[sess] = "send"
    <3>1. Wire = <<out[sess]>> \o sendCh
      BY <2>1, Views
    <3> QED BY <1>2, <1>4, <2>1, <3>1, Prefixed
  <2>2. CASE ~(Link = "up" /\ pump[sess] = "send")
    BY <1>4, <2>2, Views
  <2> QED BY <2>1, <2>2
<1>6. Stragglers' \in {Stragglers, Stragglers \cup {sess}}
  <2>1. transport \in [Sessions -> TransportStates]
    BY DEF IInv, TypeOK
  <2>2. \A s \in Sessions : /\ s # sess => transport'[s] = transport[s]
                            /\ s = sess => transport'[s] = "closed"
    BY <1>1, <2>1
  <2>3. CASE pump[sess] = "select"
    <3>1. Stragglers' = Stragglers \cup {sess}
      BY <1>1, <1>2, <2>2, <2>3 DEF Stragglers
    <3> QED BY <3>1
  <2>4. CASE pump[sess] # "select"
    <3>1. Stragglers' = Stragglers
      BY <1>1, <1>2, <2>2, <2>4 DEF Stragglers
    <3> QED BY <3>1
  <2> QED BY <2>3, <2>4
<1>7. U!End(sess)
  BY <1>1, <1>3, <1>5, <1>6 DEF U!End, U!Interrupt
<1> QED BY <1>2, <1>7

\* An event joins sendCh.
LEMMA QueueRefines ==
  ASSUME IInv, NEW e \in Nat, Len(sendCh) < SendCap, sendCh' = Append(sendCh, e),
         UNCHANGED <<sup, sess, transport, pump, out, delivered>>
  PROVE  U!SomeQueued
<1>1. sendCh \in Seq(Nat) /\ Len(sendCh) \in Nat /\ SendCap \in Nat
  BY StreamAssumption, Views
<1>2. UNCHANGED Link /\ UNCHANGED Stragglers
  BY DEF Link, Stragglers
<1>3. Wire \in Seq(Nat) /\ Len(Wire) < SendCap + 1 /\ Wire' = Append(Wire, e)
  <2>1. CASE Link = "up" /\ pump[sess] = "send"
    <3>1. Wire = <<out[sess]>> \o sendCh /\ out[sess] \in Nat
      BY <2>1, Views
    <3>2. Wire' = <<out[sess]>> \o Append(sendCh, e)
      BY <1>2, <2>1 DEF Wire
    <3>3. Wire \in Seq(Nat) /\ Len(Wire) = Len(sendCh) + 1 /\ Wire' = Append(Wire, e)
      BY <1>1, <3>1, <3>2, Prefixed
    <3> QED BY <1>1, <3>3
  <2>2. CASE ~(Link = "up" /\ pump[sess] = "send")
    <3>1. Wire = sendCh /\ Wire' = Append(sendCh, e)
      BY <1>2, <2>2 DEF Wire
    <3> QED BY <1>1, <3>1
  <2> QED BY <2>1, <2>2
<1>4. Wire' # <<>> /\ Wire'[Len(Wire')] = e
  <2> HIDE DEF Wire
  <2> QED BY <1>3, AppendProperties
<1> QED BY <1>2, <1>3, <1>4 DEF U!SomeQueued, U!Queue

\* A session whose pump runs is the current one, or was cancelled.
LEMMA PumpsOf ==
  ASSUME IInv, Opened, NEW s \in Sessions, pump[s] # "off"
  PROVE  /\ transport[s] \in {"open", "silent", "failed", "closed"}
         /\ transport[s] # "closed" => sup = "select" /\ s = sess
         /\ transport[s] = "closed" => ~(sup = "select" /\ s = sess)
<1>1. s <= sess /\ sess \in Nat /\ s \in Nat
  BY StreamAssumption DEF IInv, TypeOK, Life, Sessions
<1>2. transport[s] \in {"open", "silent", "failed", "closed"}
  BY <1>1 DEF IInv, TypeOK, TransportStates, Opened
<1>3. transport[s] # "closed" => s = sess /\ sup \in Alive
  BY <1>2 DEF IInv, Life, Live
<1>4. s = sess /\ sup \in Alive => sup = "select"
  BY DEF IInv, Life
<1>5. sup = "select" /\ s = sess => transport[s] # "closed"
  BY Views
<1> QED BY <1>2, <1>3, <1>4, <1>5

LEMMA TakeRefines ==
  ASSUME IInv, Opened, NEW s \in Sessions, PumpTake(s)
  PROVE  U!Lose \/ U!StragglerEnds(s) \/ UNCHANGED <<Link, Wire, Stragglers, delivered>>
<1>1. /\ pump[s] = "select" /\ sendCh # <<>> /\ sendCh' = Tail(sendCh) /\ sendCh \in Seq(Nat)
      /\ UNCHANGED <<sup, sess, transport, delivered>>
      /\ pump' = [pump EXCEPT ![s] = "send"] /\ out' = [out EXCEPT ![s] = Head(sendCh)]
  BY Views DEF PumpTake, supVars, wireVars
<1>2. /\ pump'[s] = "send" /\ out'[s] = Head(sendCh)
      /\ \A t \in Sessions \ {s} : pump'[t] = pump[t] /\ out'[t] = out[t]
  BY <1>1 DEF IInv, TypeOK
<1>3. UNCHANGED Link
  BY <1>1 DEF Link
<1>4. Head(sendCh) \in Nat /\ Tail(sendCh) \in Seq(Nat) /\ <<Head(sendCh)>> \o Tail(sendCh) = sendCh
  BY <1>1, QueuedTail, Prefixed
<1>5. CASE transport[s] # "closed"
  <2>1. s = sess /\ sup = "select" /\ Wire = sendCh
    BY <1>1, <1>5, PumpsOf, Views
  <2>2. UNCHANGED Stragglers
    BY <1>1, <1>2, <1>5 DEF Stragglers
  <2>3. CASE Link = "up"
    <3>1. Wire' = <<Head(sendCh)>> \o Tail(sendCh)
      BY <1>1, <1>2, <1>3, <2>1, <2>3 DEF Wire
    <3> QED BY <1>1, <1>3, <1>4, <2>1, <2>2, <3>1
  <2>4. CASE Link # "up"
    <3>1. Link = "broken"
      BY <2>1, <2>4, Views
    <3>2. Wire' = Tail(sendCh)
      BY <1>1, <1>3, <2>4 DEF Wire
    <3> QED BY <1>1, <1>3, <2>1, <2>2, <3>1, <3>2 DEF U!Lose
  <2> QED BY <2>3, <2>4
<1>6. CASE transport[s] = "closed"
  <2>1. ~(sup = "select" /\ s = sess)
    BY <1>1, <1>6, PumpsOf
  <2>2. s \in Stragglers /\ Stragglers' = Stragglers \ {s}
    BY <1>1, <1>2, <1>6 DEF Stragglers
  <2>3. CASE Link = "up" /\ pump[sess] = "send"
    <3>1. sess \in Sessions \ {s} /\ Wire = <<out[sess]>> \o sendCh /\ out[sess] \in Nat
      BY <2>1, <2>3, Views
    <3>2. Wire' = <<out[sess]>> \o Tail(sendCh)
      BY <1>1, <1>2, <1>3, <2>3, <3>1 DEF Wire
    <3>3. Head(Wire) = out[sess] /\ Tail(Wire) = sendCh /\ Len(Wire) = Len(sendCh) + 1
      BY <1>1, <3>1, Prefixed
    <3>4. Len(sendCh) \in Nat \ {0}
      BY <1>1, EmptySeq
    <3>5. Len(Wire) > 1
      BY <3>3, <3>4
    <3>6. Wire' = <<Head(Wire)>> \o Tail(Tail(Wire))
      BY <3>2, <3>3
    <3> QED BY <1>1, <1>3, <2>2, <2>3, <3>5, <3>6 DEF U!StragglerEnds
  <2>4. CASE ~(Link = "up" /\ pump[sess] = "send")
    <3>1. Wire = sendCh
      BY <2>4, Views
    <3>2. ~(Link = "up" /\ pump'[sess] = "send")
      BY <1>2, <2>1, <2>4, Views
    <3>3. Wire' = Tail(sendCh)
      BY <1>1, <1>3, <3>2 DEF Wire
    <3> QED BY <1>1, <1>3, <2>2, <3>1, <3>3 DEF U!StragglerEnds
  <2> QED BY <2>3, <2>4
<1> QED BY <1>5, <1>6

LEMMA SendRefines ==
  ASSUME IInv, Opened, NEW s \in Sessions, PumpSend(s)
  PROVE  U!Deliver \/ UNCHANGED <<Link, Wire, Stragglers, delivered>>
<1>1. /\ pump[s] = "send" /\ UNCHANGED <<sup, sess, transport, sendCh>> /\ sendCh \in Seq(Nat)
      /\ pump \in [Sessions -> {"off", "select", "send"}] /\ out \in [Sessions -> Nat]
      /\ out' = [out EXCEPT ![s] = Idle]
      /\ \/ transport[s] \in {"open", "silent"} /\ pump' = [pump EXCEPT ![s] = "select"]
         \/ transport[s] \notin {"open", "silent"} /\ pump' = [pump EXCEPT ![s] = "off"]
  BY Views DEF PumpSend, supVars, IInv, TypeOK
<1>2. /\ pump'[s] \in {"select", "off"} /\ (transport[s] = "closed" => pump'[s] = "off")
      /\ \A t \in Sessions \ {s} : pump'[t] = pump[t] /\ out'[t] = out[t]
  BY <1>1
<1>3. UNCHANGED Link
  BY <1>1 DEF Link
<1>4. UNCHANGED Stragglers
  BY <1>1, <1>2 DEF Stragglers
<1>5. CASE transport[s] = "open"
  <2>1. s = sess /\ sup = "select" /\ Link = "up"
    BY <1>1, <1>5, PumpsOf, Views
  <2>2. Wire = <<out[s]>> \o sendCh /\ out[s] \in Nat
    BY <1>1, <2>1, Views
  <2>3. Wire' = sendCh
    BY <1>1, <1>2, <2>1 DEF Wire
  <2>4. Wire # <<>> /\ Head(Wire) = out[s] /\ Tail(Wire) = sendCh
    BY <1>1, <2>2, Prefixed
  <2>5. delivered' = Acknowledge(delivered, Head(Wire))
    BY <1>5, <2>4 DEF PumpSend, Acknowledge
  <2> QED BY <1>3, <1>4, <2>1, <2>3, <2>4, <2>5 DEF U!Deliver
<1>6. CASE transport[s] # "open"
  <2>1. UNCHANGED delivered
    BY <1>6 DEF PumpSend
  <2>2. ~(Link = "up" /\ s = sess)
    BY <1>6, Views
  <2>3. Link = "up" => sess \in Sessions \ {s}
    BY <2>2, Views
  <2>4. UNCHANGED Wire
    BY <1>1, <1>2, <1>3, <2>3 DEF Wire
  <2> QED BY <1>3, <1>4, <2>1, <2>4
<1> QED BY <1>5, <1>6

LEMMA CancelledRefines ==
  ASSUME IInv, Opened, NEW s \in Sessions, PumpCancelled(s)
  PROVE  U!StragglerEnds(s)
<1>1. /\ pump[s] = "select" /\ transport[s] = "closed" /\ pump' = [pump EXCEPT ![s] = "off"]
      /\ UNCHANGED <<sup, sess, transport, sendCh, out, delivered>>
  BY DEF PumpCancelled, supVars, wireVars
<1>2. pump'[s] = "off" /\ \A t \in Sessions \ {s} : pump'[t] = pump[t]
  BY <1>1 DEF IInv, TypeOK
<1>3. UNCHANGED Link
  BY <1>1 DEF Link
<1>4. s \in Stragglers /\ Stragglers' = Stragglers \ {s}
  BY <1>1, <1>2 DEF Stragglers
<1>5. Link = "up" => sess \in Sessions \ {s}
  BY <1>1, PumpsOf, Views
<1>6. UNCHANGED Wire
  BY <1>1, <1>2, <1>3, <1>5 DEF Wire
<1> QED BY <1>1, <1>3, <1>4, <1>6 DEF U!StragglerEnds

LEMMA BreakRefines ==
  ASSUME IInv, NEW s \in Sessions, Break(s)
  PROVE  U!Break \/ UNCHANGED <<Link, Wire, Stragglers, delivered>>
<1>1. /\ UNCHANGED <<sup, sess, pump, out, sendCh, delivered>> /\ sendCh \in Seq(Nat)
      /\ transport \in [Sessions -> TransportStates]
  BY Views DEF Break, supVars, pumpVars, wireVars, IInv, TypeOK
<1>2. PICK t \in {"silent", "failed"} : transport' = [transport EXCEPT ![s] = t]
  BY DEF Break
<1>3. transport[s] \in {"open", "silent"}
  BY DEF Break
<1>4. transport'[s] = t /\ \A u \in Sessions \ {s} : transport'[u] = transport[u]
  BY <1>1, <1>2
<1>5. s = sess /\ sup \in Alive
  BY <1>3 DEF IInv, Life, Live
<1>6. UNCHANGED Stragglers
  BY <1>1, <1>3, <1>4 DEF Stragglers
<1>7. CASE sup = "select" /\ transport[s] = "open"
  <2>1. Link = "up" /\ Link' = "broken"
    BY <1>1, <1>4, <1>5, <1>7 DEF Link
  <2>2. Wire' = sendCh
    BY <1>1, <2>1 DEF Wire
  <2>3. CASE pump[sess] = "send"
    <3>1. Wire = <<out[sess]>> \o sendCh /\ out[sess] \in Nat
      BY <1>5, <2>1, <2>3, Views
    <3>2. Wire # <<>> /\ Tail(Wire) = sendCh
      BY <1>1, <3>1, Prefixed
    <3> QED BY <1>1, <1>6, <2>1, <2>2, <3>2 DEF U!Break, U!Interrupt
  <2>4. CASE pump[sess] # "send"
    <3>1. Wire = sendCh
      BY <2>4, Views
    <3> QED BY <1>1, <1>6, <2>1, <2>2, <3>1 DEF U!Break, U!Interrupt
  <2> QED BY <2>3, <2>4
<1>8. CASE sup # "select" \/ transport[s] = "silent"
  <2>1. UNCHANGED Link /\ Link # "up"
    BY <1>1, <1>4, <1>5, <1>8 DEF Link, Alive
  <2>2. UNCHANGED Wire
    BY <1>1, <2>1 DEF Wire
  <2> QED BY <1>1, <1>6, <2>1, <2>2
<1> QED BY <1>3, <1>7, <1>8

\* The steps before the callback and after the cancel are not seen.
LEMMA DialRefines ==
  ASSUME IInv, Dial PROVE UNCHANGED <<Link, Wire, Stragglers, delivered>>
<1>1. /\ sup = "connect" /\ sup' = "handshake" /\ UNCHANGED <<pump, out, sendCh, delivered>>
      /\ transport' = [transport EXCEPT ![sess + 1] = "open"] /\ sess' = sess + 1
  BY DEF Dial, pumpVars, wireVars
<1>2. Link = "down" /\ Link' = "down"
  BY <1>1 DEF Link
<1>3. UNCHANGED Wire
  BY <1>1, <1>2 DEF Wire
<1>4. sess + 1 \in Sessions /\ transport[sess + 1] = "none" /\ transport \in [Sessions -> TransportStates]
  BY StreamAssumption DEF Dial, IInv, TypeOK, Life, Sessions
<1>5. UNCHANGED Stragglers
  BY <1>1, <1>4 DEF Stragglers
<1> QED BY <1>1, <1>2, <1>3, <1>5

LEMMA HandshakeFailsRefines ==
  ASSUME IInv, HandshakeFails PROVE UNCHANGED <<Link, Wire, Stragglers, delivered>>
<1>1. /\ sup = "handshake" /\ sup' = "failed" /\ UNCHANGED <<sess, pump, out, sendCh, delivered>>
      /\ transport' = [transport EXCEPT ![sess] = "closed"]
  BY DEF HandshakeFails, CancelSession, pumpVars, wireVars
<1>2. Link = "down" /\ Link' = "down"
  BY <1>1 DEF Link
<1>3. UNCHANGED Wire
  BY <1>1, <1>2 DEF Wire
<1>4. sess \in Sessions /\ pump[sess] = "off" /\ transport \in [Sessions -> TransportStates]
  BY <1>1, StreamAssumption DEF IInv, TypeOK, Life, Alive, Sessions
<1>5. UNCHANGED Stragglers
  BY <1>1, <1>4 DEF Stragglers
<1> QED BY <1>1, <1>2, <1>3, <1>5

LEMMA HandshakeRefines == ASSUME IInv, HandshakeDone PROVE U!Open
<1>1. /\ sup = "handshake" /\ sup' = "callback"
      /\ UNCHANGED <<sess, transport, pump, out, sendCh, delivered>>
  BY DEF HandshakeDone, pumpVars, wireVars
<1>2. Link = "down" /\ Link' = "opening"
  BY <1>1 DEF Link
<1>3. UNCHANGED Wire
  BY <1>1, <1>2 DEF Wire
<1>4. UNCHANGED Stragglers
  BY <1>1 DEF Stragglers
<1> QED BY <1>1, <1>2, <1>3, <1>4 DEF U!Open

LEMMA StartRefines ==
  ASSUME IInv, sup \in {"callback", "resync"}, StartPumps,
         UNCHANGED <<sess, transport, out, sendCh, delivered>>
  PROVE  U!Start
<1>1. /\ sup' = "select" /\ pump' = [pump EXCEPT ![sess] = "select"]
      /\ pump \in [Sessions -> {"off", "select", "send"}]
  BY DEF StartPumps, IInv, TypeOK
<1>2. sess \in Sessions /\ transport[sess] \in {"open", "silent", "failed"}
  BY StreamAssumption DEF IInv, TypeOK, Life, Alive, Live, Sessions
<1>3. Link = "opening" /\ Link' \in {"up", "broken"}
  BY <1>1 DEF Link
<1>4. Wire = sendCh /\ Wire' = sendCh
  BY <1>1, <1>2, <1>3 DEF Wire
<1>5. UNCHANGED Stragglers
  BY <1>1, <1>2 DEF Stragglers
<1> QED BY <1>3, <1>4, <1>5 DEF U!Start

LEMMA NextRefines == ASSUME IInv, Opened, [Next]_vars PROVE [U!UplinkNext]_(U!uplinkVars)
<1> USE DEF U!UplinkNext, U!uplinkVars
<1>1. CASE UNCHANGED <<sup, sess, transport, pump, out, sendCh, delivered>>
  <2>1. UNCHANGED <<Link, Stragglers>>
    BY <1>1 DEF Link, Stragglers
  <2>2. UNCHANGED Wire
    BY <1>1, <2>1 DEF Wire
  <2> QED BY <1>1, <2>1, <2>2
<1>2. CASE Dial \/ HandshakeFails \/ HandshakeDone
  BY <1>2, DialRefines, HandshakeFailsRefines, HandshakeRefines
<1>3. CASE DialFails \/ CloseGate \/ Backoff \/ (CallbackReturns /\ sup' = "resync")
  <2>1. UNCHANGED <<sess, transport, pump, out, sendCh, delivered>>
    BY <1>3 DEF DialFails, CloseGate, Backoff, CallbackReturns, StartPumps, pumpVars, wireVars
  <2>2. UNCHANGED Link /\ Link # "up"
    BY <1>3 DEF DialFails, CloseGate, Backoff, CallbackReturns, Link
  <2>3. UNCHANGED <<Wire, Stragglers>>
    BY <2>1, <2>2 DEF Wire, Stragglers
  <2> QED BY <2>1, <2>2, <2>3
<1>4. CASE (CallbackReturns /\ sup' # "resync") \/ EmitResync
  <2>1. sup \in {"callback", "resync"} /\ StartPumps
        /\ UNCHANGED <<sess, transport, out, sendCh, delivered>>
    BY <1>4 DEF CallbackReturns, EmitResync, wireVars
  <2> QED BY <2>1, StartRefines
<1>5. CASE SessionFails \/ RotateToken
  <2>1. CancelSession /\ sup = "select" /\ sup' \in {"rotated", "failed"}
    BY <1>5 DEF SessionFails, RotateToken
  <2> QED BY <2>1, CloseRefines
<1>6. ASSUME NEW x \in Senders, Enqueue(x) PROVE U!UplinkNext
  <2>1. stamped[x] \in Nat /\ Len(sendCh) < SendCap /\ sendCh' = Append(sendCh, stamped[x])
        /\ UNCHANGED <<sup, sess, transport, pump, out, delivered>>
    BY <1>6 DEF Enqueue, IInv, TypeOK, supVars, pumpVars, wireVars
  <2> QED BY <2>1, QueueRefines
<1>7. ASSUME NEW s \in Sessions, ReceivePing(s) PROVE [U!UplinkNext]_(U!uplinkVars)
  <2>1. UNCHANGED <<sup, sess, transport, pump, out, delivered>> /\ Pong \in Nat
    BY <1>7 DEF ReceivePing, supVars, pumpVars, wireVars, Pong
  <2>2. CASE Len(sendCh) < SendCap /\ sendCh' = Append(sendCh, Pong)
    BY <2>1, <2>2, QueueRefines
  <2>3. CASE UNCHANGED sendCh
    BY <1>1, <2>1, <2>3
  <2> QED BY <1>7, <2>2, <2>3 DEF ReceivePing, QueuePong
<1>8. ASSUME NEW s \in Sessions, PumpTake(s) PROVE [U!UplinkNext]_(U!uplinkVars)
  BY <1>8, TakeRefines
<1>9. ASSUME NEW s \in Sessions, PumpSend(s) PROVE [U!UplinkNext]_(U!uplinkVars)
  BY <1>9, SendRefines
<1>10. ASSUME NEW s \in Sessions, PumpCancelled(s) PROVE [U!UplinkNext]_(U!uplinkVars)
  BY <1>10, CancelledRefines
<1>11. ASSUME NEW s \in Sessions, Break(s) PROVE [U!UplinkNext]_(U!uplinkVars)
  BY <1>11, BreakRefines
<1>12. CASE \/ Dispatch
            \/ \E x \in Senders : Stamp(x)
            \/ \E p \in Producers : Produce(p)
            \/ \E s \in Sessions : ReceiveEvent(s) \/ ReceiveFails(s) \/ Emit(s)
            \/ UNCHANGED vars
  BY <1>1, <1>12 DEF Dispatch, Stamp, Produce, ReceiveEvent, ReceiveFails, Emit, vars, supVars,
                     pumpVars, wireVars
<1> QED
  BY <1>2, <1>3, <1>4, <1>5, <1>6, <1>7, <1>8, <1>9, <1>10, <1>11, <1>12
  DEF Next, Supervise, ReceivePump, SendPump

(***************************************************************************)
(* ConnectClient implements Uplink, for every capacity, every number of    *)
(* callers and of sessions: what Send has queued leaves in that order and  *)
(* at most once, reaches the gateway only over a session that is up, and   *)
(* is lost only with a session that breaks or to the pump of one that has  *)
(* ended.                                                                  *)
(***************************************************************************)
THEOREM Refinement == Spec => ImplementsUplink
<1>1. Init => U!UplinkInit
  <2> SUFFICES ASSUME Init PROVE U!UplinkInit
    OBVIOUS
  <2>1. Link = "down"
    BY DEF Init, Link
  <2>2. Wire = <<>> /\ Stragglers = {}
    BY <2>1 DEF Init, Wire, Stragglers
  <2> QED BY <2>1, <2>2 DEF U!UplinkInit
<1>2. Init => Opened
  BY StreamAssumption DEF Init, Opened, Sessions
<1>3. Spec => []Opened
  BY <1>2, OpenedStep, Invariance, PTL DEF Spec
<1>4. Spec => [][U!UplinkNext]_(U!uplinkVars)
  BY <1>3, NextRefines, Invariance, PTL DEF Spec
<1> QED BY <1>1, <1>4, PTL DEF Spec, ImplementsUplink, U!UplinkSpec
=============================================================================
