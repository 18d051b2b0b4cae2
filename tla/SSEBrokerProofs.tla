--------------------------- MODULE SSEBrokerProofs ---------------------------
(***************************************************************************)
(* Proofs about SSEBroker, for any number of connections, any messages and *)
(* any channel capacity.                                                   *)
(*                                                                         *)
(* NoPanic is not inductive: that a send never meets a closed channel      *)
(* rests on what the lock separates.  LockDiscipline says it: a Broadcast  *)
(* in its loop works on registered channels, none of which is closed,      *)
(* because Stop closes only registered channels, only while no Broadcast   *)
(* is in its loop, and leaves none of them registered when it unlocks.     *)
(***************************************************************************)
EXTENDS SSEBroker, TLAPS

\* What the owners of b.mu may rely on.
LockDiscipline ==
    /\ Broadcasting => NoWriter
    /\ pending \subseteq clients
    /\ ~Broadcasting => pending = {}
    /\ toClose \subseteq clients
    /\ toClose \cap closed = {}
    /\ NoWriter => toClose = {} /\ clients \cap closed = {}

IInv ==
    /\ TypeOK
    /\ LockDiscipline
    /\ NoPanic
    /\ RegisteredHasHandler
    /\ SubscribedUntilStop

\* The invariant holds of the broker NewSSEBroker returns.
LEMMA InitIInv == Init => IInv
<1> SUFFICES ASSUME Init PROVE IInv
  OBVIOUS
<1>1. TypeOK
  <2>1. buf \in [Client -> Seq(Message)]
    BY DEF Init
  <2>2. \A c \in Client : Len(buf[c]) <= BufSize
    <3>1. Len(<<>>) = 0
      OBVIOUS
    <3>2. \A c \in Client : buf[c] = <<>>
      BY DEF Init
    <3>3. \A c \in Client : Len(buf[c]) = 0
      BY <3>1, <3>2, Zenon
    <3>4. 0 <= BufSize
      BY BrokerAssumption
    <3> QED
      BY <3>3, <3>4, Zenon
  <2>3. \A c \in Client : (handler[c] = "write") = (writing[c] # None)
    BY DEF Init
  <2>4. /\ handler \in [Client -> HandlerState]
        /\ writing \in [Client -> Message \cup {None}]
    BY DEF Init, HandlerState
  <2>5. /\ clients \subseteq Client /\ closed \subseteq Client
        /\ toClose \subseteq Client /\ pending \subseteq Client
        /\ ctxDone \subseteq Client
        /\ bcast \in Message \cup {None}
        /\ stop \in {"no", "signalled", "closing", "done"}
        /\ stopCh \in BOOLEAN /\ crashed \in BOOLEAN
    BY DEF Init
  <2> QED
    BY <2>1, <2>2, <2>3, <2>4, <2>5 DEF TypeOK
<1>2. LockDiscipline /\ NoPanic /\ RegisteredHasHandler /\ SubscribedUntilStop
  BY DEF Init, LockDiscipline, NoPanic, Broadcasting, NoWriter,
     RegisteredHasHandler, SubscribedUntilStop
<1> QED
  BY <1>1, <1>2 DEF IInv

-----------------------------------------------------------------------------
\* Every step takes values of the right types to values of the right types:
\* no channel ever holds more than BufSize messages.  LockDiscipline is needed
\* for a send to have a message to send.
LEMMA TypeStep == TypeOK /\ LockDiscipline /\ [Next]_brokerVars => TypeOK'
<1> SUFFICES ASSUME TypeOK, LockDiscipline, [Next]_brokerVars PROVE TypeOK'
  OBVIOUS
<1> USE BrokerAssumption DEF TypeOK, HandlerState, stopVars, bcastVars, handlerVars
<1>1. ASSUME NEW c \in Client, Connect(c) PROVE TypeOK'
  BY <1>1 DEF Connect, Goto
<1>2. ASSUME NEW c \in Client, Subscribe(c) PROVE TypeOK'
  BY <1>2 DEF Subscribe, Goto
<1>3. ASSUME NEW c \in Client, Receive(c) PROVE TypeOK'
  BY <1>3 DEF Receive, Goto
<1>4. ASSUME NEW c \in Client, ReceiveClosed(c) PROVE TypeOK'
  BY <1>4 DEF ReceiveClosed, Goto
<1>5. ASSUME NEW c \in Client, Write(c) PROVE TypeOK'
  BY <1>5 DEF Write, Goto
<1>6. ASSUME NEW c \in Client, WriteError(c) PROVE TypeOK'
  BY <1>6 DEF WriteError, Goto
<1>7. ASSUME NEW c \in Client, Disconnect(c) PROVE TypeOK'
  BY <1>7 DEF Disconnect
<1>8. ASSUME NEW c \in Client, ContextDone(c) PROVE TypeOK'
  BY <1>8 DEF ContextDone, Goto
<1>9. ASSUME NEW c \in Client, Unsubscribe(c) PROVE TypeOK'
  BY <1>9 DEF Unsubscribe, Goto
<1>10. ASSUME NEW m \in Message, BroadcastBegin(m) PROVE TypeOK'
  BY <1>10 DEF BroadcastBegin
<1>11. ASSUME NEW c \in Client, BroadcastSend(c) PROVE TypeOK'
  <2>1. bcast \in Message
    BY <1>11 DEF BroadcastSend, LockDiscipline, Broadcasting
  <2>2. CASE buf' = buf
    BY <1>11, <2>2 DEF BroadcastSend
  <2>3. CASE /\ Len(buf[c]) < BufSize
             /\ buf' = [buf EXCEPT ![c] = Append(@, bcast)]
    BY <1>11, <2>1, <2>3 DEF BroadcastSend
  <2> QED
    BY <1>11, <2>2, <2>3 DEF BroadcastSend
<1>12. CASE BroadcastEnd
  BY <1>12 DEF BroadcastEnd
<1>13. CASE Stop
  BY <1>13 DEF Stop, StopSignal, StopLock, StopClose, StopEnd
<1>14. CASE UNCHANGED brokerVars
  BY <1>14 DEF brokerVars
<1> QED
  BY <1>1, <1>2, <1>3, <1>4, <1>5, <1>6, <1>7, <1>8, <1>9, <1>10, <1>11, <1>12,
     <1>13, <1>14 DEF Next, HandleSSE, BroadcastStep

\* Every step of every goroutine leaves the owners of b.mu what they rely on.
LEMMA LockStep == LockDiscipline /\ [Next]_brokerVars => LockDiscipline'
<1> SUFFICES ASSUME LockDiscipline, [Next]_brokerVars PROVE LockDiscipline'
  OBVIOUS
<1> USE DEF LockDiscipline, Broadcasting, NoWriter, LockFree, stopVars, bcastVars,
        handlerVars
<1>1. ASSUME NEW c \in Client, Subscribe(c) PROVE LockDiscipline'
  BY <1>1 DEF Subscribe
<1>2. ASSUME NEW c \in Client, Unsubscribe(c) PROVE LockDiscipline'
  BY <1>2 DEF Unsubscribe
<1>3. ASSUME NEW c \in Client,
             \/ Connect(c)
             \/ Receive(c)
             \/ ReceiveClosed(c)
             \/ Write(c)
             \/ WriteError(c)
             \/ Disconnect(c)
             \/ ContextDone(c)
      PROVE  LockDiscipline'
  BY <1>3 DEF Connect, Receive, ReceiveClosed, Write, WriteError, Disconnect,
     ContextDone
<1>4. ASSUME NEW m \in Message, BroadcastBegin(m) PROVE LockDiscipline'
  BY <1>4, BrokerAssumption DEF BroadcastBegin
<1>5. ASSUME NEW c \in Client, BroadcastSend(c) PROVE LockDiscipline'
  BY <1>5 DEF BroadcastSend
<1>6. CASE BroadcastEnd
  BY <1>6 DEF BroadcastEnd
<1>7. CASE StopSignal
  BY <1>7 DEF StopSignal
<1>8. CASE StopLock
  BY <1>8 DEF StopLock
<1>9. ASSUME NEW c \in Client, StopClose(c) PROVE LockDiscipline'
  BY <1>9 DEF StopClose
<1>10. CASE StopEnd
  BY <1>10 DEF StopEnd
<1>11. CASE UNCHANGED brokerVars
  BY <1>11 DEF brokerVars
<1> QED
  BY <1>1, <1>2, <1>3, <1>4, <1>5, <1>6, <1>7, <1>8, <1>9, <1>10, <1>11
     DEF Next, HandleSSE, BroadcastStep, Stop

\* Only a send or a close can panic, and neither finds its channel closed.
LEMMA PanicStep == LockDiscipline /\ NoPanic /\ [Next]_brokerVars => NoPanic'
<1> SUFFICES ASSUME LockDiscipline, NoPanic, [Next]_brokerVars PROVE NoPanic'
  OBVIOUS
<1> USE DEF NoPanic
<1>1. ASSUME NEW c \in Client, BroadcastSend(c) PROVE NoPanic'
  <2>1. c \in clients /\ clients \cap closed = {}
    BY <1>1 DEF BroadcastSend, LockDiscipline
  <2> QED
    BY <1>1, <2>1 DEF BroadcastSend
<1>2. ASSUME NEW c \in Client, StopClose(c) PROVE NoPanic'
  BY <1>2 DEF StopClose, LockDiscipline
<1>3. CASE UNCHANGED crashed
  BY <1>3
<1> QED
  BY <1>1, <1>2, <1>3 DEF Next, HandleSSE, Connect, Subscribe, Receive,
     ReceiveClosed, Write, WriteError, Disconnect, ContextDone, Unsubscribe,
     BroadcastStep, BroadcastBegin, BroadcastEnd, Stop, StopSignal, StopLock,
     StopEnd, brokerVars
-----------------------------------------------------------------------------
\* No step separates a registered channel from its handler: a handler gets to
\* "leave" first, and out of "leave" only by the step that takes it out.
LEMMA HandlerStep ==
    /\ TypeOK
    /\ RegisteredHasHandler
    /\ [Next]_brokerVars
    => RegisteredHasHandler'
<1> SUFFICES ASSUME TypeOK, RegisteredHasHandler, [Next]_brokerVars
             PROVE  RegisteredHasHandler'
  OBVIOUS
<1> USE DEF TypeOK, RegisteredHasHandler, stopVars, bcastVars, handlerVars
<1>1. ASSUME NEW c \in Client, Connect(c) \/ Subscribe(c) \/ Unsubscribe(c)
      PROVE  RegisteredHasHandler'
  <2>1. CASE Connect(c)
    BY <2>1 DEF Connect, Goto
  <2>2. CASE Subscribe(c)
    BY <2>2 DEF Subscribe, Goto
  <2>3. CASE Unsubscribe(c)
    BY <2>3 DEF Unsubscribe, Goto
  <2> QED
    BY <1>1, <2>1, <2>2, <2>3
<1>2. ASSUME NEW c \in Client,
             \/ Receive(c)
             \/ ReceiveClosed(c)
             \/ Write(c)
             \/ WriteError(c)
             \/ ContextDone(c)
      PROVE  RegisteredHasHandler'
  <2>1. PICK to \in {"select", "write", "leave"} :
            handler' = [handler EXCEPT ![c] = to] /\ clients' = clients
    BY <1>2 DEF Receive, ReceiveClosed, Write, WriteError, ContextDone, Goto
  <2> QED
    BY <2>1
<1>3. CASE StopEnd
  BY <1>3 DEF StopEnd
<1>4. CASE UNCHANGED <<clients, handler>>
  BY <1>4
<1> QED
  BY <1>1, <1>2, <1>3, <1>4 DEF Next, HandleSSE, Disconnect, BroadcastStep,
     BroadcastBegin, BroadcastSend, BroadcastEnd, Stop, StopSignal, StopLock,
     StopClose, brokerVars

\* Until Stop has its lock no step closes or unregisters the channel of a
\* handler that is still in its loop.
LEMMA SubscribedStep ==
    /\ TypeOK
    /\ LockDiscipline
    /\ SubscribedUntilStop
    /\ [Next]_brokerVars
    => SubscribedUntilStop'
<1> SUFFICES ASSUME TypeOK, LockDiscipline, SubscribedUntilStop, [Next]_brokerVars
             PROVE  SubscribedUntilStop'
  OBVIOUS
<1> USE DEF TypeOK, SubscribedUntilStop, stopVars, bcastVars, handlerVars
<1>1. ASSUME NEW c \in Client,
             \/ Connect(c)
             \/ Subscribe(c)
             \/ Unsubscribe(c)
      PROVE  SubscribedUntilStop'
  BY <1>1 DEF Connect, Subscribe, Unsubscribe, Goto
<1>2. ASSUME NEW c \in Client,
             \/ Receive(c)
             \/ ReceiveClosed(c)
             \/ Write(c)
             \/ WriteError(c)
             \/ ContextDone(c)
      PROVE  SubscribedUntilStop'
  BY <1>2 DEF Receive, ReceiveClosed, Write, WriteError, ContextDone, Goto
<1>3. CASE StopSignal \/ StopLock \/ StopEnd \/ \E c \in Client : StopClose(c)
  BY <1>3 DEF StopSignal, StopLock, StopEnd, StopClose
<1>4. CASE UNCHANGED <<clients, closed, handler, stop>>
  BY <1>4
<1> QED
  BY <1>1, <1>2, <1>3, <1>4 DEF Next, HandleSSE, Disconnect, BroadcastStep,
     BroadcastBegin, BroadcastSend, BroadcastEnd, Stop, brokerVars

-----------------------------------------------------------------------------
\* The invariant the results below are read off.
THEOREM Invariance == Spec => []IInv
<1>1. IInv /\ [Next]_brokerVars => IInv'
  BY TypeStep, LockStep, PanicStep, HandlerStep, SubscribedStep DEF IInv
<1> QED
  BY InitIInv, <1>1, PTL DEF Spec

\* Type correctness, with the capacity of every channel respected.
THEOREM TypeCorrect == Spec => []TypeOK
<1>1. IInv => TypeOK
  BY DEF IInv
<1> QED
  BY Invariance, <1>1, PTL

\* However Subscribe, Unsubscribe, Broadcast and Stop interleave, no send and
\* no close meets a closed channel.
THEOREM NeverPanics == Spec => []NoPanic
<1>1. IInv => NoPanic
  BY DEF IInv
<1> QED
  BY Invariance, <1>1, PTL

\* No channel stays in b.clients behind its handler.
THEOREM NoOrphanChannel == Spec => []RegisteredHasHandler
<1>1. IInv => RegisteredHasHandler
  BY DEF IInv
<1> QED
  BY Invariance, <1>1, PTL

\* Until Stop has its lock, every running handler is registered and its
\* channel is open.
THEOREM ServedUntilStop == Spec => []SubscribedUntilStop
<1>1. IInv => SubscribedUntilStop
  BY DEF IInv
<1> QED
  BY Invariance, <1>1, PTL
=============================================================================
