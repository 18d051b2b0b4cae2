------------------------------ MODULE SSEBroker ------------------------------
(***************************************************************************)
(* The Server-Sent-Events broker of internal/server/sse.go: the SSEBroker  *)
(* type (Subscribe, Unsubscribe, Broadcast, Stop) and the request handler  *)
(* handleSSE that owns one subscription.                                   *)
(*                                                                         *)
(* A connection and the channel its handler makes share a name, a member   *)
(* of Client.  The channel is unreachable once its handler has returned,   *)
(* so the name may be used again by a later connection.                    *)
(*                                                                         *)
(* b.mu is an RWMutex.  Broadcast holds it for reading from its first send *)
(* to its last, Stop holds it for writing while it closes channels, and    *)
(* the critical sections of Subscribe and Unsubscribe are single steps     *)
(* that need it free.  Sends and receives on a channel need no lock, so a  *)
(* handler runs between any two of them.                                   *)
(***************************************************************************)
EXTENDS Naturals, Sequences

CONSTANTS
    Client,     \* names of the connections to /events
    Message,    \* what Broadcast may be asked to send
    BufSize,    \* capacity of a client channel, 16 in the code
    None        \* no message

ASSUME BrokerAssumption ==
    /\ BufSize \in Nat \ {0}
    /\ None \notin Message

VARIABLES
    clients,    \* b.clients: the registered channels
    buf,        \* buf[c]: the messages waiting in the channel of c
    closed,     \* the channels that were closed
    stopCh,     \* whether b.stopCh is closed
    stop,       \* where Stop is: "no", "signalled", "closing" or "done"
    toClose,    \* channels the loop of Stop has still to close
    bcast,      \* the message of the running Broadcast, or None
    pending,    \* channels the loop of Broadcast has still to visit
    handler,    \* handler[c]: where handleSSE is for connection c
    writing,    \* writing[c]: the message handleSSE is writing to c
    ctxDone,    \* connections whose request context is cancelled
    crashed     \* a goroutine without recover has panicked

stopVars    == <<stopCh, stop, toClose>>
bcastVars   == <<bcast, pending>>
handlerVars == <<handler, writing, ctxDone>>
brokerVars  == <<clients, buf, closed, stopCh, stop, toClose, bcast, pending,
                 handler, writing, ctxDone, crashed>>

\* "open": the retry line is flushed; "leave": the deferred Unsubscribe is due.
HandlerState == {"idle", "open", "select", "write", "leave"}

TypeOK ==
    /\ clients \subseteq Client
    /\ buf \in [Client -> Seq(Message)]
    /\ \A c \in Client : Len(buf[c]) <= BufSize
    /\ closed \subseteq Client
    /\ stopCh \in BOOLEAN
    /\ stop \in {"no", "signalled", "closing", "done"}
    /\ toClose \subseteq Client
    /\ bcast \in Message \cup {None}
    /\ pending \subseteq Client
    /\ handler \in [Client -> HandlerState]
    /\ writing \in [Client -> Message \cup {None}]
    /\ \A c \in Client : (handler[c] = "write") = (writing[c] # None)
    /\ ctxDone \subseteq Client
    /\ crashed \in BOOLEAN

Init ==
    /\ clients = {}
    /\ buf = [c \in Client |-> <<>>]
    /\ closed = {}
    /\ stopCh = FALSE
    /\ stop = "no"
    /\ toClose = {}
    /\ bcast = None
    /\ pending = {}
    /\ handler = [c \in Client |-> "idle"]
    /\ writing = [c \in Client |-> None]
    /\ ctxDone = {}
    /\ crashed = FALSE

Broadcasting == bcast # None

\* What RLock waits for, and what Lock waits for.
NoWriter == stop # "closing"
LockFree == NoWriter /\ ~Broadcasting

Goto(c, from, to) ==
    /\ handler[c] = from
    /\ handler' = [handler EXCEPT ![c] = to]

-----------------------------------------------------------------------------
(* handleSSE and the two operations only it calls. *)

\* A request for /events: headers and the retry line are written and flushed.
Connect(c) ==
    /\ Goto(c, "idle", "open")
    /\ UNCHANGED <<clients, buf, closed, writing, ctxDone, crashed>>
    /\ UNCHANGED <<stopVars, bcastVars>>

\* Subscribe registers a new, open and empty channel.
Subscribe(c) ==
    /\ LockFree
    /\ Goto(c, "open", "select")
    /\ clients' = clients \cup {c}
    /\ buf' = [buf EXCEPT ![c] = <<>>]
    /\ closed' = closed \ {c}
    /\ UNCHANGED <<writing, ctxDone, crashed, stopVars, bcastVars>>

\* The select takes a message; a closed channel first yields what it holds.
Receive(c) ==
    /\ buf[c] # <<>>
    /\ Goto(c, "select", "write")
    /\ writing' = [writing EXCEPT ![c] = Head(buf[c])]
    /\ buf' = [buf EXCEPT ![c] = Tail(@)]
    /\ UNCHANGED <<clients, closed, ctxDone, crashed, stopVars, bcastVars>>

\* The select finds the channel closed and drained.
ReceiveClosed(c) ==
    /\ buf[c] = <<>>
    /\ c \in closed
    /\ Goto(c, "select", "leave")
    /\ UNCHANGED <<clients, buf, closed, writing, ctxDone, crashed>>
    /\ UNCHANGED <<stopVars, bcastVars>>

\* The message reaches the peer.  Once the context is cancelled the connection
\* is of no use: what is written then gets nowhere.
Write(c) ==
    /\ c \notin ctxDone
    /\ Goto(c, "write", "select")
    /\ writing' = [writing EXCEPT ![c] = None]
    /\ UNCHANGED <<clients, buf, closed, ctxDone, crashed, stopVars, bcastVars>>

\* The message gets nowhere (peer gone, or WriteTimeout passed).  The handler
\* ignores the error and returns to its select; net/http cancels the context.
WriteError(c) ==
    /\ Goto(c, "write", "select")
    /\ writing' = [writing EXCEPT ![c] = None]
    /\ ctxDone' = ctxDone \cup {c}
    /\ UNCHANGED <<clients, buf, closed, crashed, stopVars, bcastVars>>

\* The peer closes the connection: net/http cancels the request context.
Disconnect(c) ==
    /\ handler[c] # "idle"
    /\ c \notin ctxDone
    /\ ctxDone' = ctxDone \cup {c}
    /\ UNCHANGED <<clients, buf, closed, handler, writing, crashed>>
    /\ UNCHANGED <<stopVars, bcastVars>>

\* Faulty variant: the handler returns without the deferred Unsubscribe.
ContextDoneKeepsChannel(c) ==
    /\ c \in ctxDone
    /\ Goto(c, "select", "idle")
    /\ ctxDone' = ctxDone \ {c}
    /\ UNCHANGED <<clients, buf, closed, writing, crashed, stopVars, bcastVars>>

\* Faulty variant: the context is looked at only when no message waits.
ContextDoneWhenDrained(c) ==
    /\ c \in ctxDone
    /\ buf[c] = <<>>
    /\ Goto(c, "select", "leave")
    /\ UNCHANGED <<clients, buf, closed, writing, ctxDone, crashed>>
    /\ UNCHANGED <<stopVars, bcastVars>>

\* The select finds the context cancelled.
ContextDone(c) ==
    /\ c \in ctxDone
    /\ Goto(c, "select", "leave")
    /\ UNCHANGED <<clients, buf, closed, writing, ctxDone, crashed>>
    /\ UNCHANGED <<stopVars, bcastVars>>

\* The deferred Unsubscribe, after which the handler has returned.
Unsubscribe(c) ==
    /\ LockFree
    /\ Goto(c, "leave", "idle")
    /\ clients' = clients \ {c}
    /\ buf' = [buf EXCEPT ![c] = <<>>]
    /\ closed' = closed \ {c}
    /\ ctxDone' = ctxDone \ {c}
    /\ UNCHANGED <<writing, crashed, stopVars, bcastVars>>

-----------------------------------------------------------------------------
(* Broadcast, called by the goroutine that watches Docker events. *)

\* RLock, and the start of the loop over b.clients.
BroadcastBegin(m) ==
    /\ NoWriter
    /\ ~Broadcasting
    /\ bcast' = m
    /\ pending' = clients
    /\ UNCHANGED <<clients, buf, closed, crashed, stopVars, handlerVars>>

\* Faulty variant: room is taken for granted once too often.
BroadcastSendOverfills(c) ==
    /\ c \in pending
    /\ pending' = pending \ {c}
    /\ crashed' = (crashed \/ c \in closed)
    /\ buf' = IF c \notin closed /\ Len(buf[c]) <= BufSize
              THEN [buf EXCEPT ![c] = Append(@, bcast)]
              ELSE buf
    /\ UNCHANGED <<clients, closed, bcast, stopVars, handlerVars>>

\* Faulty variant: a message is skipped although the channel has room for it.
BroadcastSendSkipsEarly(c) ==
    /\ c \in pending
    /\ pending' = pending \ {c}
    /\ crashed' = (crashed \/ c \in closed)
    /\ buf' = IF c \notin closed /\ Len(buf[c]) < BufSize - 1
              THEN [buf EXCEPT ![c] = Append(@, bcast)]
              ELSE buf
    /\ UNCHANGED <<clients, closed, bcast, stopVars, handlerVars>>

\* Faulty variant: a client that does not keep up is dropped from the map.
BroadcastSendEvicts(c) ==
    /\ c \in pending
    /\ pending' = pending \ {c}
    /\ crashed' = (crashed \/ c \in closed)
    /\ IF c \notin closed /\ Len(buf[c]) < BufSize
       THEN buf' = [buf EXCEPT ![c] = Append(@, bcast)] /\ UNCHANGED clients
       ELSE clients' = clients \ {c} /\ UNCHANGED buf
    /\ UNCHANGED <<closed, bcast, stopVars, handlerVars>>

\* One turn of the loop: a send that never blocks.  A full channel is skipped;
\* a send on a closed channel panics, whether or not there is a default case.
BroadcastSend(c) ==
    /\ c \in pending
    /\ pending' = pending \ {c}
    /\ crashed' = (crashed \/ c \in closed)
    /\ buf' = IF c \notin closed /\ Len(buf[c]) < BufSize
              THEN [buf EXCEPT ![c] = Append(@, bcast)]
              ELSE buf
    /\ UNCHANGED <<clients, closed, bcast, stopVars, handlerVars>>

\* RUnlock.
BroadcastEnd ==
    /\ Broadcasting
    /\ pending = {}
    /\ bcast' = None
    /\ UNCHANGED <<clients, buf, closed, pending, crashed, stopVars, handlerVars>>

-----------------------------------------------------------------------------
(* Stop, called once by Server.Shutdown. *)

\* close(b.stopCh), before the lock is taken.
StopSignal ==
    /\ stop = "no"
    /\ stopCh' = TRUE
    /\ stop' = "signalled"
    /\ UNCHANGED <<clients, buf, closed, toClose, crashed, bcastVars, handlerVars>>

StopLock ==
    /\ stop = "signalled"
    /\ LockFree
    /\ stop' = "closing"
    /\ toClose' = clients
    /\ UNCHANGED <<clients, buf, closed, stopCh, crashed, bcastVars, handlerVars>>

\* Faulty variant: the map is emptied without closing the channels.
StopForgets(c) ==
    /\ stop = "closing"
    /\ c \in toClose
    /\ toClose' = toClose \ {c}
    /\ UNCHANGED <<clients, buf, closed, stopCh, stop, crashed, bcastVars, handlerVars>>

\* One turn of the loop; closing a channel twice panics.
StopClose(c) ==
    /\ stop = "closing"
    /\ c \in toClose
    /\ toClose' = toClose \ {c}
    /\ crashed' = (crashed \/ c \in closed)
    /\ closed' = closed \cup {c}
    /\ UNCHANGED <<clients, buf, stopCh, stop, bcastVars, handlerVars>>

\* Faulty variant: the closed channels stay registered.
StopEndKeepsMap ==
    /\ stop = "closing"
    /\ toClose = {}
    /\ stop' = "done"
    /\ UNCHANGED <<clients, buf, closed, stopCh, toClose, crashed, bcastVars, handlerVars>>

\* Faulty variant: Stop waits for the handlers while it holds the lock.
StopEndWaits ==
    /\ stop = "closing"
    /\ toClose = {}
    /\ \A c \in Client : handler[c] = "idle"
    /\ clients' = {}
    /\ stop' = "done"
    /\ UNCHANGED <<buf, closed, stopCh, toClose, crashed, bcastVars, handlerVars>>

\* A new, empty map, then Unlock.
StopEnd ==
    /\ stop = "closing"
    /\ toClose = {}
    /\ clients' = {}
    /\ stop' = "done"
    /\ UNCHANGED <<buf, closed, stopCh, toClose, crashed, bcastVars, handlerVars>>

-----------------------------------------------------------------------------
HandleSSE(c) ==
    \/ Connect(c)
    \/ Subscribe(c)
    \/ Receive(c)
    \/ ReceiveClosed(c)
    \/ Write(c)
    \/ WriteError(c)
    \/ Disconnect(c)
    \/ ContextDone(c)
    \/ Unsubscribe(c)

BroadcastStep == (\E c \in Client : BroadcastSend(c)) \/ BroadcastEnd

Stop == StopSignal \/ StopLock \/ (\E c \in Client : StopClose(c)) \/ StopEnd

\* A panic outside a request handler ends the process; NoPanic says that none
\* is reached, so Next does not say what could follow one.
Next ==
    \/ \E c \in Client : HandleSSE(c)
    \/ \E m \in Message : BroadcastBegin(m)
    \/ BroadcastStep
    \/ Stop

Spec == Init /\ [][Next]_brokerVars

\* A handler goroutine keeps running.  A write ends, at the latest by
\* WriteTimeout.  The select picks at random among its ready cases, so none of
\* them is passed over for ever, and sync.RWMutex starves no waiter: those
\* steps are strongly fair, being enabled only now and then.
HandlerFairness(c) ==
    /\ WF_brokerVars(Receive(c))
    /\ WF_brokerVars(Write(c) \/ WriteError(c))
    /\ SF_brokerVars(ReceiveClosed(c))
    /\ SF_brokerVars(ContextDone(c))
    /\ SF_brokerVars(Subscribe(c))
    /\ SF_brokerVars(Unsubscribe(c))

\* The loops of Broadcast and Stop end; nothing obliges anyone to call them.
LockHolderFairness ==
    /\ WF_brokerVars(BroadcastStep)
    /\ SF_brokerVars(StopLock)
    /\ WF_brokerVars((\E c \in Client : StopClose(c)) \/ StopEnd)

FairSpec ==
    /\ Spec
    /\ \A c \in Client : HandlerFairness(c)
    /\ LockHolderFairness

-----------------------------------------------------------------------------
\* No interleaving of Subscribe, Unsubscribe, Broadcast and Stop sends on a
\* closed channel or closes one twice: both panic, and neither the event
\* watcher nor main recovers.
NoPanic == ~crashed

\* A registered channel always has a handler that will still drain it or take
\* it out: however a handler leaves its loop, no channel stays in b.clients
\* behind it.
RegisteredHasHandler ==
    \A c \in clients : handler[c] \in {"select", "write", "leave"}

\* What a handler finds closed has been closed by Stop, never by Unsubscribe:
\* until Stop takes the lock every subscriber's channel is open and, if its
\* handler is running, registered.
SubscribedUntilStop ==
    stop \in {"no", "signalled"} =>
        \A c \in Client : handler[c] \in {"select", "write", "leave"} =>
            c \in clients \ closed

\* Every handler whose channel Stop finds registered returns, also one that
\* is in the middle of a write or has a full channel to drain.
StopReleasesHandlers ==
    \A c \in Client : (stop = "closing" /\ c \in clients) ~> (handler[c] = "idle")

\* A cancelled request lets its handler go, whatever else its select is
\* offered and whoever holds the lock.
CancelledHandlerReturns ==
    \A c \in Client : (c \in ctxDone) ~> (handler[c] = "idle")

\* Stop returns although broadcasts and subscriptions keep taking the lock.
StopReturns == (stop = "signalled") ~> (stop = "done")
==============================================================================
