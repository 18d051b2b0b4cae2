------------------------------- MODULE SSEFeed -------------------------------
(***************************************************************************)
(* The broker with its broadcasts numbered, so that what each connection   *)
(* is shown can be compared with what was sent.  The added variables only  *)
(* observe: every step is a step of SSEBroker.                             *)
(***************************************************************************)
EXTENDS SSEBroker

\* The number of broadcasts is bounded by Message.
ASSUME FeedAssumption == Message \subseteq Nat

VARIABLES
    sent,       \* number of the last broadcast
    last,       \* last[c]: the last number that reached c since it subscribed
    missed      \* connections whose channel was full for some broadcast

historyVars == <<sent, last, missed>>
feedVars    == <<brokerVars, historyVars>>

FeedInit ==
    /\ Init
    /\ sent = 0
    /\ last = [c \in Client |-> 0]
    /\ missed = {}

FeedBroadcastBegin ==
    /\ sent + 1 \in Message
    /\ BroadcastBegin(sent + 1)
    /\ sent' = sent + 1
    /\ UNCHANGED <<last, missed>>

FeedBroadcastSend(c) ==
    /\ BroadcastSend(c)
    /\ missed' = IF buf'[c] = buf[c] THEN missed \cup {c} ELSE missed
    /\ UNCHANGED <<sent, last>>

FeedSubscribe(c) ==
    /\ Subscribe(c)
    /\ last' = [last EXCEPT ![c] = sent]
    /\ UNCHANGED <<sent, missed>>

FeedWrite(c) ==
    /\ Write(c)
    /\ last' = [last EXCEPT ![c] = writing[c]]
    /\ UNCHANGED <<sent, missed>>

FeedUnsubscribe(c) ==
    /\ Unsubscribe(c)
    /\ last' = [last EXCEPT ![c] = 0]
    /\ missed' = missed \ {c}
    /\ UNCHANGED sent

FeedOther ==
    /\ \/ BroadcastEnd
       \/ Stop
       \/ \E c \in Client :
            \/ Connect(c)
            \/ Receive(c)
            \/ ReceiveClosed(c)
            \/ WriteError(c)
            \/ Disconnect(c)
            \/ ContextDone(c)
    /\ UNCHANGED historyVars

FeedNext ==
    \/ FeedBroadcastBegin
    \/ \E c \in Client :
        \/ FeedBroadcastSend(c)
        \/ FeedSubscribe(c)
        \/ FeedWrite(c)
        \/ FeedUnsubscribe(c)
    \/ FeedOther

FeedSpec == FeedInit /\ [][FeedNext]_feedVars

-----------------------------------------------------------------------------
Subscribed == {c \in Client : handler[c] \in {"select", "write", "leave"}}

Feed == INSTANCE LossyFeed WITH
            Allowance <- BufSize,
            published <- sent,
            joined <- Subscribed,
            seen <- last,
            overrun <- missed

\* However Broadcast interleaves with subscribing, draining, disconnecting and
\* stopping, a connection is shown later broadcasts only, in order, each once,
\* and all of them unless it has been more than BufSize behind.
ImplementsLossyFeed == Feed!Spec
==============================================================================
