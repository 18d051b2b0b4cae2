---------------------------- MODULE SSEFeedProofs ----------------------------
(***************************************************************************)
(* Proof that the broker implements LossyFeed, for any number of           *)
(* connections and broadcasts and any capacity of the channels.            *)
(*                                                                         *)
(* What a connection is shown next depends on what waits in its channel,   *)
(* so the abstract guard on Show needs an invariant about the whole        *)
(* channel: it holds growing numbers, later than the one being written,    *)
(* and as long as nothing was lost it holds all of them.  That a message   *)
(* is skipped only for a connection that is BufSize behind is then a       *)
(* matter of counting.                                                     *)
(***************************************************************************)
EXTENDS SSEFeed, SSEBrokerProofs, Integers, SequenceTheorems

\* The numbers in q grow, from above lo, and none is above hi.
Growing(q, lo, hi) ==
    /\ lo <= hi
    /\ \A i \in 1 .. Len(q) : lo + i <= q[i] /\ q[i] <= hi
    /\ \A i, j \in 1 .. Len(q) : i <= j => q[i] + (j - i) <= q[j]

\* q holds the numbers that follow lo, without a gap.
Gapless(q, lo) == \A i \in 1 .. Len(q) : q[i] = lo + i

\* The last number taken out of the channel of c, or shown to c.
Taken(c) == IF handler[c] = "write" THEN writing[c] ELSE last[c]

\* The last number the running or last Broadcast has offered to c.
Offered(c) == IF c \in pending THEN sent - 1 ELSE sent

InOrder(c) ==
    /\ last[c] <= Taken(c)
    /\ handler[c] = "write" => last[c] < writing[c]
    /\ Growing(buf[c], Taken(c), Offered(c))

\* A connection that writes reach and that no broadcast has skipped.
Complete(c) ==
    c \notin missed \cup ctxDone =>
        /\ handler[c] = "write" => writing[c] = last[c] + 1
        /\ Gapless(buf[c], Taken(c))
        /\ c \in clients => Taken(c) + Len(buf[c]) = Offered(c)

FeedType ==
    /\ sent \in Nat
    /\ last \in [Client -> Nat]
    /\ missed \subseteq Client

FeedOrder ==
    /\ Broadcasting => bcast = sent
    /\ \A c \in Subscribed : InOrder(c) /\ Complete(c)

FeedInv == IInv /\ FeedType /\ FeedOrder

-----------------------------------------------------------------------------
\* A channel that holds n growing numbers spans at least n.
LEMMA GrowingSpan ==
    ASSUME NEW q \in Seq(Nat), NEW lo \in Nat, NEW hi \in Int, Growing(q, lo, hi)
    PROVE  lo + Len(q) <= hi
<1>1. Len(q) \in Nat
  OBVIOUS
<1>2. CASE Len(q) = 0
  BY <1>2 DEF Growing
<1>3. CASE Len(q) # 0
  <2>1. Len(q) \in 1 .. Len(q)
    BY <1>1, <1>3
  <2>2. q[Len(q)] \in Nat
    BY <2>1
  <2> QED
    BY <1>1, <2>1, <2>2 DEF Growing
<1> QED
  BY <1>2, <1>3

\* Taking the first number leaves growing ones, all above it.
LEMMA GrowingTail ==
    ASSUME NEW q \in Seq(Nat), NEW lo \in Nat, NEW hi \in Int, Growing(q, lo, hi),
           q # <<>>
    PROVE  /\ Growing(Tail(q), Head(q), hi)
           /\ lo < Head(q)
           /\ Len(Tail(q)) = Len(q) - 1
           /\ Gapless(q, lo) => Head(q) = lo + 1 /\ Gapless(Tail(q), Head(q))
<1>1. /\ Len(q) \in Nat \ {0}
      /\ Tail(q) \in Seq(Nat)
      /\ Len(Tail(q)) = Len(q) - 1
      /\ Head(q) = q[1]
      /\ 1 \in 1 .. Len(q)
  OBVIOUS
<1>2. \A i \in 1 .. Len(q) : q[i] \in Nat
  OBVIOUS
<1>3. \A i \in 1 .. Len(Tail(q)) : i + 1 \in 1 .. Len(q) /\ Tail(q)[i] = q[i + 1]
  BY <1>1
<1>4. lo < q[1] /\ q[1] <= hi
  BY <1>1, <1>2 DEF Growing
<1>5. \A i \in 1 .. Len(Tail(q)) : q[1] + i <= Tail(q)[i] /\ Tail(q)[i] <= hi
  BY <1>1, <1>2, <1>3 DEF Growing
<1>6. \A i, j \in 1 .. Len(Tail(q)) :
          i <= j => Tail(q)[i] + (j - i) <= Tail(q)[j]
  <2> SUFFICES ASSUME NEW i \in 1 .. Len(Tail(q)), NEW j \in 1 .. Len(Tail(q)),
                      i <= j
               PROVE  q[i + 1] + (j - i) <= q[j + 1]
    BY <1>3
  <2>1. i + 1 \in 1 .. Len(q) /\ j + 1 \in 1 .. Len(q) /\ i + 1 <= j + 1
    BY <1>3
  <2>2. q[i + 1] + ((j + 1) - (i + 1)) <= q[j + 1]
    BY <2>1 DEF Growing
  <2>3. (j + 1) - (i + 1) = j - i
    BY <1>1
  <2> QED
    BY <2>2, <2>3
<1>7. ASSUME Gapless(q, lo) PROVE q[1] = lo + 1 /\ Gapless(Tail(q), q[1])
  <2>1. q[1] = lo + 1
    BY <1>1, <1>7 DEF Gapless
  <2>2. \A i \in 1 .. Len(Tail(q)) : q[i + 1] = lo + (i + 1)
    BY <1>3, <1>7 DEF Gapless
  <2> QED
    BY <1>1, <1>3, <2>1, <2>2 DEF Gapless
<1> QED
  BY <1>1, <1>4, <1>5, <1>6, <1>7 DEF Growing

\* A number above all others may be appended.
LEMMA GrowingAppend ==
    ASSUME NEW q \in Seq(Nat), NEW lo \in Nat, NEW n \in Nat,
           Growing(q, lo, n - 1)
    PROVE  /\ Growing(Append(q, n), lo, n)
           /\ Len(Append(q, n)) = Len(q) + 1
           /\ Gapless(q, lo) /\ lo + Len(q) = n - 1 => Gapless(Append(q, n), lo)
<1> DEFINE r == Append(q, n)
<1>1. Len(q) \in Nat /\ Len(r) = Len(q) + 1
  OBVIOUS
<1>2. \A i \in 1 .. Len(q) : r[i] = q[i] /\ q[i] \in Nat
  OBVIOUS
<1>3. r[Len(q) + 1] = n
  OBVIOUS
<1>4. \A i \in 1 .. Len(r) : i \in 1 .. Len(q) \/ i = Len(q) + 1
  BY <1>1
<1>5. lo + Len(q) <= n - 1
  BY GrowingSpan
<1>6. \A i \in 1 .. Len(q) : q[i] + (Len(q) - i) <= n - 1
  <2> SUFFICES ASSUME NEW i \in 1 .. Len(q) PROVE q[i] + (Len(q) - i) <= n - 1
    OBVIOUS
  <2>1. Len(q) \in 1 .. Len(q) /\ i <= Len(q)
    BY <1>1
  <2>2. q[i] + (Len(q) - i) <= q[Len(q)] /\ q[Len(q)] <= n - 1
    BY <2>1 DEF Growing
  <2>3. q[i] \in Nat /\ q[Len(q)] \in Nat
    BY <1>2, <2>1
  <2> QED
    BY <1>1, <2>2, <2>3
<1>7. \A i \in 1 .. Len(r) : lo + i <= r[i] /\ r[i] <= n
  <2> SUFFICES ASSUME NEW i \in 1 .. Len(r) PROVE lo + i <= r[i] /\ r[i] <= n
    OBVIOUS
  <2>1. CASE i \in 1 .. Len(q)
    BY <2>1, <1>2 DEF Growing
  <2>2. CASE i = Len(q) + 1
    BY <2>2, <1>1, <1>3, <1>5
  <2> QED
    BY <1>4, <2>1, <2>2
<1>8. \A i, j \in 1 .. Len(r) : i <= j => r[i] + (j - i) <= r[j]
  <2> SUFFICES ASSUME NEW i \in 1 .. Len(r), NEW j \in 1 .. Len(r), i <= j
               PROVE  r[i] + (j - i) <= r[j]
    OBVIOUS
  <2>1. CASE j \in 1 .. Len(q)
    <3>1. i \in 1 .. Len(q)
      BY <1>1, <2>1
    <3> QED
      BY <1>2, <2>1, <3>1 DEF Growing
  <2>2. CASE j = Len(q) + 1 /\ i \in 1 .. Len(q)
    <3>1. q[i] + (Len(q) - i) <= n - 1 /\ q[i] \in Nat
      BY <1>2, <1>6, <2>2
    <3> QED
      BY <1>1, <1>2, <1>3, <2>2, <3>1
  <2>3. CASE j = Len(q) + 1 /\ i = Len(q) + 1
    BY <1>1, <1>3, <2>3
  <2> QED
    BY <1>4, <2>1, <2>2, <2>3
<1>9. ASSUME Gapless(q, lo), lo + Len(q) = n - 1 PROVE Gapless(r, lo)
  BY <1>1, <1>2, <1>3, <1>4, <1>9 DEF Gapless
<1>10. lo <= n
  BY <1>1, <1>5
<1> QED
  BY <1>1, <1>7, <1>8, <1>9, <1>10 DEF Growing

-----------------------------------------------------------------------------
\* The channels hold numbers.
LEMMA FeedTypes ==
    ASSUME FeedInv
    PROVE  /\ sent \in Nat
           /\ last \in [Client -> Nat]
           /\ \A c \in Client : buf[c] \in Seq(Nat)
           /\ \A c \in Client : handler[c] = "write" => writing[c] \in Nat
           /\ \A c \in Client : Taken(c) \in Nat /\ Offered(c) \in Int
<1>1. /\ sent \in Nat
      /\ last \in [Client -> Nat]
  BY DEF FeedInv, FeedType
<1>2. ASSUME NEW c \in Client PROVE buf[c] \in Seq(Nat)
  <2>1. buf[c] \in Seq(Message)
    BY DEF FeedInv, IInv, TypeOK
  <2> QED
    BY <2>1, FeedAssumption, SeqMonotonic
<1>3. ASSUME NEW c \in Client, handler[c] = "write" PROVE writing[c] \in Nat
  BY <1>3, FeedAssumption DEF FeedInv, IInv, TypeOK
<1> QED
  BY <1>1, <1>2, <1>3 DEF Taken, Offered

\* A step that leaves a connection's channel and numbers alone, and takes
\* nothing back of what excuses a gap, leaves it in order.
LEMMA Untouched ==
    ASSUME NEW d \in Client, InOrder(d), Complete(d),
           buf'[d] = buf[d], writing'[d] = writing[d], last'[d] = last[d],
           (handler'[d] = "write") = (handler[d] = "write"),
           Offered(d)' = Offered(d),
           d \in missed \cup ctxDone => d \in missed' \cup ctxDone',
           d \in clients' => d \in clients
    PROVE  InOrder(d)' /\ Complete(d)'
<1>1. Taken(d)' = Taken(d)
  BY DEF Taken
<1>2. InOrder(d)'
  BY <1>1 DEF InOrder, Growing
<1>3. Complete(d)'
  BY <1>1 DEF Complete, Gapless
<1> QED
  BY <1>2, <1>3

\* Every step of the numbered broker is one of the broker.
LEMMA FeedStepIsStep == [FeedNext]_feedVars => [Next]_brokerVars
BY DEF FeedNext, feedVars, FeedBroadcastBegin, FeedBroadcastSend, FeedSubscribe,
   FeedWrite, FeedUnsubscribe, FeedOther, Next, HandleSSE, BroadcastStep

\* The variables that observe keep their types.
LEMMA FeedTypeStep == FeedInv /\ [FeedNext]_feedVars => FeedType'
<1> SUFFICES ASSUME FeedInv, [FeedNext]_feedVars PROVE FeedType'
  OBVIOUS
<1>1. FeedType
  BY DEF FeedInv
<1>2. CASE FeedBroadcastBegin
  BY <1>1, <1>2 DEF FeedBroadcastBegin, FeedType
<1>3. ASSUME NEW c \in Client, FeedBroadcastSend(c) PROVE FeedType'
  BY <1>1, <1>3 DEF FeedBroadcastSend, FeedType
<1>4. ASSUME NEW c \in Client, FeedSubscribe(c) PROVE FeedType'
  BY <1>1, <1>4 DEF FeedSubscribe, FeedType
<1>5. ASSUME NEW c \in Client, FeedWrite(c) PROVE FeedType'
  <2>1. writing[c] \in Nat
    BY <1>5, FeedTypes DEF FeedWrite, Write, Goto
  <2> QED
    BY <1>1, <1>5, <2>1 DEF FeedWrite, FeedType
<1>6. ASSUME NEW c \in Client, FeedUnsubscribe(c) PROVE FeedType'
  BY <1>1, <1>6 DEF FeedUnsubscribe, FeedType
<1>7. CASE FeedOther \/ UNCHANGED feedVars
  BY <1>1, <1>7 DEF FeedOther, feedVars, historyVars, FeedType
<1> QED
  BY <1>2, <1>3, <1>4, <1>5, <1>6, <1>7 DEF FeedNext

-----------------------------------------------------------------------------
\* A handler starts with an empty channel and what was sent before it came.
LEMMA OrderSubscribe ==
    ASSUME FeedInv, NEW c \in Client, FeedSubscribe(c)
    PROVE  InOrder(c)' /\ Complete(c)'
<1>1. /\ handler'[c] = "select"
      /\ buf'[c] = <<>>
      /\ last'[c] = sent
      /\ sent' = sent
      /\ sent \in Nat
  BY FeedTypes DEF FeedInv, IInv, TypeOK, FeedType, FeedSubscribe, Subscribe, Goto
<1>2. c \notin pending'
  BY DEF FeedInv, IInv, LockDiscipline, FeedSubscribe, Subscribe, LockFree, bcastVars
<1>3. Taken(c)' = sent /\ Offered(c)' = sent
  BY <1>1, <1>2 DEF Taken, Offered
<1>4. Len(<<>>) = 0
  OBVIOUS
<1> QED
  BY <1>1, <1>3, <1>4 DEF InOrder, Complete, Growing, Gapless

\* Receive takes the next number out of the channel.
LEMMA OrderReceive ==
    ASSUME FeedInv, NEW c \in Client, c \in Subscribed, Receive(c),
           UNCHANGED historyVars
    PROVE  InOrder(c)' /\ Complete(c)'
<1> DEFINE q == buf[c]
<1>1. /\ q # <<>>
      /\ handler[c] = "select"
      /\ handler'[c] = "write"
      /\ writing'[c] = Head(q)
      /\ buf'[c] = Tail(q)
      /\ UNCHANGED <<last, sent, missed, ctxDone, clients, pending>>
  BY DEF FeedInv, IInv, TypeOK, Receive, Goto, historyVars, bcastVars
<1>2. /\ q \in Seq(Nat)
      /\ last[c] \in Nat
      /\ Taken(c) = last[c]
      /\ Offered(c) \in Int
      /\ Offered(c)' = Offered(c)
      /\ Taken(c)' = Head(q)
  BY <1>1, FeedTypes DEF Taken, Offered
<1>3. InOrder(c) /\ Complete(c)
  BY DEF FeedInv, FeedOrder
<1>4. Growing(q, last[c], Offered(c))
  BY <1>2, <1>3 DEF InOrder
<1>5. /\ Growing(Tail(q), Head(q), Offered(c))
      /\ last[c] < Head(q)
      /\ Len(Tail(q)) = Len(q) - 1
      /\ Gapless(q, last[c]) => Head(q) = last[c] + 1 /\ Gapless(Tail(q), Head(q))
  BY <1>1, <1>2, <1>4, GrowingTail
<1>6. Head(q) \in Nat /\ Len(q) \in Nat
  BY <1>1, <1>2
<1>7. InOrder(c)'
  <2>1. last'[c] <= Taken(c)' /\ last'[c] < writing'[c]
    BY <1>1, <1>2, <1>5, <1>6
  <2>2. Growing(buf[c], Taken(c), Offered(c))'
    BY <1>1, <1>2, <1>5 DEF Growing
  <2> QED
    BY <2>1, <2>2 DEF InOrder
<1>8. Complete(c)'
  <2> SUFFICES ASSUME c \notin missed \cup ctxDone
               PROVE  /\ writing'[c] = last'[c] + 1
                      /\ Gapless(buf[c], Taken(c))'
                      /\ c \in clients => Taken(c)' + Len(buf'[c]) = Offered(c)'
    BY <1>1 DEF Complete
  <2>1. Gapless(q, last[c])
    BY <1>2, <1>3 DEF Complete
  <2>2. c \in clients => last[c] + Len(q) = Offered(c)
    BY <1>2, <1>3 DEF Complete
  <2>3. Gapless(buf[c], Taken(c))'
    BY <1>1, <1>2, <1>5, <2>1 DEF Gapless
  <2> QED
    BY <1>1, <1>2, <1>5, <1>6, <2>1, <2>2, <2>3
<1> QED
  BY <1>7, <1>8

\* A write that arrives moves last up to the number taken out before.
LEMMA OrderWrite ==
    ASSUME FeedInv, NEW c \in Client, c \in Subscribed, FeedWrite(c)
    PROVE  InOrder(c)' /\ Complete(c)'
<1>1. /\ handler[c] = "write"
      /\ handler'[c] = "select"
      /\ last'[c] = writing[c]
      /\ UNCHANGED <<buf, sent, missed, ctxDone, clients, pending>>
  BY DEF FeedInv, FeedType, IInv, TypeOK, FeedWrite, Write, Goto, bcastVars
<1>2. Taken(c)' = Taken(c) /\ Offered(c)' = Offered(c) /\ Taken(c)' = last'[c]
  BY <1>1 DEF Taken, Offered
<1>3. InOrder(c) /\ Complete(c) /\ Taken(c) \in Nat
  BY FeedTypes DEF FeedInv, FeedOrder
<1>4. Growing(buf[c], Taken(c), Offered(c))'
  BY <1>1, <1>2, <1>3 DEF InOrder, Growing
<1>5. InOrder(c)'
  BY <1>1, <1>2, <1>3, <1>4 DEF InOrder
<1>6. Complete(c)'
  BY <1>1, <1>2, <1>3 DEF Complete, Gapless
<1> QED
  BY <1>5, <1>6

\* A write that gets nowhere loses a number; from then on writes do not arrive.
LEMMA OrderWriteError ==
    ASSUME FeedInv, NEW c \in Client, c \in Subscribed, WriteError(c),
           UNCHANGED historyVars
    PROVE  InOrder(c)' /\ Complete(c)'
<1>1. /\ handler[c] = "write"
      /\ handler'[c] = "select"
      /\ c \in ctxDone'
      /\ UNCHANGED <<buf, last, sent, missed, clients, pending>>
  BY DEF FeedInv, IInv, TypeOK, WriteError, Goto, bcastVars, historyVars
<1>2. /\ Taken(c) = writing[c]
      /\ Taken(c)' = last[c]
      /\ Offered(c)' = Offered(c)
  BY <1>1 DEF Taken, Offered
<1>3. InOrder(c) /\ last[c] \in Nat /\ writing[c] \in Nat /\ Offered(c) \in Int
  BY <1>1, FeedTypes DEF FeedInv, FeedOrder
<1>4. buf[c] \in Seq(Nat)
  BY FeedTypes
<1>5. Growing(buf[c], last[c], Offered(c))
  <2>1. \A i \in 1 .. Len(buf[c]) : i \in Nat /\ buf[c][i] \in Nat
    BY <1>4
  <2> QED
    BY <1>1, <1>2, <1>3, <2>1 DEF InOrder, Growing
<1>6. Growing(buf[c], Taken(c), Offered(c))'
  BY <1>1, <1>2, <1>5 DEF Growing
<1>7. InOrder(c)'
  BY <1>1, <1>2, <1>3, <1>6 DEF InOrder
<1> QED
  BY <1>1, <1>7 DEF Complete

-----------------------------------------------------------------------------
\* A new broadcast is one every registered connection has yet to be offered.
LEMMA OrderBegin ==
    ASSUME FeedInv, NEW c \in Client, c \in Subscribed, FeedBroadcastBegin
    PROVE  InOrder(c)' /\ Complete(c)'
<1>1. /\ UNCHANGED <<clients, buf, handler, writing, ctxDone, last, missed>>
      /\ sent' = sent + 1
      /\ pending' = clients
      /\ pending = {}
  BY DEF FeedInv, IInv, LockDiscipline, FeedBroadcastBegin, BroadcastBegin, handlerVars
<1>2. Taken(c)' = Taken(c) /\ Offered(c) = sent
  BY <1>1 DEF Taken, Offered
<1>3. Offered(c)' = IF c \in clients THEN sent ELSE sent + 1
  BY <1>1, FeedTypes DEF Offered
<1>4. /\ InOrder(c) /\ Complete(c)
      /\ sent \in Nat /\ Taken(c) \in Nat /\ buf[c] \in Seq(Nat)
  BY FeedTypes DEF FeedInv, FeedOrder
<1>5. \A i \in 1 .. Len(buf[c]) : buf[c][i] \in Nat
  BY <1>4
<1>6. Growing(buf[c], Taken(c), Offered(c))'
  BY <1>1, <1>2, <1>3, <1>4, <1>5 DEF InOrder, Growing
<1>7. InOrder(c)'
  BY <1>1, <1>2, <1>4, <1>6 DEF InOrder
<1>8. Complete(c)'
  BY <1>1, <1>2, <1>3, <1>4 DEF Complete, Gapless
<1> QED
  BY <1>7, <1>8

\* Where Broadcast is in its loop: the channel is open, the number offered is
\* the last one, and its connection is being served.
LEMMA SendContext ==
    ASSUME FeedInv, NEW c \in Client, BroadcastSend(c)
    PROVE  /\ c \in Subscribed
           /\ c \in pending /\ c \in clients /\ c \notin closed
           /\ bcast = sent
           /\ Offered(c) = sent - 1
           /\ Offered(c)' = sent'
<1>1. /\ c \in pending
      /\ c \notin pending'
      /\ UNCHANGED <<handler, writing>>
  BY DEF BroadcastSend, handlerVars
<1>2. c \in clients /\ c \notin closed /\ Broadcasting
  BY <1>1 DEF FeedInv, IInv, LockDiscipline
<1>3. c \in Subscribed
  BY <1>2 DEF FeedInv, IInv, RegisteredHasHandler, Subscribed
<1>4. bcast = sent
  BY <1>2 DEF FeedInv, FeedOrder
<1> QED
  BY <1>1, <1>2, <1>3, <1>4 DEF Offered

\* A connection that is skipped has a full channel of numbers it was not shown.
LEMMA SkippedIsBehind ==
    ASSUME FeedInv, NEW c \in Client, BroadcastSend(c), buf'[c] = buf[c]
    PROVE  sent - last[c] > BufSize
<1>1. /\ c \in Subscribed /\ c \notin closed
      /\ bcast = sent
      /\ Offered(c) = sent - 1
  BY SendContext
<1>2. buf[c] \in Seq(Nat) /\ sent \in Nat /\ Taken(c) \in Nat /\ last[c] \in Nat
  BY FeedTypes
<1>3. ~(Len(buf[c]) < BufSize)
  <2> SUFFICES ASSUME Len(buf[c]) < BufSize PROVE FALSE
    OBVIOUS
  <2>1. buf'[c] = Append(buf[c], bcast)
    BY <1>1 DEF BroadcastSend, FeedInv, IInv, TypeOK
  <2>2. Len(Append(buf[c], sent)) = Len(buf[c]) + 1 /\ Len(buf[c]) \in Nat
    BY <1>2
  <2> QED
    BY <1>1, <2>1, <2>2
<1>4. Growing(buf[c], Taken(c), sent - 1) /\ last[c] <= Taken(c)
  BY <1>1 DEF FeedInv, FeedOrder, InOrder
<1>5. Taken(c) + Len(buf[c]) <= sent - 1
  BY <1>2, <1>4, GrowingSpan
<1>6. Len(buf[c]) \in Nat /\ BufSize \in Nat
  BY <1>2, BrokerAssumption
<1> QED
  BY <1>2, <1>3, <1>4, <1>5, <1>6

\* A turn of the loop appends the number of the broadcast or records the loss.
LEMMA OrderSend ==
    ASSUME FeedInv, NEW c \in Client, FeedBroadcastSend(c)
    PROVE  InOrder(c)' /\ Complete(c)'
<1> DEFINE q == buf[c]
<1>1. BroadcastSend(c)
  BY DEF FeedBroadcastSend
<1>2. /\ UNCHANGED <<clients, handler, writing, ctxDone, sent, last>>
      /\ missed' = IF buf'[c] = q THEN missed \cup {c} ELSE missed
  BY DEF FeedBroadcastSend, BroadcastSend, handlerVars
<1>3. /\ c \in Subscribed /\ c \notin closed
      /\ bcast = sent
      /\ Offered(c) = sent - 1
      /\ Offered(c)' = sent
  BY <1>1, <1>2, SendContext
<1>4. Taken(c)' = Taken(c)
  BY <1>2 DEF Taken
<1>5. q \in Seq(Nat) /\ sent \in Nat /\ Taken(c) \in Nat
  BY FeedTypes
<1>6. InOrder(c) /\ Complete(c) /\ Growing(q, Taken(c), sent - 1)
  BY <1>3 DEF FeedInv, FeedOrder, InOrder
<1>7. buf'[c] = q \/ buf'[c] = Append(q, sent)
  BY <1>1, <1>3 DEF BroadcastSend, FeedInv, IInv, TypeOK
<1>8. CASE buf'[c] = q
  <2>1. \A i \in 1 .. Len(q) : q[i] \in Nat
    BY <1>5
  <2>2. Growing(q, Taken(c), sent)
    BY <1>5, <1>6, <2>1 DEF Growing
  <2>3. Growing(buf[c], Taken(c), Offered(c))'
    BY <1>3, <1>4, <1>8, <2>2 DEF Growing
  <2>4. InOrder(c)'
    BY <1>2, <1>4, <1>6, <2>3 DEF InOrder
  <2>5. Complete(c)'
    BY <1>2, <1>8 DEF Complete
  <2> QED
    BY <2>4, <2>5
<1>9. CASE buf'[c] = Append(q, sent)
  <2>1. /\ Growing(Append(q, sent), Taken(c), sent)
        /\ Len(Append(q, sent)) = Len(q) + 1
        /\ Gapless(q, Taken(c)) /\ Taken(c) + Len(q) = sent - 1
              => Gapless(Append(q, sent), Taken(c))
    BY <1>5, <1>6, GrowingAppend
  <2>2. Growing(buf[c], Taken(c), Offered(c))'
    BY <1>3, <1>4, <1>9, <2>1 DEF Growing
  <2>3. InOrder(c)'
    BY <1>2, <1>4, <1>6, <2>2 DEF InOrder
  <2>4. Complete(c)'
    <3> SUFFICES ASSUME c \notin missed \cup ctxDone
                 PROVE  /\ handler[c] = "write" => writing[c] = last[c] + 1
                        /\ Gapless(Append(q, sent), Taken(c))
                        /\ Taken(c) + Len(Append(q, sent)) = sent
      BY <1>2, <1>3, <1>4, <1>9 DEF Complete, Gapless
    <3>1. c \in clients
      BY <1>1, SendContext
    <3>2. /\ handler[c] = "write" => writing[c] = last[c] + 1
          /\ Gapless(q, Taken(c))
          /\ Taken(c) + Len(q) = sent - 1
      BY <1>3, <1>6, <3>1 DEF Complete
    <3>3. Len(q) \in Nat
      BY <1>5
    <3> QED
      BY <1>5, <2>1, <3>2, <3>3
  <2> QED
    BY <2>3, <2>4
<1> QED
  BY <1>7, <1>8, <1>9

-----------------------------------------------------------------------------
\* A step of one connection's handler leaves the others' channels alone.
LEMMA OrderOthers ==
    ASSUME FeedInv, NEW c \in Client, NEW d \in Client \ {c}, d \in Subscribed,
           \/ FeedSubscribe(c) \/ FeedWrite(c) \/ FeedUnsubscribe(c)
           \/ FeedBroadcastSend(c)
           \/ /\ Receive(c) \/ WriteError(c)
              /\ UNCHANGED historyVars
    PROVE  InOrder(d)' /\ Complete(d)'
<1>1. InOrder(d) /\ Complete(d)
  BY DEF FeedInv, FeedOrder
<1>2. /\ buf'[d] = buf[d] /\ writing'[d] = writing[d] /\ last'[d] = last[d]
      /\ handler'[d] = handler[d]
      /\ (d \in pending') = (d \in pending)
      /\ sent' = sent
      /\ d \in missed \cup ctxDone => d \in missed' \cup ctxDone'
      /\ d \in clients' => d \in clients
  <2> USE DEF FeedInv, FeedType, IInv, TypeOK, Goto, bcastVars, handlerVars, historyVars
  <2>1. CASE FeedSubscribe(c)
    BY <2>1 DEF FeedSubscribe, Subscribe
  <2>2. CASE FeedWrite(c)
    BY <2>2 DEF FeedWrite, Write
  <2>3. CASE FeedUnsubscribe(c)
    BY <2>3 DEF FeedUnsubscribe, Unsubscribe
  <2>4. CASE FeedBroadcastSend(c)
    BY <2>4 DEF FeedBroadcastSend, BroadcastSend
  <2>5. CASE (Receive(c) \/ WriteError(c)) /\ UNCHANGED historyVars
    BY <2>5 DEF Receive, WriteError
  <2> QED
    BY <2>1, <2>2, <2>3, <2>4, <2>5
<1>3. Offered(d)' = Offered(d)
  BY <1>2 DEF Offered
<1> QED
  BY <1>1, <1>2, <1>3, Untouched

\* The steps that touch no channel: the lock, the context and the way out.
LEMMA OrderQuiet ==
    ASSUME FeedInv, NEW d \in Subscribed,
           \/ FeedOther /\ ~\E c \in Client : Receive(c) \/ WriteError(c)
           \/ UNCHANGED feedVars
    PROVE  InOrder(d)' /\ Complete(d)'
<1>1. InOrder(d) /\ Complete(d) /\ d \in Client
  BY DEF FeedInv, FeedOrder, Subscribed
<1> DEFINE Quiet == /\ UNCHANGED <<buf, writing, last, pending, sent, missed>>
                    /\ (handler'[d] = "write") = (handler[d] = "write")
                    /\ ctxDone \subseteq ctxDone'
                    /\ clients' \subseteq clients
<1>2. Quiet
  <2> USE DEF FeedInv, IInv, TypeOK, Goto, stopVars, bcastVars, handlerVars, historyVars
  <2>1. ASSUME NEW c \in Client, UNCHANGED historyVars,
               Connect(c) \/ ReceiveClosed(c) \/ ContextDone(c)
        PROVE  Quiet
    <3>1. PICK to \in {"open", "leave"} :
              /\ handler[c] # "write"
              /\ handler' = [handler EXCEPT ![c] = to]
      BY <2>1 DEF Connect, ReceiveClosed, ContextDone
    <3>2. (handler'[d] = "write") = (handler[d] = "write")
      BY <1>1, <3>1
    <3> QED
      BY <2>1, <3>2 DEF Connect, ReceiveClosed, ContextDone
  <2>2. ASSUME NEW c \in Client, UNCHANGED historyVars, Disconnect(c)
        PROVE  Quiet
    BY <2>2 DEF Disconnect
  <2>3. CASE UNCHANGED historyVars /\ (BroadcastEnd \/ Stop)
    BY <2>3 DEF BroadcastEnd, Stop, StopSignal, StopLock, StopClose, StopEnd
  <2>4. CASE UNCHANGED feedVars
    BY <2>4 DEF feedVars, brokerVars
  <2> QED
    BY <2>1, <2>2, <2>3, <2>4 DEF FeedOther
<1>3. Offered(d)' = Offered(d)
  BY <1>2 DEF Offered
<1> QED
  BY <1>1, <1>2, <1>3, Untouched

\* None of the other steps lets a handler in or out.
LEMMA QuietSubscribed ==
    ASSUME TypeOK, FeedOther \/ UNCHANGED feedVars
    PROVE  Subscribed' = Subscribed
<1> USE DEF TypeOK, Subscribed, Goto, stopVars, bcastVars, handlerVars
<1>1. ASSUME NEW c \in Client, Connect(c) PROVE Subscribed' = Subscribed
  BY <1>1 DEF Connect
<1>2. ASSUME NEW c \in Client,
             Receive(c) \/ ReceiveClosed(c) \/ WriteError(c) \/ ContextDone(c)
      PROVE  Subscribed' = Subscribed
  BY <1>2 DEF Receive, ReceiveClosed, WriteError, ContextDone
<1>3. CASE UNCHANGED handler
  BY <1>3
<1> QED
  BY <1>1, <1>2, <1>3 DEF FeedOther, feedVars, brokerVars, Disconnect, BroadcastEnd,
     Stop, StopSignal, StopLock, StopClose, StopEnd

\* Every step keeps what is in the channels in order, and complete where
\* nothing was lost.
LEMMA FeedOrderStep == FeedInv /\ [FeedNext]_feedVars => FeedOrder'
<1> SUFFICES ASSUME FeedInv, [FeedNext]_feedVars PROVE FeedOrder'
  OBVIOUS
<1>1. FeedOrder /\ LockDiscipline /\ TypeOK
  BY DEF FeedInv, IInv
<1>2. CASE FeedBroadcastBegin
  <2>1. bcast' = sent' /\ handler' = handler
    BY <1>2 DEF FeedBroadcastBegin, BroadcastBegin, handlerVars
  <2>2. Subscribed' = Subscribed
    BY <2>1 DEF Subscribed
  <2> QED
    BY <1>2, <2>1, <2>2, OrderBegin DEF FeedOrder, Subscribed
<1>3. ASSUME NEW c \in Client, FeedBroadcastSend(c) PROVE FeedOrder'
  <2>1. UNCHANGED <<bcast, sent, handler>>
    BY <1>3 DEF FeedBroadcastSend, BroadcastSend, handlerVars
  <2>2. Subscribed' = Subscribed
    BY <2>1 DEF Subscribed
  <2>3. \A d \in Subscribed : InOrder(d)' /\ Complete(d)'
    BY <1>3, OrderSend, OrderOthers DEF Subscribed
  <2> QED
    BY <1>1, <2>1, <2>2, <2>3 DEF FeedOrder, Broadcasting
<1>4. ASSUME NEW c \in Client, FeedSubscribe(c) PROVE FeedOrder'
  <2>1. /\ UNCHANGED <<bcast, sent>>
        /\ Subscribed' \subseteq Subscribed \cup {c}
    BY <1>1, <1>4 DEF FeedSubscribe, Subscribe, Goto, Subscribed, TypeOK, bcastVars
  <2>2. \A d \in Subscribed' : InOrder(d)' /\ Complete(d)'
    BY <1>4, <2>1, OrderSubscribe, OrderOthers DEF Subscribed
  <2> QED
    BY <1>1, <2>1, <2>2 DEF FeedOrder, Broadcasting
<1>5. ASSUME NEW c \in Client,
             \/ FeedWrite(c)
             \/ (Receive(c) \/ WriteError(c)) /\ UNCHANGED historyVars
      PROVE  FeedOrder'
  <2>1. /\ UNCHANGED <<bcast, sent>>
        /\ c \in Subscribed
        /\ Subscribed' = Subscribed
    BY <1>1, <1>5 DEF FeedWrite, Write, Receive, WriteError, Goto, Subscribed, TypeOK,
       bcastVars, historyVars
  <2>2. \A d \in Subscribed : InOrder(d)' /\ Complete(d)'
    BY <1>5, <2>1, OrderWrite, OrderReceive, OrderWriteError, OrderOthers
       DEF Subscribed
  <2> QED
    BY <1>1, <2>1, <2>2 DEF FeedOrder, Broadcasting
<1>6. ASSUME NEW c \in Client, FeedUnsubscribe(c) PROVE FeedOrder'
  <2>1. /\ UNCHANGED <<bcast, sent>>
        /\ Subscribed' = Subscribed \ {c}
    BY <1>1, <1>6 DEF FeedUnsubscribe, Unsubscribe, Goto, Subscribed, TypeOK, bcastVars
  <2>2. \A d \in Subscribed \ {c} : InOrder(d)' /\ Complete(d)'
    BY <1>6, OrderOthers DEF Subscribed
  <2> QED
    BY <1>1, <2>1, <2>2 DEF FeedOrder, Broadcasting
<1>7. CASE \/ FeedOther /\ ~\E c \in Client : Receive(c) \/ WriteError(c)
           \/ UNCHANGED feedVars
  <2>1. Subscribed' = Subscribed
    BY <1>1, <1>7, QuietSubscribed
  <2>2. \A d \in Subscribed : InOrder(d)' /\ Complete(d)'
    BY <1>7, OrderQuiet
  <2>3. sent' = sent /\ (bcast' = bcast \/ bcast' = None)
    BY <1>7 DEF FeedOther, feedVars, brokerVars, historyVars, BroadcastEnd, Stop,
       StopSignal, StopLock, StopClose, StopEnd, Connect, ReceiveClosed, Disconnect,
       ContextDone, bcastVars
  <2> QED
    BY <1>1, <2>1, <2>2, <2>3 DEF FeedOrder, Broadcasting
<1> QED
  BY <1>2, <1>3, <1>4, <1>5, <1>6, <1>7 DEF FeedNext, FeedOther

-----------------------------------------------------------------------------
\* The invariant holds in every reachable state.
LEMMA FeedInvariance == FeedSpec => []FeedInv
<1>1. FeedInit => FeedInv
  <2> SUFFICES ASSUME FeedInit PROVE FeedInv
    OBVIOUS
  <2>1. IInv
    BY InitIInv DEF FeedInit
  <2>2. FeedType
    BY DEF FeedInit, FeedType
  <2>3. FeedOrder
    BY DEF FeedInit, Init, FeedOrder, Subscribed, Broadcasting
  <2> QED
    BY <2>1, <2>2, <2>3 DEF FeedInv
<1>2. FeedInv /\ [FeedNext]_feedVars => FeedInv'
  <2>1. IInv /\ [Next]_brokerVars => IInv'
    BY TypeStep, LockStep, PanicStep, HandlerStep, SubscribedStep DEF IInv
  <2> QED
    BY <2>1, FeedStepIsStep, FeedTypeStep, FeedOrderStep DEF FeedInv
<1> QED
  BY <1>1, <1>2, PTL DEF FeedSpec

\* Every step of the broker is one of the feed, or none.
LEMMA FeedStepRefines ==
    FeedInv /\ [FeedNext]_feedVars => [Feed!Next]_(Feed!feedVars)
<1> SUFFICES ASSUME FeedInv, [FeedNext]_feedVars
             PROVE  Feed!Next \/ UNCHANGED <<sent, Subscribed, last, missed>>
  BY DEF Feed!feedVars
<1>1. TypeOK /\ FeedType
  BY DEF FeedInv, IInv
<1>2. CASE FeedBroadcastBegin
  <2>1. Subscribed' = Subscribed
    BY <1>2 DEF FeedBroadcastBegin, BroadcastBegin, handlerVars, Subscribed
  <2> QED
    BY <1>2, <2>1 DEF FeedBroadcastBegin, Feed!Next, Feed!Publish
<1>3. ASSUME NEW c \in Client, FeedBroadcastSend(c)
      PROVE  Feed!Overrun(c) \/ UNCHANGED <<sent, Subscribed, last, missed>>
  <2>1. /\ UNCHANGED <<sent, last, Subscribed>>
        /\ missed' = IF buf'[c] = buf[c] THEN missed \cup {c} ELSE missed
    BY <1>3 DEF FeedBroadcastSend, BroadcastSend, handlerVars, Subscribed
  <2>2. c \in Subscribed
    BY <1>3, SendContext DEF FeedBroadcastSend
  <2>3. CASE buf'[c] = buf[c]
    <3>1. sent - last[c] > BufSize
      BY <1>3, <2>3, SkippedIsBehind DEF FeedBroadcastSend
    <3> QED
      BY <2>1, <2>2, <2>3, <3>1 DEF Feed!Overrun
  <2> QED
    BY <2>1, <2>3
<1>4. ASSUME NEW c \in Client, FeedSubscribe(c) PROVE Feed!Join(c)
  BY <1>1, <1>4 DEF FeedSubscribe, Subscribe, Goto, TypeOK, Subscribed, Feed!Join
<1>5. ASSUME NEW c \in Client, FeedWrite(c)
      PROVE  \E n \in 1 .. sent : Feed!Show(c, n)
  <2>1. /\ handler[c] = "write" /\ c \in Subscribed /\ c \notin ctxDone
        /\ Subscribed' = Subscribed
        /\ last' = [last EXCEPT ![c] = writing[c]]
        /\ UNCHANGED <<sent, missed>>
    BY <1>1, <1>5 DEF FeedWrite, Write, Goto, TypeOK, Subscribed
  <2>2. /\ sent \in Nat /\ last[c] \in Nat /\ writing[c] \in Nat
        /\ Taken(c) = writing[c]
        /\ Offered(c) <= sent /\ Offered(c) \in Int
    BY <2>1, FeedTypes DEF Taken, Offered
  <2>3. InOrder(c) /\ Complete(c)
    BY <2>1 DEF FeedInv, FeedOrder
  <2>4. last[c] < writing[c] /\ writing[c] <= sent
    BY <2>1, <2>2, <2>3 DEF InOrder, Growing
  <2>5. writing[c] = last[c] + 1 \/ c \in missed
    BY <2>1, <2>3 DEF Complete
  <2>6. writing[c] \in 1 .. sent
    BY <2>2, <2>4
  <2> QED
    BY <2>1, <2>4, <2>5, <2>6 DEF Feed!Show
<1>6. ASSUME NEW c \in Client, FeedUnsubscribe(c) PROVE Feed!Leave(c)
  BY <1>1, <1>6 DEF FeedUnsubscribe, Unsubscribe, Goto, TypeOK, Subscribed, Feed!Leave
<1>7. CASE FeedOther \/ UNCHANGED feedVars
  <2>1. UNCHANGED <<sent, last, missed>>
    BY <1>7 DEF FeedOther, feedVars, historyVars
  <2>2. Subscribed' = Subscribed
    BY <1>1, <1>7, QuietSubscribed
  <2> QED
    BY <2>1, <2>2
<1>8. CASE \E c \in Client : FeedBroadcastSend(c)
  BY <1>3, <1>8 DEF Feed!Next
<1>9. CASE \E c \in Client : FeedSubscribe(c) \/ FeedWrite(c) \/ FeedUnsubscribe(c)
  BY <1>4, <1>5, <1>6, <1>9 DEF Feed!Next
<1> QED
  BY <1>2, <1>7, <1>8, <1>9 DEF FeedNext

\* Whatever the number of connections, of broadcasts and of places in a
\* channel: what a connection is shown is in order, each number once, and
\* without a gap unless it was more than a channel behind.
THEOREM BrokerImplementsLossyFeed == FeedSpec => ImplementsLossyFeed
<1>1. FeedInit => Feed!Init
  BY DEF FeedInit, Init, Subscribed, Feed!Init
<1> QED
  BY <1>1, FeedInvariance, FeedStepRefines, PTL
     DEF FeedSpec, ImplementsLossyFeed, Feed!Spec
=============================================================================
