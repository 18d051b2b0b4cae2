---------------------------- MODULE BrowserProofs ----------------------------
(***************************************************************************)
(* Proofs about BrowserApp, for any filters and any containers.            *)
(*                                                                         *)
(* What is on the page is no invariant by itself while requests are on     *)
(* their way.  DueList and DueDetail say what the page comes to when all   *)
(* of them are answered: what waits, or else what is in flight, or else    *)
(* what is there.                                                          *)
(***************************************************************************)
EXTENDS BrowserApp, TLAPS

DueList ==
    IF queued.kind = "list" THEN queued.of
    ELSE IF inflight.kind = "list" THEN inflight.of ELSE shown

DueDetail ==
    IF queued.kind = "detail" THEN queued.of
    ELSE IF inflight.kind = "detail" THEN inflight.of ELSE detail

\* The list that is due is the one the filters ask for, but for a debounced
\* search that has still to be sent.
ListIsDue == ~debouncing /\ ~listMissed => DueList = filter

\* The detail that is due is the one of the container that was clicked on.
DetailIsDue == detailOpen /\ ~detailMissed => DueDetail = detailContainerId

\* The socket that is open is the one the page knows of, and an answer that is
\* still due for the panel was due when the terminal was opened: while the panel
\* is open it is not asked for again.
SocketKnown ==
    /\ sockets = (IF activeTerminalWS = "open" THEN 1 ELSE 0)
    /\ activeTerminalWS = "open" => detailOpen
    /\ activeTerminalWS = "open" /\ (DetailDue \/ unseen) => early

IInv ==
    /\ TypeOK
    /\ ListIsDue
    /\ DetailIsDue
    /\ SocketKnown
    /\ StreamOrTimer

\* A request is none, or for a list, or for a container.
LEMMA RequestKinds ==
    ASSUME NEW r \in Requests
    PROVE  /\ r.kind \in {"none", "list", "detail"}
           /\ r.kind = "none" <=> r = NoRequest
           /\ r.kind = "list" => r.of \in Filters
           /\ r.kind = "detail" => r.of \in Containers
BY DEF Requests, NoRequest, List, Detail

\* So are the one in flight and the one that waits.
LEMMA RequestsHeld ==
    TypeOK => \A r \in {inflight, queued} :
        /\ r.kind \in {"none", "list", "detail"}
        /\ r.kind = "none" <=> r = NoRequest
        /\ r.kind = "list" => r.of \in Filters
        /\ r.kind = "detail" => r.of \in Containers
BY RequestKinds DEF TypeOK

\* What is made a request of.
LEMMA RequestsMade ==
    /\ NoRequest \in Requests /\ NoRequest.kind = "none"
    /\ \A f \in Filters : /\ List(f) \in Requests
                          /\ List(f).kind = "list" /\ List(f).of = f
    /\ \A c \in Containers : /\ Detail(c) \in Requests
                             /\ Detail(c).kind = "detail" /\ Detail(c).of = c
BY DEF Requests, NoRequest, List, Detail

\* A page that was just loaded has what it asks for.
LEMMA InitIInv == Init => IInv
<1> SUFFICES ASSUME Init PROVE IInv
  OBVIOUS
<1> USE FilterAssumption, ContainerAssumption, RequestsMade DEF Init
<1>1. TypeOK
  BY DEF TypeOK
<1>2. ListIsDue /\ DetailIsDue
  BY DEF ListIsDue, DetailIsDue, DueList, DueDetail
<1>3. SocketKnown /\ StreamOrTimer
  BY DEF SocketKnown, DetailDue, StreamOrTimer
<1> QED
  BY <1>1, <1>2, <1>3 DEF IInv

\* What is put into #container-list and #detail-content was asked for with a
\* filter and for a container, and a request waits only behind another.
LEMMA TypeStep == IInv /\ [Next]_browserVars => TypeOK'
<1> SUFFICES ASSUME IInv, [Next]_browserVars PROVE TypeOK'
  OBVIOUS
<1> USE FilterAssumption, ContainerAssumption, RequestsHeld, RequestsMade
    DEF IInv, TypeOK, SocketKnown, storeVars, panelVars, htmxVars, streamVars, termVars, missedVars, pageVars
<1>1. CASE Answer
  BY <1>1 DEF Answer, NextInQueue
<1>2. CASE AnswerFails
  BY <1>2 DEF AnswerFails, NextInQueue
<1>3. ASSUME NEW f \in Filters, setFilter(f) PROVE TypeOK'
  BY <1>3 DEF setFilter, refreshContainers, Ajax, GivesWay
<1>4. ASSUME NEW f \in Filters, Type(f) PROVE TypeOK'
  BY <1>4 DEF Type
<1>5. CASE Debounced
  BY <1>5 DEF Debounced, refreshContainers, Ajax, GivesWay
<1>6. ASSUME NEW c \in Containers, openDetail(c) PROVE TypeOK'
  BY <1>6 DEF openDetail, Ajax, GivesWay
<1>7. CASE closeDetail
  <2>1. sockets' \in Nat
    BY <1>7 DEF closeDetail, destroyed
  <2>2. ~detailOpen' /\ detailOpen' \in BOOLEAN /\ detailContainerId' \notin Containers
    BY <1>7 DEF closeDetail
  <2> QED
    BY <1>7, <2>1, <2>2 DEF closeDetail
<1>8. CASE initTerminal
  <2>1. sockets' \in Nat
    BY <1>8 DEF initTerminal, destroyed
  <2>2. early' \in BOOLEAN
    <3>1. DetailDue \in BOOLEAN
      BY DEF DetailDue
    <3>2. early' = DetailDue \/ early' = FALSE
      BY <1>8 DEF initTerminal
    <3> QED
      BY <3>1, <3>2
  <2> QED
    BY <1>8, <2>1, <2>2 DEF initTerminal
<1>9. CASE TerminalEnds
  BY <1>9 DEF TerminalEnds
<1>10. CASE OnOpen
  BY <1>10 DEF OnOpen
<1>11. CASE OnContainers
  BY <1>11 DEF OnContainers
<1>12. CASE OnError
  BY <1>12 DEF OnError
<1>13. CASE connect
  BY <1>13 DEF connect
<1>14. CASE ServerChanges
  BY <1>14 DEF ServerChanges
<1>15. CASE UNCHANGED browserVars
  BY <1>15 DEF browserVars
<1> QED
  BY <1>1, <1>2, <1>3, <1>4, <1>5, <1>6, <1>7, <1>8, <1>9, <1>10,
     <1>11, <1>12, <1>13, <1>14, <1>15 DEF Next

\* A refresh makes its own list the one that is due, and whatever takes it away
\* again is noted: an answer moves it to the page.
LEMMA ListStep == IInv /\ [Next]_browserVars => ListIsDue'
<1> SUFFICES ASSUME IInv, [Next]_browserVars PROVE ListIsDue'
  OBVIOUS
<1> USE ContainerAssumption, RequestsHeld, RequestsMade
    DEF IInv, TypeOK, ListIsDue, DueList, storeVars, panelVars, htmxVars, streamVars, termVars, missedVars, pageVars
<1>1. CASE Answer
  BY <1>1 DEF Answer, NextInQueue
<1>2. CASE AnswerFails
  BY <1>2 DEF AnswerFails, NextInQueue
<1>3. ASSUME NEW f \in Filters, setFilter(f) PROVE ListIsDue'
  BY <1>3 DEF setFilter, refreshContainers, Ajax, GivesWay
<1>4. ASSUME NEW f \in Filters, Type(f) PROVE ListIsDue'
  BY <1>4 DEF Type
<1>5. CASE Debounced
  BY <1>5 DEF Debounced, refreshContainers, Ajax, GivesWay
<1>6. ASSUME NEW c \in Containers, openDetail(c) PROVE ListIsDue'
  BY <1>6 DEF openDetail, Ajax, GivesWay
<1>7. CASE closeDetail
  BY <1>7 DEF closeDetail, destroyed
<1>8. CASE initTerminal
  BY <1>8 DEF initTerminal, destroyed
<1>9. CASE TerminalEnds
  BY <1>9 DEF TerminalEnds
<1>10. CASE OnOpen
  BY <1>10 DEF OnOpen
<1>11. CASE OnContainers
  BY <1>11 DEF OnContainers
<1>12. CASE OnError
  BY <1>12 DEF OnError
<1>13. CASE connect
  BY <1>13 DEF connect
<1>14. CASE ServerChanges
  BY <1>14 DEF ServerChanges
<1>15. CASE UNCHANGED browserVars
  BY <1>15 DEF browserVars
<1> QED
  BY <1>1, <1>2, <1>3, <1>4, <1>5, <1>6, <1>7, <1>8, <1>9, <1>10,
     <1>11, <1>12, <1>13, <1>14, <1>15 DEF Next

\* A request for the panel that is still on its way when the panel is opened for
\* another container is answered before the one for that container.
LEMMA DetailStep == IInv /\ [Next]_browserVars => DetailIsDue'
<1> SUFFICES ASSUME IInv, [Next]_browserVars PROVE DetailIsDue'
  OBVIOUS
<1> USE ContainerAssumption, RequestsHeld, RequestsMade
    DEF IInv, TypeOK, DetailIsDue, DueDetail, storeVars, panelVars, htmxVars, streamVars, termVars, missedVars, pageVars
<1>1. CASE Answer
  BY <1>1 DEF Answer, NextInQueue
<1>2. CASE AnswerFails
  BY <1>2 DEF AnswerFails, NextInQueue
<1>3. ASSUME NEW f \in Filters, setFilter(f) PROVE DetailIsDue'
  BY <1>3 DEF setFilter, refreshContainers, Ajax, GivesWay
<1>4. ASSUME NEW f \in Filters, Type(f) PROVE DetailIsDue'
  BY <1>4 DEF Type
<1>5. CASE Debounced
  BY <1>5 DEF Debounced, refreshContainers, Ajax, GivesWay
<1>6. ASSUME NEW c \in Containers, openDetail(c) PROVE DetailIsDue'
  BY <1>6 DEF openDetail, Ajax, GivesWay
<1>7. CASE closeDetail
  BY <1>7 DEF closeDetail, destroyed
<1>8. CASE initTerminal
  BY <1>8 DEF initTerminal, destroyed
<1>9. CASE TerminalEnds
  BY <1>9 DEF TerminalEnds
<1>10. CASE OnOpen
  BY <1>10 DEF OnOpen
<1>11. CASE OnContainers
  BY <1>11 DEF OnContainers
<1>12. CASE OnError
  BY <1>12 DEF OnError
<1>13. CASE connect
  BY <1>13 DEF connect
<1>14. CASE ServerChanges
  BY <1>14 DEF ServerChanges
<1>15. CASE UNCHANGED browserVars
  BY <1>15 DEF browserVars
<1> QED
  BY <1>1, <1>2, <1>3, <1>4, <1>5, <1>6, <1>7, <1>8, <1>9, <1>10,
     <1>11, <1>12, <1>13, <1>14, <1>15 DEF Next

\* Sockets are made and closed with the panel, event sources with their timers.
LEMMA ConnectionStep ==
    IInv /\ [Next]_browserVars => SocketKnown' /\ StreamOrTimer'
<1> SUFFICES ASSUME IInv, [Next]_browserVars PROVE SocketKnown' /\ StreamOrTimer'
  OBVIOUS
<1> USE RequestsMade
    DEF IInv, TypeOK, SocketKnown, DetailDue, StreamOrTimer, storeVars, panelVars, htmxVars,
            streamVars, termVars, missedVars, pageVars
<1>1. CASE Answer \/ AnswerFails
  BY <1>1 DEF Answer, AnswerFails, NextInQueue
<1>2. CASE Debounced \/ \E f \in Filters : setFilter(f) \/ Type(f)
  BY <1>2 DEF setFilter, Type, Debounced, refreshContainers, Ajax
<1>3. CASE \E c \in Containers : openDetail(c)
  BY <1>3 DEF openDetail
<1>4. CASE closeDetail \/ initTerminal \/ TerminalEnds
  BY <1>4 DEF closeDetail, initTerminal, TerminalEnds, destroyed
<1>5. CASE OnOpen \/ OnContainers \/ OnError \/ connect \/ ServerChanges
  BY <1>5 DEF OnOpen, OnContainers, OnError, connect, ServerChanges
<1>6. CASE UNCHANGED browserVars
  BY <1>6 DEF browserVars
<1> QED
  BY <1>1, <1>2, <1>3, <1>4, <1>5, <1>6 DEF Next

\* IInv is inductive.
LEMMA Inductive == Spec => []IInv
<1>1. IInv /\ [Next]_browserVars => IInv'
  BY TypeStep, ListStep, DetailStep, ConnectionStep DEF IInv
<1> QED
  BY InitIInv, <1>1, PTL DEF Spec

-----------------------------------------------------------------------------
\* The page keeps its variables in shape.
THEOREM TypeCorrect == Spec => []TypeOK
BY Inductive, PTL DEF IInv

\* With nothing on its way the list that is due is the one that is shown.
THEOREM ListFits == Spec => []ListFitsFilters
<1>1. IInv => ListFitsFilters
  BY DEF IInv, TypeOK, NoRequest, ListIsDue, DueList, ListFitsFilters, Busy
<1> QED
  BY <1>1, Inductive, PTL

\* With nothing on its way the open panel shows the container it was opened for.
THEOREM PanelFits == Spec => []PanelShowsChosen
<1>1. IInv => PanelShowsChosen
  BY DEF IInv, TypeOK, NoRequest, DetailIsDue, DueDetail, PanelShowsChosen, Busy
<1> QED
  BY <1>1, Inductive, PTL

\* No terminal session outlives its panel, there are never two, and only one that
\* was opened before the panel's answer had come loses its element to it.
THEOREM OneTerminal == Spec => []OneTerminalInPanel
<1>1. IInv => OneTerminalInPanel
  BY DEF IInv, SocketKnown, OneTerminalInPanel
<1> QED
  BY <1>1, Inductive, PTL

\* There is always exactly one event stream or one reconnect pending.
THEOREM AlwaysStreamOrTimer == Spec => []StreamOrTimer
BY Inductive, PTL DEF IInv
==============================================================================
