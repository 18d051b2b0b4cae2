----------------------------- MODULE BrowserApp -----------------------------
(***************************************************************************)
(* The page in the browser, web/static/js/app.js: the list of containers   *)
(* and its filters, the detail panel and the terminal in it, and the event *)
(* stream, all in one thread of callbacks.                                 *)
(*                                                                         *)
(* htmx sends one request of the page at a time.  One that is made         *)
(* meanwhile waits, and takes the place of the one that waited before      *)
(* ("last", what htmx does unless an element says otherwise).              *)
(***************************************************************************)
EXTENDS Naturals

CONSTANTS
    Filters, NoFilter,      \* what search, status, group and sort may be set to
    Containers, None        \* identifiers, and none of them

ASSUME FilterAssumption == NoFilter \in Filters
ASSUME ContainerAssumption == None \notin Containers

VARIABLES
    filter,         \* searchQuery, statusFilter, groupFilter, sortBy of the store
    debouncing,     \* the timer of the search input is set
    shown,          \* the filter the list on the page was made with
    detailOpen, detailContainerId,
    detail,         \* the container #detail-content was filled with
    inflight, queued,   \* the requests of htmx, [kind, of]
    eventSource,    \* "connecting", "open" or "closed"
    timers,         \* calls of connect that setTimeout will make
    activeTerminalWS,   \* "none", "open", or "ended" by the server
    sockets,        \* WebSockets that are open
    early,          \* the terminal was opened while an answer for the panel was due
    unseen,         \* an answer has replaced the element of the terminal
    up,             \* the server answers
    listMissed,     \* since the last refresh was made: a broadcast has replaced
                    \* the list, or the refresh gave way or failed
    detailMissed    \* the request for the panel gave way or failed

storeVars  == <<filter, debouncing>>
panelVars  == <<detailOpen, detailContainerId>>
htmxVars   == <<inflight, queued>>
streamVars == <<eventSource, timers>>
termVars   == <<activeTerminalWS, sockets, early, unseen>>
missedVars == <<listMissed, detailMissed>>
pageVars   == <<shown, detail>>
browserVars == <<storeVars, panelVars, htmxVars, streamVars, termVars, missedVars,
                 pageVars, up>>

NoRequest == [kind |-> "none", of |-> None]
List(f)   == [kind |-> "list", of |-> f]
Detail(c) == [kind |-> "detail", of |-> c]

\* The dashboard has been loaded, and initSSE called.
Init ==
    /\ filter = NoFilter
    /\ debouncing = FALSE
    /\ shown = NoFilter
    /\ detailOpen = FALSE
    /\ detailContainerId = None
    /\ detail = None
    /\ inflight = NoRequest
    /\ queued = NoRequest
    /\ eventSource = "connecting"
    /\ timers = 0
    /\ activeTerminalWS = "none"
    /\ sockets = 0
    /\ early = FALSE
    /\ unseen = FALSE
    /\ up = TRUE
    /\ listMissed = FALSE
    /\ detailMissed = FALSE

-----------------------------------------------------------------------------
(* htmx. *)

\* htmx.ajax.
Ajax(req) ==
    IF inflight = NoRequest
    THEN inflight' = req /\ UNCHANGED queued
    ELSE queued' = req /\ UNCHANGED inflight

\* A request of the other kind that waited is dropped.
GivesWay(kind) == inflight # NoRequest /\ queued.kind = kind

NextInQueue ==
    /\ inflight' = queued
    /\ queued' = NoRequest

\* The response is put in its place.  That of the panel replaces what is in
\* #detail-content, the element of a terminal included, whose socket stays open.
Answer ==
    /\ up
    /\ inflight # NoRequest
    /\ NextInQueue
    /\ \/ /\ inflight.kind = "list"
          /\ shown' = inflight.of
          /\ UNCHANGED <<detail, unseen>>
       \/ /\ inflight.kind = "detail"
          /\ detail' = inflight.of
          /\ unseen' = (activeTerminalWS = "open")
          /\ UNCHANGED shown
    /\ UNCHANGED <<storeVars, panelVars, streamVars, activeTerminalWS, sockets, early,
                   missedVars, up>>

\* No response, or one with the status of an error: nothing is put in its place.
AnswerFails ==
    /\ inflight # NoRequest
    /\ NextInQueue
    /\ listMissed' = (listMissed \/ inflight.kind = "list")
    /\ detailMissed' = (detailMissed \/ inflight.kind = "detail")
    /\ UNCHANGED <<storeVars, panelVars, streamVars, termVars, pageVars, up>>

-----------------------------------------------------------------------------
(* The store. *)

refreshContainers(f) ==
    /\ Ajax(List(f))
    /\ listMissed' = FALSE
    /\ detailMissed' = (detailMissed \/ GivesWay("detail"))

\* setFilter, setGroup and setSort.
setFilter(f) ==
    /\ filter' = f
    /\ refreshContainers(f)
    /\ UNCHANGED <<debouncing, panelVars, streamVars, termVars, pageVars, up>>

\* x-model sets the query at once; debounce sets the timer anew.
Type(f) ==
    /\ filter' = f
    /\ debouncing' = TRUE
    /\ UNCHANGED <<panelVars, htmxVars, streamVars, termVars, missedVars, pageVars, up>>

\* Faulty variant: a search without text is not sent.
DebouncedUnlessEmpty ==
    /\ debouncing
    /\ debouncing' = FALSE
    /\ IF filter = NoFilter THEN UNCHANGED <<htmxVars, missedVars>>
       ELSE refreshContainers(filter)
    /\ UNCHANGED <<filter, panelVars, streamVars, termVars, pageVars, up>>

Debounced ==
    /\ debouncing
    /\ debouncing' = FALSE
    /\ refreshContainers(filter)
    /\ UNCHANGED <<filter, panelVars, streamVars, termVars, pageVars, up>>

\* Faulty variant: what the panel was filled with last is not asked for again.
openDetailCached(c) ==
    /\ ~detailOpen
    /\ detailOpen' = TRUE
    /\ detailContainerId' = c
    /\ IF detail = c THEN UNCHANGED htmxVars ELSE Ajax(Detail(c))
    /\ listMissed' = (listMissed \/ (detail # c /\ GivesWay("list")))
    /\ detailMissed' = FALSE
    /\ UNCHANGED <<storeVars, streamVars, termVars, pageVars, up>>

\* The open panel covers the cards.
openDetail(c) ==
    /\ ~detailOpen
    /\ detailOpen' = TRUE
    /\ detailContainerId' = c
    /\ Ajax(Detail(c))
    /\ listMissed' = (listMissed \/ GivesWay("list"))
    /\ detailMissed' = FALSE
    /\ UNCHANGED <<storeVars, streamVars, termVars, pageVars, up>>

\* destroyTerminal.
destroyed == IF activeTerminalWS = "open" THEN sockets - 1 ELSE sockets

\* Faulty variant: the terminal is left alone.
closeDetailOnly ==
    /\ detailOpen
    /\ detailOpen' = FALSE
    /\ detailContainerId' = None
    /\ UNCHANGED <<storeVars, htmxVars, streamVars, termVars, missedVars, pageVars, up>>

\* Faulty variant: the store keeps the container of the panel.
closeDetailKeepsId ==
    /\ detailOpen
    /\ detailOpen' = FALSE
    /\ sockets' = destroyed
    /\ activeTerminalWS' = "none"
    /\ early' = FALSE
    /\ unseen' = FALSE
    /\ UNCHANGED <<detailContainerId, storeVars, htmxVars, streamVars, missedVars, pageVars, up>>

closeDetail ==
    /\ detailOpen
    /\ detailOpen' = FALSE
    /\ detailContainerId' = None
    /\ sockets' = destroyed
    /\ activeTerminalWS' = "none"
    /\ early' = FALSE
    /\ unseen' = FALSE
    /\ UNCHANGED <<storeVars, htmxVars, streamVars, missedVars, pageVars, up>>

DetailDue == "detail" \in {inflight.kind, queued.kind}

\* The terminal tab of what is in the panel, which may be the container before:
\* the previous terminal is destroyed first, and without its element or xterm
\* there is no other.
initTerminal ==
    /\ detailOpen
    /\ detail # None
    /\ \/ sockets' = destroyed + 1 /\ activeTerminalWS' = "open" /\ early' = DetailDue
       \/ sockets' = destroyed /\ activeTerminalWS' = "none" /\ early' = FALSE
    /\ unseen' = FALSE
    /\ UNCHANGED <<storeVars, panelVars, htmxVars, streamVars, missedVars, pageVars, up>>

\* The session ends, or its connection breaks; the variable keeps the socket.
TerminalEnds ==
    /\ activeTerminalWS = "open"
    /\ sockets' = sockets - 1
    /\ activeTerminalWS' = "ended"
    /\ UNCHANGED <<early, unseen, storeVars, panelVars, htmxVars, streamVars, missedVars, pageVars, up>>

-----------------------------------------------------------------------------
(* The event stream. *)

OnOpen ==
    /\ up
    /\ eventSource = "connecting"
    /\ eventSource' = "open"
    /\ UNCHANGED <<storeVars, panelVars, htmxVars, timers, termVars, missedVars, pageVars, up>>

\* A broadcast list knows nothing of the filters.
OnContainers ==
    /\ up
    /\ eventSource = "open"
    /\ shown' = NoFilter
    /\ listMissed' = TRUE
    /\ UNCHANGED <<storeVars, panelVars, htmxVars, streamVars, termVars, detailMissed,
                   detail, up>>

\* Faulty variant: the EventSource is not closed, and tries again by itself.
OnErrorKeeps ==
    /\ eventSource = "open" \/ (eventSource = "connecting" /\ ~up)
    /\ eventSource' = "connecting"
    /\ timers' = timers + 1
    /\ UNCHANGED <<storeVars, panelVars, htmxVars, termVars, missedVars, pageVars, up>>

\* The server is away, or its WriteTimeout has cut the stream.  connect will be
\* called after a delay that doubles up to half a minute.
OnError ==
    /\ eventSource = "open" \/ (eventSource = "connecting" /\ ~up)
    /\ eventSource' = "closed"
    /\ timers' = timers + 1
    /\ UNCHANGED <<storeVars, panelVars, htmxVars, termVars, missedVars, pageVars, up>>

\* Faulty variant: an EventSource that was closed is thought to be there still.
connectOnce ==
    /\ timers > 0
    /\ timers' = timers - 1
    /\ UNCHANGED <<storeVars, panelVars, htmxVars, eventSource, termVars, missedVars,
                   pageVars, up>>

\* The EventSource there is, if any, is closed and a new one made.
connect ==
    /\ timers > 0
    /\ timers' = timers - 1
    /\ eventSource' = "connecting"
    /\ UNCHANGED <<storeVars, panelVars, htmxVars, termVars, missedVars, pageVars, up>>

\* The server goes away and is restarted.
ServerChanges ==
    /\ up' = ~up
    /\ UNCHANGED <<storeVars, panelVars, htmxVars, streamVars, termVars, missedVars, pageVars>>

Next ==
    \/ Answer
    \/ AnswerFails
    \/ \E f \in Filters : setFilter(f) \/ Type(f)
    \/ Debounced
    \/ \E c \in Containers : openDetail(c)
    \/ closeDetail
    \/ initTerminal
    \/ TerminalEnds
    \/ OnOpen
    \/ OnContainers
    \/ OnError
    \/ connect
    \/ ServerChanges

Spec == Init /\ [][Next]_browserVars

\* Timers fire, requests are answered or fail, and an EventSource connects to a
\* server that is up, or notices that it is not.
FairSpec ==
    /\ Spec
    /\ WF_browserVars(Answer \/ AnswerFails)
    /\ WF_browserVars(Debounced)
    /\ WF_browserVars(OnOpen)
    /\ WF_browserVars(eventSource = "connecting" /\ OnError)
    /\ WF_browserVars(connect)

-----------------------------------------------------------------------------
\* Something is on its way to the page.
Busy == debouncing \/ inflight # NoRequest

Requests == {NoRequest} \cup {List(f) : f \in Filters} \cup {Detail(c) : c \in Containers}

\* A request waits only behind another, and the panel is for one container.
TypeOK ==
    /\ filter \in Filters
    /\ shown \in Filters
    /\ detail \in Containers \cup {None}
    /\ inflight \in Requests
    /\ queued \in Requests
    /\ queued # NoRequest => inflight # NoRequest
    /\ detailOpen <=> detailContainerId \in Containers
    /\ activeTerminalWS \in {"none", "open", "ended"}
    /\ eventSource \in {"connecting", "open", "closed"}
    /\ sockets \in Nat
    /\ debouncing \in BOOLEAN /\ detailOpen \in BOOLEAN /\ up \in BOOLEAN
    /\ listMissed \in BOOLEAN /\ detailMissed \in BOOLEAN
    /\ early \in BOOLEAN /\ unseen \in BOOLEAN

\* When nothing is on its way the list is the one the filters ask for, however
\* typing and choosing interleave with the answers, unless a broadcast has
\* replaced it, or the request gave way to another or failed.
ListFitsFilters == ~Busy /\ ~listMissed => shown = filter

\* When nothing is on its way the open panel shows the container that was
\* clicked on, although the answer for one that was closed may still come,
\* unless the request gave way to a refresh or failed.
PanelShowsChosen == ~Busy /\ detailOpen /\ ~detailMissed => detail = detailContainerId

\* There is one terminal session at most, and none once the panel is closed.  It
\* is one the user sees, but for a terminal that was opened before the answer for
\* the panel had come, in what the panel was filled with before: the answer takes
\* its element away, and the session goes on until the panel is closed or another
\* terminal is opened.
OneTerminalInPanel ==
    /\ sockets <= 1
    /\ sockets > 0 => detailOpen /\ (unseen => early)

\* The page never has two event streams or reconnects pending, and never neither.
StreamOrTimer == timers = (IF eventSource = "closed" THEN 1 ELSE 0)

\* A page whose server is there again gets its events again, after any number of
\* failures and of streams that were cut.
Reconnects == <>[]up => []<>(eventSource = "open")
=============================================================================
