----------------------------- MODULE LiveUpdates -----------------------------
(***************************************************************************)
(* How a change of a container reaches an open dashboard: the Docker event *)
(* stream, the goroutine watchDockerEvents of internal/server/sse.go with  *)
(* handleDockerEvent and broadcastContainerList, the container service and *)
(* its cache (Services), the broker and its handlers (SSEBroker), and the  *)
(* page in the browser.  Other requests use the same service meanwhile.    *)
(***************************************************************************)
EXTENDS Integers, Sequences

CONSTANTS
    Client, BufSize, None,          \* of SSEBroker
    TTL, Miss, MaxVersion,          \* of Services
    Request,                        \* goroutines of other requests
    Watcher,                        \* the goroutine of watchDockerEvents
    ListKey, HostKey,               \* cache keys
    MaxQueued                       \* bound on the events under way

\* Broadcast's two kinds of message; the list is told by its version.
ListMessage(v) == [event |-> "containers", version |-> v]
UpdateMessage  == [event |-> "container-update", version |-> 0]
Message        == {ListMessage(v) : v \in 1..MaxVersion} \cup {UpdateMessage}

ASSUME LiveAssumption ==
    /\ Watcher \notin Request
    /\ ListKey # HostKey
    /\ TTL \in Int
    /\ MaxQueued \in Nat \ {0} /\ MaxVersion \in Nat \ {0} /\ BufSize \in Nat \ {0}
    /\ None \notin Message

VARIABLES
    clients, buf, closed, stopCh, stop, toClose, bcast, pending,
    handler, writing, ctxDone, crashed,         \* of SSEBroker
    items, version, call,                       \* of Services
    wpc,        \* where the watcher is
    cause,      \* what makes it refresh the list: "event" or "tick"
    stream,     \* the event stream: "none", "open" or "broken"
    events,     \* events sent by Docker and not yet received
    tickDue,    \* a tick waits in ticker.C
    page,       \* page[c]: version of the list the browser of c shows
    need,       \* version of the daemon when the event at hand was received
    racing      \* requests that had an answer but had not stored it just then

B == INSTANCE SSEBroker
S == INSTANCE Services WITH Proc <- Request \cup {Watcher},
                            Key <- {ListKey, HostKey}

brokerVars   == <<clients, buf, closed, stopCh, stop, toClose, bcast, pending,
                  handler, writing, ctxDone, crashed>>
servicesVars == <<items, version, call>>
streamVars   == <<stream, events, tickDue>>
watcherVars  == <<wpc, cause>>
ghostVars    == <<need, racing>>
vars == <<brokerVars, servicesVars, streamVars, watcherVars, page, ghostVars>>

\* "top": the check of stopCh; "connect": Events is called; "sendlist" and
\* "sendupdate": inside Broadcast; "pause": the two seconds before the next try.
WatcherState == {"top", "connect", "select", "list", "sendlist", "update",
                 "sendupdate", "pause", "end"}

TypeOK ==
    /\ B!TypeOK
    /\ S!TypeOK
    /\ wpc \in WatcherState
    /\ cause \in {"event", "tick"}
    /\ stream \in {"none", "open", "broken"}
    /\ events \in 0..MaxQueued
    /\ tickDue \in BOOLEAN
    /\ page \in [Client -> 0..MaxVersion]
    /\ need \in 0..MaxVersion
    /\ racing \subseteq Request
    /\ B!Broadcasting <=> wpc \in {"sendlist", "sendupdate"}

Init ==
    /\ B!Init
    /\ S!Init
    /\ wpc = "top"
    /\ cause = "tick"
    /\ stream = "none"
    /\ events = 0
    /\ tickDue = FALSE
    /\ page = [c \in Client |-> 0]
    /\ need = 0
    /\ racing = {}

WatcherGoto(from, to) ==
    /\ wpc = from
    /\ wpc' = to

-----------------------------------------------------------------------------
(* The Docker daemon and its event stream.  Events of a stream that is not   *)
(* open are lost: no "since" is given when the stream is opened again.       *)

\* A change of a container comes with an event, except for what Docker reports
\* in the list only (the text of a status, a size).
DaemonChange ==
    /\ S!DaemonChange
    /\ \/ UNCHANGED events
       \/ stream = "open" /\ events < MaxQueued /\ events' = events + 1
    /\ UNCHANGED <<brokerVars, stream, tickDue, watcherVars, page, ghostVars>>

\* An event that changes nothing in the list (exec_create, for one).
OtherEvent ==
    /\ stream = "open"
    /\ events < MaxQueued
    /\ events' = events + 1
    /\ UNCHANGED <<brokerVars, servicesVars, stream, tickDue, watcherVars, page,
                   ghostVars>>

\* The connection is lost, and some of the last events with it.
StreamBreaks ==
    /\ stream = "open"
    /\ stream' = "broken"
    /\ \E n \in 0..events : events' = n
    /\ UNCHANGED <<brokerVars, servicesVars, tickDue, watcherVars, page, ghostVars>>

\* ticker.C holds one tick; a tick that finds it full is dropped.
TickFires ==
    /\ wpc \notin {"top", "connect", "pause", "end"}
    /\ tickDue' = TRUE
    /\ UNCHANGED <<brokerVars, servicesVars, stream, events, watcherVars, page,
                   ghostVars>>

-----------------------------------------------------------------------------
(* watchDockerEvents.  The watcher reads stopCh at the top and in its select. *)

\* Faulty variant: stopCh is left to the select.
TopForever ==
    /\ WatcherGoto("top", "connect")
    /\ UNCHANGED <<brokerVars, servicesVars, streamVars, cause, page, ghostVars>>

Top ==
    /\ IF stopCh THEN WatcherGoto("top", "end") ELSE WatcherGoto("top", "connect")
    /\ UNCHANGED <<brokerVars, servicesVars, streamVars, cause, page, ghostVars>>

\* Events returns once the stream is open or has failed to; a new ticker.
OpenStream ==
    /\ WatcherGoto("connect", "select")
    /\ stream' \in {"open", "broken"}
    /\ events' = 0
    /\ tickDue' = FALSE
    /\ UNCHANGED <<brokerVars, servicesVars, cause, page, ghostVars>>

\* The inner function returns and stops the ticker.
LeaveSelect ==
    /\ WatcherGoto("select", "pause")
    /\ stream' = "none"
    /\ events' = 0
    /\ tickDue' = FALSE
    /\ UNCHANGED <<brokerVars, servicesVars, cause, page, ghostVars>>

SelectStop == stopCh /\ LeaveSelect

\* The client library reports the error after the events before it.
SelectError == stream = "broken" /\ events = 0 /\ LeaveSelect

InFlight == {r \in Request : call[r].pc = "asking" /\ call[r].parts # <<>>}

\* Faulty variant: the list is read without invalidating the cache.
SelectEventKeepsCache ==
    /\ events > 0
    /\ WatcherGoto("select", "list")
    /\ events' = events - 1
    /\ cause' = "event"
    /\ need' = version
    /\ racing' = InFlight
    /\ UNCHANGED <<brokerVars, servicesVars, stream, tickDue, page>>

\* handleDockerEvent up to its call of broadcastContainerList.
SelectEvent ==
    /\ events > 0
    /\ WatcherGoto("select", "list")
    /\ events' = events - 1
    /\ cause' = "event"
    /\ S!InvalidateCache
    /\ need' = version
    /\ racing' = InFlight
    /\ UNCHANGED <<brokerVars, stream, tickDue, page>>

\* Faulty variant: a tick is received and nothing is done about it.
SelectTickIgnored ==
    /\ tickDue
    /\ WatcherGoto("select", "select")
    /\ tickDue' = FALSE
    /\ UNCHANGED <<brokerVars, servicesVars, stream, events, cause, page, ghostVars>>

SelectTick ==
    /\ tickDue
    /\ WatcherGoto("select", "list")
    /\ tickDue' = FALSE
    /\ cause' = "tick"
    /\ UNCHANGED <<brokerVars, servicesVars, stream, events, page, ghostVars>>

\* The pause cannot be cut short: stopCh is not looked at.
PauseEnds ==
    /\ WatcherGoto("pause", "top")
    /\ UNCHANGED <<brokerVars, servicesVars, streamVars, cause, page, ghostVars>>

Select == SelectStop \/ SelectError \/ SelectEvent \/ SelectTick

-----------------------------------------------------------------------------
(* broadcastContainerList, and the second broadcast of handleDockerEvent. *)

\* Of an event whose list is under way nothing more is recorded.
ForgetEvent == need' = 0 /\ racing' = {}

\* Every container event names its container: Actor.ID is never empty.
AfterList == IF cause = "event" THEN "update" ELSE "select"

\* ListGrouped; with what it returns the watcher goes on below.
ListStep ==
    /\ wpc = "list"
    /\ \/ S!LookupHit(Watcher, ListKey)
       \/ S!LookupMiss(Watcher, ListKey)
       \/ S!Answer(Watcher)
       \/ S!AnswerFails(Watcher)
       \/ S!Store(Watcher)
    /\ UNCHANGED <<brokerVars, streamVars, watcherVars, page, ghostVars>>

\* A list that cannot be read is logged and not broadcast.  Rendering one that
\* could be read does not fail: the templates are fixed and the writer a buffer.
ListFails ==
    /\ call[Watcher].pc = "failed"
    /\ WatcherGoto("list", AfterList)
    /\ S!Return(Watcher)
    /\ ForgetEvent
    /\ UNCHANGED <<brokerVars, streamVars, cause, page>>

\* Faulty variant: the broadcast runs on its own and the watcher goes on.
SendListInBackground ==
    /\ call[Watcher].pc = "done"
    /\ WatcherGoto("list", AfterList)
    /\ B!BroadcastBegin(ListMessage(call[Watcher].parts[1]))
    /\ S!Return(Watcher)
    /\ ForgetEvent
    /\ UNCHANGED <<streamVars, cause, page>>

SendList ==
    /\ call[Watcher].pc = "done"
    /\ WatcherGoto("list", "sendlist")
    /\ B!BroadcastBegin(ListMessage(call[Watcher].parts[1]))
    /\ S!Return(Watcher)
    /\ ForgetEvent
    /\ UNCHANGED <<streamVars, cause, page>>

SendUpdate ==
    /\ WatcherGoto("update", "sendupdate")
    /\ B!BroadcastBegin(UpdateMessage)
    /\ UNCHANGED <<servicesVars, streamVars, cause, page, ghostVars>>

SendTo(c) ==
    /\ B!BroadcastSend(c)
    /\ UNCHANGED <<servicesVars, streamVars, watcherVars, page, ghostVars>>

Sent ==
    /\ B!BroadcastEnd
    /\ \/ WatcherGoto("sendlist", AfterList) /\ UNCHANGED cause
       \/ WatcherGoto("sendupdate", "select") /\ cause' = "tick"
    /\ UNCHANGED <<servicesVars, streamVars, page, ghostVars>>

WatcherStep ==
    \/ Top
    \/ OpenStream
    \/ PauseEnds
    \/ ListStep
    \/ ListFails
    \/ SendList
    \/ SendUpdate
    \/ \E c \in Client : SendTo(c)
    \/ Sent

-----------------------------------------------------------------------------
(* The browser, its handler, and everyone else. *)

\* The page was loaded some time before it connects to /events.
PageConnects(c) ==
    /\ B!Connect(c)
    /\ \E v \in 1..version : v >= page[c] /\ page' = [page EXCEPT ![c] = v]
    /\ UNCHANGED <<servicesVars, streamVars, watcherVars, ghostVars>>

\* A "containers" event replaces the list.  A "container-update" changes nothing:
\* it names the full identifier, the cards on the page carry the short one.
PageReceives(c) ==
    /\ B!Write(c)
    /\ page' = IF writing[c] = UpdateMessage
               THEN page ELSE [page EXCEPT ![c] = writing[c].version]
    /\ UNCHANGED <<servicesVars, streamVars, watcherVars, ghostVars>>

HandlerOther(c) ==
    /\ \/ B!Subscribe(c)
       \/ B!Receive(c)
       \/ B!ReceiveClosed(c)
       \/ B!WriteError(c)
       \/ B!Disconnect(c)
       \/ B!ContextDone(c)
       \/ B!Unsubscribe(c)
    /\ UNCHANGED <<servicesVars, streamVars, watcherVars, page, ghostVars>>

Stop ==
    /\ B!Stop
    /\ UNCHANGED <<servicesVars, streamVars, watcherVars, page, ghostVars>>

RequestStep(r) ==
    /\ S!LookupHit(r, ListKey) \/ S!LookupMiss(r, ListKey) \/ S!CallProgress(r)
    /\ UNCHANGED <<brokerVars, streamVars, watcherVars, page, ghostVars>>

CacheTime ==
    /\ S!Tick \/ S!Cleanup
    /\ UNCHANGED <<brokerVars, streamVars, watcherVars, page, ghostVars>>

HandleSSE(c) == PageConnects(c) \/ PageReceives(c) \/ HandlerOther(c)

Next ==
    \/ DaemonChange
    \/ OtherEvent
    \/ StreamBreaks
    \/ TickFires
    \/ Select
    \/ WatcherStep
    \/ \E c \in Client : HandleSSE(c)
    \/ Stop
    \/ \E r \in Request : RequestStep(r)
    \/ CacheTime

Spec == Init /\ [][Next]_vars

\* The watcher runs, its select does not pass over a tick for ever, the ticker
\* ticks, Docker does not refuse every list, calls end and time passes.
WatcherFairness ==
    /\ WF_vars(WatcherStep)
    /\ SF_vars(SelectTick)
    /\ SF_vars(ListStep /\ S!Answer(Watcher))
    /\ WF_vars(TickFires)
    /\ WF_vars(CacheTime)
    /\ \A r \in Request : WF_vars(RequestStep(r))

\* A connected page is served (SSEBroker says why).
PageFairness ==
    \A c \in Client :
        /\ WF_vars(HandlerOther(c) /\ B!Receive(c))
        /\ WF_vars(PageReceives(c) \/ (HandlerOther(c) /\ B!WriteError(c)))

\* The select does not pass over stopCh for ever, and Stop gets its lock.
StopFairness ==
    /\ SF_vars(SelectStop)
    /\ SF_vars(Stop /\ B!StopLock)
    /\ WF_vars(Stop /\ stop = "closing")

FairSpec == Spec /\ WatcherFairness /\ StopFairness

\* For as long as nobody stops the server.
RunningNext == Next /\ ~stopCh'

RunningSpec == Init /\ [][RunningNext]_vars /\ WatcherFairness /\ PageFairness

-----------------------------------------------------------------------------
\* The list that is about to be broadcast because of an event.
EventList ==
    wpc = "list" /\ cause = "event" /\ call[Watcher].pc = "done"

\* "Broadcast the updated container list" (handleDockerEvent): the list sent
\* because of an event is no older than the event.
BroadcastIsUpdated == EventList => call[Watcher].parts[1] >= need

\* Only a request that had its answer from Docker but had not yet cached it
\* when the event came can make that list an outdated one: nothing cached
\* before the event survives it, on whatever path the watcher gets its list.
OutdatedOnlyIfRaced ==
    EventList /\ call[Watcher].parts[1] < need => racing # {}

\* A page that stays connected shows the current list in the end: although it
\* was loaded before it subscribed, although its buffer may have been full when
\* the list that mattered was broadcast, and although changes come without an
\* event.  Only a stream of events without end may keep its buffer full of
\* "container-update" messages whenever a list is sent.
PageCatchesUp ==
    \A c \in Client :
        ( /\ <>[](stream = "open" /\ events = 0)
          /\ <>[](handler[c] \in {"select", "write"} /\ c \notin ctxDone) )
        => <>[](page[c] = version)

\* The watcher ends after Stop, wherever Stop finds it, and although its own
\* broadcasts wait for the lock Stop takes.
WatcherEnds == stopCh ~> (wpc = "end")

\* "a periodic refresh ticker" (watchDockerEvents): for as long as the server
\* runs the list is read again and again, whatever the event stream does.
RefreshesPeriodically == []<>(wpc = "list")
==============================================================================
