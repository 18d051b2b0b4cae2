# WingStation in TLA+

A specification of [WingStation](../src/README.md), a read-only Docker
dashboard written in Go: TLA+ modules for the parts of it that keep state and
run concurrently, TLC instances that check them, and TLAPS proofs of the results
that do not depend on the size of an instance. `PROJECT.json` is the index: what
each definition stands for in the source, what each run checks, which faulty
variant shows that a property can fail, and which hazards of the code the
properties are there for.

    tlc -config MCSSEBroker.cfg MCSSEBroker      # one run; names are in PROJECT.json
    tlapm SSEBrokerProofs.tla                    # one module of proofs

## 1. The system

| Component | State it keeps | Operations | Talks to |
|---|---|---|---|
| SSE broker (`server/sse.go`, `SSEBroker`) | `clients` (channels of 16), `stopCh`, an RWMutex | `Subscribe`, `Unsubscribe`, `Broadcast`, `Stop` | handlers of `/events` (channels), the event watcher, `Shutdown` |
| `/events` handler (`handleSSE`) | its channel, its request context | subscribe, select on channel and context, write, deferred unsubscribe | broker, browser |
| Event watcher (`watchDockerEvents`, `handleDockerEvent`, `broadcastContainerList`) | event stream, ticker, where its loop is | open the stream, react to event, tick, error or stop, pause 2 s, retry | Docker, container service, broker |
| TTL cache (`cache/cache.go`) | map of values with deadlines, RWMutex, a cleanup goroutine | `Get`, `Set`, `Invalidate`, `InvalidateAll`, `Stop`, sweep every 30 s | both services |
| Container and host services (`service/`) | none of their own; the shared cache | `List`, `ListGrouped`, `Search`, `Inspect`, `GetInfo`, `InvalidateCache` | cache, Docker client |
| Terminal sessions (`server/terminal.go`, `docker/exec.go`) | one exec connection and one WebSocket each, two goroutines | inspect, create, attach, upgrade, pump both ways, resize | Docker, browser |
| Process and HTTP server (`server/server.go`, `cmd/wingstation/main.go`) | where `main` is, listener, the signal channel, the Docker client and the cache it closes | connect, `Start`, `Shutdown` with ten seconds, deferred closing | everything below and above |
| Middleware (`server/middleware.go`) | a `statusWriter` per request | recover, log, authenticate | every handler |
| Page, partial and JSON handlers (`handlers.go`, `api.go`) | none | read the services, render | services |
| Grouping, search, labels (`service/container.go`, `docker/labels.go`) | none | pure functions on the list of containers | services |
| Docker models (`docker/models.go`) | none | from Docker's answers to the ones shown: identifier, ports | services, templates |
| Docker client (`docker/client.go`, `exec.go`) | a connection | interfaces over the SDK | services, terminal |
| Configuration (`config/config.go`) | read once | environment variables with defaults | main |
| Browser application (`web/static/js/app.js`) | page, filters, detail panel, queue of requests, EventSource with back-off, one terminal | search, filter, open and close the panel, connect, replace the list, refresh a card, open a terminal | handlers |

What is hard about it: handlers come and go while a loop over their channels is
running and while `Stop` closes them; every request, and the watcher, reads
through one cache that is invalidated by events and otherwise only by time, with
the lock released between lookup and fill; events get lost, buffers overflow and
a page has to be right in the end nevertheless; a terminal session has two
goroutines, each blocked in a read that only the other's side can end; a shutdown
has ten seconds for handlers that wait for Docker or for a browser; and in the
browser answers, broadcasts, timers and clicks come in any order.
`PROJECT.json` lists these hazards one by one, at the line where each bites.

What makes each component correct:

- *broker*: no panic, whatever the interleaving; no channel without an owner; a
  connection is cut off by `Stop` only, and by `Stop` for certain; an ordered,
  duplicate-free feed with gaps only for those who lag.
- *cache*: indistinguishable from a map whose bindings vanish at their deadline;
  what nobody asks for again goes away.
- *grouping and search*: nothing is lost, doubled or shown although hidden, in a
  documented order that a refresh keeps.
- *services*: what is served may be outdated, but only for a bounded time.
- *watcher*: a page that stays connected becomes current; it ends after `Stop`;
  what it broadcasts after an event reflects the event.
- *terminal*: no connection is left open; nothing is lost at the end of the
  output; the session ends.
- *process*: what handlers use outlasts them; a signal ends the process; no
  setting but a senseless interval makes it panic.
- *middleware*: what is logged is what was sent, also when a handler panics.
- *cards*: what the two ways to make one say of a container agrees; no port is lost or
  shown twice.
- *browser*: list and panel end up as the user left them; one event stream or one
  pending reconnect; no terminal behind a closed panel or another terminal.

## 2. Modules

    SSEBroker ------ SSEBrokerProofs
        |  \------- SSEFeed -------> LossyFeed (abstract)
        |              \------------ SSEFeedProofs
    LiveUpdates ---- LiveUpdatesProofs
        |            (composes SSEBroker and Services, both by INSTANCE)
    Services ------- ServicesStaleness ---- ServicesProofs
        |
    CacheOps ------- Cache ---------> TTLMap (abstract)
                       \------------- CacheProofs

    Terminal
        |
    Lifecycle ------ LifecycleProofs        (EXTENDS: the process with its sessions)

    Loops ---------- ContainerList ---- Handlers ---- HandlersProofs
        |                                 |     (EXTENDS: the lists with their routes)
    Inspection, Middleware ---------------/     (both by INSTANCE)

    BrowserApp ------ BrowserProofs

Modules whose name begins with MC only add symmetry or a bounded set for TLC.

**SSEBroker** is the broker with `handleSSE`. A connection and the channel its
handler makes share a name in `Client`. The critical sections of `Subscribe` and
`Unsubscribe` are one step; those of `Broadcast` and `Stop` contain a loop, so
they are a step per turn, with the lock held in between: `NoWriter` is what
`RLock` waits for, `LockFree` what `Lock` waits for. Receiving and writing take
no lock and so happen between any two turns. A send on, or a close of, a closed
channel sets `crashed`. `handleSSE` leaves its loop by `ReceiveClosed` or
`ContextDone`; both end in `Unsubscribe`, the deferred call. `WriteError` is a
write that gets nowhere (peer gone, or the server's `WriteTimeout` of 30 s):
the code ignores the error, and net/http cancels the request context.

**SSEFeed** numbers the broadcasts and records what each connection was shown;
**LossyFeed** is the promise, without channels, locks or goroutines, and
`ImplementsLossyFeed` the refinement.

**CacheOps** has the effect of each method of `Cache` on the map; every method
holds the lock throughout, so each is one step of its caller. Deadlines are kept
as the time left, in units of a discrete clock; `Expired` is `now.After(deadline)`,
false at the very deadline. **Cache** adds callers, the cleanup goroutine and
`Stop`; **TTLMap** is the abstract map, `ImplementsTTLMap` the refinement.
`event` records the calls and the passing of time on both levels: without it an
entry swept too early would look like one a caller has invalidated.

**Services** is a call of `List`, `Inspect` or `GetInfo` by any goroutine:
lookup, one question to Docker after the other, store, return, every step apart
from the next. Docker's state is a version number, an answer the version it was
given from; `GetInfo` has three answers, from up to three versions, and ignores a
failure of the third (`DiskUsageFails`). **ServicesStaleness** adds a clock and
records when versions were outdated and entries fetched and stored.

**LiveUpdates** is the whole way of a change: Docker's event stream, the watcher
(its two reads of `stopCh`, its select, the pause), the services and the cache,
the broker, the handlers and the page. The actions of `SSEBroker` and `Services`
are used as they stand: `SendList` is the watcher's step *and*
`SSEBroker!BroadcastBegin` *and* `Services!Return`. `need` and `racing` are
observers only.

**Terminal** is one session from the request to the end; sessions share
nothing. Output and input are counted in chunks, which is enough to say what was
lost. `Refuse` and `UpgradeFails` are the error returns, in the order of the code.

**Lifecycle** is `main`, `Server.Start`, `Server.Shutdown` and the goroutines they
start, around one thing that is being served: a request, an event stream, or a
session, whose steps are those of `Terminal` under `InSession`. `Load`, `Setting`
and `Duration` are the configuration: a variable is the set of values its text
denotes (none if unset), `Garbage` one that cannot be parsed, and a number of
milliseconds wraps on its way to a `time.Duration`. `Cut` is the end of the process,
the same for `os.Exit` in two goroutines, a panic nobody recovers, and a `main`
that returns. Time is left out but for the deadline, which can pass only while
something waits for Docker or for a browser (`Waiting`). An event stream may wait for
the browser too: when there is a message, `StreamStalls` is a write to one that does
not read, and its handler meets the channel `Stop` has closed only when the write
returns (`StreamResumes`) or fails (`StreamCancelled`).

**ContainerList** is the way from Docker's list to an answer: labels, groups,
filters, sorting, and the handlers that choose between them. A text is a member
of a small set with an order (`Rank`), a folding of case (`Fold`) and a
substring relation (`Occurs`); the assumptions of the module say what a list of
Docker's is (`APIContainer`) and that the order is one. A loop over a slice is a
function of the number of its turns (`Grouping`, `Collecting`, and `Keeping` of
**Loops**, the loop that keeps some elements in their order). `sort.Slice` is not stable and maps are iterated
in random order, so an operator gives the *set* of results the code may produce,
and an action takes any of them. `matchesSearch`, `handlePartialContainers` and
their like are the operators of the same name.

**Middleware** takes what was written of a response to what is written then:
`WriteHeader`, `Write`, the helpers that render a template or encode JSON, with
every way they may fail, and `chain`, the order in which `server.New` wraps the
handlers. **Inspection** has the two conversions of a container, from the list and
from an inspection, field by field as far as a card shows them, the card that is made of
either (`element` is its id in the page, `opens` what a click asks for), and
`InferRepoURL` on an image reference. A reference is a record of host, path, tag and digest; `Spelled` makes of it
the sequence of tokens (names, `/`, `:`, `@`) the code works on, and `IsReference` is the
grammar Docker holds it to, in which `Dotted` says which names have a dot. **Middleware**
and **Inspection** are without state. **Handlers** gives them
one: a request to any route, authorized or not, its handler, the response and the log;
to a static file, a path or a method without a pattern as well.

**BrowserApp** is `app.js`: the store, the panel, the terminal in it, the event
stream with its reconnects, and htmx as far as the page relies on it (one request
at a time, the last one waits). `listMissed` and `detailMissed` only observe: they
say when the page may rightly show something else. A terminal is opened in what the
panel shows, which is the container before as long as the answer for a new one is due
(`early`); that answer replaces the element of the terminal and leaves its socket open
(`unseen`). The delays of `debounce` and of
the reconnect are without length, so a timer may fire before or after anything.

### Faulty variants

Each module has a few operators headed "Faulty variant", directly before the
definition they vary. No specification uses them. Each is a plausible bug of that
definition (a missing unsubscribe, a map not emptied, an answer cached too
early), and under it the property named beside it in `PROJECT.json` is violated:
the properties are able to fail.

## 3. What is checked

| Run | Shows |
|---|---|
| `broker` | No panic, no channel without a handler, no subscriber cut off before `Stop`; `Stop` returns, and every handler it frees or whose request is cancelled ends. |
| `feed` | `SSEFeed` implements `LossyFeed`. |
| `cache` | `Cache` implements `TTLMap`; expired entries are removed while the goroutine runs. |
| `services_staleness` | How long an outdated answer can be served. |
| `live_updates` | Only a fill in flight across an invalidation can make the list after an event an outdated one; the watcher ends after `Stop`. |
| `live_updates_outdated` | *Violated:* the list sent because of an event is no older than the event. Finding 1. |
| `live_updates_page` | A page that stays connected shows the current list in the end. |
| `live_updates_no_refresh` | *Violated:* the list is refreshed periodically. Finding 2. |
| `lifecycle` | Whatever is set and whenever a signal comes: handlers do not outlive what they use unless `Shutdown` gave up, only late subscribers, browsers that do not read and unanswered calls make it give up, the process ends, and only a senseless interval makes it panic. In it the sessions of `Terminal`: connections accounted for, last output shown, sessions end when both ends are gone. |
| `container_list` | Nothing lost, doubled or shown although hidden; groups ordered as `LABELS.md` says; a refresh keeps the order; page and API differ in groups named alike but for case only. Of any request: the log says what was sent, a panic is answered. Of any container: both cards say the same of it, ports are shown or counted once, the link names the image. |
| `browser` | List and panel end up as the user left them unless a request gave way or a broadcast came; one terminal, in an open panel, and out of sight only if it was opened before the panel's answer; one stream or one timer; the page reconnects. |
| `search_bar_tags` | *Violated:* a search for a tag shows the containers that have it. Finding 3. |

### Bounds, and why they are enough

- *Client*: two connections. A loop over the map then has a turn behind it and
  one ahead of it, which is where handlers can interfere. The safety invariants
  are proved for any number.
- *BufSize*: 1 or 2 for the 16 of the code: empty, partly filled, full. Nothing in
  the code depends on the number; the proofs assume only that it is positive.
- *Message*: one message for the broker alone, numbered ones (`MaxBroadcasts` = 4,
  twice the capacity) for the feed, so that a channel overflows, is drained and
  fills again.
- *TTL*: 2 in `Cache`, where the deadline is the point; 1 elsewhere. The proof
  of the refinement covers every integer, negative ones too, which configuration
  accepts.
- *MaxVersion*, *MaxTime*: two or three changes and three units of time, so that
  an answer fetched before a change can be stored after it, expire, and be
  replaced by an even older one. `services_staleness` has only the key of
  `GetInfo`, the call with the most steps; keys do not influence each other, and
  the proof covers every set of keys. `Elapse` stops counting once an entry has
  expired, and so the state space is finite without a bound on time.
- *MaxQueued*: one event under way. The stream can break with it, and it comes
  again; more of them are the same loop again.
- *Client = {}* in the runs about the watcher: the broadcast then only takes and
  releases the lock, which is all the watcher sees of it. With a client in
  `live_updates_page`, other requests are left out; they can only fill the cache
  earlier.
- *Listing*, *Param*: three containers with priorities that tie, differ or are
  missing, groups that are absent, equal, or equal but for case, hidden and not;
  every combination of filters with every sort. Three are enough for two groups,
  one of them of two.
- *MaxOutput*, *MaxInput*: two chunks each way, so that one is under way while
  another waits. The proofs cover any number.
- *Environments*: eleven. What is set matters by its kind (nothing, a value, one
  that cannot be parsed), and for the interval by the duration it becomes. With
  `Millisecond` = 4 and `HalfRange` = 32768 in the place of 10^6 and 2^63 there are
  intervals that are fine, zero, negative, and that wrap to a negative duration, to
  zero and to a positive one, from either side. The proof covers the real numbers.
- *One connection at a time* in `Lifecycle`: connections share nothing but the
  process, and `Shutdown` waits for each in the same way.
- *Known*: containers with no port, with one on two addresses, listed twice, and with one
  number under two protocols, each with and without an exposed port; one with four
  addresses; an exited and a paused one; one whose image the list has as an identifier; an
  inspection without `Config`; image references of six hosts and six paths, so that each
  test `InferRepoURL` makes goes either way for each host, those with one name in every
  combination of tag and digest and the others with both, and the two forms of a bare
  identifier. Four addresses are one more than a card shows.
- *Filters*, *Containers*: two of each. htmx holds two requests at most, and the proofs
  cover any number.

`CHECK_DEADLOCK FALSE` is set for `Lifecycle` only: a process that has ended stops.

### Fairness

Each fairness condition is a statement about Go, net/http or Docker:

- a goroutine that can take a step takes one (WF on its steps);
- a `select` picks at random among its ready cases, so a case that is ready again
  and again is taken (SF on `ContextDone`, `ReceiveClosed`, `SelectTick`,
  `SelectStop`);
- `sync.RWMutex` starves neither readers nor writers (SF on the steps that wait
  for it: `Subscribe`, `Unsubscribe`, `StopLock`);
- a write to a connection ends, by `WriteTimeout` at the latest (WF on
  `Write \/ WriteError`);
- a call of Docker is answered or given up, and Docker does not refuse *every*
  list for ever (SF on the watcher's `Answer`);
- tickers tick and time passes;
- `main` goes on when it can, handlers that wait for nobody end, and the pumps of a
  session run (WF in `LifeFairSpec`); the ten seconds pass, also when what `Shutdown`
  waits for stalls and resumes in between (SF on `Deadline`);
- in the browser timers fire, a request is answered or fails, and an `EventSource`
  connects to a server that is up or notices that it is not (`FairSpec` of
  `BrowserApp`).

Nobody is obliged to connect, to broadcast, to call `Stop`, to invalidate, to
print or to end a shell, to close a page, to send a signal, to answer a request
that hangs, or to fail; not even the goroutine of `Start` to be scheduled before a
signal comes. `PageCatchesUp` assumes
that the event stream is quiet in the end and that the page stays connected, and
says so in its formula; `RunningSpec` is for as long as nobody stops the server.

## 4. What is proved

TLAPS checks these for every value of the constants, from the named assumptions
of the modules alone:

- `BrokerAssumption`: a positive capacity, and a `None` that is no message;
  `FeedAssumption`: messages are numbers;
- `TTLAssumption`: an integer; `ServicesAssumption`: the key of `GetInfo` is a key,
  and there is a first version;
- `LiveAssumption`: the watcher is no request, the two keys differ, `None` is no
  message, and the capacity and the bounds are positive;
- `TerminalAssumption`: lengths are numbers; `EnvironmentAssumption`: a variable has
  one value or none, of its type or `Garbage`; `DurationAssumption`: the default
  interval is a duration;
- `FilterAssumption` and `ContainerAssumption`: `NoFilter` is a filter, `None` no
  container;
- `ListingAssumption`: a list is a sequence of containers of the type Docker's client
  gives them, no two with the same identifier or name; `RankAssumption`: the order of texts is
  total, as Go's `<` on strings is;
- `KnownAssumption`: an identifier has 64 characters, a binding publishes a port, an image exposes finitely many, and its
  reference is of Docker's grammar; `DottedAssumption`: `ghcr.io` and `lscr.io` have a dot,
  and the marks and the fixed names `InferRepoURL` compares with have none;
  `NothingAssumption`: `Nothing` is neither a container nor a route.

In each module TLC has checked the inductive invariant first.

**SSEBrokerProofs** — `TypeCorrect`, `NeverPanics`, `NoOrphanChannel`,
`ServedUntilStop`. None of the invariants is inductive by itself: that a send
finds its channel open depends on what the lock protects. `LockDiscipline` says
it: while `Broadcast` runs no writer has the lock, the channels it has yet to
visit are registered, those `Stop` has yet to close are registered and open, and
without a writer no registered channel is closed. The last of these is what the
new map in `StopEnd` restores. `IInv` is its conjunction with the four
properties; there is a lemma for each conjunct and in it a step for each action
that can disturb it.

**SSEFeedProofs** — `BrokerImplementsLossyFeed`. What a connection is shown next is
decided by what waits in its channel, so the guard of the abstract `Show` needs an
invariant about all of it. `InOrder` says that the numbers grow, above the one that
is being written and not above the one offered last (`Offered`: the running
broadcast, or the one before it for a channel the loop has still to visit);
`Complete` that none is missing as long as no broadcast skipped the connection and its
writes arrive. That a skipped connection is more than `BufSize` behind is then a
matter of counting (`SkippedIsBehind`). `GrowingTail` and `GrowingAppend` say what
taking and appending do to such a sequence. The invariant of `SSEBrokerProofs` is
part of this one: a skip must mean a full channel, not a closed one.

**CacheProofs** — `CacheImplementsTTLMap`: the initial states correspond, and
`StepRefines` shows that every step is a step of the map or leaves it alone,
under the mapping that forgets expired entries. The sweep maps to a stutter, a
tick to the vanishing of what reaches its deadline. `TypeCorrect` is the
invariant it needs.

**ServicesProofs** — `TimedTypeCorrect` (what is cached for a key has one answer for
each question) and `StalenessIsBounded`: for any number of goroutines and keys,
a version served although outdated has been outdated for no longer than TTL and
the duration of the call that fetched it. The bound is not inductive, because it
says nothing of calls still under way or of expired entries. `CallsFresh` says
of a call that what it has been answered was current when it missed the cache or
later, `EntriesFresh` the same of an entry and that the time it has left dates
its storing.

**LiveUpdatesProofs** — `OnlyIfRaced`: for any number of requests and changes, the
list broadcast because of an event is older than it only if an answer was under way
when the event came. The property speaks of the moment at which the watcher has its
list; `FreshInv` says the same of everything the list may come from: the entry in
the cache, and the answers of all calls that may still store one.
`ServicesRefined` and `BrokerRefined` show that the composition uses its two parts
as they may be used: every step is one of `Services`, or leaves the cache and the
calls alone, and likewise for `SSEBroker`. For the broker that takes `LiveInv`, since what is
broadcast has to be a message: a list of a version there has been. What is
proved of the parts by themselves holds of the whole on this account, but the prover does
not instantiate a theorem of another module. For the broker, `WatcherNeverPanics` and
`PagesServed` are therefore proved again for the whole, from `BrokerStep` and the same kind of
invariant (`LockInv`, `ServedInv`): no send of the watcher's, which recovers from
nothing, meets a closed channel, and until `Stop` has its lock every page whose handler is in
its loop has a channel the next broadcast visits. `TypeCorrect` adds that a broadcast is under way
exactly while the watcher is inside `Broadcast`, which is not a matter of types:
`SendingInv` has to know that no other goroutine begins or ends one.

**LifecycleProofs** — `ConnectionsSafe` for a session by itself and `SessionSafe` for
the process as a whole: no error return and no end of the process leaves a connection
open. `HandlerInv` tells which connection is open where. `TypeCorrect` says of the
counters of a session, in the process as a whole, that no more is shown than was read
and no more read than was printed, the same for the input, wherever the process ends. `ResourcesOutlast` and
`DeadlineFor` rest on the order in `Server.Shutdown`; `ClosingInv` says what each of
its steps leaves: a stopped broker no subscribed stream, a closed listener nothing
that is accepted. `DeadlineFor` is about the step that reaches the deadline: a call
that hangs, a stream that is blocked in a write or came late, or the set-up of a
session is there when it happens, and a stream in its select never is the reason. `PanicOnlyForInterval` needs what `Setting` and the wrapping
`Duration` give for every integer (`SettingValue` and the lemmas after it).

**HandlersProofs** — what the handlers answer, for every list, every parameter, every
order and every set of ports.
- *Lists*: `ListTypeOK`, `NothingLost`, `GroupsAreInOrder`, `RefreshesAgree`,
  `FiltersAgree`. A state holds an answer together with the list and the parameters it is
  the answer to (`AnsweredInv`), so these are facts about operators. Loops are where
  the work is: what `Keeping`, `Grouping` and `Collecting` have after *i* turns is
  shown by taking the first turn after which it would fail (`LeastNat`), the one way
  to argue by induction that the provers have here. The group of a name has, after
  *i* turns, exactly the containers among the first *i* that go there, each once,
  and the lowest of their priorities. `RefreshesAgree` comes from
  two facts: a group with the name it is listed under is determined by its name, and
  two orders of a set by a total order are the same order. `FiltersAgree` excludes
  nothing: it says of any parameters which containers the API gives and the page does not,
  those of groups whose names differ from the one asked for in case only.
- *Responses*: `TheLogAgrees`, `PanicsAreAnswered`. `ResponseInv` says how a response
  may look that went through `chain`; the lemmas before it follow the writer from the
  handler through `recoveryMiddleware` and `loggingMiddleware`. That `statusWriter`
  keeps the status that is sent (`StatusKept`) needs that no handler sends a
  status of zero.
- *Cards*: `CardsSayTheSame`, `EveryPortCounts`. `SubjectInv` ties the card to the
  container it was made of. The ports `Collecting` has collected are distinct and are
  those of the bindings, so their number is the cardinality of a set, and a card of
  three and a remainder counts all of them.
- *Links*: `LinksNameImages`, for any names in a path of any length and any host.
  `InferRepoURL` cuts a text at the first `@` and the last `:` and knows nothing of what
  it cuts. `DigestStripped` and `TagStripped` show that on a reference of the grammar
  these are the marks of the digest and of the tag, with a case of its own for the
  colon of a registry's port; `StrippedFacts` puts them together, `InferredFacts` takes
  the prefixes off and goes through the sites, and `LinkFacts` compares what is left
  with the path. `SubjectInv` ties the detail to the container, as it does the card.

**BrowserProofs** — `TypeCorrect`, `ListFits`, `PanelFits`, `OneTerminal`,
`AlwaysStreamOrTimer`. While requests are on their way what is on the page proves
nothing. `DueList` and `DueDetail` are what it comes to once all of them are
answered, and the invariant is about these. `OneTerminal` needs that a terminal that was
not opened early has no answer for the panel ahead of it.

**Model-checked only.** Everything about liveness and fairness, which the prover
does not reach: `StopReleasesHandlers`, `CancelledHandlerReturns`, `StopReturns`,
`ExpiredAreRemoved`, `PageCatchesUp`, `WatcherEnds`, `LastOutputShown`,
`SessionEnds`, `SignalEndsProcess`, `Reconnects`. The safety and
action properties of the passing runs all have a theorem. No module has a `RECURSIVE`
operator.

## 5. Findings

1. `List` caches its answer whatever happened since its lookup. A request that
   was answered before an event and stores its answer after the event's
   `InvalidateCache` makes the watcher broadcast the list from before the event,
   where `sse.go:173` speaks of the "updated container list".
   `OutdatedOnlyIfRaced` shows that this is the only way,
   `StalenessIsBounded` and `PageCatchesUp` how long it can last.
2. The "periodic refresh ticker" (`sse.go:139`) is made anew with each attempt to
   open the event stream. If every attempt fails sooner than `StatsIntervalMs`,
   it never fires, and connected pages are sent nothing.
3. The search bar sends its text as `q`, which `matchesSearch` compares with
   the display name, the image and the short identifier. Tags are compared with the
   parameter `tag`, which the page never sends. `LABELS.md:91`: tags "can be used to
   filter containers in the search bar".

Met while modelling, without a sentence in the repository that holds the code to
anything else, or too small for a run of its own:

- `Subscribe` does not look at `stopCh`. A handler that has flushed its headers when
  `Stop` runs and subscribes after it is registered in the new map (`sse.go:50`),
  which nobody closes. `Shutdown` waits for it, up to its ten seconds: the state
  "late" of `Lifecycle`, which `DeadlineOnlyForLateOrBlocked` has to except.
- A handler of `/events` that is writing to a browser that does not read is not freed by
  `Stop`: it looks at its channel again when the write returns (`sse.go:113`). What ends
  the write is the `WriteTimeout` of 30 s (`server.go:71`), and the shutdown has ten: one
  stalled page can hold it to its deadline (state "stalled").
- The terminal tab of the panel can be used before the answer for a newly chosen
  container: what is there is the detail of the one before, as `closeDetail` leaves it
  (`app.js:20`). The answer then replaces the element of that terminal, whose socket
  stays open, out of sight, until the panel is closed or another terminal is opened.
- `time.NewTicker` panics for a `StatsIntervalMs` of zero or less, and for one so large
  that the multiplication by `time.Millisecond` wraps to such a value. The watcher's
  goroutine has no recovery, so the process ends (`WatcherPanics`).
- When the browser closes a terminal's WebSocket, `wg.Wait` goes on waiting for the
  goroutine that reads from the shell, and the handler, both connections and the
  shell stay until the shell prints or ends. `SessionEnds` therefore assumes
  that both ends are gone.
- The target of a `container-update` is looked up by full identifier
  (`app.js:92`), and the cards are named by the short one
  (`container_card.html:2`): the targeted refresh never finds its card. The list
  broadcast just before it is what updates the page.
- `containerDetailFromInspect` fills in `FullID` and leaves `ID` empty, so a card
  made from an inspection opens no detail, and the JSON of one has an empty `ID`. Nor does
  it set `Uptime`, and `Status` is the state again: the last line of such a card is an
  uptime of zero, or "exited" where the list has Docker's text. `CardsAgree` claims neither.
- `htmx.ajax` (`app.js:94`) names no swap, so the new card would be put inside the old
  one; since the lookup before it finds none, it never comes to that.
- Without a search, a status or a tag, `handlePartialContainers` ignores `sort`.
- An inspection has the ports an image only exposes and the list has them with port
  zero, which `ContainerFromAPI` drops: with more than three of them the two cards of
  a container differ, the reason for the bound in `CardsAgree`.
- The tag is stripped before the prefix `sha256:` is looked for (`labels.go:111` and
  115), so a bare digest becomes a link to an image named `sha256`. A registry named by
  a host without a dot is taken for a name on Docker Hub, and from its port on the reference
  is lost. `RepoURLNamesImage` excepts both.
- The comment at `labels.go:135` has an official image link to `github.com/docker-library`;
  the code links to its page on Docker Hub.
- A page or partial that fails after its first output goes out with status 200 and what
  there is of it, and is logged as 500 or, for a page, as 200.
- `GetInfo` ignores the error of `DiskUsage` and caches sizes of zero (`host.go:45`).
- The `retry` of the event stream (`sse.go:100`) has no effect: the page closes its
  `EventSource` on every error and connects again after a delay of its own.
- Every broadcast replaces a filtered list by the whole one until something refreshes
  it; `ListFitsFilters` has to except it (`listMissed`).
- htmx keeps one waiting request: a refresh takes the place of the request for a panel
  that waits, and the other way round, so a panel may stay with what it had
  (`detailMissed`).
- Sorting by status or creation is not a total order, so cards that tie may change
  places with every refresh; `RefreshKeepsOrder` excludes these two.

## 6. Not modelled, or not fully

- Formatting: HTML and its helpers, sizes and durations, styles, icons, and the fields
  that conversions copy one by one (`HostInfoFromAPI`, most of `ContainerFromAPI` and
  `containerDetailFromInspect`). There is nothing in them that a state could get wrong.
- The Docker client is an interface over the SDK; its calls are steps of the modules
  that make them. `DaemonChange`, `StreamBreaks`, `ShellExits` and their like are
  external actions, as unconstrained as the code has to expect.
- `WriteTimeout` as a clock: `WriteError`, `StreamCancelled` and `OnError` may come at
  any time instead, which includes every time they really come at.
- Settings that change no control flow: they are read like the three that do.
- Parsing of the templates at start: one of the ways `ConnectFails` stands for.
- The card a `container-update` looks for in the browser: it is never found, see
  section 5. The page of `LiveUpdates` is the list as a whole.
- A panic of `c.ID[:12]` (`models.go:196`) in a handler, or in the watcher, where nothing
  would recover it: Docker's identifiers have 64 characters, and `Len(raw.id) = 64` is an
  assumption about the environment.
- The comparison of passwords in `basicAuthMiddleware`: a request is authorized or not.

## 7. Plan

The components of section 1 have their modules, and their safety properties their
theorems. What would add to them, in this order:

1. The bound of `ServicesStaleness` as a theorem of `LiveUpdates`: it needs the ages of
   the calls and entries beside the state of the whole.
2. A bound on the shutdown in real time, with `WriteTimeout` as a clock.
