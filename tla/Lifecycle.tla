------------------------------ MODULE Lifecycle ------------------------------
(***************************************************************************)
(* The life of the process: main of cmd/wingstation with the settings of   *)
(* internal/config, Start and Shutdown of internal/server, the goroutine   *)
(* that serves and the watcher it starts, and what is being served when a  *)
(* signal comes: a request, an event stream or a terminal session.         *)
(*                                                                         *)
(* Connections share nothing, so one is served at a time.  Time is left    *)
(* out but for the deadline of Shutdown: what a handler can do by itself   *)
(* takes less than that, what waits for somebody else may take more.       *)
(***************************************************************************)
EXTENDS Terminal, Integers

CONSTANTS
    Environments,   \* settings: the set of values a variable denotes, none if unset
    Garbage,        \* the value of a variable that cannot be parsed
    Millisecond,    \* of time.Duration, which counts nanoseconds
    HalfRange       \* and has the values from -HalfRange up to HalfRange - 1

Single(values) == \A v, w \in values : v = w

\* A variable has one value, of its type or none.
ASSUME EnvironmentAssumption ==
    /\ Garbage \notin BOOLEAN
    /\ \A e \in Environments :
        /\ e.interval \ {Garbage} \subseteq Int /\ Single(e.interval)
        /\ e.sse \ {Garbage} \subseteq BOOLEAN /\ Single(e.sse)
        /\ e.terminal \ {Garbage} \subseteq BOOLEAN /\ Single(e.terminal)

\* The default interval is a duration.
ASSUME DurationAssumption ==
    /\ Millisecond \in Nat \ {0}
    /\ HalfRange \in Nat
    /\ 5000 * Millisecond < HalfRange

VARIABLES
    env,        \* the variables of the environment
    phase,      \* where main is, or how the process has ended
    signalled,  \* a signal is in the channel done
    starter,    \* the goroutine that calls Server.Start
    watcher,    \* watchDockerEvents
    request,    \* a request for a page, a partial or JSON
    stream,     \* a request for /events: registered and in the select, in a write,
                \* with its channel closed, or registered after the broker was stopped
    session,    \* a request for /ws/terminal was accepted, see Terminal
    resources,  \* the Docker client is open and the cache is cleaned
    timedOut    \* Shutdown gave up waiting

goroutines == <<starter, watcher>>
served     == <<request, stream, session>>
mainVars   == <<phase, signalled, resources, timedOut>>
lifeVars   == <<env, mainVars, goroutines, served, terminalVars>>

\* envStr, envInt, envBool and envDuration.
Setting(values, fallback) ==
    IF values = {} \/ Garbage \in values THEN fallback ELSE CHOOSE v \in values : TRUE

\* Faulty variant: what strconv.Atoi returns is used without a look at its error.
LoadUnchecked(e) ==
    [StatsIntervalMs |-> IF Garbage \in e.interval THEN 0 ELSE Setting(e.interval, 5000),
     SSEEnabled      |-> Setting(e.sse, TRUE),
     TerminalEnabled |-> Setting(e.terminal, FALSE)]

Load(e) ==
    [StatsIntervalMs |-> Setting(e.interval, 5000),
     SSEEnabled      |-> Setting(e.sse, TRUE),
     TerminalEnabled |-> Setting(e.terminal, FALSE)]

cfg == Load(env)

\* time.Duration(ms) * time.Millisecond, which wraps.
Duration(ms) == ((ms * Millisecond + HalfRange) % (2 * HalfRange)) - HalfRange

Ended   == {"failed", "killed", "panicked", "exited"}
Running == phase \notin Ended

\* sse.stopCh is closed.
Stopped == phase \in {"stop", "drain", "return"}

SettingUp == session /\ pc \in {"inspect", "create", "attach", "upgrade"}

\* net/http waits for these; a hijacked connection is no longer one of them.
Active == request # "none" \/ stream # "none" \/ SettingUp

\* These need not end within ten seconds: Docker or the browser has to do
\* something, or WriteTimeout, which is thirty seconds, has to pass.
Waiting ==
    \/ request = "hung"
    \/ stream \in {"subscribed", "stalled", "late"}
    \/ SettingUp /\ pc # "upgrade"

LifeInit ==
    /\ Init
    /\ env \in Environments
    /\ phase = "connect"
    /\ signalled = FALSE
    /\ starter = "off"
    /\ watcher = "off"
    /\ request = "none"
    /\ stream = "none"
    /\ session = FALSE
    /\ resources = FALSE
    /\ timedOut = FALSE

Proceed(from, to) ==
    /\ phase = from
    /\ phase' = to

-----------------------------------------------------------------------------
(* main. *)

\* Docker answers the ping; the cache, the services and the server are made, the
\* signals asked for and the serving goroutine started.
Connect ==
    /\ Proceed("connect", "serve")
    /\ resources' = TRUE
    /\ starter' = "begin"
    /\ UNCHANGED <<env, signalled, timedOut, watcher, served, terminalVars>>

\* No Docker, or a server that cannot be made: os.Exit runs no deferred call.
ConnectFails ==
    /\ Proceed("connect", "failed")
    /\ UNCHANGED <<env, signalled, resources, timedOut, goroutines, served, terminalVars>>

\* Before signal.Notify a signal ends the process.
SignalKills ==
    /\ Proceed("connect", "killed")
    /\ UNCHANGED <<env, signalled, resources, timedOut, goroutines, served, terminalVars>>

\* The channel holds one; those that find it full are dropped.
Signal ==
    /\ phase \in {"serve", "stop", "drain"}
    /\ signalled' = TRUE
    /\ UNCHANGED <<env, phase, resources, timedOut, goroutines, served, terminalVars>>

\* Faulty variant: the broker is stopped after httpServer.Shutdown only.
ShutdownServerFirst ==
    /\ signalled
    /\ Proceed("serve", "stop")
    /\ signalled' = FALSE
    /\ UNCHANGED <<env, resources, timedOut, goroutines, served, terminalVars>>

\* sse.Stop closes the channels that are registered; a handler that is in the
\* select is freed, one that is in a write does not see it yet.
Shutdown ==
    /\ signalled
    /\ Proceed("serve", "stop")
    /\ signalled' = FALSE
    /\ stream' = IF stream = "subscribed" THEN "freed" ELSE stream
    /\ UNCHANGED <<env, resources, timedOut, goroutines, request, session, terminalVars>>

\* httpServer.Shutdown closes the listener; ListenAndServe returns.
CloseListener ==
    /\ Proceed("stop", "drain")
    /\ starter' = IF starter = "listening" THEN "ended" ELSE starter
    /\ UNCHANGED <<env, signalled, resources, timedOut, watcher, served, terminalVars>>

\* Faulty variant: the terminal session that is being set up is not waited for.
DrainedOfRequests ==
    /\ Proceed("drain", "return")
    /\ request = "none" /\ stream = "none"
    /\ UNCHANGED <<env, signalled, resources, timedOut, goroutines, served, terminalVars>>

Drained ==
    /\ Proceed("drain", "return")
    /\ ~Active
    /\ UNCHANGED <<env, signalled, resources, timedOut, goroutines, served, terminalVars>>

\* Faulty variant: no deadline for the wait.
DeadlineNever == FALSE /\ UNCHANGED lifeVars

\* Ten seconds.
Deadline ==
    /\ Proceed("drain", "return")
    /\ Waiting
    /\ timedOut' = TRUE
    /\ UNCHANGED <<env, signalled, resources, goroutines, served, terminalVars>>

\* The deferred calls of main.
CloseResources ==
    /\ phase = "return"
    /\ resources
    /\ resources' = FALSE
    /\ UNCHANGED <<env, phase, signalled, timedOut, goroutines, served, terminalVars>>

\* The process ends: what it served is cut.
Cut ==
    /\ request' = "none"
    /\ stream' = "none"
    /\ pc' = IF session THEN "over" ELSE pc
    /\ execOpen' = FALSE
    /\ wsOpen' = FALSE
    /\ browser' = IF session THEN "closed" ELSE browser
    /\ out' = IF out = "off" THEN "off" ELSE "gone"
    /\ inp' = IF inp = "off" THEN "off" ELSE "gone"
    /\ UNCHANGED <<env, signalled, timedOut, resources, goroutines, session, exec,
                   outputVars, inputVars, failed>>

Exit ==
    /\ Proceed("return", "exited")
    /\ ~resources
    /\ Cut

-----------------------------------------------------------------------------
(* The goroutine of Server.Start, and the watcher. *)

Start ==
    /\ starter = "begin"
    /\ starter' = "listen"
    /\ watcher' = IF cfg.SSEEnabled THEN "top" ELSE "off"
    /\ UNCHANGED <<env, mainVars, served, terminalVars>>

\* ListenAndServe; after Shutdown it returns ErrServerClosed at once.
Listen ==
    /\ starter = "listen"
    /\ starter' = IF phase \in {"drain", "return"} THEN "ended" ELSE "listening"
    /\ UNCHANGED <<env, mainVars, watcher, served, terminalVars>>

\* The address is taken, or not one, or the listener fails later: os.Exit in the
\* goroutine.
ListenFails ==
    /\ starter \in {"listen", "listening"}
    /\ phase \in {"serve", "stop"}
    /\ phase' = "failed"
    /\ Cut

\* time.NewTicker panics, and nothing recovers.
WatcherTop ==
    /\ watcher = "top"
    /\ Stopped \/ Duration(cfg.StatsIntervalMs) > 0
    /\ watcher' = IF Stopped THEN "ended" ELSE "select"
    /\ UNCHANGED <<env, mainVars, starter, served, terminalVars>>

WatcherPanics ==
    /\ watcher = "top"
    /\ ~Stopped
    /\ Duration(cfg.StatsIntervalMs) <= 0
    /\ phase' = "panicked"
    /\ Cut

\* The stream of events breaks, or stopCh is closed.
WatcherLeaves ==
    /\ watcher = "select"
    /\ watcher' = IF Stopped THEN "ended" ELSE "top"
    /\ UNCHANGED <<env, mainVars, starter, served, terminalVars>>

-----------------------------------------------------------------------------
(* What is served. *)

Accepting ==
    /\ starter = "listening"
    /\ request = "none" /\ stream = "none" /\ ~session

AcceptRequest ==
    /\ Accepting
    /\ request' = "run"
    /\ UNCHANGED <<env, mainVars, goroutines, stream, session, terminalVars>>

\* Docker does not answer, or the browser does not read the response.
RequestHangs ==
    /\ request = "run"
    /\ request' = "hung"
    /\ UNCHANGED <<env, mainVars, goroutines, stream, session, terminalVars>>

RequestEnds ==
    /\ request \in {"run", "hung"}
    /\ request' = "none"
    /\ UNCHANGED <<env, mainVars, goroutines, stream, session, terminalVars>>

\* What is sent before Subscribe, a header and a line, fits in any buffer.
AcceptStream ==
    /\ Accepting
    /\ stream' = "open"
    /\ UNCHANGED <<env, mainVars, goroutines, request, session, terminalVars>>

\* Into the map nobody will close the channels of, once the broker is stopped.
Subscribe ==
    /\ stream = "open"
    /\ stream' = IF Stopped THEN "late" ELSE "subscribed"
    /\ UNCHANGED <<env, mainVars, goroutines, request, session, terminalVars>>

\* There is a message, before the end of a closed channel too, and a browser that
\* does not read: the write does not return.
StreamStalls ==
    /\ watcher # "off"
    /\ stream \in {"subscribed", "freed"}
    /\ stream' = "stalled"
    /\ UNCHANGED <<env, mainVars, goroutines, request, session, terminalVars>>

\* The browser reads on, and the handler is back in its select.
StreamResumes ==
    /\ stream = "stalled"
    /\ stream' = IF Stopped THEN "freed" ELSE "subscribed"
    /\ UNCHANGED <<env, mainVars, goroutines, request, session, terminalVars>>

\* The channel is closed, and drained.
StreamFreed ==
    /\ stream = "freed"
    /\ stream' = "none"
    /\ UNCHANGED <<env, mainVars, goroutines, request, session, terminalVars>>

\* The browser leaves, or WriteTimeout cuts the connection: a write that has not
\* returned fails, and either way the context is cancelled.
StreamCancelled ==
    /\ stream \in {"subscribed", "stalled", "late"}
    /\ stream' = "none"
    /\ UNCHANGED <<env, mainVars, goroutines, request, session, terminalVars>>

\* The route exists if there is an exec client.
AcceptSession ==
    /\ Accepting
    /\ cfg.TerminalEnabled
    /\ session' = TRUE
    /\ UNCHANGED <<env, mainVars, goroutines, request, stream, terminalVars>>

InSession(Step) ==
    /\ session
    /\ Step
    /\ UNCHANGED <<env, mainVars, goroutines, served>>

Handled ==
    \/ request = "run" /\ RequestEnds
    \/ Subscribe
    \/ StreamFreed

MainStep ==
    \/ Shutdown
    \/ CloseListener
    \/ Drained
    \/ Deadline
    \/ CloseResources
    \/ Exit

LifeNext ==
    /\ Running
    /\ \/ Connect
       \/ ConnectFails
       \/ SignalKills
       \/ Signal
       \/ MainStep
       \/ Start
       \/ Listen
       \/ ListenFails
       \/ WatcherTop
       \/ WatcherPanics
       \/ WatcherLeaves
       \/ AcceptRequest
       \/ RequestHangs
       \/ RequestEnds
       \/ AcceptStream
       \/ Subscribe
       \/ StreamStalls
       \/ StreamResumes
       \/ StreamFreed
       \/ StreamCancelled
       \/ AcceptSession
       \/ InSession(Next)

LifeSpec == LifeInit /\ [][LifeNext]_lifeVars

\* main, the handlers and the pumps run, and the deadline comes though a stream
\* may stall, go on and stall again.  Nothing obliges a signal to come, a browser
\* to read or to leave, Docker to answer a request it has kept waiting, or the
\* goroutine that serves and the watcher to be scheduled before a signal.
LifeFairSpec ==
    /\ LifeSpec
    /\ WF_lifeVars(Running /\ MainStep)
    /\ SF_lifeVars(Running /\ Deadline)
    /\ WF_lifeVars(Running /\ Handled)
    /\ WF_lifeVars(Running /\ InSession(SetUp))
    /\ WF_lifeVars(Running /\ InSession(PumpOutput))
    /\ WF_lifeVars(Running /\ InSession(PumpInput))
    /\ WF_lifeVars(Running /\ InSession(Wait))

-----------------------------------------------------------------------------
\* No handler finds the Docker client closed under it, unless Shutdown has given
\* up waiting for it.
ResourcesOutlastHandlers ==
    phase = "return" /\ ~resources /\ Active => timedOut

\* Shutdown is held up to its deadline only by a handler that Docker or a browser
\* keeps waiting, and by an event stream that subscribed after the broker was
\* stopped: never by one that was subscribed and waits for the next message.
DeadlineOnlyForLateOrBlocked ==
    [][timedOut' /\ ~timedOut =>
        request = "hung" \/ stream \in {"stalled", "late"} \/ SettingUp]_lifeVars

\* Once a signal is taken the process ends, whatever it serves: neither a hung
\* request, a browser that does not read, a late subscriber nor a session nobody
\* closes keeps it.
SignalEndsProcess == signalled ~> ~Running

\* An interval that is no positive number of milliseconds, or too many of them
\* to be a duration.
Unfit(n) == n <= 0 \/ n * Millisecond >= HalfRange

\* No environment makes the process panic but one that sets the interval to
\* nothing that can be waited for, with the events enabled: a value that cannot
\* be parsed does not, nor does anything else that is set.
OnlyABadIntervalPanics ==
    phase = "panicked" =>
        /\ \E n \in env.interval : n # Garbage /\ Unfit(n)
        /\ FALSE \notin env.sse
==============================================================================
