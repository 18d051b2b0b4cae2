--------------------------- MODULE LifecycleProofs ---------------------------
(***************************************************************************)
(* Proofs about Terminal and Lifecycle, for any settings and any length of *)
(* a session.                                                              *)
(*                                                                         *)
(* ConnectionsAccountedFor is not inductive: it says nothing of the states *)
(* in which the handler may still fail.  HandlerInv tells which connection *)
(* is open in each of them.                                                *)
(* That no handler is left when main returns in time rests on the order in *)
(* Server.Shutdown: ClosingInv says what each of its steps leaves.         *)
(***************************************************************************)
EXTENDS Lifecycle, TLAPS

-----------------------------------------------------------------------------
(* A session by itself.                                                      *)

HandlerInv ==
    /\ execOpen <=> pc \in {"upgrade", "wait"}
    /\ wsOpen <=> pc = "wait"
    /\ pc # "wait" => out \in {"off", "gone"} /\ inp \in {"off", "gone"}

SessionInv == TypeOK /\ HandlerInv

\* Nothing is open before the first call.
LEMMA InitSession == Init => SessionInv
<1> SUFFICES ASSUME Init PROVE SessionInv
  OBVIOUS
<1>1. /\ printed \in 0..MaxOutput /\ taken \in 0..printed /\ shown \in 0..taken
      /\ sent \in 0..MaxInput /\ received \in 0..sent
  BY TerminalAssumption DEF Init
<1> QED
  BY <1>1 DEF Init, SessionInv, TypeOK, HandlerInv, HandlerState

\* Chunks and messages are counted once on each way they go.
LEMMA TypeStep == TypeOK /\ [Next]_terminalVars => TypeOK'
<1> SUFFICES ASSUME TypeOK, [Next]_terminalVars PROVE TypeOK'
  OBVIOUS
<1> USE TerminalAssumption
    DEF TypeOK, HandlerState, Goto, execVars, wsVars, outputVars, inputVars
<1>1. CASE SetUp
  BY <1>1 DEF SetUp, Inspect, CreateExec, AttachExec, Refuse, Upgrade, UpgradeFails
<1>2. CASE PumpOutput
  BY <1>2 DEF PumpOutput, ReadOutput, ReadEOF, ShowOutput, ShowOutputToNobody
<1>3. CASE PumpInput
  BY <1>3 DEF PumpInput, ReadMessage, ReadClose, WriteInput, WriteInputFails, Resize
<1>4. CASE ReadOutputFails \/ Wait
  BY <1>4 DEF ReadOutputFails, Wait
<1>5. CASE ShellPrints \/ ShellExits
  BY <1>5 DEF ShellPrints, ShellExits
<1>6. CASE BrowserSends \/ BrowserCloses
  BY <1>6 DEF BrowserSends, BrowserCloses
<1>7. CASE UNCHANGED terminalVars
  BY <1>7 DEF terminalVars
<1> QED
  BY <1>1, <1>2, <1>3, <1>4, <1>5, <1>6, <1>7 DEF Next

\* Every return of the handler closes what its calls have opened so far, and the
\* pumps run between the upgrade and wg.Wait only.
LEMMA HandlerStep == SessionInv /\ [Next]_terminalVars => HandlerInv'
<1> SUFFICES ASSUME SessionInv, [Next]_terminalVars PROVE HandlerInv'
  OBVIOUS
<1> USE DEF SessionInv, TypeOK, HandlerInv, HandlerState, Goto, execVars, wsVars
<1>1. CASE SetUp
  BY <1>1 DEF SetUp, Inspect, CreateExec, AttachExec, Refuse, Upgrade, UpgradeFails
<1>2. CASE PumpOutput
  BY <1>2 DEF PumpOutput, ReadOutput, ReadEOF, ShowOutput, ShowOutputToNobody
<1>3. CASE PumpInput
  BY <1>3 DEF PumpInput, ReadMessage, ReadClose, WriteInput, WriteInputFails, Resize
<1>4. CASE ReadOutputFails \/ Wait
  BY <1>4 DEF ReadOutputFails, Wait
<1>5. CASE ShellPrints \/ ShellExits \/ BrowserSends \/ BrowserCloses
  BY <1>5 DEF ShellPrints, ShellExits, BrowserSends, BrowserCloses
<1>6. CASE UNCHANGED terminalVars
  BY <1>6 DEF terminalVars
<1> QED
  BY <1>1, <1>2, <1>3, <1>4, <1>5, <1>6 DEF Next

\* SessionInv is inductive.
LEMMA SessionStep == SessionInv /\ [Next]_terminalVars => SessionInv'
BY TypeStep, HandlerStep DEF SessionInv

\* It says where each connection is open.
LEMMA SessionAccounted == SessionInv => ConnectionsAccountedFor
BY DEF SessionInv, TypeOK, HandlerInv, ConnectionsAccountedFor

\* The counters of a session stay in order: no more is shown than was taken, and
\* no more is taken than was printed.
THEOREM SessionTypeCorrect == Spec => []TypeOK
<1>1. SessionInv => TypeOK
  BY DEF SessionInv
<1> QED
  BY InitSession, SessionStep, <1>1, PTL DEF Spec

\* No error return leaves a connection open, and none is closed under a pump.
THEOREM ConnectionsSafe == Spec => []ConnectionsAccountedFor
BY InitSession, SessionStep, SessionAccounted, PTL DEF Spec

-----------------------------------------------------------------------------
(* The process with its sessions.                                            *)

LifeType ==
    /\ env \in Environments
    /\ phase \in {"connect", "serve", "stop", "drain", "return"} \cup Ended
    /\ starter \in {"off", "begin", "listen", "listening", "ended"}
    /\ watcher \in {"off", "top", "select", "ended"}
    /\ request \in {"none", "run", "hung"}
    /\ stream \in {"none", "open", "subscribed", "stalled", "freed", "late"}
    /\ signalled \in BOOLEAN /\ session \in BOOLEAN
    /\ resources \in BOOLEAN /\ timedOut \in BOOLEAN

\* Connections are served one at a time.
ServedInv ==
    /\ session => request = "none" /\ stream = "none"
    /\ request # "none" => stream = "none"
    /\ ~session => pc = "inspect"

\* A stopped broker has let its handlers go; once the listener is closed nothing
\* is accepted; and main returns with nothing active or at the deadline.
ClosingInv ==
    /\ phase = "connect" => starter = "off"
    /\ Stopped => stream # "subscribed"
    /\ phase \in {"drain", "return"} => starter # "listening"
    /\ timedOut => phase \notin {"connect", "serve", "stop", "drain"}
    /\ phase = "return" /\ ~timedOut => ~Active

\* There is a watcher only where the events are enabled.
WatcherInv ==
    /\ watcher # "off" => cfg.SSEEnabled
    /\ OnlyABadIntervalPanics

LifeInv == SessionInv /\ LifeType /\ ServedInv /\ ClosingInv /\ WatcherInv

-----------------------------------------------------------------------------
\* Setting gives the fallback, or the value of the variable.
LEMMA SettingValue ==
    ASSUME NEW values, NEW fallback
    PROVE  \/ Setting(values, fallback) = fallback
           \/ Setting(values, fallback) \in values \ {Garbage}
<1>1. CASE values = {} \/ Garbage \in values
  BY <1>1 DEF Setting
<1>2. CASE ~(values = {} \/ Garbage \in values)
  <2>1. Setting(values, fallback) = CHOOSE v \in values : TRUE
    BY <1>2 DEF Setting
  <2>2. PICK v \in values : TRUE
    BY <1>2
  <2>3. (CHOOSE w \in values : TRUE) \in values
    BY <2>2
  <2> QED
    BY <1>2, <2>1, <2>3
<1> QED
  BY <1>1, <1>2

\* A positive number of milliseconds that is a duration does not wrap.
LEMMA FitDuration ==
    ASSUME NEW n \in Int, ~Unfit(n)
    PROVE  Duration(n) > 0
<1> DEFINE d == n * Millisecond
<1>1. d \in Int /\ 0 < d /\ d < HalfRange
  <2>1. n > 0 /\ Millisecond \in Int /\ Millisecond > 0 /\ ~(d >= HalfRange)
    BY DurationAssumption DEF Unfit
  <2>2. d \in Int
    BY <2>1
  <2>3. \A a, b \in Int : a > 0 /\ b > 0 => a * b > 0
    OBVIOUS
  <2>4. d > 0
    BY <2>1, <2>3
  <2> QED
    BY <2>1, <2>2, <2>4, DurationAssumption
<1>2. (d + HalfRange) % (2 * HalfRange) = d + HalfRange
  <2> HIDE DEF d
  <2> QED
    BY <1>1, DurationAssumption
<1>3. Duration(n) = d + HalfRange - HalfRange
  BY <1>1, <1>2, DurationAssumption DEF Duration
<1> HIDE DEF d
<1> QED
  BY <1>1, <1>3, DurationAssumption

\* Nothing but a variable that says so makes an interval that cannot be waited
\* for, and events that are enabled were not disabled by another.
LEMMA BadInterval ==
    ASSUME env \in Environments, cfg.SSEEnabled, Duration(cfg.StatsIntervalMs) <= 0
    PROVE  /\ \E n \in env.interval : n # Garbage /\ Unfit(n)
           /\ FALSE \notin env.sse
<1>1. cfg.StatsIntervalMs = Setting(env.interval, 5000)
  BY DEF cfg, Load
<1>2. cfg.SSEEnabled <=> Setting(env.sse, TRUE)
  BY DEF cfg, Load
<1>3. \E n \in env.interval : n # Garbage /\ Unfit(n)
  <2>1. CASE Setting(env.interval, 5000) = 5000
    <3>1. ~Unfit(5000)
      BY DurationAssumption DEF Unfit
    <3>2. Duration(5000) > 0
      BY <3>1, FitDuration
    <3>3. Duration(5000) \in Int
      BY DurationAssumption DEF Duration
    <3> QED
      BY <1>1, <2>1, <3>2, <3>3
  <2>2. CASE Setting(env.interval, 5000) \in env.interval \ {Garbage}
    <3> DEFINE n == Setting(env.interval, 5000)
    <3>1. n \in Int
      BY <2>2, EnvironmentAssumption
    <3>2. Duration(n) \in Int
      BY <3>1, DurationAssumption DEF Duration
    <3>3. Unfit(n)
      BY <1>1, <3>1, <3>2, FitDuration
    <3> QED
      BY <2>2, <3>3
  <2> QED
    BY <2>1, <2>2, SettingValue
<1>4. FALSE \notin env.sse
  <2>1. SUFFICES ASSUME FALSE \in env.sse PROVE FALSE
    OBVIOUS
  <2>2. \A v, w \in env.sse : v = w
    BY EnvironmentAssumption DEF Single
  <2>3. Garbage \notin env.sse
    BY <2>1, <2>2, EnvironmentAssumption
  <2>4. Setting(env.sse, TRUE) = CHOOSE v \in env.sse : TRUE
    BY <2>1, <2>3 DEF Setting
  <2>5. (CHOOSE v \in env.sse : TRUE) \in env.sse
    BY <2>1
  <2>6. Setting(env.sse, TRUE) = FALSE
    BY <2>1, <2>2, <2>4, <2>5
  <2>7. ~Setting(env.sse, TRUE)
    BY <2>6
  <2> QED
    BY <1>2, <2>7
<1> QED
  BY <1>3, <1>4

\* The process starts with nothing served.
LEMMA InitLife == LifeInit => LifeInv
<1> SUFFICES ASSUME LifeInit PROVE LifeInv
  OBVIOUS
<1>1. SessionInv
  BY InitSession DEF LifeInit
<1>2. LifeType
  BY DEF LifeInit, LifeType
<1>3. ServedInv /\ ClosingInv /\ WatcherInv
  BY DEF LifeInit, Init, ServedInv, ClosingInv, WatcherInv, Stopped, Active, SettingUp,
     OnlyABadIntervalPanics
<1> QED
  BY <1>1, <1>2, <1>3 DEF LifeInv

\* The end of the process leaves nothing open.
LEMMA CutSession ==
    LifeInv /\ Cut => SessionInv' /\ ServedInv' /\ request' = "none" /\ stream' = "none"
<1> SUFFICES ASSUME LifeInv, Cut
             PROVE  SessionInv' /\ ServedInv' /\ request' = "none" /\ stream' = "none"
  OBVIOUS
<1> USE DEF LifeInv, LifeType, ServedInv, SessionInv, HandlerInv, Cut
<1>1. TypeOK'
  BY DEF TypeOK, HandlerState, outputVars, inputVars
<1>2. pc' \notin {"upgrade", "wait"}
  BY DEF TypeOK, HandlerState
<1>3. HandlerInv'
  BY <1>2
<1> QED
  BY <1>1, <1>3

\* Every step of the process keeps the session in order.
LEMMA SessionKept == LifeInv /\ [LifeNext]_lifeVars => SessionInv'
<1> SUFFICES ASSUME LifeInv, [LifeNext]_lifeVars PROVE SessionInv'
  OBVIOUS
<1>1. CASE UNCHANGED terminalVars
  BY <1>1, SessionStep DEF LifeInv
<1>2. CASE InSession(Next)
  BY <1>2, SessionStep DEF LifeInv, InSession
<1>3. CASE Cut
  BY <1>3, CutSession
<1>4. UNCHANGED terminalVars \/ InSession(Next) \/ Cut
  BY DEF LifeNext, Connect, ConnectFails, SignalKills, Signal, MainStep, Shutdown,
     CloseListener, Drained, Deadline, CloseResources, Exit, Start, Listen, ListenFails,
     WatcherTop, WatcherPanics, WatcherLeaves, AcceptRequest, RequestHangs, RequestEnds,
     AcceptStream, Subscribe, StreamStalls, StreamResumes, StreamFreed, StreamCancelled,
     AcceptSession, lifeVars
<1> QED
  BY <1>1, <1>2, <1>3, <1>4

\* A handler that has left its set-up does not come back to it.
LEMMA SetUpOnce == [Next]_terminalVars /\ ~SettingUp /\ session' = session => ~SettingUp'
<1> SUFFICES ASSUME [Next]_terminalVars, ~SettingUp, session' = session PROVE ~SettingUp'
  OBVIOUS
<1>1. pc' # pc => pc \in {"inspect", "create", "attach", "upgrade"} \/ pc' = "over"
  BY DEF Next, SetUp, Inspect, CreateExec, AttachExec, Refuse, Upgrade, UpgradeFails,
     PumpOutput, ReadOutput, ReadEOF, ReadOutputFails, ShowOutput, ShowOutputToNobody,
     PumpInput, ReadMessage, ReadClose, WriteInput, WriteInputFails, Resize, Wait,
     ShellPrints, ShellExits, BrowserSends, BrowserCloses, Goto, terminalVars
<1> QED
  BY <1>1 DEF SettingUp

\* A step that neither starts the watcher nor panics keeps what is known of it.
LEMMA WatcherKept ==
    ASSUME WatcherInv, env' = env, watcher' = watcher, phase' # "panicked" \/ phase' = phase
    PROVE  WatcherInv'
<1>1. cfg' = cfg
  BY DEF cfg
<1>2. OnlyABadIntervalPanics'
  BY DEF WatcherInv, OnlyABadIntervalPanics
<1> QED
  BY <1>1, <1>2 DEF WatcherInv

\* main: the broker is stopped before the listener is closed, and the listener
\* before the handlers are waited for.
LEMMA MainKept ==
    ASSUME LifeInv, Running,
           Connect \/ ConnectFails \/ SignalKills \/ Signal \/ MainStep
    PROVE  (LifeType /\ ServedInv /\ ClosingInv /\ WatcherInv)'
<1> USE DEF LifeInv, LifeType, ServedInv, ClosingInv, Stopped, Active, SettingUp, Running,
            Ended, Proceed, served, goroutines, terminalVars
<1>0. WatcherInv'
  <2>1. env' = env /\ watcher' = watcher /\ (phase' # "panicked" \/ phase' = phase)
    BY DEF Connect, ConnectFails, SignalKills, Signal, MainStep, Shutdown, CloseListener,
       Drained, Deadline, CloseResources, Exit, Cut
  <2> QED
    BY <2>1, WatcherKept
<1>1. CASE Connect
  BY <1>0, <1>1 DEF Connect
<1>2. CASE ConnectFails \/ SignalKills
  BY <1>0, <1>2 DEF ConnectFails, SignalKills
<1>3. CASE Signal
  BY <1>0, <1>3 DEF Signal
<1>4. CASE Shutdown
  BY <1>0, <1>4 DEF Shutdown
<1>5. CASE CloseListener
  BY <1>0, <1>5 DEF CloseListener
<1>6. CASE Drained
  BY <1>0, <1>6 DEF Drained
<1>7. CASE Deadline
  BY <1>0, <1>7 DEF Deadline, Waiting
<1>8. CASE CloseResources
  BY <1>0, <1>8 DEF CloseResources
<1>9. CASE Exit
  BY <1>0, <1>9, CutSession DEF Exit, Cut
<1> QED
  BY <1>1, <1>2, <1>3, <1>4, <1>5, <1>6, <1>7, <1>8, <1>9 DEF MainStep

\* The starter does not listen any more once the listener was closed, and the
\* watcher panics for the interval only.
LEMMA GoroutinesKept ==
    ASSUME LifeInv, Running,
           Start \/ Listen \/ ListenFails \/ WatcherTop \/ WatcherPanics \/ WatcherLeaves
    PROVE  (LifeType /\ ServedInv /\ ClosingInv /\ WatcherInv)'
<1> USE DEF LifeInv, LifeType, ServedInv, ClosingInv, WatcherInv, Stopped, Active, SettingUp,
            Running, Ended, OnlyABadIntervalPanics, mainVars,
            served, goroutines, terminalVars
<1>1. CASE Start
  BY <1>1 DEF Start, cfg
<1>2. CASE Listen
  BY <1>2 DEF Listen, cfg
<1>3. CASE ListenFails
  BY <1>3, CutSession DEF ListenFails, Cut, cfg
<1>4. CASE WatcherTop \/ WatcherLeaves
  <2>1. cfg' = cfg /\ watcher # "off" /\ phase' = phase /\ phase # "panicked"
    BY <1>4 DEF WatcherTop, WatcherLeaves, cfg
  <2>2. WatcherInv'
    BY <2>1
  <2>3. (LifeType /\ ServedInv /\ ClosingInv)'
    BY <1>4 DEF WatcherTop, WatcherLeaves
  <2> QED
    BY <2>2, <2>3
<1>5. CASE WatcherPanics
  <2>1. env' = env /\ cfg' = cfg
    BY <1>5 DEF WatcherPanics, Cut, cfg
  <2>2. env \in Environments /\ cfg.SSEEnabled /\ Duration(cfg.StatsIntervalMs) <= 0
    BY <1>5 DEF WatcherPanics
  <2>3. /\ \E n \in env.interval : n # Garbage /\ Unfit(n)
        /\ FALSE \notin env.sse
    BY <2>2, BadInterval
  <2> QED
    BY <1>5, <2>1, <2>3, CutSession DEF WatcherPanics, Cut
<1> QED
  BY <1>1, <1>2, <1>3, <1>4, <1>5

\* Nothing becomes active after the listener was closed.
LEMMA ServingKept ==
    ASSUME LifeInv, Running,
           \/ AcceptRequest \/ RequestHangs \/ RequestEnds
           \/ AcceptStream \/ Subscribe
           \/ StreamStalls \/ StreamResumes \/ StreamFreed \/ StreamCancelled
           \/ AcceptSession \/ InSession(Next)
    PROVE  (LifeType /\ ServedInv /\ ClosingInv /\ WatcherInv)'
<1> USE DEF LifeInv, LifeType, ServedInv, ClosingInv, Stopped, Active, Running, Ended,
            mainVars, served, goroutines, terminalVars
<1>0. WatcherInv'
  <2>1. env' = env /\ watcher' = watcher /\ phase' = phase
    BY DEF AcceptRequest, RequestHangs, RequestEnds, AcceptStream, Subscribe, StreamStalls,
       StreamResumes, StreamFreed, StreamCancelled, AcceptSession, InSession
  <2> QED
    BY <2>1, WatcherKept
<1>1. CASE AcceptRequest
  BY <1>0, <1>1 DEF AcceptRequest, Accepting, SettingUp
<1>2. CASE RequestHangs \/ RequestEnds
  BY <1>0, <1>2 DEF RequestHangs, RequestEnds, SettingUp
<1>3. CASE AcceptStream
  BY <1>0, <1>3 DEF AcceptStream, Accepting, SettingUp
<1>4. CASE Subscribe
  BY <1>0, <1>4 DEF Subscribe, SettingUp
<1>5. CASE StreamStalls \/ StreamResumes \/ StreamFreed \/ StreamCancelled
  BY <1>0, <1>5 DEF StreamStalls, StreamResumes, StreamFreed, StreamCancelled, SettingUp
<1>6. CASE AcceptSession
  BY <1>0, <1>6 DEF AcceptSession, Accepting, SettingUp
<1>7. CASE InSession(Next)
  <2>1. ~SettingUp => ~SettingUp'
    BY <1>0, <1>7, SetUpOnce DEF InSession
  <2> QED
    BY <1>0, <1>7, <2>1 DEF InSession
<1> QED
  BY <1>1, <1>2, <1>3, <1>4, <1>5, <1>6, <1>7

\* LifeInv is inductive.
LEMMA LifeInductive == LifeSpec => []LifeInv
<1>1. LifeInv /\ [LifeNext]_lifeVars => LifeInv'
  <2> SUFFICES ASSUME LifeInv, [LifeNext]_lifeVars PROVE LifeInv'
    OBVIOUS
  <2>1. SessionInv'
    BY SessionKept
  <2>2. CASE UNCHANGED lifeVars
    <3>1. WatcherInv'
      BY <2>2, WatcherKept DEF LifeInv, lifeVars, mainVars, goroutines
    <3>2. (LifeType /\ ServedInv /\ ClosingInv)'
      BY <2>2 DEF LifeInv, LifeType, ServedInv, ClosingInv, Stopped, Active, SettingUp,
         Running, Ended, lifeVars, mainVars, goroutines, served,
         terminalVars
    <3> QED
      BY <2>1, <3>1, <3>2 DEF LifeInv
  <2>3. CASE LifeNext
    BY <2>1, <2>3, MainKept, GoroutinesKept, ServingKept DEF LifeNext, LifeInv
  <2> QED
    BY <2>2, <2>3
<1> QED
  BY InitLife, <1>1, PTL DEF LifeSpec

-----------------------------------------------------------------------------
\* Whenever main returns without having given up, no handler is left that could
\* use what its deferred calls close.
THEOREM ResourcesOutlast == LifeSpec => []ResourcesOutlastHandlers
<1>1. LifeInv => ResourcesOutlastHandlers
  BY DEF LifeInv, ClosingInv, ResourcesOutlastHandlers
<1> QED
  BY <1>1, LifeInductive, PTL

\* Only Deadline sets timedOut, and it finds no stream that is subscribed and
\* waits for its next message: Stop has closed the channel of each of those.
THEOREM DeadlineFor == LifeSpec => DeadlineOnlyForLateOrBlocked
<1>1. LifeInv /\ [LifeNext]_lifeVars =>
        [timedOut' /\ ~timedOut =>
            request = "hung" \/ stream \in {"stalled", "late"} \/ SettingUp]_lifeVars
  <2> SUFFICES ASSUME LifeInv, [LifeNext]_lifeVars, timedOut', ~timedOut
               PROVE  request = "hung" \/ stream \in {"stalled", "late"} \/ SettingUp
    OBVIOUS
  <2>1. CASE Deadline
    <3>1. stream # "subscribed"
      BY <2>1 DEF LifeInv, ClosingInv, Stopped, Deadline, Proceed
    <3> QED
      BY <2>1, <3>1 DEF Deadline, Waiting
  <2>2. Deadline \/ timedOut' = timedOut
    BY DEF LifeNext, Connect, ConnectFails, SignalKills, Signal, MainStep, Shutdown,
       CloseListener, Drained, CloseResources, Exit, Start, Listen, ListenFails,
       WatcherTop, WatcherPanics, WatcherLeaves, AcceptRequest, RequestHangs, RequestEnds,
       AcceptStream, Subscribe, StreamStalls, StreamResumes, StreamFreed, StreamCancelled,
       AcceptSession, InSession, Cut, lifeVars, mainVars
  <2> QED
    BY <2>1, <2>2
<1> QED
  BY <1>1, LifeInductive, PTL DEF LifeSpec, DeadlineOnlyForLateOrBlocked

\* Whatever else is set, only an interval that cannot be waited for
\* makes it panic.
THEOREM PanicOnlyForInterval == LifeSpec => []OnlyABadIntervalPanics
<1>1. LifeInv => OnlyABadIntervalPanics
  BY DEF LifeInv, WatcherInv
<1> QED
  BY <1>1, LifeInductive, PTL

\* Nor does the end of the process, at any moment, upset what is counted.
THEOREM TypeCorrect == LifeSpec => []TypeOK
<1>1. LifeInv => TypeOK
  BY DEF LifeInv, SessionInv
<1> QED
  BY <1>1, LifeInductive, PTL

\* The end of the process, at any moment, leaves no connection of a session open.
THEOREM SessionSafe == LifeSpec => []ConnectionsAccountedFor
<1>1. LifeInv => ConnectionsAccountedFor
  BY SessionAccounted DEF LifeInv, SessionInv
<1> QED
  BY <1>1, LifeInductive, PTL
=============================================================================
