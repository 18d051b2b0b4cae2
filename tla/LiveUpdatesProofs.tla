-------------------------- MODULE LiveUpdatesProofs --------------------------
(***************************************************************************)
(* Proofs about the way of a change to the page, for any number of clients,*)
(* of other requests and of changes of the daemon.                         *)
(*                                                                         *)
(* OutdatedOnlyIfRaced speaks of the moment at which the watcher has its   *)
(* list.  FreshInv says it of everything the list may come from: the entry *)
(* in the cache, and the answers of the calls that may store one.          *)
(*                                                                         *)
(* Every step of the system is one of the services and one of the broker,  *)
(* or leaves them alone: ServicesStep and BrokerStep.  TypeOK adds that    *)
(* the watcher is inside Broadcast exactly while a broadcast is under way. *)
(*                                                                         *)
(* Through BrokerStep the whole keeps what the broker does: ServedInv says *)
(* of the watcher's broadcasts and of the pages what SSEBrokerProofs says  *)
(* of any that use the broker.                                             *)
(***************************************************************************)
EXTENDS LiveUpdates, TLAPS

Proc == Request \cup {Watcher}

Version == 1..MaxVersion

\* A list is asked for with one question.
Seen == {<<v>> : v \in Version}

CallType == [pc : {"idle", "asking", "done", "failed"}, key : {ListKey, HostKey},
             parts : {<<>>} \cup Seen]

\* Everybody asks for the list, and only the watcher's refresh makes it ask.
CallInv ==
    /\ call \in [Proc -> CallType]
    /\ \A p \in Proc : call[p].pc \in {"asking", "done"} => call[p].key = ListKey
    /\ \A p \in Proc : call[p].pc = "done" => call[p].parts # <<>>
    /\ wpc # "list" => call[Watcher].pc = "idle"

TimeInv ==
    /\ version \in Version /\ need \in Nat
    /\ need <= version

\* While the list is read because of an event that met no answer under way.
Unraced == wpc = "list" /\ cause = "event" /\ racing = {}

FreshInv ==
    Unraced =>
        /\ ListKey \in DOMAIN items => items[ListKey].value[1] >= need
        /\ \A p \in Proc : call[p].pc = "asking" /\ call[p].parts # <<>> =>
                call[p].parts[1] >= need
        /\ call[Watcher].pc = "done" => call[Watcher].parts[1] >= need

ItemInv ==
    \A k \in DOMAIN items : k = ListKey /\ items[k] \in [value : Seen, left : Int]

LiveInv == CallInv /\ TimeInv /\ ItemInv /\ FreshInv

-----------------------------------------------------------------------------
\* What a question is answered with is one version.
LEMMA SeenFacts ==
    /\ \A s \in Seen : s # <<>> /\ Len(s) = 1 /\ s[1] \in Version
    /\ \A s \in {<<>>} \cup Seen : s \in Seq(Version) /\ (Len(s) < 1 <=> s = <<>>)
    /\ \A v \in Version : v \in Nat /\ <<v>> \in Seen /\ <<v>>[1] = v
<1>1. \A v \in Version : v \in Nat /\ <<v>> \in Seen /\ <<v>>[1] = v
  BY LiveAssumption DEF Seen, Version
<1>2. ASSUME NEW s \in Seen
      PROVE  s \in Seq(Version) /\ s # <<>> /\ Len(s) = 1 /\ s[1] \in Version
  <2>1. PICK v \in Version : s = <<v>>
    BY DEF Seen
  <2> QED
    BY <2>1
<1>3. <<>> \in Seq(Version) /\ Len(<<>>) < 1
  OBVIOUS
<1>4. ASSUME NEW s \in {<<>>} \cup Seen
      PROVE  s \in Seq(Version) /\ (Len(s) < 1 <=> s = <<>>)
  <2>1. CASE s = <<>>
    BY <1>3, <2>1
  <2>2. CASE s \in Seen
    <3>1. s \in Seq(Version) /\ s # <<>> /\ ~(Len(s) < 1)
      BY <1>2, <2>2
    <3> QED
      BY <3>1
  <2> QED
    BY <2>1, <2>2
<1> QED
  BY <1>1, <1>2, <1>4

\* A call of List asks Docker once.
LEMMA OneQuestion == S!Questions(ListKey) = <<"docker">>
BY LiveAssumption DEF S!Questions

\* A call that takes a step becomes d: what is to be known of d.
LEMMA NewCall ==
    ASSUME CallInv, TimeInv, FreshInv,
           NEW p \in Proc, NEW d \in CallType,
           call' = [call EXCEPT ![p] = d],
           UNCHANGED <<items, version, wpc, cause, need, racing>>,
           p = Watcher => wpc = "list",
           d.pc \in {"asking", "done"} => d.key = ListKey,
           d.pc = "done" => d.parts # <<>>,
           Unraced /\ d.pc = "asking" /\ d.parts # <<>> => d.parts[1] >= need,
           Unraced /\ d.pc = "done" /\ p = Watcher => d.parts[1] >= need
    PROVE  CallInv' /\ TimeInv' /\ FreshInv'
<1>1. /\ call' \in [Proc -> CallType]
      /\ call'[p] = d
      /\ \A q \in Proc \ {p} : call'[q] = call[q]
      /\ Watcher \in Proc
  BY DEF CallInv, Proc
<1>2. CallInv'
  BY <1>1 DEF CallInv
<1>3. FreshInv'
  BY <1>1 DEF FreshInv, Unraced
<1> QED
  BY <1>2, <1>3 DEF TimeInv

\* A call of List by p, who may make one, keeps to the types, and what p gets
\* from a fresh cache or from Docker is fresh.
LEMMA CallKept ==
    ASSUME LiveInv, NEW p \in Proc, p = Watcher => wpc = "list",
           UNCHANGED <<wpc, cause, need, racing>>,
           \/ S!LookupHit(p, ListKey) \/ S!LookupMiss(p, ListKey)
           \/ S!Answer(p) \/ S!AnswerFails(p) \/ S!DiskUsageFails(p)
           \/ S!Store(p) \/ S!Return(p)
    PROVE  LiveInv'
<1> DEFINE c == call[p]
<1>1. /\ c \in CallType /\ c.parts \in {<<>>} \cup Seen
      /\ c.pc \in {"asking", "done"} => c.key = ListKey
  BY DEF LiveInv, CallInv, CallType
<1> USE SeenFacts
<1>2. CASE S!LookupHit(p, ListKey)
  <2> DEFINE d == [pc |-> "done", key |-> ListKey, parts |-> items[ListKey].value]
  <2>1. ListKey \in DOMAIN items /\ call' = [call EXCEPT ![p] = d]
    BY <1>2 DEF S!LookupHit, S!Done, S!Get, S!Readable
  <2>2. d \in CallType /\ d.parts # <<>>
    BY <2>1 DEF LiveInv, ItemInv, CallType
  <2>3. Unraced => d.parts[1] >= need
    BY <2>1 DEF LiveInv, FreshInv
  <2>4. UNCHANGED <<items, version>>
    BY <1>2 DEF S!LookupHit
  <2> QED
    BY <2>1, <2>2, <2>3, <2>4, NewCall DEF LiveInv, ItemInv
<1>3. CASE S!LookupMiss(p, ListKey)
  <2> DEFINE d == [pc |-> "asking", key |-> ListKey, parts |-> <<>>]
  <2>1. call' = [call EXCEPT ![p] = d] /\ UNCHANGED <<items, version>>
    BY <1>3 DEF S!LookupMiss, S!Asking
  <2>2. d \in CallType
    BY DEF CallType
  <2> QED
    BY <2>1, <2>2, NewCall DEF LiveInv, ItemInv
<1>4. CASE S!Answer(p)
  <2> DEFINE d == [pc |-> "asking", key |-> ListKey, parts |-> <<version>>]
  <2>1. c.pc = "asking" /\ c.key = ListKey /\ Len(c.parts) < 1
    <3>1. Len(<<"docker">>) = 1
      OBVIOUS
    <3> QED
      BY <3>1, <1>1, <1>4, OneQuestion DEF S!Answer, S!Unanswered
  <2>2. c.parts = <<>>
    BY <1>1, <2>1
  <2>3. version \in Version /\ version \in Nat /\ version >= need
    BY DEF LiveInv, TimeInv
  <2>4. Append(c.parts, version) = <<version>>
    BY <2>2, <2>3
  <2>5. [c EXCEPT !.parts = Append(@, version)] = d
    BY <1>1, <2>1, <2>4 DEF CallType
  <2>6. call' = [call EXCEPT ![p] = d] /\ UNCHANGED <<items, version>>
    BY <1>4, <2>5 DEF S!Answer
  <2>7. d \in CallType /\ d.parts[1] >= need
    <3>1. d.parts = <<version>> /\ <<version>> \in Seen /\ <<version>>[1] = version
      BY DEF LiveInv, TimeInv
    <3> QED
      BY <2>3, <3>1 DEF CallType
  <2> QED
    BY <2>6, <2>7, NewCall DEF LiveInv, ItemInv
<1>5. CASE S!AnswerFails(p)
  <2> DEFINE d == [pc |-> "failed", key |-> c.key, parts |-> <<>>]
  <2>1. call' = [call EXCEPT ![p] = d] /\ UNCHANGED <<items, version>>
    BY <1>5 DEF S!AnswerFails, S!Failed
  <2>2. d \in CallType
    BY <1>1 DEF CallType
  <2> QED
    BY <2>1, <2>2, NewCall DEF LiveInv, ItemInv
<1>6. CASE S!DiskUsageFails(p)
  <2>1. c.parts = <<>> /\ c.key = ListKey
    BY <1>1, <1>6, OneQuestion DEF S!DiskUsageFails, S!Unanswered
  <2>2. S!Question(p) = "docker"
    BY <2>1, OneQuestion DEF S!Question
  <2> QED
    BY <1>6, <2>2 DEF S!DiskUsageFails
<1>7. CASE S!Store(p)
  <2> DEFINE d == [c EXCEPT !.pc = "done"]
  <2>0. c.pc = "asking" /\ c.key = ListKey /\ ~(Len(c.parts) < 1)
    <3>1. Len(<<"docker">>) = 1
      OBVIOUS
    <3> QED
      BY <3>1, <1>1, <1>7, OneQuestion DEF S!Store, S!Unanswered
  <2>1. /\ c.pc = "asking" /\ c.key = ListKey /\ c.parts # <<>>
        /\ call' = [call EXCEPT ![p] = d] /\ UNCHANGED version
    BY <1>7, <2>0 DEF S!Store
  <2>2. d \in CallType /\ d.pc = "done" /\ d.parts = c.parts
    BY <1>1 DEF CallType
  <2>3. Unraced => c.parts[1] >= need
    BY <2>1 DEF LiveInv, FreshInv
  <2>4. /\ items'[ListKey] = [value |-> c.parts, left |-> TTL]
        /\ DOMAIN items' = DOMAIN items \cup {ListKey}
        /\ \A k \in DOMAIN items \ {ListKey} : items'[k] = items[k]
    BY <1>7, <2>1 DEF S!Store, S!Set
  <2>5. ItemInv'
    BY <1>1, <2>1, <2>4, LiveAssumption DEF LiveInv, ItemInv
  <2>6. call' \in [Proc -> CallType] /\ call'[p] = d
        /\ \A q \in Proc \ {p} : call'[q] = call[q]
    BY <2>1, <2>2 DEF LiveInv, CallInv
  <2>7. CallInv'
    BY <2>1, <2>2, <2>6 DEF LiveInv, CallInv, Proc
  <2>8. FreshInv'
    <3>1. SUFFICES ASSUME Unraced PROVE FreshInv'
      BY DEF FreshInv, Unraced
    <3>2. items'[ListKey].value[1] >= need'
      BY <2>3, <2>4, <3>1
    <3>3. \A q \in Proc : call'[q].pc = "asking" /\ call'[q].parts # <<>> =>
              call'[q].parts[1] >= need'
      BY <2>2, <2>6, <3>1 DEF LiveInv, FreshInv
    <3>4. call'[Watcher].pc = "done" => call'[Watcher].parts[1] >= need'
      BY <2>2, <2>3, <2>6, <3>1 DEF LiveInv, FreshInv, Proc
    <3> QED
      BY <3>2, <3>3, <3>4 DEF FreshInv
  <2> QED
    BY <2>1, <2>5, <2>7, <2>8 DEF LiveInv, TimeInv
<1>8. CASE S!Return(p)
  <2> DEFINE d == [pc |-> "idle", key |-> HostKey, parts |-> <<>>]
  <2>1. call' = [call EXCEPT ![p] = d] /\ UNCHANGED <<items, version>>
    BY <1>8 DEF S!Return, S!Idle
  <2>2. d \in CallType
    BY DEF CallType
  <2> QED
    BY <2>1, <2>2, NewCall DEF LiveInv, ItemInv
<1> QED
  BY <1>2, <1>3, <1>4, <1>5, <1>6, <1>7, <1>8

\* Time and the cleanup goroutine take entries away and leave their values.
LEMMA CacheKept ==
    ASSUME LiveInv, UNCHANGED <<call, version, wpc, cause, need, racing>>,
           S!Tick \/ S!Cleanup
    PROVE  LiveInv'
<1>1. /\ DOMAIN items' \subseteq DOMAIN items
      /\ \A k \in DOMAIN items' : items'[k].value = items[k].value
      /\ ItemInv'
  <2>1. CASE S!Tick
    BY <2>1 DEF S!Tick, S!Elapse, S!Expired, LiveInv, ItemInv
  <2>2. CASE S!Cleanup
    BY <2>2 DEF S!Cleanup, S!Sweep, S!Without, LiveInv, ItemInv
  <2> QED
    BY <2>1, <2>2
<1>2. CallInv' /\ TimeInv'
  BY DEF LiveInv, CallInv, TimeInv
<1>3. FreshInv'
  BY <1>1 DEF LiveInv, FreshInv, Unraced
<1> QED
  BY <1>1, <1>2, <1>3 DEF LiveInv

\* The watcher's way to its refresh and back: an event finds it idle, empties the
\* cache, and meets the answers InFlight tells of.
LEMMA WatcherKept ==
    ASSUME LiveInv,
           Select \/ Top \/ OpenStream \/ PauseEnds \/ ListFails \/ SendList \/ SendUpdate
               \/ Sent
    PROVE  LiveInv'
<1> USE DEF WatcherGoto
<1>1. CASE SelectEvent
  <2>1. /\ wpc = "select" /\ wpc' = "list" /\ items' = S!NoEntries
        /\ need' = version /\ racing' = InFlight /\ UNCHANGED <<version, call>>
    BY <1>1 DEF SelectEvent, S!InvalidateCache, S!InvalidateAll
  <2>2. DOMAIN items' = {}
    BY <2>1 DEF S!NoEntries
  <2>3. CallInv' /\ ItemInv'
    BY <2>1, <2>2 DEF LiveInv, CallInv, ItemInv
  <2>7. TimeInv'
    <3>1. version \in Version /\ version \in Nat
      BY SeenFacts DEF LiveInv, TimeInv
    <3> QED
      BY <2>1, <3>1 DEF TimeInv
  <2>4. call[Watcher].pc = "idle"
    BY <2>1 DEF LiveInv, CallInv
  <2>5. InFlight = {} => \A p \in Proc : call[p].pc = "asking" => call[p].parts = <<>>
    BY <2>4 DEF InFlight, Proc
  <2>6. FreshInv'
    BY <2>1, <2>2, <2>4, <2>5 DEF FreshInv, Unraced
  <2> QED
    BY <2>3, <2>6, <2>7 DEF LiveInv
<1>2. CASE SelectTick
  <2>1. cause' = "tick" /\ wpc' = "list" /\ UNCHANGED <<items, version, call, need>>
    BY <1>2 DEF SelectTick, servicesVars, ghostVars
  <2> QED
    BY <2>1 DEF LiveInv, CallInv, TimeInv, ItemInv, FreshInv, Unraced
<1>3. CASE SelectStop \/ SelectError \/ Top \/ OpenStream \/ PauseEnds \/ SendUpdate \/ Sent
  <2>1. wpc # "list" /\ wpc' # "list" /\ UNCHANGED <<items, version, call, need>>
    BY <1>3 DEF SelectStop, SelectError, LeaveSelect, Top, OpenStream, PauseEnds, SendUpdate,
       Sent, AfterList, servicesVars, ghostVars
  <2> QED
    BY <2>1 DEF LiveInv, CallInv, TimeInv, ItemInv, FreshInv, Unraced
<1>4. CASE ListFails \/ SendList
  <2> DEFINE d == [pc |-> "idle", key |-> HostKey, parts |-> <<>>]
  <2>1. /\ wpc' # "list" /\ need' = 0 /\ UNCHANGED <<items, version>>
        /\ call' = [call EXCEPT ![Watcher] = d]
    BY <1>4 DEF ListFails, SendList, AfterList, ForgetEvent, S!Return, S!Idle
  <2>2. d \in CallType /\ Watcher \in Proc
    BY DEF CallType, Proc
  <2>3. CallInv'
    BY <2>1, <2>2 DEF LiveInv, CallInv
  <2>4. TimeInv'
    <3>1. version \in Version /\ version \in Nat
      BY SeenFacts DEF LiveInv, TimeInv
    <3> QED
      BY <2>1, <3>1 DEF TimeInv
  <2> QED
    BY <2>1, <2>3, <2>4 DEF LiveInv, ItemInv, FreshInv, Unraced
<1> QED
  BY <1>1, <1>2, <1>3, <1>4 DEF Select

\* Every step of the system keeps LiveInv.
LEMMA LiveInductive == LiveInv /\ [Next]_vars => LiveInv'
<1> SUFFICES ASSUME LiveInv, [Next]_vars PROVE LiveInv'
  OBVIOUS
<1>1. CASE UNCHANGED <<items, version, call, wpc, cause, need, racing>>
  BY <1>1 DEF LiveInv, CallInv, TimeInv, ItemInv, FreshInv, Unraced
<1>2. CASE DaemonChange
  <2>1. /\ version < MaxVersion /\ version' = version + 1
        /\ UNCHANGED <<items, call, wpc, cause, need, racing>>
    BY <1>2 DEF DaemonChange, S!DaemonChange, watcherVars, ghostVars
  <2>2. TimeInv'
    <3>1. version \in 1..MaxVersion /\ need \in Nat /\ need <= version
      BY DEF LiveInv, TimeInv, Version
    <3>2. version' \in 1..MaxVersion /\ need <= version'
      BY <2>1, <3>1, LiveAssumption
    <3> QED
      BY <2>1, <3>1, <3>2 DEF TimeInv, Version
  <2>3. CallInv' /\ ItemInv' /\ FreshInv'
    BY <2>1 DEF LiveInv, CallInv, ItemInv, FreshInv, Unraced
  <2> QED
    BY <2>2, <2>3 DEF LiveInv
<1>3. CASE Select \/ Top \/ OpenStream \/ PauseEnds \/ ListFails \/ SendList \/ SendUpdate
              \/ Sent
  BY <1>3, WatcherKept
<1>4. CASE ListStep
  BY <1>4, CallKept DEF ListStep, Proc, watcherVars, ghostVars
<1>5. ASSUME NEW r \in Request, RequestStep(r) PROVE LiveInv'
  <2>1. r \in Proc /\ r # Watcher
    BY LiveAssumption DEF Proc
  <2> QED
    BY <1>5, <2>1, CallKept DEF RequestStep, S!CallProgress, watcherVars, ghostVars
<1>6. CASE CacheTime
  BY <1>6, CacheKept DEF CacheTime, S!Tick, S!Cleanup, watcherVars, ghostVars
<1>7. CASE OtherEvent \/ StreamBreaks \/ TickFires \/ Stop \/ UNCHANGED vars
  BY <1>1, <1>7 DEF OtherEvent, StreamBreaks, TickFires, Stop, vars, servicesVars,
     watcherVars, ghostVars
<1>8. CASE \E c \in Client : SendTo(c) \/ HandleSSE(c)
  BY <1>1, <1>8 DEF SendTo, HandleSSE, PageConnects, PageReceives, HandlerOther,
     servicesVars, watcherVars, ghostVars
<1> QED
  BY <1>2, <1>3, <1>4, <1>5, <1>6, <1>7, <1>8 DEF Next, WatcherStep

\* Before the first event there is nothing to be fresh.
LEMMA InitLive == Init => LiveInv
<1> SUFFICES ASSUME Init PROVE LiveInv
  OBVIOUS
<1>1. CallInv
  BY DEF Init, S!Init, S!Idle, CallInv, CallType, Proc
<1>2. TimeInv
  BY LiveAssumption DEF Init, S!Init, TimeInv, Version
<1>3. ItemInv
  BY DEF Init, S!Init, S!NoEntries, ItemInv
<1>4. FreshInv
  BY DEF Init, FreshInv, Unraced
<1> QED
  BY <1>1, <1>2, <1>3, <1>4 DEF LiveInv

-----------------------------------------------------------------------------
\* The list the watcher broadcasts because of an event is older than the event
\* only if some request had its answer and had not stored it when the event came.
THEOREM OnlyIfRaced == Spec => []OutdatedOnlyIfRaced
<1>1. LiveInv => OutdatedOnlyIfRaced
  <2> SUFFICES ASSUME LiveInv, EventList, call[Watcher].parts[1] < need, racing = {}
               PROVE  FALSE
    BY DEF OutdatedOnlyIfRaced
  <2>1. call[Watcher].parts[1] >= need
    BY DEF LiveInv, FreshInv, Unraced, EventList
  <2>2. call[Watcher].parts \in Seen /\ need \in Nat
    BY DEF LiveInv, CallInv, CallType, TimeInv, Proc, EventList
  <2>3. call[Watcher].parts[1] \in Nat
    BY <2>2, SeenFacts
  <2> QED
    BY <2>1, <2>2, <2>3
<1> QED
  BY <1>1, InitLive, LiveInductive, PTL DEF Spec

-----------------------------------------------------------------------------
(* The broker and the services are used as they may be.                      *)

\* Whatever the system does with the cache and the calls, the services do.
LEMMA ServicesStep == [Next]_vars => [S!Next]_servicesVars
<1> SUFFICES ASSUME [Next]_vars PROVE S!Next \/ UNCHANGED servicesVars
  OBVIOUS
<1>1. CASE DaemonChange
  BY <1>1 DEF DaemonChange, S!Next
<1>2. CASE SelectEvent
  BY <1>2 DEF SelectEvent, S!Next
<1>3. CASE CacheTime
  BY <1>3 DEF CacheTime, S!Next
<1>4. ASSUME NEW p \in Proc,
             \/ S!LookupHit(p, ListKey) \/ S!LookupMiss(p, ListKey)
             \/ S!CallProgress(p)
      PROVE  S!Next
  BY <1>4 DEF S!Next, Proc
<1>5. CASE ListStep \/ ListFails \/ SendList
  <2>1. Watcher \in Proc
    BY DEF Proc
  <2>2. \/ S!LookupHit(Watcher, ListKey) \/ S!LookupMiss(Watcher, ListKey)
        \/ S!CallProgress(Watcher)
    BY <1>5 DEF ListStep, ListFails, SendList, S!CallProgress
  <2> QED
    BY <2>1, <2>2, <1>4
<1>6. ASSUME NEW r \in Request, RequestStep(r) PROVE S!Next
  <2>1. r \in Proc
    BY DEF Proc
  <2> QED
    BY <2>1, <1>4, <1>6 DEF RequestStep
<1>7. CASE \/ OtherEvent \/ StreamBreaks \/ TickFires \/ SelectStop \/ SelectError
           \/ SelectTick \/ Top \/ OpenStream \/ PauseEnds \/ SendUpdate \/ Sent \/ Stop
           \/ UNCHANGED vars
  BY <1>7 DEF OtherEvent, StreamBreaks, TickFires, SelectStop, SelectError, LeaveSelect,
     SelectTick, Top, OpenStream, PauseEnds, SendUpdate, Sent, Stop, vars
<1>8. CASE \E c \in Client : SendTo(c) \/ HandleSSE(c)
  BY <1>8 DEF SendTo, HandleSSE, PageConnects, PageReceives, HandlerOther
<1> QED
  BY <1>1, <1>2, <1>3, <1>5, <1>6, <1>7, <1>8 DEF Next, Select, WatcherStep

\* Whatever the system does with the channels, the broker does: the watcher
\* broadcasts messages only, one after the other.
LEMMA BrokerStep == LiveInv /\ [Next]_vars => [B!Next]_brokerVars
<1> SUFFICES ASSUME LiveInv, [Next]_vars PROVE B!Next \/ UNCHANGED brokerVars
  OBVIOUS
<1>1. CASE SendList
  <2> DEFINE v == call[Watcher].parts[1]
  <2>1. v \in Version
    BY <1>1, SeenFacts DEF SendList, LiveInv, CallInv, CallType, Proc
  <2>2. ListMessage(v) \in Message
    BY <2>1 DEF Message, Version
  <2> QED
    BY <1>1, <2>2 DEF SendList, B!Next
<1>2. CASE SendUpdate
  BY <1>2 DEF SendUpdate, Message, B!Next
<1>3. ASSUME NEW c \in Client, SendTo(c) PROVE B!Next
  BY <1>3 DEF SendTo, B!Next, B!BroadcastStep
<1>4. CASE Sent
  BY <1>4 DEF Sent, B!Next, B!BroadcastStep
<1>5. ASSUME NEW c \in Client, HandleSSE(c) PROVE B!Next
  BY <1>5 DEF HandleSSE, PageConnects, PageReceives, HandlerOther, B!Next, B!HandleSSE
<1>6. CASE Stop
  BY <1>6 DEF Stop, B!Next
<1>7. CASE \/ DaemonChange \/ OtherEvent \/ StreamBreaks \/ TickFires \/ Select \/ Top
           \/ OpenStream \/ PauseEnds \/ ListStep \/ ListFails \/ CacheTime
           \/ UNCHANGED vars
  BY <1>7 DEF DaemonChange, OtherEvent, StreamBreaks, TickFires, Select, SelectStop,
     SelectError, LeaveSelect, SelectEvent, SelectTick, Top, OpenStream, PauseEnds,
     ListStep, ListFails, CacheTime, vars
<1>8. ASSUME NEW r \in Request, RequestStep(r) PROVE UNCHANGED brokerVars
  BY <1>8 DEF RequestStep
<1> QED
  BY <1>1, <1>2, <1>3, <1>4, <1>5, <1>6, <1>7, <1>8 DEF Next, WatcherStep

\* No channel is over its capacity, and one is left to visit only while there is
\* a message to send to it.
SendInv == B!TypeOK /\ (B!Broadcasting \/ pending = {})

\* The broker keeps to its types, whoever uses it as B!Next has it.
LEMMA BrokerKept == SendInv /\ [B!Next]_brokerVars => SendInv'
<1> SUFFICES ASSUME SendInv, [B!Next]_brokerVars PROVE SendInv'
  OBVIOUS
<1> USE LiveAssumption DEF SendInv, B!TypeOK, B!HandlerState, B!Broadcasting, B!Goto,
        B!stopVars, B!bcastVars, B!handlerVars
<1>1. ASSUME NEW c \in Client, B!Connect(c) PROVE SendInv'
  BY <1>1 DEF B!Connect
<1>2. ASSUME NEW c \in Client, B!Subscribe(c) PROVE SendInv'
  BY <1>2 DEF B!Subscribe
<1>3. ASSUME NEW c \in Client, B!Receive(c) PROVE SendInv'
  BY <1>3 DEF B!Receive
<1>4. ASSUME NEW c \in Client, B!ReceiveClosed(c) PROVE SendInv'
  BY <1>4 DEF B!ReceiveClosed
<1>5. ASSUME NEW c \in Client, B!Write(c) PROVE SendInv'
  BY <1>5 DEF B!Write
<1>6. ASSUME NEW c \in Client, B!WriteError(c) PROVE SendInv'
  BY <1>6 DEF B!WriteError
<1>7. ASSUME NEW c \in Client, B!Disconnect(c) PROVE SendInv'
  BY <1>7 DEF B!Disconnect
<1>8. ASSUME NEW c \in Client, B!ContextDone(c) PROVE SendInv'
  BY <1>8 DEF B!ContextDone
<1>9. ASSUME NEW c \in Client, B!Unsubscribe(c) PROVE SendInv'
  BY <1>9 DEF B!Unsubscribe
<1>10. ASSUME NEW m \in Message, B!BroadcastBegin(m) PROVE SendInv'
  BY <1>10 DEF B!BroadcastBegin
<1>11. ASSUME NEW c \in Client, B!BroadcastSend(c) PROVE SendInv'
  <2>1. bcast \in Message
    BY <1>11 DEF B!BroadcastSend
  <2>2. CASE buf' = buf
    BY <1>11, <2>2 DEF B!BroadcastSend
  <2>3. CASE /\ Len(buf[c]) < BufSize
             /\ buf' = [buf EXCEPT ![c] = Append(@, bcast)]
    BY <1>11, <2>1, <2>3 DEF B!BroadcastSend
  <2> QED
    BY <1>11, <2>2, <2>3 DEF B!BroadcastSend
<1>12. CASE B!BroadcastEnd
  BY <1>12 DEF B!BroadcastEnd
<1>13. CASE B!Stop
  BY <1>13 DEF B!Stop, B!StopSignal, B!StopLock, B!StopClose, B!StopEnd
<1>14. CASE UNCHANGED brokerVars
  BY <1>14 DEF brokerVars
<1> QED
  BY <1>1, <1>2, <1>3, <1>4, <1>5, <1>6, <1>7, <1>8, <1>9, <1>10, <1>11, <1>12,
     <1>13, <1>14 DEF B!Next, B!HandleSSE, B!BroadcastStep

\* A broker just started is within its capacity.
LEMMA InitSend == Init => SendInv
<1> SUFFICES ASSUME Init PROVE SendInv
  OBVIOUS
<1>1. B!Init
  BY DEF Init
<1>2. \A c \in Client : Len(buf[c]) <= BufSize
  <2>1. Len(<<>>) = 0
    OBVIOUS
  <2>2. \A c \in Client : buf[c] = <<>>
    BY <1>1 DEF B!Init
  <2>3. \A c \in Client : Len(buf[c]) = 0
    BY <2>1, <2>2, Zenon
  <2>4. 0 <= BufSize
    BY LiveAssumption
  <2> QED
    BY <2>3, <2>4, Zenon
<1>3. \A c \in Client : (handler[c] = "write") = (writing[c] # None)
  BY <1>1 DEF B!Init
<1>4. /\ buf \in [Client -> Seq(Message)]
      /\ handler \in [Client -> B!HandlerState]
      /\ writing \in [Client -> Message \cup {None}]
  BY <1>1 DEF B!Init, B!HandlerState
<1>5. /\ clients \subseteq Client /\ closed \subseteq Client
      /\ toClose \subseteq Client /\ pending \subseteq Client
      /\ ctxDone \subseteq Client
      /\ bcast \in Message \cup {None}
      /\ stop \in {"no", "signalled", "closing", "done"}
      /\ stopCh \in BOOLEAN /\ crashed \in BOOLEAN
      /\ pending = {}
  BY <1>1 DEF B!Init
<1> QED
  BY <1>2, <1>3, <1>4, <1>5 DEF SendInv, B!TypeOK

-----------------------------------------------------------------------------
(* The types of the whole, and that the watcher waits for its broadcast. *)

StreamInv ==
    /\ cause \in {"event", "tick"}
    /\ stream \in {"none", "open", "broken"}
    /\ events \in 0..MaxQueued
    /\ tickDue \in BOOLEAN
    /\ racing \subseteq Request

\* A broadcast is under way exactly when the watcher is inside Broadcast.
SendingInv ==
    /\ wpc \in WatcherState
    /\ B!Broadcasting <=> wpc \in {"sendlist", "sendupdate"}

PageType == page \in [Client -> 0..MaxVersion]

\* The stream, its events and the ticker keep to their types.
LEMMA StreamKept == StreamInv /\ [Next]_vars => StreamInv'
<1> SUFFICES ASSUME StreamInv, [Next]_vars PROVE StreamInv'
  OBVIOUS
<1>0. MaxQueued \in Nat \ {0} /\ events \in 0..MaxQueued
  BY LiveAssumption DEF StreamInv
<1> USE DEF StreamInv
<1>1. CASE DaemonChange \/ OtherEvent
  <2>1. events' = events \/ (events < MaxQueued /\ events' = events + 1)
    BY <1>1 DEF DaemonChange, OtherEvent
  <2>2. events' \in 0..MaxQueued
    BY <1>0, <2>1
  <2>3. UNCHANGED <<cause, stream, tickDue, racing>>
    BY <1>1 DEF DaemonChange, OtherEvent, watcherVars, ghostVars
  <2> QED
    BY <2>2, <2>3
<1>2. CASE StreamBreaks \/ TickFires
  <2>1. events' \in 0..events \/ events' = events
    BY <1>2 DEF StreamBreaks, TickFires
  <2>2. events' \in 0..MaxQueued
    BY <1>0, <2>1
  <2>3. /\ stream' = "broken" \/ stream' = stream
        /\ tickDue' = TRUE \/ tickDue' = tickDue
        /\ UNCHANGED <<cause, racing>>
    BY <1>2 DEF StreamBreaks, TickFires, watcherVars, ghostVars
  <2> QED
    BY <2>2, <2>3
<1>3. CASE SelectEvent
  <2>1. events > 0 /\ events' = events - 1
    BY <1>3 DEF SelectEvent
  <2>2. events' \in 0..MaxQueued
    BY <1>0, <2>1
  <2> QED
    BY <1>3, <2>2 DEF SelectEvent, InFlight
<1>7. CASE SelectStop \/ SelectError \/ OpenStream
  <2>1. events' = 0 /\ tickDue' = FALSE /\ UNCHANGED <<cause, racing>>
    BY <1>7 DEF SelectStop, SelectError, LeaveSelect, OpenStream, ghostVars
  <2>2. events' \in 0..MaxQueued
    BY <1>0, <2>1
  <2>3. stream' \in {"none", "open", "broken"}
    BY <1>7 DEF SelectStop, SelectError, LeaveSelect, OpenStream
  <2> QED
    BY <2>1, <2>2, <2>3
<1>8. CASE SelectTick \/ Top \/ PauseEnds \/ SendUpdate \/ Sent
  BY <1>8 DEF SelectTick, Top, PauseEnds, SendUpdate, Sent, streamVars, ghostVars
<1>4. CASE ListStep \/ ListFails \/ SendList
  BY <1>4 DEF ListStep, ListFails, SendList, ForgetEvent, streamVars, watcherVars, ghostVars
<1>5. CASE (\E c \in Client : SendTo(c) \/ HandleSSE(c)) \/ Stop
  BY <1>5 DEF SendTo, HandleSSE, PageConnects, PageReceives, HandlerOther, Stop,
     streamVars, watcherVars, ghostVars
<1>6. CASE (\E r \in Request : RequestStep(r)) \/ CacheTime \/ UNCHANGED vars
  BY <1>6 DEF RequestStep, CacheTime, vars, streamVars, watcherVars, ghostVars
<1> QED
  BY <1>1, <1>2, <1>3, <1>4, <1>5, <1>6, <1>7, <1>8 DEF Next, Select, WatcherStep

\* Broadcast is called by the watcher only, and returns before it goes on.
LEMMA SendingKept == SendInv /\ SendingInv /\ LiveInv /\ [Next]_vars => SendingInv'
<1> SUFFICES ASSUME SendInv, SendingInv, LiveInv, [Next]_vars PROVE SendingInv'
  OBVIOUS
<1> USE DEF SendingInv, WatcherState, B!Broadcasting, WatcherGoto
<1>1. CASE DaemonChange \/ OtherEvent \/ StreamBreaks \/ TickFires \/ CacheTime \/ ListStep
  BY <1>1 DEF DaemonChange, OtherEvent, StreamBreaks, TickFires, CacheTime, ListStep,
     watcherVars, brokerVars
<1>2. CASE Select \/ Top \/ OpenStream \/ PauseEnds \/ ListFails
  BY <1>2 DEF Select, SelectStop, SelectError, LeaveSelect, SelectEvent, SelectTick, Top,
     OpenStream, PauseEnds, ListFails, AfterList, brokerVars
<1>3. CASE SendList
  <2>1. ListMessage(call[Watcher].parts[1]) # None
    <3>1. call[Watcher].parts[1] \in Version
      BY <1>3, SeenFacts DEF SendList, LiveInv, CallInv, CallType, Proc
    <3> QED
      BY <3>1, LiveAssumption DEF Message, Version
  <2> QED
    BY <1>3, <2>1 DEF SendList, B!BroadcastBegin
<1>4. CASE SendUpdate
  BY <1>4, LiveAssumption DEF SendUpdate, B!BroadcastBegin, Message
<1>5. CASE Sent
  BY <1>5 DEF Sent, B!BroadcastEnd, AfterList
<1>6. ASSUME NEW c \in Client, SendTo(c) PROVE SendingInv'
  BY <1>6 DEF SendTo, B!BroadcastSend, watcherVars
<1>7. ASSUME NEW c \in Client, HandleSSE(c) PROVE SendingInv'
  <2>1. UNCHANGED <<wpc, bcast>>
    BY <1>7 DEF HandleSSE, PageConnects, PageReceives, HandlerOther, B!Connect, B!Write,
       B!Subscribe, B!Receive, B!ReceiveClosed, B!WriteError, B!Disconnect,
       B!ContextDone, B!Unsubscribe, B!bcastVars, watcherVars
  <2> QED
    BY <2>1
<1>8. CASE Stop
  BY <1>8 DEF Stop, B!Stop, B!StopSignal, B!StopLock, B!StopClose, B!StopEnd, B!bcastVars,
     watcherVars
<1>9. CASE (\E r \in Request : RequestStep(r)) \/ UNCHANGED vars
  BY <1>9 DEF RequestStep, vars, watcherVars, brokerVars
<1> QED
  BY <1>1, <1>2, <1>3, <1>4, <1>5, <1>6, <1>7, <1>8, <1>9 DEF Next, WatcherStep

\* A page shows the list it was loaded with, or one that was sent to it.
LEMMA PageKept == SendInv /\ LiveInv /\ PageType /\ [Next]_vars => PageType'
<1> SUFFICES ASSUME SendInv, LiveInv, PageType, [Next]_vars PROVE PageType'
  OBVIOUS
<1>1. CASE UNCHANGED page
  BY <1>1 DEF PageType
<1>2. ASSUME NEW c \in Client, PageConnects(c) PROVE PageType'
  <2>1. version \in 0..MaxVersion
    BY LiveAssumption DEF LiveInv, TimeInv, Version
  <2> QED
    BY <1>2, <2>1, LiveAssumption DEF PageConnects, PageType, Version
<1>3. ASSUME NEW c \in Client, PageReceives(c) PROVE PageType'
  <2>1. CASE writing[c] = UpdateMessage
    BY <1>3, <2>1 DEF PageReceives, PageType
  <2>2. CASE writing[c] # UpdateMessage
    <3>1. writing[c] \in Message
      <4>1. handler[c] = "write"
        BY <1>3 DEF PageReceives, B!Write, B!Goto
      <4> QED
        BY <4>1 DEF SendInv, B!TypeOK
    <3>2. PICK v \in 1..MaxVersion : writing[c] = ListMessage(v)
      BY <2>2, <3>1 DEF Message
    <3>3. writing[c].version \in 0..MaxVersion
      BY <3>2, LiveAssumption DEF ListMessage
    <3> QED
      BY <1>3, <2>2, <3>3 DEF PageReceives, PageType
  <2> QED
    BY <2>1, <2>2
<1>4. CASE \/ DaemonChange \/ OtherEvent \/ StreamBreaks \/ TickFires \/ Select \/ Top
           \/ OpenStream \/ PauseEnds \/ ListStep \/ ListFails \/ SendList \/ SendUpdate
           \/ Sent \/ Stop \/ CacheTime \/ UNCHANGED vars
  BY <1>1, <1>4 DEF DaemonChange, OtherEvent, StreamBreaks, TickFires, Select, SelectStop,
     SelectError, LeaveSelect, SelectEvent, SelectTick, Top, OpenStream, PauseEnds,
     ListStep, ListFails, SendList, SendUpdate, Sent, Stop, CacheTime, vars
<1>5. ASSUME NEW c \in Client, SendTo(c) \/ HandlerOther(c) PROVE PageType'
  BY <1>1, <1>5 DEF SendTo, HandlerOther
<1>6. ASSUME NEW r \in Request, RequestStep(r) PROVE PageType'
  BY <1>1, <1>6 DEF RequestStep
<1> QED
  BY <1>2, <1>3, <1>4, <1>5, <1>6 DEF Next, WatcherStep, HandleSSE

\* What LiveInv knows of the cache and the calls is what the services promise.
LEMMA ServicesTypes == LiveInv => S!TypeOK
<1> SUFFICES ASSUME LiveInv PROVE S!TypeOK
  OBVIOUS
<1>0. /\ Len(S!Questions(ListKey)) = 1
      /\ Len(S!Questions(HostKey)) = 3
      /\ \A k \in {ListKey, HostKey} : Len(S!Questions(k)) \in {1, 3}
  BY LiveAssumption DEF S!Questions
<1>1. /\ Version \subseteq 0..MaxVersion
      /\ \A s \in {<<>>} \cup Seen : s \in S!Answers /\ Len(s) \in {0, 1}
      /\ \A s \in Seen : Len(s) = 1
  <2>1. Version \subseteq 0..MaxVersion
    BY LiveAssumption DEF Version
  <2>2. <<>> \in Seq(0..MaxVersion) /\ Len(<<>>) = 0
    OBVIOUS
  <2>3. ASSUME NEW s \in Seen PROVE s \in Seq(0..MaxVersion) /\ Len(s) = 1
    <3>1. PICK v \in Version : s = <<v>>
      BY DEF Seen
    <3>2. v \in 0..MaxVersion
      BY <2>1
    <3> QED
      BY <3>1, <3>2
  <2> QED
    BY <2>1, <2>2, <2>3 DEF S!Answers
<1>2. \A k \in DOMAIN items :
        /\ k = ListKey
        /\ items[k] \in [value : S!Answers, left : Int]
        /\ Len(items[k].value) = 1
  BY <1>1 DEF LiveInv, ItemInv
<1>3. \A p \in Proc : call[p] \in S!Calls /\ call[p] \in CallType
  BY <1>1 DEF LiveInv, CallInv, CallType, S!Calls
<1>4. ASSUME NEW p \in Proc
      PROVE  /\ Len(call[p].parts) <= Len(S!Questions(call[p].key))
             /\ call[p].pc = "done" =>
                    Len(call[p].parts) = Len(S!Questions(call[p].key))
  <2> DEFINE answered == Len(call[p].parts)
             asked    == Len(S!Questions(call[p].key))
  <2>1. /\ call[p].key \in {ListKey, HostKey}
        /\ call[p].parts \in {<<>>} \cup Seen
    BY <1>3 DEF CallType
  <2>2. answered \in {0, 1} /\ asked \in {1, 3}
    BY <1>0, <1>1, <2>1
  <2>3. call[p].pc = "done" => answered = 1 /\ asked = 1
    BY <1>0, <1>1, <2>1 DEF LiveInv, CallInv
  <2> HIDE DEF answered, asked
  <2>4. answered <= asked /\ (call[p].pc = "done" => answered = asked)
    BY <2>2, <2>3
  <2> QED
    BY <2>4 DEF answered, asked
<1>5. version \in 1..MaxVersion /\ call \in [Proc -> S!Calls]
  BY <1>3 DEF LiveInv, TimeInv, CallInv, Version
<1> QED
  BY <1>0, <1>2, <1>4, <1>5 DEF S!TypeOK, Proc

\* The system starts within its types.
LEMMA InitStream == Init => StreamInv /\ SendingInv /\ PageType
<1> SUFFICES ASSUME Init PROVE StreamInv /\ SendingInv /\ PageType
  OBVIOUS
<1>1. StreamInv
  <2>1. 0 \in 0..MaxQueued
    BY LiveAssumption
  <2> QED
    BY <2>1 DEF Init, StreamInv
<1>2. SendingInv
  BY DEF Init, SendingInv, WatcherState, B!Init, B!Broadcasting
<1>3. PageType
  <2>1. 0 \in 0..MaxVersion
    BY LiveAssumption
  <2> QED
    BY <2>1 DEF Init, PageType
<1> QED
  BY <1>1, <1>2, <1>3

WholeInv == LiveInv /\ SendInv /\ StreamInv /\ SendingInv /\ PageType

\* The parts of the invariant together are inductive.
LEMMA WholeInductive == Spec => []WholeInv
<1>1. Init => WholeInv
  BY InitLive, InitSend, InitStream DEF WholeInv
<1>2. WholeInv /\ [Next]_vars => WholeInv'
  BY LiveInductive, BrokerStep, BrokerKept, StreamKept, SendingKept, PageKept DEF WholeInv
<1> QED
  BY <1>1, <1>2, PTL DEF Spec

-----------------------------------------------------------------------------
\* The broker, the services, the watcher and the pages keep to their types, and a
\* broadcast is under way exactly while watchDockerEvents is inside Broadcast: the
\* one goroutine that broadcasts never finds a broadcast of its own unfinished.
THEOREM TypeCorrect == Spec => []TypeOK
<1>1. WholeInv => TypeOK
  <2> SUFFICES ASSUME WholeInv PROVE TypeOK
    OBVIOUS
  <2>1. S!TypeOK
    BY ServicesTypes DEF WholeInv
  <2>2. need \in 0..MaxVersion
    BY LiveAssumption DEF WholeInv, LiveInv, TimeInv, Version
  <2>3. B!TypeOK
    BY DEF WholeInv, SendInv
  <2> QED
    BY <2>1, <2>2, <2>3 DEF WholeInv, StreamInv, SendingInv, PageType, TypeOK
<1> QED
  BY <1>1, WholeInductive, PTL

\* Watcher and requests call the services as Services lets them: the live updates
\* do nothing to the cache that the proofs about the read path do not allow for.
THEOREM ServicesRefined == Spec => S!Spec
<1>1. Init => S!Init
  BY DEF Init
<1>2. [Next]_vars => [S!Next]_(S!servicesVars)
  BY ServicesStep DEF servicesVars, S!servicesVars
<1> QED
  BY <1>1, <1>2, PTL DEF Spec, S!Spec

\* The watcher broadcasts as SSEBroker lets it, and the handlers of the pages are
\* its handlers: what is proved of the broker holds of the live updates.
THEOREM BrokerRefined == Spec => B!Spec
<1>1. Init => B!Init
  BY DEF Init
<1>2. LiveInv /\ [Next]_vars => [B!Next]_(B!brokerVars)
  BY BrokerStep DEF brokerVars, B!brokerVars
<1>3. WholeInv => LiveInv
  BY DEF WholeInv
<1> QED
  BY <1>1, <1>2, <1>3, WholeInductive, PTL DEF Spec, B!Spec

-----------------------------------------------------------------------------
(* What the broker promises holds of the live updates: the watcher is the    *)
(* goroutine that would panic, and the pages are the ones to be served.      *)

\* While the watcher is in the loop of Broadcast, Stop is not in its own, and the
\* channels it has yet to visit are registered and open.
LockInv ==
    /\ B!Broadcasting => B!NoWriter
    /\ pending \subseteq clients
    /\ toClose \subseteq clients
    /\ toClose \cap closed = {}
    /\ B!NoWriter => toClose = {} /\ clients \cap closed = {}

ServedInv ==
    /\ LockInv
    /\ B!NoPanic
    /\ B!RegisteredHasHandler
    /\ B!SubscribedUntilStop

\* Neither a handler nor Stop gets between the watcher and the channels it visits.
LEMMA LockKept == SendInv /\ LockInv /\ [B!Next]_brokerVars => LockInv'
<1> SUFFICES ASSUME SendInv, LockInv, [B!Next]_brokerVars PROVE LockInv'
  OBVIOUS
<1> USE DEF SendInv, LockInv, B!Broadcasting, B!NoWriter, B!LockFree, B!stopVars, B!bcastVars,
        B!handlerVars
<1>1. ASSUME NEW c \in Client, B!Subscribe(c) PROVE LockInv'
  BY <1>1 DEF B!Subscribe
<1>2. ASSUME NEW c \in Client, B!Unsubscribe(c) PROVE LockInv'
  BY <1>2 DEF B!Unsubscribe
<1>3. ASSUME NEW c \in Client,
             \/ B!Connect(c) \/ B!Receive(c) \/ B!ReceiveClosed(c) \/ B!Write(c)
             \/ B!WriteError(c) \/ B!Disconnect(c) \/ B!ContextDone(c)
      PROVE  LockInv'
  BY <1>3 DEF B!Connect, B!Receive, B!ReceiveClosed, B!Write, B!WriteError,
     B!Disconnect, B!ContextDone
<1>4. ASSUME NEW m \in Message, B!BroadcastBegin(m) PROVE LockInv'
  BY <1>4 DEF B!BroadcastBegin
<1>5. ASSUME NEW c \in Client, B!BroadcastSend(c) PROVE LockInv'
  BY <1>5 DEF B!BroadcastSend
<1>6. CASE B!BroadcastEnd
  BY <1>6 DEF B!BroadcastEnd
<1>7. CASE B!StopSignal \/ B!StopLock
  BY <1>7 DEF B!StopSignal, B!StopLock
<1>8. ASSUME NEW c \in Client, B!StopClose(c) PROVE LockInv'
  BY <1>8 DEF B!StopClose
<1>9. CASE B!StopEnd
  BY <1>9 DEF B!StopEnd
<1>10. CASE UNCHANGED brokerVars
  BY <1>10 DEF brokerVars
<1> QED
  BY <1>1, <1>2, <1>3, <1>4, <1>5, <1>6, <1>7, <1>8, <1>9, <1>10
     DEF B!Next, B!HandleSSE, B!BroadcastStep, B!Stop

\* No send of the watcher's and no close of Stop's meets a closed channel.
LEMMA PanicKept == SendInv /\ ServedInv /\ [B!Next]_brokerVars => B!NoPanic'
<1> SUFFICES ASSUME SendInv, ServedInv, [B!Next]_brokerVars PROVE B!NoPanic'
  OBVIOUS
<1> USE DEF ServedInv, B!NoPanic
<1>1. ASSUME NEW c \in Client, B!BroadcastSend(c) PROVE ~crashed'
  <2>1. c \in pending /\ B!Broadcasting
    BY <1>1 DEF B!BroadcastSend, SendInv
  <2>2. c \notin closed
    BY <2>1 DEF LockInv
  <2> QED
    BY <1>1, <2>2 DEF B!BroadcastSend
<1>2. ASSUME NEW c \in Client, B!StopClose(c) PROVE ~crashed'
  BY <1>2 DEF B!StopClose, LockInv
<1>3. CASE UNCHANGED crashed
  BY <1>3
<1> QED
  BY <1>1, <1>2, <1>3 DEF B!Next, B!HandleSSE, B!Connect, B!Subscribe, B!Receive,
     B!ReceiveClosed, B!Write, B!WriteError, B!Disconnect, B!ContextDone, B!Unsubscribe,
     B!BroadcastStep, B!BroadcastBegin, B!BroadcastEnd, B!Stop, B!StopSignal, B!StopLock,
     B!StopEnd, brokerVars

\* A step moves handlers, registers and unregisters channels so that neither is left
\* without the other.
LEMMA HandlersKept ==
    /\ SendInv
    /\ ServedInv
    /\ [B!Next]_brokerVars
    => B!RegisteredHasHandler' /\ B!SubscribedUntilStop'
<1> SUFFICES ASSUME SendInv, ServedInv, [B!Next]_brokerVars
             PROVE  B!RegisteredHasHandler' /\ B!SubscribedUntilStop'
  OBVIOUS
<1> USE DEF SendInv, ServedInv, B!TypeOK, B!RegisteredHasHandler, B!SubscribedUntilStop,
        B!Goto, B!stopVars, B!bcastVars, B!handlerVars
<1>1. ASSUME NEW c \in Client, B!Connect(c)
      PROVE  B!RegisteredHasHandler' /\ B!SubscribedUntilStop'
  BY <1>1 DEF B!Connect
<1>2. ASSUME NEW c \in Client, B!Subscribe(c)
      PROVE  B!RegisteredHasHandler' /\ B!SubscribedUntilStop'
  BY <1>2 DEF B!Subscribe
<1>3. ASSUME NEW c \in Client, B!Unsubscribe(c)
      PROVE  B!RegisteredHasHandler' /\ B!SubscribedUntilStop'
  BY <1>3 DEF B!Unsubscribe
<1>4. ASSUME NEW c \in Client,
             \/ B!Receive(c) \/ B!ReceiveClosed(c) \/ B!Write(c) \/ B!WriteError(c)
             \/ B!ContextDone(c)
      PROVE  B!RegisteredHasHandler' /\ B!SubscribedUntilStop'
  <2>1. PICK to \in {"select", "write", "leave"} :
            /\ handler' = [handler EXCEPT ![c] = to]
            /\ handler[c] \in {"select", "write"}
            /\ UNCHANGED <<clients, closed, stop>>
    BY <1>4 DEF B!Receive, B!ReceiveClosed, B!Write, B!WriteError, B!ContextDone
  <2> QED
    BY <2>1
<1>5. CASE B!StopSignal \/ B!StopLock \/ B!StopEnd \/ \E c \in Client : B!StopClose(c)
  BY <1>5 DEF B!StopSignal, B!StopLock, B!StopEnd, B!StopClose
<1>6. CASE UNCHANGED <<clients, closed, handler, stop>>
  BY <1>6
<1> QED
  BY <1>1, <1>2, <1>3, <1>4, <1>5, <1>6 DEF B!Next, B!HandleSSE, B!Disconnect,
     B!BroadcastStep, B!BroadcastBegin, B!BroadcastSend, B!BroadcastEnd, B!Stop, brokerVars

\* The parts together are inductive, for the broker in the hands of the watcher.
LEMMA ServedInductive == Spec => []ServedInv
<1>1. Init => ServedInv
  BY DEF Init, B!Init, ServedInv, LockInv, B!Broadcasting, B!NoWriter, B!NoPanic,
     B!RegisteredHasHandler, B!SubscribedUntilStop
<1>2. WholeInv /\ ServedInv /\ [Next]_vars => ServedInv'
  <2> SUFFICES ASSUME WholeInv, ServedInv, [Next]_vars PROVE ServedInv'
    OBVIOUS
  <2>1. SendInv /\ [B!Next]_brokerVars
    BY BrokerStep DEF WholeInv
  <2>2. LockInv'
    BY <2>1, LockKept DEF ServedInv
  <2>3. B!NoPanic'
    BY <2>1, PanicKept
  <2>4. B!RegisteredHasHandler' /\ B!SubscribedUntilStop'
    BY <2>1, HandlersKept
  <2> QED
    BY <2>2, <2>3, <2>4 DEF ServedInv
<1> QED
  BY <1>1, <1>2, WholeInductive, PTL DEF Spec

\* Wherever Stop finds the watcher, and whatever the pages do meanwhile, no send of
\* watchDockerEvents, which recovers from nothing, panics, and no close of Stop's does.
THEOREM WatcherNeverPanics == Spec => []B!NoPanic
<1>1. ServedInv => B!NoPanic
  BY DEF ServedInv
<1> QED
  BY <1>1, ServedInductive, PTL

\* Until Stop has its lock, a page whose handler is in its loop has an open channel that
\* the watcher's next broadcast visits; no channel is visited that has no handler.
THEOREM PagesServed == Spec => [](B!SubscribedUntilStop /\ B!RegisteredHasHandler)
<1>1. ServedInv => B!SubscribedUntilStop /\ B!RegisteredHasHandler
  BY DEF ServedInv
<1> QED
  BY <1>1, ServedInductive, PTL
=============================================================================
