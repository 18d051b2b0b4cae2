------------------------------ MODULE Services ------------------------------
(***************************************************************************)
(* The read path of internal/service: ContainerService.List and Inspect    *)
(* and HostService.GetInfo, each a read-through of the one shared cache,   *)
(* called by any number of goroutines, against a Docker daemon that        *)
(* changes meanwhile.                                                      *)
(*                                                                         *)
(* The daemon's state is a version number.  What a call obtains is the     *)
(* sequence of the versions its questions to Docker were answered from:    *)
(* one for ContainerList and ContainerInspect; three for GetInfo, which    *)
(* asks Info, Ping and DiskUsage one after the other.  The lock of the     *)
(* cache is held inside Get and inside Set, never from one to the other.   *)
(***************************************************************************)
EXTENDS CacheOps, Sequences

CONSTANTS
    Proc,           \* the goroutines that call the services
    Key,            \* cache keys: "containers", "inspect:<id>", "hostinfo"
    HostKey,        \* the key of GetInfo
    MaxVersion      \* bound on the changes of the daemon

ASSUME ServicesAssumption ==
    /\ HostKey \in Key
    /\ MaxVersion \in Nat \ {0}

VARIABLES
    items,      \* the map in the cache
    version,    \* the state the daemon is in
    call        \* call[p]: what goroutine p is doing in a service

servicesVars == <<items, version, call>>

NoData == 0     \* DiskUsage failed: its sizes stay zero

Questions(k) == IF k = HostKey THEN <<"info", "ping", "disk">> ELSE <<"docker">>

Idle             == [pc |-> "idle", key |-> HostKey, parts |-> <<>>]
Asking(k, parts) == [pc |-> "asking", key |-> k, parts |-> parts]
Done(k, parts)   == [pc |-> "done", key |-> k, parts |-> parts]
Failed(k)        == [pc |-> "failed", key |-> k, parts |-> <<>>]

Answers == Seq(0..MaxVersion)

Calls == [pc : {"idle", "asking", "done", "failed"}, key : Key, parts : Answers]

TypeOK ==
    /\ DOMAIN items \subseteq Key
    /\ \A k \in DOMAIN items :
        /\ items[k] \in [value : Answers, left : Int]
        /\ Len(items[k].value) = Len(Questions(k))
    /\ version \in 1..MaxVersion
    /\ call \in [Proc -> Calls]
    /\ \A p \in Proc :
        /\ Len(call[p].parts) <= Len(Questions(call[p].key))
        /\ call[p].pc = "done" =>
            Len(call[p].parts) = Len(Questions(call[p].key))

Init ==
    /\ items = NoEntries
    /\ version = 1
    /\ call = [p \in Proc |-> Idle]

\* The question p has to ask next; none once all are answered.
Unanswered(p) ==
    call[p].pc = "asking" /\ Len(call[p].parts) < Len(Questions(call[p].key))

Question(p) == Questions(call[p].key)[Len(call[p].parts) + 1]

-----------------------------------------------------------------------------
(* One call of List, Inspect or GetInfo. *)

LookupHit(p, k) ==
    /\ call[p].pc = "idle"
    /\ Readable(items, k)
    /\ call' = [call EXCEPT ![p] = Done(k, Get(items, k))]
    /\ UNCHANGED <<items, version>>

LookupMiss(p, k) ==
    /\ call[p].pc = "idle"
    /\ ~Readable(items, k)
    /\ call' = [call EXCEPT ![p] = Asking(k, <<>>)]
    /\ UNCHANGED <<items, version>>

\* Docker answers from the state it is in; p learns of it some time later.
Answer(p) ==
    /\ Unanswered(p)
    /\ call' = [call EXCEPT ![p].parts = Append(@, version)]
    /\ UNCHANGED <<items, version>>

\* The daemon refuses, is unreachable, or the request context is cancelled.
AnswerFails(p) ==
    /\ Unanswered(p)
    /\ Question(p) # "disk"
    /\ call' = [call EXCEPT ![p] = Failed(@.key)]
    /\ UNCHANGED <<items, version>>

\* GetInfo ignores the error of DiskUsage and goes on with sizes of zero.
DiskUsageFails(p) ==
    /\ Unanswered(p)
    /\ Question(p) = "disk"
    /\ call' = [call EXCEPT ![p].parts = Append(@, NoData)]
    /\ UNCHANGED <<items, version>>

\* Faulty variant: the answer is cached with the first question answered.
StoreEarly(p) ==
    /\ call[p].pc = "asking"
    /\ call[p].parts # <<>>
    /\ items' = Set(items, call[p].key, call[p].parts)
    /\ call' = [call EXCEPT ![p].pc = "done"]
    /\ UNCHANGED version

\* The answer is converted and cached, whatever happened to the cache since
\* the lookup.
Store(p) ==
    /\ call[p].pc = "asking"
    /\ ~Unanswered(p)
    /\ items' = Set(items, call[p].key, call[p].parts)
    /\ call' = [call EXCEPT ![p].pc = "done"]
    /\ UNCHANGED version

\* The caller takes the answer or the error.
Return(p) ==
    /\ call[p].pc \in {"done", "failed"}
    /\ call' = [call EXCEPT ![p] = Idle]
    /\ UNCHANGED <<items, version>>

-----------------------------------------------------------------------------
\* ContainerService.InvalidateCache: every key, that of GetInfo too.
InvalidateCache ==
    /\ items' = InvalidateAll(items)
    /\ UNCHANGED <<version, call>>

\* The ticker of the cache's cleanup goroutine.
Cleanup ==
    /\ items' = Sweep(items)
    /\ UNCHANGED <<version, call>>

DaemonChange ==
    /\ version < MaxVersion
    /\ version' = version + 1
    /\ UNCHANGED <<items, call>>

Tick ==
    /\ items' = Elapse(items)
    /\ UNCHANGED <<version, call>>

CallProgress(p) ==
    \/ Answer(p)
    \/ AnswerFails(p)
    \/ DiskUsageFails(p)
    \/ Store(p)
    \/ Return(p)

Next ==
    \/ \E p \in Proc :
        \/ \E k \in Key : LookupHit(p, k) \/ LookupMiss(p, k)
        \/ CallProgress(p)
    \/ InvalidateCache
    \/ Cleanup
    \/ DaemonChange
    \/ Tick

Spec == Init /\ [][Next]_servicesVars
==============================================================================
