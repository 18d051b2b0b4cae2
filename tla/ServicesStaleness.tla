-------------------------- MODULE ServicesStaleness --------------------------
(***************************************************************************)
(* Services with a clock and a record of when things happened, to say how  *)
(* old an answer can be.  The added variables only observe: every step is  *)
(* a step of Services.                                                     *)
(***************************************************************************)
EXTENDS Services

CONSTANT MaxTime    \* bound on the clock

VARIABLES
    now,        \* the clock
    outdated,   \* outdated[v]: when version v + 1 replaced version v
    asked,      \* asked[p]: when the running call of p missed the cache
    filled,     \* filled[k]: when the call that stored the entry k missed it
    stored      \* stored[k]: when the entry k was stored

timeVars      == <<now, outdated, asked, filled, stored>>
stalenessVars == <<servicesVars, timeVars>>

TimedTypeOK ==
    /\ TypeOK
    /\ now \in Nat
    /\ outdated \in [1..MaxVersion -> Nat]
    /\ asked \in [Proc -> Nat]
    /\ filled \in [Key -> Nat]
    /\ stored \in [Key -> Nat]

TimedInit ==
    /\ Init
    /\ now = 0
    /\ outdated = [v \in 1..MaxVersion |-> 0]
    /\ asked = [p \in Proc |-> 0]
    /\ filled = [k \in Key |-> 0]
    /\ stored = [k \in Key |-> 0]

TimedLookupMiss(p, k) ==
    /\ LookupMiss(p, k)
    /\ asked' = [asked EXCEPT ![p] = now]
    /\ UNCHANGED <<now, outdated, filled, stored>>

TimedStore(p) ==
    /\ Store(p)
    /\ filled' = [filled EXCEPT ![call[p].key] = asked[p]]
    /\ stored' = [stored EXCEPT ![call[p].key] = now]
    /\ UNCHANGED <<now, outdated, asked>>

TimedDaemonChange ==
    /\ DaemonChange
    /\ outdated' = [outdated EXCEPT ![version] = now]
    /\ UNCHANGED <<now, asked, filled, stored>>

TimedTick ==
    /\ now < MaxTime
    /\ Tick
    /\ now' = now + 1
    /\ UNCHANGED <<outdated, asked, filled, stored>>

\* The other steps, in whose course nothing is recorded.
TimedOther ==
    /\ \/ \E p \in Proc :
            \/ \E k \in Key : LookupHit(p, k)
            \/ Answer(p)
            \/ AnswerFails(p)
            \/ DiskUsageFails(p)
            \/ Return(p)
       \/ InvalidateCache
       \/ Cleanup
    /\ UNCHANGED timeVars

TimedNext ==
    \/ \E p \in Proc :
        \/ \E k \in Key : TimedLookupMiss(p, k)
        \/ TimedStore(p)
    \/ TimedDaemonChange
    \/ TimedTick
    \/ TimedOther

TimedSpec == TimedInit /\ [][TimedNext]_stalenessVars

-----------------------------------------------------------------------------
\* Nothing the cache serves is older than the call that fetched it, and no
\* entry is served for longer than TTL after it was stored.  A version that is
\* served although it was outdated was therefore outdated no earlier than TTL
\* and the duration of one call ago, whoever filled, read or invalidated
\* entries in between.  For GetInfo that holds of each of its three parts.
BoundedStaleness ==
    \A k \in Key : Readable(items, k) =>
        /\ now - stored[k] <= TTL
        /\ \A i \in DOMAIN items[k].value :
            LET v == items[k].value[i]
            IN  v \notin {NoData, version} => outdated[v] >= filled[k]
==============================================================================
