-------------------------------- MODULE Cache --------------------------------
(***************************************************************************)
(* internal/cache/cache.go: the TTL cache with its cleanup goroutine, used *)
(* by any number of goroutines, and the clock both read.                   *)
(***************************************************************************)
EXTENDS CacheOps

CONSTANTS Key, Value

VARIABLES
    items,      \* c.items
    got,        \* what the last Get returned, Miss when ok was false
    stopped,    \* whether c.stopped is closed
    cleaner,    \* the cleanup goroutine: "running" or "exited"
    event       \* what a caller or the clock did last; only observes

cacheVars == <<items, got, stopped, cleaner, event>>

Entry == [value : Value, left : Int]

TypeOK ==
    /\ DOMAIN items \subseteq Key
    /\ \A k \in DOMAIN items : items[k] \in Entry
    /\ got \in Value \cup {Miss}
    /\ stopped \in BOOLEAN
    /\ cleaner \in {"running", "exited"}
    /\ event \in [what : {"new", "read", "bind", "drop", "time"},
                   keys : SUBSET Key, turn : {0, 1}]

\* New: an empty map and a running cleanup goroutine.
Init ==
    /\ items = NoEntries
    /\ got = Miss
    /\ stopped = FALSE
    /\ cleaner = "running"
    /\ event = [what |-> "new", keys |-> {}, turn |-> 0]

\* Two of the same in a row differ in turn.
Happens(what, ks) ==
    event' = [what |-> what, keys |-> ks, turn |-> 1 - event.turn]

CacheGet(k) ==
    /\ Happens("read", {k})
    /\ got' = Get(items, k)
    /\ UNCHANGED <<items, stopped, cleaner>>

CacheSet(k, v) ==
    /\ Happens("bind", {k})
    /\ items' = Set(items, k, v)
    /\ UNCHANGED <<got, stopped, cleaner>>

CacheInvalidate(k) ==
    /\ Happens("drop", {k})
    /\ items' = Invalidate(items, k)
    /\ UNCHANGED <<got, stopped, cleaner>>

CacheInvalidateAll ==
    /\ Happens("drop", Key)
    /\ items' = InvalidateAll(items)
    /\ UNCHANGED <<got, stopped, cleaner>>

\* Deferred by main, which calls it once; a second call would panic.
Stop ==
    /\ ~stopped
    /\ stopped' = TRUE
    /\ UNCHANGED <<items, got, cleaner, event>>

\* Faulty variant: the goroutine returns after its first sweep.
CleanupOnce ==
    /\ cleaner = "running"
    /\ items' = Sweep(items)
    /\ cleaner' = "exited"
    /\ UNCHANGED <<got, stopped, event>>

\* The ticker fires.  The select may still choose it once stopped is closed.
Cleanup ==
    /\ cleaner = "running"
    /\ items' = Sweep(items)
    /\ UNCHANGED <<got, stopped, cleaner, event>>

CleanerExit ==
    /\ cleaner = "running"
    /\ stopped
    /\ cleaner' = "exited"
    /\ UNCHANGED <<items, got, stopped, event>>

Tick ==
    /\ Happens("time", {})
    /\ items' = Elapse(items)
    /\ UNCHANGED <<got, stopped, cleaner>>

Next ==
    \/ \E k \in Key :
        \/ CacheGet(k)
        \/ \E v \in Value : CacheSet(k, v)
        \/ CacheInvalidate(k)
    \/ CacheInvalidateAll
    \/ Stop
    \/ Cleanup
    \/ CleanerExit
    \/ Tick

Spec == Init /\ [][Next]_cacheVars

\* The 30 s ticker keeps firing and time passes.
FairSpec ==
    /\ Spec
    /\ WF_cacheVars(Cleanup)
    /\ WF_cacheVars(Tick)
    /\ WF_cacheVars(CleanerExit)

-----------------------------------------------------------------------------
Live == Without(items, {k \in DOMAIN items : Expired(items[k])})

Map == INSTANCE TTLMap WITH live <- Live, answer <- got

\* Lazy expiry on Get together with the periodic cleanup is indistinguishable
\* from bindings that vanish at their deadline: Get never returns an expired
\* value, cleanup never takes a value that could still be read, and stopping
\* the cleanup goroutine changes nothing a caller sees: none of the steps of
\* that goroutine is an event of the map.
ImplementsTTLMap == Map!Spec

\* Entries of keys nobody asks for again (an inspected container that was
\* removed) do not pile up while the cleanup goroutine runs.
ExpiredAreRemoved ==
    \A k \in Key :
        (k \in DOMAIN items /\ Expired(items[k]))
            ~> (stopped \/ k \notin DOMAIN items \/ ~Expired(items[k]))
==============================================================================
