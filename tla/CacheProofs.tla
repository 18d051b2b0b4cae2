----------------------------- MODULE CacheProofs -----------------------------
(***************************************************************************)
(* Cache implements TTLMap, for any keys, any values and any time to live, *)
(* zero and negative ones included.                                        *)
(***************************************************************************)
EXTENDS Cache, TLAPS

\* The cache starts empty and every method keeps it well formed.
THEOREM TypeCorrect == Spec => []TypeOK
<1>1. ASSUME Init PROVE TypeOK
  <2>1. event \in [what : {"new", "read", "bind", "drop", "time"},
                   keys : SUBSET Key, turn : {0, 1}]
    BY <1>1 DEF Init
  <2>2. DOMAIN items = {}
    BY <1>1 DEF Init, NoEntries
  <2> QED
    BY <1>1, <2>1, <2>2 DEF Init, TypeOK
<1>2. TypeOK /\ [Next]_cacheVars => TypeOK'
  <2> SUFFICES ASSUME TypeOK, [Next]_cacheVars PROVE TypeOK'
    OBVIOUS
  <2> USE TTLAssumption DEF TypeOK, Entry, Happens
  <2>1. ASSUME NEW k \in Key, CacheGet(k) PROVE TypeOK'
    BY <2>1 DEF CacheGet, Get, Readable
  <2>2. ASSUME NEW k \in Key, NEW v \in Value, CacheSet(k, v) PROVE TypeOK'
    BY <2>2 DEF CacheSet, Set
  <2>3. ASSUME NEW k \in Key, CacheInvalidate(k) PROVE TypeOK'
    BY <2>3 DEF CacheInvalidate, Invalidate, Without
  <2>4. CASE CacheInvalidateAll
    BY <2>4 DEF CacheInvalidateAll, InvalidateAll, NoEntries
  <2>5. CASE Cleanup
    BY <2>5 DEF Cleanup, Sweep, Without
  <2>6. CASE Tick
    BY <2>6 DEF Tick, Elapse
  <2>7. CASE Stop \/ CleanerExit \/ UNCHANGED cacheVars
    BY <2>7 DEF Stop, CleanerExit, cacheVars
  <2> QED
    BY <2>1, <2>2, <2>3, <2>4, <2>5, <2>6, <2>7 DEF Next
<1> QED
  BY <1>1, <1>2, PTL DEF Spec

-----------------------------------------------------------------------------
\* The bindings Get would return, as the code tells them: by the deadline.
LEMMA LiveDomain == DOMAIN Live = {k \in DOMAIN items : ~Expired(items[k])}
BY DEF Live, Without

\* To those, the abstract map gives the value and the deadline of the entry.
LEMMA LiveValue == \A k \in DOMAIN Live : Live[k] = items[k]
BY DEF Live, Without

\* Two maps that bind the same keys to the same entries have the same readable
\* part.
LEMMA SameLive ==
    ASSUME {k \in DOMAIN items' : ~Expired(items'[k])}
              = {k \in DOMAIN items : ~Expired(items[k])},
           \A k \in DOMAIN items : ~Expired(items[k]) => items'[k] = items[k]
    PROVE  Live' = Live
BY DEF Live, Without

\* The lazy Get, the periodic cleanup and the clock together do what a map whose
\* bindings vanish at their deadline does: every step of the cache is a step of
\* that map or leaves it alone.
LEMMA StepRefines == TypeOK /\ [Next]_cacheVars => [Map!Next]_(Map!mapVars)
<1> SUFFICES ASSUME TypeOK, [Next]_cacheVars
             PROVE  Map!Next \/ UNCHANGED <<Live, got, event>>
  BY DEF Map!mapVars
<1> USE DEF TypeOK, Entry, Happens, Map!Happens
<1>1. ASSUME NEW k \in Key, CacheGet(k) PROVE Map!Read(k)
  <2>1. Live' = Live
    BY <1>1, SameLive DEF CacheGet
  <2>2. Readable(items, k) <=> k \in DOMAIN Live
    BY LiveDomain DEF Readable
  <2> QED
    BY <1>1, <2>1, <2>2, LiveValue DEF CacheGet, Get, Map!Read
<1>2. ASSUME NEW k \in Key, NEW v \in Value, CacheSet(k, v) PROVE Map!Bind(k, v)
  <2> DEFINE e == [value |-> v, left |-> TTL]
  <2>1. /\ DOMAIN items' = DOMAIN items \cup {k}
        /\ \A x \in DOMAIN items' : items'[x] = IF x = k THEN e ELSE items[x]
    BY <1>2 DEF CacheSet, Set
  <2>2. Live' = [x \in {y \in DOMAIN items' : ~Expired(items'[y])} |-> items'[x]]
    BY DEF Live, Without
  <2>3. CASE TTL < 0
    <3>1. {y \in DOMAIN items' : ~Expired(items'[y])} = DOMAIN Live \ {k}
      BY <2>1, <2>3, LiveDomain DEF Expired
    <3>2. Live' = [x \in DOMAIN Live \ {k} |-> Live[x]]
      BY <2>1, <2>2, <3>1, LiveValue, LiveDomain
    <3> QED
      BY <1>2, <2>3, <3>2 DEF CacheSet, Map!Bind, Map!Keep
  <2>4. CASE ~(TTL < 0)
    <3>1. {y \in DOMAIN items' : ~Expired(items'[y])} = DOMAIN Live \cup {k}
      BY <2>1, <2>4, LiveDomain DEF Expired
    <3>2. Live' = [x \in DOMAIN Live \cup {k} |-> IF x = k THEN e ELSE Live[x]]
      BY <2>1, <2>2, <3>1, LiveValue, LiveDomain
    <3> QED
      BY <1>2, <2>4, <3>2 DEF CacheSet, Map!Bind
  <2> QED
    BY <2>3, <2>4
<1>3. ASSUME NEW k \in Key, CacheInvalidate(k) PROVE Map!Drop(k)
  <2>1. Live' = [x \in DOMAIN Live \ {k} |-> Live[x]]
    BY <1>3, LiveDomain, LiveValue DEF CacheInvalidate, Invalidate, Live, Without
  <2> QED
    BY <1>3, <2>1 DEF CacheInvalidate, Map!Drop, Map!Keep
<1>4. CASE CacheInvalidateAll
  BY <1>4 DEF CacheInvalidateAll, InvalidateAll, NoEntries, Live, Without,
     Map!Next, Map!DropAll
<1>5. CASE Cleanup
  <2>1. Live' = Live
    BY <1>5, SameLive DEF Cleanup, Sweep, Without
  <2> QED
    BY <1>5, <2>1 DEF Cleanup
<1>6. CASE Tick
  <2>1. /\ DOMAIN items' = DOMAIN items
        /\ \A k \in DOMAIN items : ~Expired(items[k]) =>
              items'[k] = [items[k] EXCEPT !.left = @ - 1]
        /\ \A k \in DOMAIN items : Expired(items[k]) => items'[k] = items[k]
    BY <1>6 DEF Tick, Elapse
  <2>2. {k \in DOMAIN items' : ~Expired(items'[k])}
            = {k \in DOMAIN Live : Live[k].left > 0}
    BY <2>1, LiveDomain, LiveValue DEF Expired
  <2>3. Live' = [k \in {x \in DOMAIN Live : Live[x].left > 0} |->
                    [Live[k] EXCEPT !.left = @ - 1]]
    BY <2>1, <2>2, LiveDomain, LiveValue DEF Live, Without
  <2> QED
    BY <1>6, <2>3 DEF Tick, Map!Next, Map!TimePasses
<1>7. CASE Stop \/ CleanerExit \/ UNCHANGED cacheVars
  <2>1. items' = items /\ got' = got /\ event' = event
    BY <1>7 DEF Stop, CleanerExit, cacheVars
  <2> QED
    BY <2>1, SameLive
<1> QED
  BY <1>1, <1>2, <1>3, <1>4, <1>5, <1>6, <1>7 DEF Next, Map!Next

\* The cache of the code is a TTL map: what Get answers never depends on when
\* the cleanup goroutine last ran, or on whether it still runs.
THEOREM CacheImplementsTTLMap == Spec => ImplementsTTLMap
<1>1. Init => Map!Init
  BY DEF Init, NoEntries, Live, Without, Map!Init
<1> QED
  BY <1>1, StepRefines, TypeCorrect, PTL DEF Spec, ImplementsTTLMap, Map!Spec
=============================================================================
