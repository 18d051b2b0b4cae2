------------------------------ MODULE CacheOps ------------------------------
(***************************************************************************)
(* The map inside internal/cache/cache.go and what each method of Cache    *)
(* does to it.  Every method holds c.mu from its first line to its last,   *)
(* so each is one step of whoever calls it; a module that uses the cache   *)
(* keeps the map in a variable of its own and applies these operators.     *)
(*                                                                         *)
(* An entry carries the time it has left instead of the instant it expires *)
(* at: left = expiresAt - now, in whole units of a discrete clock.         *)
(***************************************************************************)
EXTENDS Integers

CONSTANTS
    TTL,        \* c.ttl; configuration accepts any duration, also negative
    Miss        \* what Get returns besides ok = false

ASSUME TTLAssumption == TTL \in Int

NoEntries == [k \in {} |-> Miss]

Without(m, ks) == [k \in DOMAIN m \ ks |-> m[k]]

\* Faulty variant: one unit late.
ExpiredLate(e) == e.left < -1

\* time.Now().After(e.expiresAt): at the very instant it is still valid.
Expired(e) == e.left < 0

Readable(m, k) == k \in DOMAIN m /\ ~Expired(m[k])

Get(m, k) == IF Readable(m, k) THEN m[k].value ELSE Miss

Set(m, k, v) ==
    [x \in DOMAIN m \cup {k} |->
        IF x = k THEN [value |-> v, left |-> TTL] ELSE m[x]]

Invalidate(m, k) == Without(m, {k})

InvalidateAll(m) == NoEntries

\* Faulty variant: entries that reach their deadline are taken as expired.
SweepAtDeadline(m) == Without(m, {k \in DOMAIN m : m[k].left <= 0})

\* The loop of cleanup over c.items.
Sweep(m) == Without(m, {k \in DOMAIN m : Expired(m[k])})

\* One unit of time passes; how long ago an entry expired is of no interest.
Elapse(m) ==
    [k \in DOMAIN m |->
        IF Expired(m[k]) THEN m[k] ELSE [m[k] EXCEPT !.left = @ - 1]]
=============================================================================
