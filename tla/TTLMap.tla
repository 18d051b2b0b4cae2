------------------------------- MODULE TTLMap -------------------------------
(***************************************************************************)
(* What a TTL cache promises: a map whose bindings vanish by themselves    *)
(* when their time is up.  There is no goroutine that cleans up and no     *)
(* binding that is present but must not be returned.                       *)
(***************************************************************************)
EXTENDS Integers

CONSTANTS Key, Value, TTL, Miss

VARIABLES
    live,       \* the bindings that can be read, with the time each has left
    answer,     \* what the last Get returned
    event       \* the last call or unit of time; turn tells it from the next

mapVars == <<live, answer, event>>

Happens(what, ks) ==
    event' = [what |-> what, keys |-> ks, turn |-> 1 - event.turn]

Keep(ks) == [k \in ks |-> live[k]]

Init ==
    /\ live = [k \in {} |-> Miss]
    /\ answer = Miss
    /\ event = [what |-> "new", keys |-> {}, turn |-> 0]

Read(k) ==
    /\ Happens("read", {k})
    /\ answer' = IF k \in DOMAIN live THEN live[k].value ELSE Miss
    /\ UNCHANGED live

\* A binding with a negative time to live is never seen.
Bind(k, v) ==
    /\ Happens("bind", {k})
    /\ live' = IF TTL < 0
               THEN Keep(DOMAIN live \ {k})
               ELSE [x \in DOMAIN live \cup {k} |->
                        IF x = k THEN [value |-> v, left |-> TTL] ELSE live[x]]
    /\ UNCHANGED answer

Drop(k) ==
    /\ Happens("drop", {k})
    /\ live' = Keep(DOMAIN live \ {k})
    /\ UNCHANGED answer

DropAll ==
    /\ Happens("drop", Key)
    /\ live' = [k \in {} |-> Miss]
    /\ UNCHANGED answer

TimePasses ==
    /\ Happens("time", {})
    /\ live' = [k \in {x \in DOMAIN live : live[x].left > 0} |->
                    [live[k] EXCEPT !.left = @ - 1]]
    /\ UNCHANGED answer

Next ==
    \/ \E k \in Key :
        \/ Read(k)
        \/ \E v \in Value : Bind(k, v)
        \/ Drop(k)
    \/ DropAll
    \/ TimePasses

Spec == Init /\ [][Next]_mapVars
=============================================================================
