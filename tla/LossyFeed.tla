------------------------------ MODULE LossyFeed ------------------------------
(***************************************************************************)
(* What the SSE broker promises to a connection, without locks, channels   *)
(* or goroutines: a numbered stream of messages of which each connection   *)
(* is shown those sent after it joined, in order and each at most once.    *)
(* A connection may miss a message only after it has been more than        *)
(* Allowance messages behind; until then it is shown every one.            *)
(***************************************************************************)
EXTENDS Naturals

CONSTANTS
    Client,
    Allowance   \* how many messages a connection may lag without loss

VARIABLES
    published,  \* how many messages were sent so far
    joined,     \* the connections being served
    seen,       \* seen[c]: the number of the last message shown to c
    overrun     \* connections that have lagged too far since they joined

feedVars == <<published, joined, seen, overrun>>

Init ==
    /\ published = 0
    /\ joined = {}
    /\ seen = [c \in Client |-> 0]
    /\ overrun = {}

Publish ==
    /\ published' = published + 1
    /\ UNCHANGED <<joined, seen, overrun>>

\* A connection is shown nothing older than its joining.
Join(c) ==
    /\ c \notin joined
    /\ joined' = joined \cup {c}
    /\ seen' = [seen EXCEPT ![c] = published]
    /\ UNCHANGED <<published, overrun>>

Overrun(c) ==
    /\ c \in joined
    /\ published - seen[c] > Allowance
    /\ overrun' = overrun \cup {c}
    /\ UNCHANGED <<published, joined, seen>>

Show(c, n) ==
    /\ c \in joined
    /\ seen[c] < n /\ n <= published
    /\ n = seen[c] + 1 \/ c \in overrun
    /\ seen' = [seen EXCEPT ![c] = n]
    /\ UNCHANGED <<published, joined, overrun>>

Leave(c) ==
    /\ c \in joined
    /\ joined' = joined \ {c}
    /\ overrun' = overrun \ {c}
    /\ seen' = [seen EXCEPT ![c] = 0]
    /\ UNCHANGED published

Next ==
    \/ Publish
    \/ \E c \in Client :
        \/ Join(c)
        \/ Overrun(c)
        \/ \E n \in 1..published : Show(c, n)
        \/ Leave(c)

Spec == Init /\ [][Next]_feedVars
==============================================================================
