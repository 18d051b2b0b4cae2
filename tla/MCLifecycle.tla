----------------------------- MODULE MCLifecycle -----------------------------
(* An instance of Lifecycle for TLC. *)
EXTENDS Lifecycle

Env(interval, sse, terminal) ==
    [interval |-> interval, sse |-> sse, terminal |-> terminal]

\* Nothing set; intervals that are fine, zero, negative, no number, or that wrap
\* to a negative duration, to zero, and from either side to a positive one; event
\* streams disabled, enabled, or neither; terminals enabled.
MCEnvironments ==
    {Env({}, {}, {}), Env({1}, {TRUE}, {Garbage}), Env({0}, {}, {}),
     Env({-1}, {Garbage}, {FALSE}), Env({Garbage}, {}, {}), Env({0}, {FALSE}, {}),
     Env({8192}, {}, {}), Env({16384}, {}, {}), Env({20000}, {}, {}),
     Env({-10000}, {}, {}), Env({}, {}, {TRUE})}
==============================================================================
