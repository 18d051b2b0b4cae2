------------------------------ MODULE MCSSEFeed ------------------------------
(* Instances of SSEFeed for TLC. *)
EXTENDS SSEFeed, TLC

CONSTANT MaxBroadcasts      \* bound on the number of broadcasts

NumberedMessages == 1..MaxBroadcasts
ClientSymmetry == Permutations(Client)
==============================================================================
