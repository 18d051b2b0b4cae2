----------------------------- MODULE MCSSEBroker -----------------------------
(* Instances of SSEBroker for TLC. *)
EXTENDS SSEBroker, TLC

ClientSymmetry == Permutations(Client)
==============================================================================
