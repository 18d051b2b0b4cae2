------------------------- MODULE MCServicesStaleness -------------------------
(* Instances of ServicesStaleness for TLC. *)
EXTENDS ServicesStaleness, TLC

ProcSymmetry == Permutations(Proc)
==============================================================================
