-------------------------------- MODULE Loops --------------------------------
(* The loop that keeps some elements of a slice in their order, as SelectSeq *)
(* has it, with a set for the test: List, handlePartialContainers and the    *)
(* card's template have one each.                                            *)
EXTENDS Integers, Sequences

\* What is kept after i turns.
Keeping(s, K) ==
    LET kept[i \in 0..Len(s)] ==
            IF i = 0 THEN <<>>
            ELSE IF s[i] \in K THEN Append(kept[i - 1], s[i]) ELSE kept[i - 1]
    IN  kept

Kept(s, K) == Keeping(s, K)[Len(s)]
==============================================================================
