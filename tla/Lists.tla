-------------------------------- MODULE Lists ---------------------------------
(* The list comprehension [x for x in s if ...], which the item storage and    *)
(* the sliding windows of the throttler are kept with, as a recursive function *)
(* over the positions: the standard SelectSeq is one whose definition the      *)
(* prover does not see.                                                        *)
EXTENDS Naturals, Sequences

\* The elements of s at the positions P, in their order.
Sublist(s, P) ==
  LET taken[i \in 0..Len(s)] ==
        IF i = 0 THEN <<>>
        ELSE IF i \in P THEN Append(taken[i - 1], s[i]) ELSE taken[i - 1]
  IN  taken[Len(s)]
===============================================================================
