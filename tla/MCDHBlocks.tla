----------------------------- MODULE MCDHBlocks -----------------------------
(* Constant values for model checking DHBlocks. *)
EXTENDS DHBlocks, TLC

CONSTANTS k1, k2, k3

\* Of the keys the second is in group 2 of a file of two.
MCHash == [k \in Key |-> IF k = k2 THEN 1 ELSE 0]
Symmetry == Permutations(Proc) \cup Permutations({k1, k3})
=============================================================================
