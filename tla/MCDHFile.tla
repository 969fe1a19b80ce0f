------------------------------ MODULE MCDHFile ------------------------------
(* Constant values for model checking DHFile. *)
EXTENDS DHFile, TLC

\* Ids 1, 2, 3, 4 hash to 2, 3, 0, 1: groups 3, 4, 1 and 2 of a file of four.
MCHash == [id \in Id |-> (id + 1) % 4]
Symmetry == Permutations(Proc) \cup Permutations(Val)
=============================================================================
