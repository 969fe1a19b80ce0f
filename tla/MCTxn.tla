------------------------------- MODULE MCTxn -------------------------------
(* Constant values for model checking Txn. *)
EXTENDS Txn, TLC

\* User 1 nests transactions and commands, the others do not.
MCTwoForOne == [u \in User |-> IF u = 1 THEN 2 ELSE 1]

Symmetry == Permutations(Rec)
=============================================================================
