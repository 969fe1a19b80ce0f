---------------------------- MODULE MCFileTable ----------------------------
(* Constant values for model checking FileTable. *)
EXTENDS FileTable, TLC

CONSTANT Changing  \* the files that change; the others only take cells
MCOnce == [f \in File |-> IF f \in Changing THEN 1 ELSE 0]
Symmetry == Permutations(Proc)
=============================================================================
