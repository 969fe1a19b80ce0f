------------------------------ MODULE MCAKTree ------------------------------
(* Constant values for model checking AKTree. *)
EXTENDS AKTree

\* Records fill a node, or half of it.  Some of the keys are only removed.
MCSizes == [k \in Key |-> CASE k \in {3, 5} -> {1} [] k = 4 -> {1, 2}
                             [] k \in {10, 11} -> {2} [] OTHER -> {}]

\* An empty index, one whose root is full, and one with two internal nodes below
\* the root of which one is full.
Load(keys) == [i \in 1..Len(keys) |-> [key |-> keys[i],
                 size |-> IF keys[i] = 5 THEN 1 ELSE 2]]
MCLoads == {<<>>, Load(<<2, 5, 6, 8, 11>>), Load(<<2, 5, 6, 8, 11, 1, 7, 9>>)}
=============================================================================
