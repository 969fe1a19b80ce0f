------------------------------ MODULE MCUsers ------------------------------
(* Constant values for model checking Users. *)
EXTENDS Users, TLC

\* Two files, with headers 0 and 3.  The locks of 0, 1 and 3 probe from the
\* first cell, those of 2 and 4 from the last.
MCHeaderOf == [g \in Group |-> IF g < 3 THEN 0 ELSE 3]
MCHashOf == [g \in Group |-> IF g \in {2, 4} THEN NumLocks ELSE 1]
MCOneAsk == [u \in User |-> 1]
MCTwoAsks == [u \in User |-> 2]
=============================================================================
