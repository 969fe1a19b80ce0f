--------------------------- MODULE MCRecordLocks ---------------------------
(* Constant values for model checking RecordLocks. *)
EXTENDS RecordLocks, TLC

\* A file variable <<f, n>> is the n-th instance of file f.
MCFvarA == File \X {1}
MCFvarAB == File \X {1, 2}
MCFileOf == [v \in Fvar |-> v[1]]
\* The second instance of a file is opened non-transactionally.
MCNonTxn == {v \in Fvar : v[2] = 2}

\* All keys hash to the last cell, so that the scans wrap; or they spread.
MCCollide == [k \in File \X Id |-> NumLocks]
MCSpread == [k \in File \X Id |-> 1 + ((k[1] + k[2]) % NumLocks)]

Symmetry == Permutations(User)
=============================================================================
