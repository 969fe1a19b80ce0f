----------------------------- MODULE LinearHash -----------------------------
(***************************************************************************)
(* The arithmetic of linear hashing in dh_hash.c and dh_split.c.           *)
(*                                                                         *)
(* A file has groups 1..m.  v, the mod_value, is the imaginary size used   *)
(* for hashing: the power of two with v / 2 < m <= v.  A record whose      *)
(* group does not exist yet is in the group that will be split to make it. *)
(***************************************************************************)
EXTENDS Integers

\* dh_hash_group()
GroupOf(h, m, v) ==
  LET g == (h % v) + 1
  IN IF g > m THEN (h % (v \div 2)) + 1 ELSE g

\* A split of a file of m groups makes group m + 1 out of a part of another.
SplitModValue(m, v) == IF m + 1 > v THEN 2 * v ELSE v
\* Mutant: with the mod_value before the split.
SplitSourceOld(m, v) == m + 1 - (v \div 2)
SplitSource(m, v) == m + 1 - (SplitModValue(m, v) \div 2)

\* A merge gives the records of the last group m to another.
MergeTarget(m, v) == m - (v \div 2)
MergeModValue(m, v) == IF m - 1 = v \div 2 THEN v \div 2 ELSE v

\* v is a power of two: it has no odd divisor but 1.
PowerOfTwo(v) ==
  v \in Nat \ {0} /\ \A d, q \in 1..v : v = d * q => d = 1 \/ d % 2 = 0

\* What the parameters of a file satisfy, always.
ParamsOK(m, v) == m \in Nat \ {0} /\ PowerOfTwo(v) /\ v \div 2 < m /\ m <= v
=============================================================================
