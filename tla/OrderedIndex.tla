---------------------------- MODULE OrderedIndex ----------------------------
(***************************************************************************)
(* What an alternate key index promises: for each key at most one record,  *)
(* and a scan position from which the next record to the right or to the   *)
(* left can be asked for while records come and go.                        *)
(***************************************************************************)
EXTENDS Naturals

CONSTANTS
  Key,   \* a set of positive numbers, in the order of the index
  Data   \* a set of positive numbers, what tells records apart

VARIABLES
  store,  \* the record of each key, 0 if there is none
  cursor  \* the scan position: at a key, or beyond it to the left or right

vars == <<store, cursor>>

Present == {k \in Key : store[k] # 0}
At(k) == [key |-> k, left |-> FALSE, right |-> FALSE]
Nowhere(k) == [key |-> k, left |-> TRUE, right |-> TRUE]

Init ==
  /\ store \in [Key -> Data \cup {0}]
  /\ cursor = At(0)

Put(k, d) == store' = [store EXCEPT ![k] = d] /\ UNCHANGED cursor
Remove(k) == store' = [store EXCEPT ![k] = 0] /\ UNCHANGED cursor
Clear == store' = [k \in Key |-> 0] /\ UNCHANGED cursor

\* The position of key k, which need not be there.
Find(k) ==
  /\ cursor' = [key |-> k, left  |-> \A j \in Present : j > k,
                           right |-> \A j \in Present : j < k]
  /\ UNCHANGED store

\* The first or the last record, or beyond all in an empty index.
Edge(rightward) ==
  /\ IF Present = {} THEN cursor' = Nowhere(0)
     ELSE \E k \in Present :
            /\ \A j \in Present : IF rightward THEN j <= k ELSE j >= k
            /\ cursor' = [key |-> k, left |-> ~rightward, right |-> rightward]
  /\ UNCHANGED store

Beyond(k, rightward) ==
  IF rightward THEN k > cursor.key \/ (k = cursor.key /\ cursor.left)
  ELSE k < cursor.key \/ (k = cursor.key /\ cursor.right)

\* The nearest record beyond the position; at the edge, the position stays.
Step(rightward) ==
  LET ahead == {k \in Present : Beyond(k, rightward)}
  IN /\ IF ahead = {}
        THEN cursor' = [key |-> cursor.key, left  |-> ~rightward \/ Present = {},
                                            right |-> rightward \/ Present = {}]
        ELSE \E k \in ahead :
               /\ \A j \in ahead : IF rightward THEN k <= j ELSE k >= j
               /\ cursor' = At(k)
     /\ UNCHANGED store

Next ==
  \/ \E k \in Key : Remove(k) \/ Find(k) \/ \E d \in Data : Put(k, d)
  \/ \E rightward \in BOOLEAN : Edge(rightward) \/ Step(rightward)
  \/ Clear

Spec == Init /\ [][Next]_vars
=============================================================================
