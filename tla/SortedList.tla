----------------------------- MODULE SortedList -----------------------------
(***************************************************************************)
(* What a sort promises: it takes entries and gives each of them back      *)
(* once, in the order of their keys, and of two entries with the same      *)
(* unique key it takes one.                                                *)
(***************************************************************************)
EXTENDS KeyOrder, FiniteSets

VARIABLES
  order,   \* the order of this sort
  stock,   \* the entries that have been added and not given back
  given    \* the entries given back, a sequence

vars == <<order, stock, given>>

NotAfter(a, b) == MergeVerdict[order, a.key, b.key] <= 0

Init == order \in Order /\ stock = {} /\ given = <<>>

Start(o) == order' = o /\ stock' = {} /\ given' = <<>>

Add(k, n) ==
  /\ given = <<>>
  /\ \A e \in stock : ~Verdict[order, k, e.key].same
  /\ stock' = stock \cup {[key |-> k, data |-> n]}
  /\ UNCHANGED <<order, given>>

Take ==
  \E e \in stock :
    /\ \A f \in stock : NotAfter(e, f)
    /\ given' = Append(given, e) /\ stock' = stock \ {e}
    /\ UNCHANGED order

\* All that are left, at once.
TakeAll ==
  /\ Cardinality(stock) = Len(given') - Len(given)
  /\ given = SubSeq(given', 1, Len(given))
  /\ stock = {given'[i] : i \in Len(given) + 1..Len(given')}
  /\ \A i \in Len(given) + 2..Len(given') : NotAfter(given'[i - 1], given'[i])
  /\ stock' = {} /\ UNCHANGED order

Drop == stock' = {} /\ given' = <<>> /\ UNCHANGED order

Next ==
  \/ \E o \in Order : Start(o)
  \/ \E e \in stock' \ stock : Add(e.key, e.data)
  \/ Take \/ TakeAll \/ Drop

Spec == Init /\ [][Next]_vars
=============================================================================
