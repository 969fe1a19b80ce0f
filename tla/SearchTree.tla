----------------------------- MODULE SearchTree -----------------------------
(***************************************************************************)
(* Binary trees of BTREE_ELEMENTs as op_sort.c builds and walks them.  A   *)
(* tree is the sequence of its nodes in the order of their insertion: the  *)
(* first is the root, and 0 stands for a null pointer.                     *)
(***************************************************************************)
EXTENDS KeyOrder

NoTree == <<>>
Node(key, data, parent) ==
  [key |-> key, data |-> data, left |-> 0, right |-> 0, parent |-> parent]

Leftmost(t, b) ==
  LET down[x \in DOMAIN t] == IF t[x].left = 0 THEN x ELSE down[t[x].left]
  IN down[b]

First(t) == IF t = NoTree THEN 0 ELSE Leftmost(t, 1)

\* Up as long as that comes from a right limb.
Ascent(t, b) ==
  LET up[x \in DOMAIN t] ==
        IF t[x].parent = 0 \/ x # t[t[x].parent].right THEN t[x].parent
        ELSE up[t[x].parent]
  IN up[b]

NextNodeRight(t, b) == IF t[b].right # 0 THEN t[b].right ELSE Ascent(t, b)

\* One step right and then all the way left, or up.
NextNode(t, b) == IF t[b].right # 0 THEN Leftmost(t, t[b].right) ELSE Ascent(t, b)

\* Where a new key goes: the node it becomes a child of, and the side, or that
\* it is there already.  Equal keys go to the left.
Place(t, key, flags) ==
  LET walk[x \in DOMAIN t] ==
        LET c == Verdict[flags, key, t[x].key]
            next == IF c.d > 0 THEN t[x].right ELSE t[x].left
        IN IF c.same \/ next = 0 THEN [node |-> x, right |-> c.d > 0, same |-> c.same]
           ELSE walk[next]
  IN IF t = NoTree THEN [node |-> 0, right |-> FALSE, same |-> FALSE] ELSE walk[1]

Linked(t, at) ==
  IF at.node = 0 THEN t
  ELSE IF at.right THEN [t EXCEPT ![at.node].right = Len(t) + 1]
  ELSE [t EXCEPT ![at.node].left = Len(t) + 1]

Attach(t, key, data, at) ==
  IF at.same THEN t ELSE Append(Linked(t, at), Node(key, data, at.node))

\* The tree with a new key, or as it was if the key is there and unique.
Insert(t, key, data, flags) == Attach(t, key, data, Place(t, key, flags))

\* The nodes from b on, in the order of a scan.
ScanOf(t, b) ==
  LET from[x \in 0..Len(t)] == IF x = 0 THEN <<>> ELSE <<x>> \o from[NextNode(t, x)]
  IN from[b]
=============================================================================
