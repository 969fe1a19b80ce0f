------------------------------- MODULE AKTree -------------------------------
(***************************************************************************)
(* One alternate key index: the B-tree of dh_ak.c, with the scans that go  *)
(* over it.  Node 1 is the root; the records are in terminal nodes, linked *)
(* to the left and right; an internal node has the last key below each of  *)
(* its children.  Nodes that are given up are chained from the AK header.  *)
(*                                                                         *)
(* Each operation keeps the group lock of the index from start to end, and *)
(* is one action.  A record is its key and its size, in units of which a   *)
(* node has room for Space; large records, I-types and the bytes that keys *)
(* take in internal nodes are left out.                                    *)
(***************************************************************************)
EXTENDS Naturals, Sequences, SequencesExt

CONSTANTS
  Key,       \* the keys, 1..n, in the order of compare()
  Sizes,     \* the sizes that the record of each key can have
  Space,     \* DH_AK_NODE_SIZE, without the header
  MaxChild,  \* MAX_CHILD
  Loads,     \* what indices may be built from: sequences of records
  MaxUpdate, \* bounds the updates after that
  Ops        \* the habits of the code that may occur

\* Habits of the code that break the properties.  The first three are of
\* update_internal_node(), the others of the scan operations:
\* "lastchild": the last child of an internal node below the root is removed;
\* "onlychild": a terminal node with siblings is moved into its parent's place;
\* "rootsplit": the root is split to update its last child;
\* "edge": a scan goes on from the edge, from a key that is gone;
\* "clear": ak_clear() does not change ak_upd, so that a position saved stays.
Habit == {"lastchild", "onlychild", "rootsplit", "edge", "clear"}

ASSUME AKTreeAssumption ==
  /\ Key \subseteq Nat \ {0} /\ Space \in Nat \ {0}
  /\ Sizes \in [Key -> SUBSET (1..Space)]
  \* 5: halves of an internal node have two children, and room for two more
  /\ MaxChild \in Nat /\ MaxChild >= 5
  /\ MaxUpdate \in Nat /\ Ops \subseteq Habit

VARIABLES
  node,     \* the nodes of the subfile; node[n] is node n
  free,     \* free_chain of the AK header, 0 at the end
  pos,      \* ak_scan of one program; "current" is upd = ak_upd
  store,    \* history: the size of the record written for each key
  updates   \* and the number of updates

vars == <<node, free, pos, store, updates>>

Terminal(recs, left, right) == [type |-> "term", recs |-> recs, left |-> left, right |-> right]
Internal(kids) == [type |-> "int", kids |-> kids]
Kid(k, n) == [key |-> k, node |-> n]

-----------------------------------------------------------------------------
(* Nodes.  An operation works on a tree t, the nodes with the free chain;  *)
(* t.habits are the habits that it has met.                                *)

EmptyTree == [node |-> <<Terminal(<<>>, 0, 0)>>, free |-> 0, habits |-> {}]
Tree == [node |-> node, free |-> free, habits |-> {}]

\* get_ak_node(): the tree and the number of the new node.
Alloc(t) ==
  IF t.free = 0
  THEN [tree |-> [t EXCEPT !.node = Append(@, [type |-> "free", next |-> 0])],
        n |-> Len(t.node) + 1]
  ELSE [tree |-> [t EXCEPT !.free = t.node[t.free].next], n |-> t.free]

\* free_ak_node()
FreeNode(t, n) ==
  [t EXCEPT !.node[n] = [type |-> "free", next |-> t.free], !.free = n]

Set(t, n, contents) == [t EXCEPT !.node[n] = contents]
Met(t, habits) == [t EXCEPT !.habits = @ \cup habits]

\* Where key k belongs in a sequence of records or children.
Place(s, k) ==
  IF \E i \in 1..Len(s) : k <= s[i].key
  THEN CHOOSE i \in 1..Len(s) : k <= s[i].key /\ \A j \in 1..i - 1 : s[j].key < k
  ELSE Len(s) + 1

Capped(i, n) == IF i > n THEN n ELSE i

\* The way down to the terminal node for key k: each node with the child taken.
RECURSIVE PathFrom(_, _, _)
PathFrom(t, n, k) ==
  IF t.node[n].type = "term" THEN <<[n |-> n, ci |-> 0]>>
  ELSE LET kids == t.node[n].kids
           ci == Capped(Place(kids, k), Len(kids))
       IN <<[n |-> n, ci |-> ci]>> \o PathFrom(t, kids[ci].node, k)
Path(t, k) == PathFrom(t, 1, k)

\* The key is beyond the last one of an internal node on the way.
OffRight(t, path, k) ==
  \E i \in 1..Len(path) - 1 : k > Last(t.node[path[i].n].kids).key

-----------------------------------------------------------------------------
(* update_internal_node() *)

\* The child ci of "kids" replaced by "new"; a place beyond the
\* last child is one that child_count does not include.
Spliced(kids, ci, new) ==
  IF ci > Len(kids) THEN kids
  ELSE SubSeq(kids, 1, ci - 1) \o new \o SubSeq(kids, ci + 1, Len(kids))

RECURSIVE Update(_, _, _)

\* The nodes n and m get the halves; the path leads to the one that has child ci.
Entered(above, ci, n, lower, m, upper) ==
  [tree |-> Set(Set(above.tree, n, Internal(lower)), m, Internal(upper)),
   path |-> IF ci > Len(lower)
            THEN Front(above.path) \o <<[Last(above.path) EXCEPT !.ci = @ + 1],
                                        [n |-> m, ci |-> ci - Len(lower)]>>
            ELSE Append(above.path, [n |-> n, ci |-> ci])]

\* The last node on the path is divided, m is new: the tree, and the path to the
\* half that has the child taken.  The root stays the root, above both.
Divided(t, path, lower, m, upper) ==
  LET old == Last(path)
      place == Alloc(t)
      halves(n) == <<Kid(Last(lower).key, n), Kid(Last(upper).key, m)>>
  IN IF Len(path) > 1
     THEN Entered(Update(t, Front(path), halves(old.n)), old.ci, old.n, lower, m, upper)
     ELSE Entered(
       [tree |-> Met(Set(place.tree, 1, Internal(halves(place.n))),
                     IF old.ci = Len(lower) + Len(upper) THEN {"rootsplit"} ELSE {}),
        path |-> <<[n |-> 1, ci |-> IF old.ci > Len(upper) THEN 2 ELSE 1]>>],
       old.ci, place.n, lower, m, upper)

Halved(t, path) ==
  LET kids == t.node[Last(path).n].kids
      remaining == Len(kids) \div 2
      new == Alloc(t)
  IN Divided(new.tree, path, SubSeq(kids, 1, remaining),
             new.n, SubSeq(kids, remaining + 1, Len(kids)))

\* An internal node with one child only becomes a copy of it.
Compressed(t, n, kids) ==
  IF Len(kids) # 1 THEN Set(t, n, Internal(kids))
  ELSE LET only == t.node[kids[1].node]
       IN Met(FreeNode(Set(t, n, only), kids[1].node),
              IF only.type = "term" /\ (only.left # 0 \/ only.right # 0)
              THEN {"onlychild"} ELSE {})

Joined(above, here) == [tree |-> above.tree, path |-> Append(above.path, here)]

\* Mutant: the parent is not told.
UpdateAtOnly(t, path, new, last) ==
  LET here == Last(path)
  IN [tree |-> Compressed(t, here.n, Spliced(t.node[here.n].kids, here.ci, new)),
      path |-> path]
\* There is room for "new".
UpdateAt(t, path, new, last) ==
  LET here == Last(path)
      up == Front(path)
      done == Compressed(t, here.n, Spliced(t.node[here.n].kids, here.ci, new))
  IN Joined(
       IF ~last \/ up = <<>> THEN [tree |-> done, path |-> up]
       ELSE IF new = <<>> THEN Update(Met(done, {"lastchild"}), up, <<>>)
       ELSE Update(done, up, <<Kid(Last(new).key, here.n)>>),
       here)

\* The child taken in the last node of the path is replaced by those of "new",
\* none to three: the tree, and the path to the node as it is now.  If it was the
\* last one, the parent gets the new last key; none, and the parent loses the
\* whole node.
Update(t, path, new) ==
  LET count == Len(t.node[Last(path).n].kids)
      last == Last(path).ci = count
      half == Halved(t, path)
  IN IF count + Len(new) - 1 <= MaxChild THEN UpdateAt(t, path, new, last)
     ELSE UpdateAt(half.tree, half.path, new, last)

-----------------------------------------------------------------------------
(* ak_write() *)

SetRight(t, n, r) == IF n = 0 THEN t ELSE [t EXCEPT !.node[n].right = r]
SetLeft(t, n, l) == IF n = 0 THEN t ELSE [t EXCEPT !.node[n].left = l]
\* Mutant: the node to the right keeps its link to the old one.
RelinkedOneWay(t, old, r, l) == SetRight(t, old.left, r)
\* The terminal nodes beside the one that was "old" get other links.
Relinked(t, old, r, l) == SetLeft(SetRight(t, old.left, r), old.right, l)

RECURSIVE Total(_)
Total(recs) == IF recs = <<>> THEN 0 ELSE Head(recs).size + Total(Tail(recs))

\* How many of the records fit into the space that is left.
Fitting(recs, left) ==
  CHOOSE i \in 0..Len(recs) :
    /\ Total(SubSeq(recs, 1, i)) <= left
    /\ i < Len(recs) => Total(SubSeq(recs, 1, i + 1)) > left

\* The records of a terminal node that is split, with the new one: what is before
\* it, what fits beside or after it, and what is left, if anything.
Parts(before, rec, after) ==
  LET fits == Total(before) + rec.size <= Space
      second == IF fits THEN <<>> ELSE <<rec>>
      count == Fitting(after, Space - Total(second))
      rest == SubSeq(after, count + 1, Len(after))
  IN <<IF fits THEN Append(before, rec) ELSE before, second \o SubSeq(after, 1, count)>>
     \o IF rest = <<>> THEN <<>> ELSE <<rest>>

\* New nodes ns with the parts of the node that was "old", linked in its place.
Chained(t, old, ns, parts) ==
  LET new(i) == Terminal(parts[i], IF i = 1 THEN old.left ELSE ns[i - 1],
                                   IF i = Len(ns) THEN old.right ELSE ns[i + 1])
  IN Relinked(FoldLeftDomain(LAMBDA u, i : Set(u, ns[i], new(i)), t, ns),
              old, Head(ns), Last(ns))

\* get_ak_node(), k times.
RECURSIVE AllocAll(_, _, _)
AllocAll(t, k, ns) ==
  IF k = 0 THEN [tree |-> t, ns |-> ns]
  ELSE LET a == Alloc(t) IN AllocAll(a.tree, k - 1, Append(ns, a.n))

\* A root that is split stays where it is and becomes an internal node.
SplitInto(t, ns, path, parts) ==
  LET leaf == Last(path).n
      chained == Chained(t, t.node[leaf], ns, parts)
      kids == [i \in 1..Len(ns) |-> Kid(Last(parts[i]).key, ns[i])]
  IN IF Len(path) = 1 THEN Set(chained, 1, Internal(kids))
     ELSE Update(FreeNode(chained, leaf), Front(path), kids).tree

WriteSplit(t, path, parts) ==
  LET new == AllocAll(t, Len(parts), <<>>)
  IN SplitInto(new.tree, new.ns, path, parts)

Before(recs, k) == SelectSeq(recs, LAMBDA r : r.key < k)
After(recs, k) == SelectSeq(recs, LAMBDA r : r.key > k)

\* The path leads to a terminal node with the records "before" and "after" beside
\* the one to be written; "last" if that is new and the last one.
WriteAt(t, path, rec, before, after, last) ==
  LET leaf == Last(path).n
      written(u) == [u EXCEPT !.node[leaf].recs = Append(before, rec) \o after]
  IN IF Total(before) + rec.size + Total(after) > Space
     THEN WriteSplit(t, path, Parts(before, rec, after))
     ELSE IF last /\ Len(path) > 1
     THEN written(Update(t, Front(path), <<Kid(rec.key, leaf)>>).tree)
     ELSE written(t)

WriteIn(t, path, rec) ==
  LET recs == t.node[Last(path).n].recs
      before == Before(recs, rec.key)
  IN WriteAt(t, path, rec, before, After(recs, rec.key), before = recs)

Write(t, rec) == WriteIn(t, Path(t, rec.key), rec)

-----------------------------------------------------------------------------
(* ak_delete() *)

\* Mutant: the node is not given back.
RemoveLeafKept(t, path) ==
  LET old == t.node[Last(path).n]
  IN Update(Relinked(t, old, old.right, old.left), Front(path), <<>>).tree
\* The terminal node has lost its only record.
RemoveLeaf(t, path) ==
  LET leaf == Last(path).n
      old == t.node[leaf]
      linked == Relinked(t, old, old.right, old.left)
  IN Update(FreeNode(linked, leaf), Front(path), <<>>).tree

DeleteAt(t, path, before, after) ==
  LET leaf == Last(path).n
      written(u) == [u EXCEPT !.node[leaf].recs = before \o after]
  IN IF after # <<>> \/ Len(path) = 1 THEN written(t)
     ELSE IF before = <<>> THEN RemoveLeaf(t, path)
     ELSE written(Update(t, Front(path), <<Kid(Last(before).key, leaf)>>).tree)

DeleteIn(t, path, k) ==
  LET recs == t.node[Last(path).n].recs
  IN IF OffRight(t, path, k) \/ \A i \in 1..Len(recs) : recs[i].key # k THEN t
     ELSE DeleteAt(t, path, Before(recs, k), After(recs, k))

Delete(t, k) == DeleteIn(t, Path(t, k), k)

-----------------------------------------------------------------------------
(* ak_read(), and the scans *)

\* The terminal node at an edge of the tree.
RECURSIVE EdgeFrom(_, _, _)
EdgeFrom(t, n, rightward) ==
  IF t.node[n].type = "term" THEN n
  ELSE EdgeFrom(t, (IF rightward THEN Last(t.node[n].kids) ELSE Head(t.node[n].kids)).node,
                rightward)

Where(n, off, flags) == [node |-> n, off |-> off, flags |-> flags]

ReadIn(t, path, k) ==
  LET leaf == Last(path).n
      recs == t.node[leaf].recs
      i == Place(recs, k)
      end == EdgeFrom(t, 1, TRUE)
  IN IF OffRight(t, path, k) THEN Where(end, Len(t.node[end].recs) + 1, {"right"})
     ELSE IF recs = <<>> THEN Where(leaf, 0, {"left", "right"})
     ELSE Where(leaf, i,
       IF i > Len(recs) THEN {"right"}
       ELSE IF recs[i].key = k THEN {"found"}
       ELSE IF i = 1 /\ t.node[leaf].left = 0 THEN {"left"} ELSE {})

\* Where key k is or belongs: ak_node_num, ak_rec_offset and ak_flags.
Read(t, k) == ReadIn(t, Path(t, k), k)

\* The node of a position; one that has not been brought up to date may lead to
\* a node that is none with records any more.
LeafAt(t, n) ==
  IF n \in 1..Len(t.node) /\ t.node[n].type = "term" THEN t.node[n] ELSE Terminal(<<>>, 0, 0)
KeyAt(t, w) ==
  LET recs == LeafAt(t, w.node).recs IN IF w.off \in 1..Len(recs) THEN recs[w.off].key ELSE 0

\* The place one record to the right or left; node 0 if there is none.
Beside(t, w, rightward) ==
  LET here == LeafAt(t, w.node)
      there == IF rightward THEN here.right ELSE here.left
      off == IF rightward THEN w.off + 1
             ELSE Capped(w.off, Len(here.recs) + 1) - 1
  IN IF off \in 1..Len(here.recs) THEN [w EXCEPT !.off = off]
     ELSE IF there = 0 THEN [w EXCEPT !.node = 0]
     ELSE [w EXCEPT !.node = there,
                    !.off = IF rightward THEN 1 ELSE Len(LeafAt(t, there).recs)]

\* op_selindx(): all keys, along the chain of the terminal nodes.
RECURSIVE KeysFrom(_, _)
KeysFrom(t, n) ==
  [i \in 1..Len(t.node[n].recs) |-> t.node[n].recs[i].key]
  \o IF t.node[n].right = 0 THEN <<>> ELSE KeysFrom(t, t.node[n].right)
SelIndx(t) == KeysFrom(t, EdgeFrom(t, 1, FALSE))

-----------------------------------------------------------------------------
(* The operations *)

Init ==
  /\ \E load \in Loads :
       LET t == FoldLeft(Write, EmptyTree, load)
       IN /\ t.habits \subseteq Ops
          /\ node = t.node /\ free = t.free
          /\ store = [k \in Key |->
               FoldLeft(LAMBDA size, rec : IF rec.key = k THEN rec.size ELSE size, 0, load)]
  /\ updates = 0
  /\ pos = [key |-> 0, node |-> 0, off |-> 0, flags |-> {}, current |-> FALSE]

Becomes(t) ==
  /\ t.habits \subseteq Ops
  /\ node' = t.node /\ free' = t.free
  /\ updates < MaxUpdate
  /\ updates' = updates + 1
\* "(fptr->ak_upd)++", even if nothing is deleted.
Outdated == pos' = [pos EXCEPT !.current = FALSE]

\* Mutant: ak_upd stays as it is.
AkWriteUncounted(k, size) ==
  /\ Becomes(Write(Tree, [key |-> k, size |-> size])) /\ UNCHANGED pos
  /\ store' = [store EXCEPT ![k] = size]
AkWrite(k, size) ==
  /\ Becomes(Write(Tree, [key |-> k, size |-> size])) /\ Outdated
  /\ store' = [store EXCEPT ![k] = size]

AkDelete(k) ==
  /\ Becomes(Delete(Tree, k)) /\ Outdated
  /\ store' = [store EXCEPT ![k] = 0]

\* ak_clear(), by CLEARFILE and BUILD.INDEX: nodes beyond the root are cut off.
AkClear ==
  /\ (pos.current /\ "found" \in pos.flags) => "clear" \in Ops
  /\ Becomes(EmptyTree)
  /\ store' = [k \in Key |-> 0]
  /\ UNCHANGED pos

\* op_selindxv(): the position is that of the key given.
SelIndxV(k) ==
  /\ LET w == Read(Tree, k)
     IN pos' = [key |-> k, node |-> w.node, off |-> w.off, flags |-> w.flags,
                current |-> TRUE]
  /\ UNCHANGED <<node, free, store, updates>>

\* setakpos(): the position is the first or the last record.
SetAkPos(rightward) ==
  /\ LET n == EdgeFrom(Tree, 1, rightward)
         recs == node[n].recs
         off == IF rightward THEN Len(recs) ELSE 1
     IN pos' = IF recs = <<>>
               THEN [pos EXCEPT !.key = 0, !.flags = {"left", "right"}]
               ELSE [key |-> recs[off].key, node |-> n, off |-> off,
                     flags |-> {IF rightward THEN "right" ELSE "left"}, current |-> TRUE]
  /\ UNCHANGED <<node, free, store, updates>>

\* The position saved, if nothing was written since; otherwise its key is looked
\* for again.
Position ==
  IF "found" \in pos.flags /\ pos.current
  THEN Where(pos.node, pos.off, pos.flags)
  ELSE Read(Tree, pos.key)

\* What the scan finds in one direction: a position on the edge is taken for one
\* that was not found.
Sought(w, rightward) ==
  LET found == "found" \in w.flags /\ pos.flags \cap {"left", "right"} = {}
      stays == ~found /\ ((rightward /\ "right" \notin pos.flags)
                          \/ (~rightward /\ "right" \in pos.flags))
  IN IF ~stays THEN Beside(Tree, w, rightward)
     ELSE [w EXCEPT !.off = Capped(@, Len(LeafAt(Tree, w.node).recs))]

\* From the right edge, of which the key is gone: one record is passed over, or
\* one taken that is on the wrong side.
EdgeGone(w, toward) ==
  "right" \in pos.flags /\ w.flags \cap {"found", "right", toward} = {}

\* The scan at w found s: the next position, an edge, or a record.
Scanned(w, s, rightward) ==
  LET toward == IF rightward THEN "right" ELSE "left"
      found == "found" \in w.flags /\ pos.flags \cap {"left", "right"} = {}
  IN pos' = IF toward \in w.flags THEN [pos EXCEPT !.flags = w.flags \ {"found"}]
            ELSE IF s.node # 0
            THEN [pos EXCEPT !.key = KeyAt(Tree, s),
                             !.node = s.node, !.off = s.off, !.flags = {"found"}]
            ELSE [pos EXCEPT !.flags =
                    IF rightward \/ found THEN {toward} ELSE w.flags \cup {toward}]

ScanFrom(w, rightward) ==
  /\ EdgeGone(w, IF rightward THEN "right" ELSE "left") => "edge" \in Ops
  /\ Scanned(w, Sought(w, rightward), rightward)

\* akscan()
AkScan(rightward) ==
  ScanFrom(Position, rightward) /\ UNCHANGED <<node, free, store, updates>>

Next ==
  \/ \E k \in Key :
       \/ \E size \in Sizes[k] : AkWrite(k, size)
       \/ AkDelete(k) \/ SelIndxV(k)
  \/ AkClear
  \/ \E rightward \in BOOLEAN : SetAkPos(rightward) \/ AkScan(rightward)

Spec == Init /\ [][Next]_vars

-----------------------------------------------------------------------------
(* Properties *)

\* What a lookup finds for key k.
Found(k) ==
  LET w == Read(Tree, k)
  IN IF "found" \in w.flags THEN node[w.node].recs[w.off].size ELSE 0

\* A lookup finds the record that was written last for its key and has not been
\* deleted, whatever has been split, compressed and relinked since.
LookupExact == \A k \in Key : Found(k) = store[k]

Index == INSTANCE OrderedIndex WITH
  Data <- 1..Space,
  cursor <- [key |-> pos.key, left |-> "left" \in pos.flags, right |-> "right" \in pos.flags]

\* The operations are those of an ordered index: a scan goes to the nearest record
\* there is, from whatever key or edge it was left at, and whatever was written
\* since its last step.
ImplementsOrderedIndex == Index!Spec

\* The chain of the terminal nodes leads from the left edge through exactly the
\* keys that lookups find, in their order, and back: a scan of the whole index and
\* the search for single values agree.
ChainMatches ==
  /\ \A n \in 1..Len(node) : node[n].type = "term" =>
       /\ node[n].left # 0 => LeafAt(Tree, node[n].left).right = n
       /\ node[n].right # 0 => LeafAt(Tree, node[n].right).left = n
  /\ LET keys == SelIndx(Tree)
     IN /\ \A i, j \in 1..Len(keys) : i < j => keys[i] < keys[j]
        /\ {keys[i] : i \in 1..Len(keys)} = {k \in Key : Found(k) # 0}

RECURSIVE Below(_)
Below(n) ==
  <<n>> \o IF node[n].type = "int"
           THEN FlattenSeq([i \in 1..Len(node[n].kids) |-> Below(node[n].kids[i].node)])
           ELSE <<>>
RECURSIVE Chain(_)
Chain(n) == IF n = 0 THEN <<>> ELSE <<n>> \o Chain(node[n].next)

\* Every node of the subfile is either in the tree or on the free chain, once:
\* splits that take up to three nodes and removals lose none and share none.
NodesAccounted ==
  LET all == Below(1) \o Chain(free)
  IN /\ Len(all) = Len(node)
     /\ {all[i] : i \in 1..Len(all)} = 1..Len(node)
=============================================================================
