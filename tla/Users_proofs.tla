---------------------------- MODULE Users_proofs ----------------------------
(***************************************************************************)
(* Proofs about Users and the group locks of GroupLocks: the table of      *)
(* group locks is exact and exclusive, has room for whoever waits, and no  *)
(* task lock is left, for every number of users, files, groups and tasks   *)
(* and every hash of groups to cells.                                      *)
(***************************************************************************)
EXTENDS Users, FiniteSetTheorems, SequenceTheorems, TLAPS

-----------------------------------------------------------------------------
(* The table of group locks *)

TableTypes ==
  /\ cell \in [Cell -> Busy \cup {Free}]
  /\ count \in [Cell -> Nat]
  /\ held \in [User -> Seq(Holding)]

\* A process has at most three locks; the slots of HoldersOf reach that far.
Short == \A u \in User : Len(held[u]) <= 3

\* A lock is in the chain of its group, which no other lock has.
CellsOK ==
  \A c \in Cell : Used(c) =>
    /\ cell[c].hash = HashOf[cell[c].group]
    /\ cell[c].readers >= -1 /\ cell[c].readers # 0
    /\ \A d \in Cell : Used(d) /\ cell[d].group = cell[c].group => d = c

\* Who writes has a cell without readers that names him.
HoldersOK ==
  \A u \in User : \A i \in 1..Len(held[u]) :
    LET c == held[u][i].slot
    IN /\ held[u][i].write <=> cell[c].readers < 0
       /\ held[u][i].write => cell[c].owner = u

CountsOK == \A h \in Cell : count[h] = Cardinality(Chain(h))
\* The holders of cell c, when b says whether it is used.
SlotExact(c, b, e) ==
  IF b
  THEN /\ \A x \in HoldersOf(c) : held[x[1]][x[2]].group = e.group
       /\ Cardinality(HoldersOf(c)) = IF e.readers < 0 THEN 1 ELSE e.readers
  ELSE HoldersOf(c) = {}
SlotsOK == \A c \in Cell : SlotExact(c, Used(c), cell[c])

TableInv == TableTypes /\ Short /\ CellsOK /\ HoldersOK /\ CountsOK /\ SlotsOK

LEMMA ExactIsBoth == TableExact <=> CountsOK /\ SlotsOK
  BY DEF TableExact, CountsOK, SlotsOK, SlotExact

LEMMA NumLocksNat == NumLocks \in Nat \ {0}
  <1>1. Cardinality(User) \in Nat /\ Cardinality(User) # 0
    BY GroupLocksAssumption, FS_CardinalityType, FS_EmptySet
  <1> QED BY <1>1 DEF NumLocks

LEMMA CellFinite == IsFiniteSet(Cell)
  BY NumLocksNat, FS_Interval DEF Cell

LEMMA SubsetFinite ==
  ASSUME NEW S \in SUBSET Cell
  PROVE  IsFiniteSet(S) /\ Cardinality(S) \in Nat
  BY CellFinite, FS_Subset, FS_CardinalityType

LEMMA SlotsFinite ==
  /\ IsFiniteSet(User \X (1..3)) /\ Cardinality(User \X (1..3)) = NumLocks
  /\ \A c \in Cell : IsFiniteSet(HoldersOf(c)) /\ Cardinality(HoldersOf(c)) \in Nat
  <1>1. IsFiniteSet(1..3) /\ Cardinality(1..3) = 3 /\ IsFiniteSet(User)
    <2>1. 1 \in Int /\ 3 \in Int /\ ~(1 > 3) /\ 3 - 1 + 1 = 3
      OBVIOUS
    <2>2. IsFiniteSet(1..3) /\ Cardinality(1..3) = 3
      BY <2>1, FS_Interval
    <2> QED BY <2>2, GroupLocksAssumption
  <1>2. IsFiniteSet(User \X (1..3)) /\ Cardinality(User \X (1..3)) = Cardinality(User) * Cardinality(1..3)
    BY <1>1, FS_Product, Zenon
  <1>3. ASSUME NEW c \in Cell PROVE IsFiniteSet(HoldersOf(c)) /\ Cardinality(HoldersOf(c)) \in Nat
    <2>1. HoldersOf(c) \in SUBSET (User \X (1..3))
      BY DEF HoldersOf
    <2> QED BY <2>1, <1>2, FS_Subset, FS_CardinalityType
  <1>4. Cardinality(User) \in Nat
    BY <1>1, FS_CardinalityType
  <1> QED BY <1>1, <1>2, <1>3, <1>4 DEF NumLocks

LEMMA UsedIsBusy ==
  ASSUME NEW e \in Busy \cup {Free}
  PROVE  e # Free <=> e \in Busy
  <1>1. ASSUME NEW f \in Busy PROVE f.hash # Free.hash
    BY <1>1, NumLocksNat DEF Busy, Free, Cell
  <1> QED BY <1>1

\* With exact counts a scan meets every lock of its chain.
LEMMA SeenIsChain ==
  ASSUME CountsOK, NEW i \in Cell
  PROVE  Seen(i) = Chain(i)
  <1>1. ASSUME NEW c \in Chain(i) PROVE c \in Seen(i)
    <2> DEFINE Nearer == {d \in Chain(i) : Dist(i, d) < Dist(i, c)}
    <2>1. Chain(i) \in SUBSET Cell /\ Nearer \in SUBSET Chain(i)
      BY DEF Chain
    <2>2. c \in Cell
      BY <2>1, <1>1
    <2>3. Dist(i, c) \in Int
      BY <2>2, NumLocksNat DEF Dist, Cell
    <2>4. c \notin Nearer
      BY <2>3
    <2>5. IsFiniteSet(Chain(i))
      BY <2>1, SubsetFinite
    <2>6. Cardinality(Nearer) <= Cardinality(Chain(i)) /\ Cardinality(Nearer) # Cardinality(Chain(i))
      BY <2>1, <2>4, <2>5, <1>1, FS_Subset
    <2>7. Cardinality(Nearer) \in Nat /\ Cardinality(Chain(i)) \in Nat
      BY <2>1, SubsetFinite
    <2>8. Cardinality(Nearer) < count[i]
      BY <2>6, <2>7 DEF CountsOK
    <2> QED BY <1>1, <2>8 DEF Seen
  <1> QED BY <1>1 DEF Seen

\* Hence a process that asks for a group finds the lock that somebody has.
LEMMA LockingIsAll ==
  ASSUME TableInv, NEW g \in Group
  PROVE  Locking(g) = {c \in Cell : Used(c) /\ cell[c].group = g}
  <1>1. Seen(HashOf[g]) = Chain(HashOf[g])
    BY SeenIsChain, GroupLocksAssumption DEF TableInv
  <1> QED BY <1>1 DEF Locking, Chain, TableInv, CellsOK

\* The cell of a lock that a process has is in use, and for its group.
LEMMA SlotInUse ==
  ASSUME TableInv, NEW u \in User, NEW i \in 1..Len(held[u])
  PROVE  /\ i \in 1..3 /\ held[u][i] \in Holding /\ held[u][i].slot \in Cell
         /\ <<u, i>> \in HoldersOf(held[u][i].slot)
         /\ Used(held[u][i].slot) /\ cell[held[u][i].slot].group = held[u][i].group
  <1>1. held[u] \in Seq(Holding) /\ Len(held[u]) \in Nat /\ Len(held[u]) <= 3
    BY DEF TableInv, TableTypes, Short
  <1>2. i \in 1..3 /\ held[u][i] \in Holding
    BY <1>1
  <1>3. held[u][i].slot \in Cell
    BY <1>2 DEF Holding
  <1>4. <<u, i>> \in HoldersOf(held[u][i].slot)
    BY <1>2 DEF HoldersOf
  <1>5. SlotExact(held[u][i].slot, Used(held[u][i].slot), cell[held[u][i].slot])
    BY <1>3 DEF TableInv, SlotsOK
  <1> QED BY <1>2, <1>3, <1>4, <1>5 DEF SlotExact

\* Two processes that have one group have it by the same cell, which has but
\* one holder if either of them writes.
LEMMA TableExclusive == TableInv => GroupExclusion
  <1> SUFFICES ASSUME TableInv, NEW u \in User, NEW v \in User, u # v,
                      NEW i \in 1..Len(held[u]), NEW j \in 1..Len(held[v]),
                      held[u][i].group = held[v][j].group,
                      held[u][i].write \/ held[v][j].write
               PROVE  FALSE
    BY DEF GroupExclusion
  <1> DEFINE c == held[u][i].slot
  <1>1. c \in Cell /\ Used(c) /\ cell[c].group = held[u][i].group /\ <<u, i>> \in HoldersOf(c)
    BY SlotInUse
  <1>2. held[v][j].slot \in Cell /\ Used(held[v][j].slot)
        /\ cell[held[v][j].slot].group = held[v][j].group
        /\ <<v, j>> \in HoldersOf(held[v][j].slot)
    BY SlotInUse
  <1>3. held[v][j].slot = c
    BY <1>1, <1>2 DEF TableInv, CellsOK
  <1>4. cell[c].readers < 0
    BY <1>3 DEF TableInv, HoldersOK
  <1>5. Cardinality(HoldersOf(c)) = 1
    BY <1>1, <1>4 DEF TableInv, SlotsOK, SlotExact
  <1>6. PICK x : HoldersOf(c) = {x}
    BY <1>1, <1>5, SlotsFinite, FS_Singleton
  <1> QED BY <1>1, <1>2, <1>3, <1>6

-----------------------------------------------------------------------------
(* What getting and giving up a lock does to the table *)

\* Sets of holders are equal if they have the same pairs.
LEMMA SamePairs ==
  ASSUME NEW S \in SUBSET (User \X (1..3)), NEW T \in SUBSET (User \X (1..3)),
         \A v \in User, i \in 1..3 : <<v, i>> \in S <=> <<v, i>> \in T
  PROVE  S = T
  <1>1. ASSUME NEW y \in User \X (1..3) PROVE y \in S <=> y \in T
    <2>1. PICK v \in User, i \in 1..3 : y = <<v, i>>
      OBVIOUS
    <2> QED BY <2>1
  <1> QED BY <1>1, Zenon

\* A process adds x to its locks, and becomes a holder of the cell of x.
LEMMA Appended ==
  ASSUME TableTypes, NEW u \in User, Len(held[u]) <= 2, NEW x \in Holding,
         held' = [held EXCEPT ![u] = Append(@, x)]
  PROVE  LET n == Len(held[u]) + 1
         IN /\ n \in 1..3 /\ held' \in [User -> Seq(Holding)] /\ Len(held'[u]) = n
            /\ \A i \in 1..Len(held[u]) : held'[u][i] = held[u][i]
            /\ held'[u][n] = x
            /\ \A v \in User \ {u} : held'[v] = held[v]
            /\ \A d \in Cell : HoldersOf(d)' =
                 IF d = x.slot THEN HoldersOf(d) \cup {<<u, n>>} ELSE HoldersOf(d)
            /\ \A d \in Cell : <<u, n>> \notin HoldersOf(d)
  <1> DEFINE n == Len(held[u]) + 1
  <1>1. held[u] \in Seq(Holding) /\ Len(held[u]) \in Nat
    BY DEF TableTypes
  <1>2. held'[u] = Append(held[u], x) /\ \A v \in User \ {u} : held'[v] = held[v]
    BY DEF TableTypes
  <1>3. /\ n \in 1..3 /\ Append(held[u], x) \in Seq(Holding) /\ Len(held'[u]) = n
        /\ \A i \in 1..Len(held[u]) : held'[u][i] = held[u][i]
        /\ held'[u][n] = x
    BY <1>1, <1>2
  <1>4. held' \in [User -> Seq(Holding)]
    BY <1>3 DEF TableTypes
  <1>5. \A d \in Cell : <<u, n>> \notin HoldersOf(d)
    BY <1>1 DEF HoldersOf
  <1>6. ASSUME NEW d \in Cell, NEW v \in User, NEW i \in 1..3
        PROVE  <<v, i>> \in HoldersOf(d)' <=>
                 \/ <<v, i>> \in HoldersOf(d)
                 \/ d = x.slot /\ v = u /\ i = n
    <2>1. CASE v # u
      BY <2>1, <1>2 DEF HoldersOf
    <2>2. CASE v = u /\ i = n
      BY <2>2, <1>1, <1>3 DEF HoldersOf
    <2>3. CASE v = u /\ i # n
      BY <2>3, <1>1, <1>3 DEF HoldersOf
    <2> QED BY <2>1, <2>2, <2>3
  <1> HIDE DEF n
  <1>7. ASSUME NEW d \in Cell
        PROVE  HoldersOf(d)' = IF d = x.slot THEN HoldersOf(d) \cup {<<u, n>>} ELSE HoldersOf(d)
    <2> DEFINE T == IF d = x.slot THEN HoldersOf(d) \cup {<<u, n>>} ELSE HoldersOf(d)
    <2>1. HoldersOf(d)' \in SUBSET (User \X (1..3)) /\ HoldersOf(d) \in SUBSET (User \X (1..3))
      BY DEF HoldersOf
    <2>2. T \in SUBSET (User \X (1..3))
      BY <2>1, <1>3
    <2>3. \A v \in User, i \in 1..3 : <<v, i>> \in HoldersOf(d)' <=> <<v, i>> \in T
      BY <1>6
    <2> HIDE DEF T
    <2>4. HoldersOf(d)' = T
      BY <2>1, <2>2, <2>3, SamePairs
    <2> QED BY <2>4 DEF T
  <1> QED BY <1>2, <1>3, <1>4, <1>5, <1>7 DEF n

\* A process drops the last, n-th, of its locks.
Drops(u, n) ==
  /\ n \in 1..3 /\ Len(held[u]) = n
  /\ held' = [held EXCEPT ![u] = SubSeq(@, 1, n - 1)]

\* It is no more a holder of its cell.
LEMMA Dropped ==
  ASSUME TableTypes, NEW u \in User, NEW n, Drops(u, n)
  PROVE     /\ n \in 1..3 /\ held' \in [User -> Seq(Holding)] /\ Len(held'[u]) = n - 1
            /\ \A i \in 1..(n - 1) : held'[u][i] = held[u][i]
            /\ \A v \in User \ {u} : held'[v] = held[v]
            /\ \A d \in Cell : HoldersOf(d)' = HoldersOf(d) \ {<<u, n>>}
  <1>1. held[u] \in Seq(Holding) /\ n \in 1..3 /\ Len(held[u]) = n
    BY DEF TableTypes, Drops
  <1>2. held'[u] = SubSeq(held[u], 1, n - 1) /\ \A v \in User \ {u} : held'[v] = held[v]
    BY DEF TableTypes, Drops
  <1>3. /\ SubSeq(held[u], 1, n - 1) \in Seq(Holding) /\ Len(held'[u]) = n - 1
        /\ \A i \in 1..(n - 1) : held'[u][i] = held[u][i]
    <2>1. \A i \in 1..(n - 1) : held[u][i] \in Holding
      BY <1>1
    <2>2. 1 \in Int /\ n - 1 \in Int
      BY <1>1
    <2>3. /\ SubSeq(held[u], 1, n - 1) \in Seq(Holding)
          /\ Len(SubSeq(held[u], 1, n - 1)) = IF 1 <= n - 1 THEN n - 1 - 1 + 1 ELSE 0
          /\ \A i \in 1..(n - 1 - 1 + 1) : SubSeq(held[u], 1, n - 1)[i] = held[u][1 + i - 1]
      BY <2>1, <2>2, SubSeqProperties
    <2> QED BY <1>1, <1>2, <2>3
  <1>4. held' \in [User -> Seq(Holding)]
    BY <1>3 DEF TableTypes, Drops
  <1>5. ASSUME NEW d \in Cell, NEW v \in User, NEW i \in 1..3
        PROVE  <<v, i>> \in HoldersOf(d)' <=> <<v, i>> \in HoldersOf(d) /\ ~(v = u /\ i = n)
    <2>1. CASE v # u
      BY <2>1, <1>2 DEF HoldersOf
    <2>2. CASE v = u
      BY <2>2, <1>1, <1>3 DEF HoldersOf
    <2> QED BY <2>1, <2>2
  <1>6. ASSUME NEW d \in Cell PROVE HoldersOf(d)' = HoldersOf(d) \ {<<u, n>>}
    <2> DEFINE T == HoldersOf(d) \ {<<u, n>>}
    <2>1. HoldersOf(d)' \in SUBSET (User \X (1..3)) /\ T \in SUBSET (User \X (1..3))
      BY DEF HoldersOf
    <2>2. \A v \in User, i \in 1..3 : <<v, i>> \in HoldersOf(d)' <=> <<v, i>> \in T
      BY <1>5
    <2> HIDE DEF T
    <2>3. HoldersOf(d)' = T
      BY <2>1, <2>2, SamePairs
    <2> QED BY <2>3 DEF T
  <1> QED BY <1>1, <1>2, <1>3, <1>4, <1>6

\* A new lock.
LEMMA NewLockKeeps ==
  ASSUME TableInv, NEW u \in User, NEW r \in Request, NEW c \in Cell,
         Len(held[u]) <= 2, NewLock(u, r, c),
         held' = [held EXCEPT ![u] = Append(@, [group |-> r.group, write |-> r.write, slot |-> c])]
  PROVE  TableInv'
  <1> DEFINE x == [group |-> r.group, write |-> r.write, slot |-> c]
             i == HashOf[r.group]
             e == [hash |-> i, owner |-> u, group |-> r.group, readers |-> IF r.write THEN -1 ELSE 1]
             n == Len(held[u]) + 1
  <1>1. i \in Cell /\ r.group \in Group /\ r.write \in BOOLEAN /\ x \in Holding /\ e \in Busy
    BY GroupLocksAssumption DEF Request, Holding, Busy
  <1>2. /\ ~Used(c) /\ Locking(r.group) = {}
        /\ cell' = [cell EXCEPT ![c] = e]
        /\ count' = [count EXCEPT ![i] = @ + 1]
    BY DEF NewLock, Vacant
  <1>3. /\ n \in 1..3 /\ held' \in [User -> Seq(Holding)] /\ Len(held'[u]) = n
        /\ \A k \in 1..Len(held[u]) : held'[u][k] = held[u][k]
        /\ held'[u][n] = x
        /\ \A v \in User \ {u} : held'[v] = held[v]
        /\ \A d \in Cell : HoldersOf(d)' =
             IF d = c THEN HoldersOf(d) \cup {<<u, n>>} ELSE HoldersOf(d)
    <2>1. TableTypes /\ x.slot = c /\ held' = [held EXCEPT ![u] = Append(@, x)]
      BY DEF TableInv
    <2> HIDE DEF x
    <2>2. /\ n \in 1..3 /\ held' \in [User -> Seq(Holding)] /\ Len(held'[u]) = n
          /\ \A k \in 1..Len(held[u]) : held'[u][k] = held[u][k]
          /\ held'[u][n] = x
          /\ \A v \in User \ {u} : held'[v] = held[v]
          /\ \A d \in Cell : HoldersOf(d)' =
               IF d = x.slot THEN HoldersOf(d) \cup {<<u, n>>} ELSE HoldersOf(d)
      BY <1>1, <2>1, Appended, Zenon
    <2> QED BY <2>1, <2>2
  <1>4. e.hash = i /\ e.group = r.group /\ e.owner = u /\ e.readers = (IF r.write THEN -1 ELSE 1)
    OBVIOUS
  <1> HIDE DEF e
  <1>5. cell'[c] = e /\ \A d \in Cell \ {c} : cell'[d] = cell[d]
    BY <1>2 DEF TableInv, TableTypes
  <1>6. Used(c)' /\ \A d \in Cell \ {c} : Used(d)' = Used(d)
    BY <1>1, <1>5, UsedIsBusy DEF Used
  <1>7. TableTypes'
    BY <1>1, <1>2, <1>3 DEF TableInv, TableTypes
  <1>8. Short'
    BY <1>3 DEF TableInv, Short
  <1>9. \A d \in Cell : ~(Used(d) /\ cell[d].group = r.group)
    BY <1>1, <1>2, LockingIsAll
  <1>10. CellsOK'
    BY <1>4, <1>5, <1>6, <1>9 DEF TableInv, CellsOK
  <1>11. HoldersOf(c) = {}
    BY <1>2 DEF TableInv, SlotsOK, SlotExact
  <1>12. HoldersOK'
    <2> SUFFICES ASSUME NEW v \in User, NEW k \in 1..Len(held'[v])
                 PROVE  LET d == held'[v][k].slot
                        IN /\ held'[v][k].write <=> cell'[d].readers < 0
                           /\ held'[v][k].write => cell'[d].owner = v
      BY DEF HoldersOK
    <2>1. CASE v = u /\ k = n
      BY <2>1, <1>1, <1>3, <1>4, <1>5
    <2>2. CASE ~(v = u /\ k = n)
      <3>1. k \in 1..Len(held[v]) /\ held'[v][k] = held[v][k]
        BY <2>2, <1>3 DEF TableInv, TableTypes
      <3>2. held[v][k].slot \in Cell /\ held[v][k].slot # c
        BY <3>1, <1>2, SlotInUse
      <3> QED BY <3>1, <3>2, <1>5 DEF TableInv, HoldersOK
    <2> QED BY <2>1, <2>2
  <1>13. CountsOK'
    <2> SUFFICES ASSUME NEW h \in Cell PROVE count'[h] = Cardinality(Chain(h)')
      BY DEF CountsOK
    <2>1. Chain(h)' = IF h = i THEN Chain(h) \cup {c} ELSE Chain(h)
      BY <1>2, <1>4, <1>5, <1>6 DEF Chain
    <2>2. c \notin Chain(h) /\ Chain(h) \in SUBSET Cell
      BY <1>2 DEF Chain
    <2>3. Cardinality(Chain(h) \cup {c}) = Cardinality(Chain(h)) + 1
      BY <2>2, SubsetFinite, FS_AddElement
    <2>4. count'[h] = IF h = i THEN count[h] + 1 ELSE count[h]
      BY <1>2 DEF TableInv, TableTypes
    <2> QED BY <2>1, <2>3, <2>4 DEF TableInv, CountsOK
  <1>14. SlotsOK'
    <2> SUFFICES ASSUME NEW d \in Cell PROVE SlotExact(d, Used(d), cell[d])'
      BY DEF SlotsOK
    <2>1. CASE d = c
      <3>1. HoldersOf(c)' = {<<u, n>>}
        BY <1>3, <1>11
      <3>2. Cardinality(HoldersOf(c)') = 1
        BY <3>1, FS_Singleton
      <3>3. cell'[c].group = r.group /\ (cell'[c].readers < 0 \/ cell'[c].readers = 1)
        BY <1>4, <1>5
      <3>4. held'[u][n].group = r.group
        BY <1>3
      <3> HIDE DEF n
      <3>5. \A y \in HoldersOf(c)' : held'[y[1]][y[2]].group = cell'[c].group
        <4>1. <<u, n>>[1] = u /\ <<u, n>>[2] = n
          OBVIOUS
        <4> QED BY <3>1, <3>3, <3>4, <4>1, Zenon
      <3> QED BY <2>1, <1>6, <3>2, <3>3, <3>5 DEF SlotExact
    <2>2. CASE d # c
      <3>1. HoldersOf(d)' = HoldersOf(d) /\ Used(d)' = Used(d) /\ cell'[d] = cell[d]
        BY <2>2, <1>3, <1>5, <1>6
      <3>2. ASSUME NEW y \in HoldersOf(d) PROVE held'[y[1]][y[2]] = held[y[1]][y[2]]
        BY <1>3 DEF HoldersOf
      <3> QED BY <3>1, <3>2 DEF SlotExact, TableInv, SlotsOK
    <2> QED BY <2>1, <2>2
  <1> QED BY <1>7, <1>8, <1>10, <1>12, <1>13, <1>14 DEF TableInv
\* One more reader of a lock.
LEMMA ShareLockKeeps ==
  ASSUME TableInv, NEW u \in User, NEW r \in Request, NEW c \in Cell,
         Len(held[u]) <= 2, ShareLock(u, r, c),
         held' = [held EXCEPT ![u] = Append(@, [group |-> r.group, write |-> r.write, slot |-> c])]
  PROVE  TableInv'
  <1> DEFINE x == [group |-> r.group, write |-> r.write, slot |-> c]
             n == Len(held[u]) + 1
  <1>1. r.group \in Group /\ ~r.write /\ x \in Holding
    BY DEF Request, Holding, ShareLock
  <1>2. Used(c) /\ cell[c].group = r.group
    BY <1>1, LockingIsAll DEF ShareLock
  <1>3. cell[c] \in Busy /\ cell[c].readers \in Int /\ cell[c].readers >= 1
    BY <1>2, UsedIsBusy DEF ShareLock, TableInv, TableTypes, CellsOK, Used, Busy
  <1>4. PICK e : e = [cell[c] EXCEPT !.readers = cell[c].readers + 1, !.owner = u]
    OBVIOUS
  <1>5. e \in Busy /\ e.hash = cell[c].hash /\ e.group = cell[c].group /\ e.readers = cell[c].readers + 1
    <2>1. PICK m \in Int : m = cell[c].readers + 1
      BY <1>3
    <2>2. e = [cell[c] EXCEPT !.readers = m, !.owner = u]
      BY <1>4, <2>1
    <2>3. \A b \in Busy : LET f == [b EXCEPT !.readers = m, !.owner = u]
                          IN f \in Busy /\ f.hash = b.hash /\ f.group = b.group /\ f.readers = m
      BY DEF Busy
    <2>4. e \in Busy /\ e.hash = cell[c].hash /\ e.group = cell[c].group /\ e.readers = m
      BY <1>3, <2>2, <2>3, Zenon
    <2> QED BY <2>1, <2>4
  <1>6. cell'[c] = e /\ \A d \in Cell \ {c} : cell'[d] = cell[d]
    BY <1>4 DEF ShareLock, TableInv, TableTypes
  <1>7. \A d \in Cell : Used(d)' = Used(d)
    BY <1>2, <1>5, <1>6, UsedIsBusy DEF Used
  <1>8. count' = count
    BY DEF ShareLock
  <1>9. /\ n \in 1..3 /\ held' \in [User -> Seq(Holding)] /\ Len(held'[u]) = n
        /\ \A k \in 1..Len(held[u]) : held'[u][k] = held[u][k]
        /\ held'[u][n] = x
        /\ \A v \in User \ {u} : held'[v] = held[v]
        /\ \A d \in Cell : HoldersOf(d)' =
             IF d = c THEN HoldersOf(d) \cup {<<u, n>>} ELSE HoldersOf(d)
        /\ <<u, n>> \notin HoldersOf(c)
    <2>1. TableTypes /\ x.slot = c /\ held' = [held EXCEPT ![u] = Append(@, x)]
      BY DEF TableInv
    <2> HIDE DEF x
    <2>2. /\ n \in 1..3 /\ held' \in [User -> Seq(Holding)] /\ Len(held'[u]) = n
          /\ \A k \in 1..Len(held[u]) : held'[u][k] = held[u][k]
          /\ held'[u][n] = x
          /\ \A v \in User \ {u} : held'[v] = held[v]
          /\ \A d \in Cell : HoldersOf(d)' =
               IF d = x.slot THEN HoldersOf(d) \cup {<<u, n>>} ELSE HoldersOf(d)
          /\ \A d \in Cell : <<u, n>> \notin HoldersOf(d)
      BY <1>1, <2>1, Appended, Zenon
    <2> QED BY <2>1, <2>2
  <1>10. x.write = FALSE /\ x.slot = c /\ x.group = r.group
    BY <1>1
  <1>11. Len(held[u]) \in Nat
    BY DEF TableInv, TableTypes
  <1> HIDE DEF x
  <1>12. TableTypes'
    <2>1. cell' \in [Cell -> Busy \cup {Free}]
      BY <1>4, <1>5 DEF ShareLock, TableInv, TableTypes
    <2> QED BY <2>1, <1>8, <1>9 DEF TableInv, TableTypes
  <1>13. Short'
    BY <1>9 DEF TableInv, Short
  <1>14. \A d \in Cell : cell'[d].hash = cell[d].hash /\ cell'[d].group = cell[d].group
    BY <1>5, <1>6
  <1>15. CellsOK'
    BY <1>3, <1>5, <1>6, <1>7, <1>14 DEF TableInv, CellsOK
  <1>16. HoldersOK'
    <2> SUFFICES ASSUME NEW v \in User, NEW k \in 1..Len(held'[v])
                 PROVE  LET d == held'[v][k].slot
                        IN /\ held'[v][k].write <=> cell'[d].readers < 0
                           /\ held'[v][k].write => cell'[d].owner = v
      BY DEF HoldersOK
    <2>1. CASE v = u /\ k = n
      BY <2>1, <1>3, <1>5, <1>6, <1>9, <1>10
    <2>2. CASE ~(v = u /\ k = n)
      <3>1. k \in 1..Len(held[v]) /\ held'[v][k] = held[v][k]
        BY <2>2, <1>9, <1>11
      <3>2. held[v][k].slot \in Cell
        BY <3>1, SlotInUse
      <3>3. LET d == held[v][k].slot
            IN /\ held[v][k].write <=> cell[d].readers < 0
               /\ held[v][k].write => cell[d].owner = v
        BY <3>1 DEF TableInv, HoldersOK
      <3>4. CASE held[v][k].slot = c
        BY <3>1, <3>3, <3>4, <1>3, <1>5, <1>6
      <3>5. CASE held[v][k].slot # c
        BY <3>1, <3>2, <3>3, <3>5, <1>6
      <3> QED BY <3>4, <3>5
    <2> QED BY <2>1, <2>2
  <1>17. CountsOK'
    <2>1. \A h \in Cell : Chain(h)' = Chain(h)
      BY <1>7, <1>14 DEF Chain
    <2> QED BY <2>1, <1>8 DEF TableInv, CountsOK
  <1>18. SlotsOK'
    <2> SUFFICES ASSUME NEW d \in Cell PROVE SlotExact(d, Used(d), cell[d])'
      BY DEF SlotsOK
    <2>1. \A y \in HoldersOf(d) : held'[y[1]][y[2]] = held[y[1]][y[2]]
      BY <1>9, <1>11 DEF HoldersOf
    <2>2. SlotExact(d, Used(d), cell[d])
      BY DEF TableInv, SlotsOK
    <2>3. CASE d = c
      <3>1. HoldersOf(c)' = HoldersOf(c) \cup {<<u, n>>}
        BY <1>9
      <3>2. Cardinality(HoldersOf(c)') = Cardinality(HoldersOf(c)) + 1
        BY <3>1, <1>9, SlotsFinite, FS_AddElement
      <3>3. Cardinality(HoldersOf(c)) = cell[c].readers
        BY <2>2, <2>3, <1>2, <1>3 DEF SlotExact
      <3>4. \A y \in HoldersOf(c)' : held'[y[1]][y[2]].group = cell'[c].group
        <4>1. \A y \in HoldersOf(c) : held'[y[1]][y[2]].group = cell'[c].group
          BY <2>1, <2>2, <2>3, <1>2, <1>14 DEF SlotExact
        <4>2. <<u, n>>[1] = u /\ <<u, n>>[2] = n
          OBVIOUS
        <4>3. held'[u][n].group = cell'[c].group
          BY <1>2, <1>9, <1>10, <1>14
        <4> QED BY <3>1, <4>1, <4>2, <4>3, Zenon
      <3>5. Cardinality(HoldersOf(c)') = IF cell'[c].readers < 0 THEN 1 ELSE cell'[c].readers
        BY <3>2, <3>3, <1>3, <1>5, <1>6
      <3> QED BY <2>3, <3>4, <3>5, <1>2, <1>7 DEF SlotExact
    <2>4. CASE d # c
      <3>1. HoldersOf(d)' = HoldersOf(d) /\ Used(d)' = Used(d) /\ cell'[d] = cell[d]
        BY <2>4, <1>6, <1>7, <1>9
      <3> QED BY <3>1, <2>1, <2>2 DEF SlotExact
    <2> QED BY <2>3, <2>4
  <1> QED BY <1>12, <1>13, <1>15, <1>16, <1>17, <1>18 DEF TableInv

\* Cells that are freed when they have no holders left.
LEMMA ClearingKeeps ==
  ASSUME TableInv, NEW R \in SUBSET Cell, \A c \in R : Used(c),
         cell' = [c \in Cell |-> IF c \in R THEN Free ELSE cell[c]],
         count' = [h \in Cell |-> count[h] - Cardinality({c \in R : cell[c].hash = h})],
         held' \in [User -> Seq(Holding)],
         \A v \in User : Len(held'[v]) <= Len(held[v]),
         \A v \in User : \A k \in 1..Len(held'[v]) :
            held'[v][k] = held[v][k] /\ held[v][k].slot \notin R,
         \A d \in Cell : HoldersOf(d)' = IF d \in R THEN {} ELSE HoldersOf(d)
  PROVE  TableInv'
  <1>1. \A d \in Cell : cell'[d] = IF d \in R THEN Free ELSE cell[d]
    OBVIOUS
  <1>2. \A d \in Cell : Used(d)' <=> Used(d) /\ d \notin R
    BY <1>1 DEF Used
  <1>3. \A v \in User : Len(held[v]) \in Nat /\ Len(held[v]) <= 3 /\ Len(held'[v]) \in Nat
    BY DEF TableInv, TableTypes, Short
  <1>4. Short'
    BY <1>3 DEF Short
  <1>5. \A h \in Cell : Chain(h)' = Chain(h) \ R
    BY <1>1, <1>2 DEF Chain
  <1>6. ASSUME NEW h \in Cell PROVE count'[h] = Cardinality(Chain(h)')
    <2>1. {c \in R : cell[c].hash = h} = Chain(h) \cap R
      BY DEF Chain
    <2>2. Chain(h) \in SUBSET Cell
      BY DEF Chain
    <2>3. Cardinality(Chain(h) \ R) = Cardinality(Chain(h)) - Cardinality(Chain(h) \cap R)
      BY <2>2, SubsetFinite, FS_Difference
    <2>4. count'[h] = count[h] - Cardinality({c \in R : cell[c].hash = h})
      OBVIOUS
    <2>5. count[h] = Cardinality(Chain(h))
      BY DEF TableInv, CountsOK
    <2> QED BY <1>5, <2>1, <2>3, <2>4, <2>5
  <1>7. TableTypes'
    <2>1. cell' \in [Cell -> Busy \cup {Free}]
      BY DEF TableInv, TableTypes
    <2>2. ASSUME NEW h \in Cell PROVE count'[h] \in Nat
      <3>1. Chain(h)' \in SUBSET Cell
        BY DEF Chain
      <3> QED BY <3>1, <1>6, SubsetFinite
    <2> QED BY <2>1, <2>2 DEF TableTypes
  <1>8. CellsOK'
    BY <1>1, <1>2 DEF TableInv, CellsOK
  <1>9. HoldersOK'
    <2> SUFFICES ASSUME NEW v \in User, NEW k \in 1..Len(held'[v])
                 PROVE  LET d == held'[v][k].slot
                        IN /\ held'[v][k].write <=> cell'[d].readers < 0
                           /\ held'[v][k].write => cell'[d].owner = v
      BY DEF HoldersOK
    <2>1. k \in 1..Len(held[v]) /\ held'[v][k] = held[v][k] /\ held[v][k].slot \notin R
      BY <1>3
    <2>2. held[v][k].slot \in Cell
      BY <2>1, SlotInUse
    <2> QED BY <2>1, <2>2, <1>1 DEF TableInv, HoldersOK
  <1>10. CountsOK'
    BY <1>6 DEF CountsOK
  <1>11. SlotsOK'
    <2> SUFFICES ASSUME NEW d \in Cell PROVE SlotExact(d, Used(d), cell[d])'
      BY DEF SlotsOK
    <2>1. SlotExact(d, Used(d), cell[d])
      BY DEF TableInv, SlotsOK
    <2>2. CASE d \in R
      BY <2>2, <1>2 DEF SlotExact
    <2>3. CASE d \notin R
      <3>1. HoldersOf(d)' = HoldersOf(d) /\ (Used(d)' <=> Used(d)) /\ cell'[d] = cell[d]
        BY <2>3, <1>1, <1>2
      <3>2. ASSUME NEW y \in HoldersOf(d)' PROVE held'[y[1]][y[2]] = held[y[1]][y[2]]
        <4>1. PICK v \in User, k \in 1..3 : y = <<v, k>>
          BY DEF HoldersOf
        <4>2. y[1] = v /\ y[2] = k
          BY <4>1
        <4>3. k \in 1..Len(held'[v])
          BY <4>2, <1>3 DEF HoldersOf
        <4> QED BY <4>2, <4>3
      <3> QED BY <2>1, <3>1, <3>2 DEF SlotExact
    <2> QED BY <2>2, <2>3
  <1> QED BY <1>4, <1>7, <1>8, <1>9, <1>10, <1>11 DEF TableInv
\* A lock that nobody else has is given up.
LEMMA LastHolderKeeps ==
  ASSUME TableInv, NEW u \in User, NEW n, Drops(u, n),
         NEW c \in Cell, c = held[u][n].slot, FreeLock(c), ~(cell[c].readers > 1)
  PROVE  TableInv'
  <1> DEFINE R == {c}
  <1>1. TableTypes /\ n \in 1..3 /\ n \in 1..Len(held[u]) /\ Len(held[u]) = n
    BY DEF TableInv, Drops
  <1>2. Used(c) /\ <<u, n>> \in HoldersOf(c)
    BY <1>1, SlotInUse
  <1>3. Cardinality(HoldersOf(c)) = 1
    <2>1. cell[c].readers \in Int
      BY <1>1, <1>2, UsedIsBusy DEF TableTypes, Used, Busy
    <2>2. cell[c].readers < 0 \/ cell[c].readers = 1
      BY <1>2, <2>1 DEF TableInv, CellsOK
    <2>3. SlotExact(c, Used(c), cell[c])
      BY DEF TableInv, SlotsOK
    <2> QED BY <1>2, <2>2, <2>3 DEF SlotExact
  <1>4. HoldersOf(c) = {<<u, n>>}
    BY <1>2, <1>3, SlotsFinite, FS_Singleton
  <1>5. /\ held' \in [User -> Seq(Holding)] /\ Len(held'[u]) = n - 1
        /\ \A i \in 1..(n - 1) : held'[u][i] = held[u][i]
        /\ \A v \in User \ {u} : held'[v] = held[v]
        /\ \A d \in Cell : HoldersOf(d)' = HoldersOf(d) \ {<<u, n>>}
    BY <1>1, Dropped
  <1>6. cell' = [d \in Cell |-> IF d \in R THEN Free ELSE cell[d]]
    <2>1. cell' = [cell EXCEPT ![c] = Free]
      BY DEF FreeLock
    <2> QED BY <2>1, <1>1 DEF TableTypes
  <1>7. count' = [h \in Cell |-> count[h] - Cardinality({d \in R : cell[d].hash = h})]
    <2>1. ASSUME NEW h \in Cell
          PROVE  Cardinality({d \in R : cell[d].hash = h}) = IF h = cell[c].hash THEN 1 ELSE 0
      <3>1. {d \in R : cell[d].hash = h} = IF h = cell[c].hash THEN {c} ELSE {}
        OBVIOUS
      <3> QED BY <3>1, FS_Singleton, FS_EmptySet
    <2>2. count \in [Cell -> Nat]
      BY <1>1 DEF TableTypes
    <2>3. count' = [count EXCEPT ![cell[c].hash] = @ - 1]
      BY <1>3, <1>2 DEF FreeLock
    <2>4. \A h \in Cell : count'[h] = IF h = cell[c].hash THEN count[h] - 1 ELSE count[h]
      BY <2>2, <2>3
    <2>5. \A h \in Cell : count'[h] = count[h] - Cardinality({d \in R : cell[d].hash = h})
      BY <2>1, <2>2, <2>4
    <2>6. count' = [h \in Cell |-> count'[h]]
      BY <2>2, <2>3
    <2> HIDE DEF R
    <2> QED BY <2>5, <2>6
  <1>8. \A v \in User : Len(held[v]) \in Nat
    BY <1>1 DEF TableTypes
  <1>9. \A v \in User : Len(held'[v]) <= Len(held[v])
    BY <1>1, <1>5, <1>8
  <1>10. \A d \in Cell : HoldersOf(d)' = IF d \in R THEN {} ELSE HoldersOf(d)
    <2> SUFFICES ASSUME NEW d \in Cell
                 PROVE  HoldersOf(d)' = IF d = c THEN {} ELSE HoldersOf(d)
      OBVIOUS
    <2>1. HoldersOf(d)' = HoldersOf(d) \ {<<u, n>>}
      BY <1>5
    <2>2. CASE d = c
      BY <2>1, <2>2, <1>4
    <2>3. CASE d # c
      <3>1. <<u, n>> \notin HoldersOf(d)
        BY <2>3 DEF HoldersOf
      <3> QED BY <2>1, <2>3, <3>1
    <2> QED BY <2>2, <2>3
  <1>11. \A v \in User : \A k \in 1..Len(held'[v]) :
            held'[v][k] = held[v][k] /\ held[v][k].slot \notin R
    <2> SUFFICES ASSUME NEW v \in User, NEW k \in 1..Len(held'[v])
                 PROVE  held'[v][k] = held[v][k] /\ held[v][k].slot # c
      OBVIOUS
    <2>1. k \in 1..Len(held[v]) /\ held'[v][k] = held[v][k] /\ ~(v = u /\ k = n)
      BY <1>1, <1>5, <1>8
    <2>2. <<v, k>> \in HoldersOf(held[v][k].slot)
      BY <2>1, SlotInUse
    <2>3. <<v, k>> # <<u, n>>
      BY <2>1
    <2> QED BY <2>1, <2>2, <2>3, <1>4
  <1>12. R \in SUBSET Cell /\ \A d \in R : Used(d)
    BY <1>2
  <1> HIDE DEF R
  <1> QED BY <1>5, <1>6, <1>7, <1>9, <1>10, <1>11, <1>12, ClearingKeeps

\* One of several readers leaves.
LEMMA ReaderLeavesKeeps ==
  ASSUME TableInv, NEW u \in User, NEW n, Drops(u, n),
         NEW c \in Cell, c = held[u][n].slot, FreeLock(c), cell[c].readers > 1
  PROVE  TableInv'
  <1>1. TableTypes /\ n \in 1..3 /\ n \in 1..Len(held[u]) /\ Len(held[u]) = n
    BY DEF TableInv, Drops
  <1>2. Used(c) /\ <<u, n>> \in HoldersOf(c)
    BY <1>1, SlotInUse
  <1>3. cell[c] \in Busy /\ cell[c].readers \in Int
    BY <1>1, <1>2, UsedIsBusy DEF TableTypes, Used, Busy
  <1>4. PICK e : e = [cell[c] EXCEPT !.readers = @ - 1]
    OBVIOUS
  <1>5. e \in Busy /\ e.hash = cell[c].hash /\ e.group = cell[c].group
        /\ e.readers = cell[c].readers - 1 /\ e.owner = cell[c].owner
    BY <1>3, <1>4 DEF Busy
  <1>6. cell' = [cell EXCEPT ![c] = e] /\ count' = count
    BY <1>3, <1>4 DEF FreeLock
  <1>7. cell'[c] = e /\ \A d \in Cell \ {c} : cell'[d] = cell[d]
    BY <1>1, <1>6 DEF TableTypes
  <1>8. \A d \in Cell : Used(d)' <=> Used(d)
    BY <1>2, <1>5, <1>7, UsedIsBusy DEF Used
  <1>9. /\ held' \in [User -> Seq(Holding)] /\ Len(held'[u]) = n - 1
        /\ \A i \in 1..(n - 1) : held'[u][i] = held[u][i]
        /\ \A v \in User \ {u} : held'[v] = held[v]
        /\ \A d \in Cell : HoldersOf(d)' = HoldersOf(d) \ {<<u, n>>}
    BY <1>1, Dropped
  <1>10. \A v \in User : Len(held[v]) \in Nat /\ Len(held[v]) <= 3
    BY <1>1 DEF TableTypes, TableInv, Short
  <1>11. TableTypes'
    <2>1. cell' \in [Cell -> Busy \cup {Free}]
      BY <1>1, <1>5, <1>6 DEF TableTypes
    <2> QED BY <1>1, <1>6, <1>9, <2>1 DEF TableTypes
  <1>12. Short'
    BY <1>1, <1>9, <1>10 DEF Short
  <1>13. \A d \in Cell : /\ cell'[d].hash = cell[d].hash /\ cell'[d].group = cell[d].group
                         /\ cell'[d].owner = cell[d].owner
    BY <1>5, <1>7
  <1>14. \A d \in Cell \ {c} : cell'[d].readers = cell[d].readers
    BY <1>7
  <1>15. cell'[c].readers = cell[c].readers - 1
    BY <1>5, <1>7
  <1>16. CellsOK'
    <2> SUFFICES ASSUME NEW d \in Cell, Used(d)'
                 PROVE  /\ cell'[d].hash = HashOf[cell'[d].group]
                        /\ cell'[d].readers >= -1 /\ cell'[d].readers # 0
                        /\ \A b \in Cell : Used(b)' /\ cell'[b].group = cell'[d].group => b = d
      BY DEF CellsOK
    <2>1. /\ cell[d].hash = HashOf[cell[d].group]
          /\ cell[d].readers >= -1 /\ cell[d].readers # 0
          /\ \A b \in Cell : Used(b) /\ cell[b].group = cell[d].group => b = d
      BY <1>8 DEF TableInv, CellsOK
    <2>2. cell'[d].readers >= -1 /\ cell'[d].readers # 0
      BY <2>1, <1>3, <1>14, <1>15
    <2> QED BY <2>1, <2>2, <1>8, <1>13
  <1>17. \A d \in Cell : cell'[d].readers < 0 <=> cell[d].readers < 0
    BY <1>3, <1>14, <1>15
  <1>18. HoldersOK'
    <2> SUFFICES ASSUME NEW v \in User, NEW k \in 1..Len(held'[v])
                 PROVE  LET d == held'[v][k].slot
                        IN /\ held'[v][k].write <=> cell'[d].readers < 0
                           /\ held'[v][k].write => cell'[d].owner = v
      BY DEF HoldersOK
    <2>1. k \in 1..Len(held[v]) /\ held'[v][k] = held[v][k]
      BY <1>1, <1>9, <1>10
    <2>2. held[v][k].slot \in Cell
      BY <2>1, SlotInUse
    <2> QED BY <2>1, <2>2, <1>13, <1>17 DEF TableInv, HoldersOK
  <1>19. CountsOK'
    <2>1. \A h \in Cell : Chain(h)' = Chain(h)
      BY <1>8, <1>13 DEF Chain
    <2> QED BY <2>1, <1>6 DEF TableInv, CountsOK
  <1>20. SlotsOK'
    <2> SUFFICES ASSUME NEW d \in Cell PROVE SlotExact(d, Used(d), cell[d])'
      BY DEF SlotsOK
    <2>1. SlotExact(d, Used(d), cell[d])
      BY DEF TableInv, SlotsOK
    <2>2. ASSUME NEW y \in HoldersOf(d)' PROVE y \in HoldersOf(d) /\ held'[y[1]][y[2]] = held[y[1]][y[2]]
      <3>1. PICK v \in User, k \in 1..3 : y = <<v, k>>
        BY DEF HoldersOf
      <3>2. y[1] = v /\ y[2] = k
        BY <3>1
      <3>3. y \in HoldersOf(d) /\ ~(v = u /\ k = n)
        BY <3>1, <1>9
      <3>4. k <= Len(held[v])
        BY <3>2, <3>3 DEF HoldersOf
      <3> QED BY <3>2, <3>3, <3>4, <1>1, <1>9, <1>10
    <2>3. CASE d = c
      <3>1. HoldersOf(c)' = HoldersOf(c) \ {<<u, n>>}
        BY <1>9
      <3>2. Cardinality(HoldersOf(c)') = Cardinality(HoldersOf(c)) - 1
        BY <3>1, <1>2, SlotsFinite, FS_RemoveElement
      <3>3. Cardinality(HoldersOf(c)) = cell[c].readers
        BY <2>1, <2>3, <1>2, <1>3 DEF SlotExact
      <3>4. Cardinality(HoldersOf(c)') = IF cell'[c].readers < 0 THEN 1 ELSE cell'[c].readers
        BY <3>2, <3>3, <1>3, <1>15
      <3>5. \A y \in HoldersOf(c)' : held'[y[1]][y[2]].group = cell'[c].group
        BY <2>1, <2>2, <2>3, <1>2, <1>13 DEF SlotExact
      <3> QED BY <2>3, <3>4, <3>5, <1>2, <1>8 DEF SlotExact
    <2>4. CASE d # c
      <3>1. <<u, n>> \notin HoldersOf(d)
        BY <2>4 DEF HoldersOf
      <3>2. HoldersOf(d)' = HoldersOf(d) /\ (Used(d)' <=> Used(d)) /\ cell'[d] = cell[d]
        BY <2>4, <3>1, <1>7, <1>8, <1>9
      <3> QED BY <3>2, <2>1, <2>2 DEF SlotExact
    <2> QED BY <2>3, <2>4
  <1> QED BY <1>11, <1>12, <1>16, <1>18, <1>19, <1>20 DEF TableInv
\* The clean-up of a process that had no read lock and is named by none.
LEMMA RemoveLocksKeeps ==
  ASSUME TableInv, NEW u \in User, NoReader(u), RemoveLocks(u),
         held' = [held EXCEPT ![u] = <<>>]
  PROVE  TableInv'
  <1> DEFINE R == {c \in Cell : Used(c) /\ cell[c].owner = u}
  <1>1. held \in [User -> Seq(Holding)]
    BY DEF TableInv, TableTypes
  <1>2. held'[u] = <<>> /\ \A v \in User \ {u} : held'[v] = held[v]
    BY <1>1
  <1>3. <<>> \in Seq(Holding) /\ Len(<<>>) = 0
    OBVIOUS
  <1>4. held' \in [User -> Seq(Holding)]
    BY <1>1, <1>3
  <1>5. \A v \in User : Len(held[v]) \in Nat /\ Len(held[v]) <= 3
    BY <1>1 DEF TableInv, Short
  <1>6. \A v \in User : Len(held'[v]) <= Len(held[v])
    BY <1>2, <1>3, <1>5
  <1>7. ASSUME NEW v \in User, NEW k \in 1..Len(held[v])
        PROVE  v = u <=> held[v][k].slot \in R
    <2> DEFINE c == held[v][k].slot
    <2>1. c \in Cell /\ Used(c)
      BY SlotInUse
    <2>2. /\ held[v][k].write <=> cell[c].readers < 0
          /\ held[v][k].write => cell[c].owner = v
      BY DEF TableInv, HoldersOK
    <2>3. CASE v = u
      BY <2>1, <2>2, <2>3 DEF NoReader
    <2>4. CASE v # u
      BY <2>1, <2>2, <2>4 DEF NoReader
    <2> QED BY <2>3, <2>4
  <1>8. /\ R \in SUBSET Cell /\ \A c \in R : Used(c)
        /\ cell' = [c \in Cell |-> IF c \in R THEN Free ELSE cell[c]]
        /\ count' = [h \in Cell |-> count[h] - Cardinality({c \in R : cell[c].hash = h})]
    BY DEF RemoveLocks
  <1> HIDE DEF R
  <1>9. \A v \in User : \A k \in 1..Len(held'[v]) :
           held'[v][k] = held[v][k] /\ held[v][k].slot \notin R
    <2> SUFFICES ASSUME NEW v \in User, NEW k \in 1..Len(held'[v])
                 PROVE  held'[v][k] = held[v][k] /\ held[v][k].slot \notin R
      OBVIOUS
    <2>1. v # u
      BY <1>2, <1>3
    <2> QED BY <2>1, <1>2, <1>7
  <1>10. ASSUME NEW d \in Cell PROVE HoldersOf(d)' = IF d \in R THEN {} ELSE HoldersOf(d)
    <2> DEFINE T == IF d \in R THEN {} ELSE HoldersOf(d)
    <2>1. HoldersOf(d)' \in SUBSET (User \X (1..3)) /\ T \in SUBSET (User \X (1..3))
      BY DEF HoldersOf
    <2>2. ASSUME NEW v \in User, NEW k \in 1..3
          PROVE  <<v, k>> \in HoldersOf(d)' <=> <<v, k>> \in T
      <3>1. <<v, k>> \in HoldersOf(d)' <=> k <= Len(held'[v]) /\ held'[v][k].slot = d
        BY DEF HoldersOf
      <3>2. <<v, k>> \in HoldersOf(d) <=> k <= Len(held[v]) /\ held[v][k].slot = d
        BY DEF HoldersOf
      <3>3. k <= Len(held[v]) => (v = u <=> held[v][k].slot \in R)
        BY <1>5, <1>7
      <3>4. CASE v = u
        BY <3>1, <3>2, <3>3, <3>4, <1>2, <1>3
      <3>5. CASE v # u
        BY <3>1, <3>2, <3>3, <3>5, <1>2
      <3> QED BY <3>4, <3>5
    <2> HIDE DEF T
    <2>3. HoldersOf(d)' = T
      BY <2>1, <2>2, SamePairs
    <2> QED BY <2>3 DEF T
  <1> QED BY <1>4, <1>6, <1>8, <1>9, <1>10, ClearingKeeps

-----------------------------------------------------------------------------
(* The inductive invariant *)

\* A process goes for two groups, or for one, and for the header at last.
PathOK(u) ==
  \/ Len(held[u]) + Len(want[u]) <= 2
  \/ Len(held[u]) = 2 /\ Len(want[u]) = 1 /\ want[u][1].group \in Header
  \/ Len(held[u]) = 3 /\ Len(want[u]) = 0 /\ held[u][3].group \in Header
PathsOK == want \in [User -> Seq(Request)] /\ \A u \in User : PathOK(u)

\* A vanished process has left no reader behind.
LostOK == mode \in [User -> Mode] /\ \A u \in User : mode[u] = "lost" => NoReader(u)

LocksInv == TableInv /\ PathsOK /\ LostOK

LEMMA Lengths ==
  ASSUME LocksInv, NEW u \in User
  PROVE  /\ held[u] \in Seq(Holding) /\ Len(held[u]) \in Nat /\ Len(held[u]) <= 3
         /\ want[u] \in Seq(Request) /\ Len(want[u]) \in Nat /\ Len(want[u]) <= 2
         /\ want[u] # <<>> => Len(want[u]) > 0 /\ Len(held[u]) <= 2
  <1>1. held[u] \in Seq(Holding) /\ want[u] \in Seq(Request) /\ PathOK(u)
    BY DEF LocksInv, TableInv, TableTypes, PathsOK
  <1>2. PICK h \in Nat : Len(held[u]) = h
    BY <1>1
  <1>3. PICK w \in Nat : Len(want[u]) = w
    BY <1>1
  <1>4. \/ h + w <= 2
        \/ h = 2 /\ w = 1
        \/ h = 3 /\ w = 0
    BY <1>1, <1>2, <1>3 DEF PathOK
  <1>5. want[u] # <<>> => w > 0
    BY <1>1, <1>3
  <1>6. h <= 3 /\ w <= 2 /\ (w > 0 => h <= 2)
    BY <1>4
  <1> QED BY <1>1, <1>2, <1>3, <1>5, <1>6

\* The cell of a lock that u has got names u, the others are as they were.
LEMMA GotNames ==
  ASSUME TableInv, NEW u \in User, NEW r \in Request, NEW c \in Cell,
         NewLock(u, r, c) \/ ShareLock(u, r, c)
  PROVE  cell'[c].owner = u /\ \A d \in Cell \ {c} : cell'[d] = cell[d]
  <1>1. cell \in [Cell -> Busy \cup {Free}] /\ r.group \in Group
    BY DEF TableInv, TableTypes, Request
  <1>2. CASE NewLock(u, r, c)
    BY <1>1, <1>2 DEF NewLock
  <1>3. CASE ShareLock(u, r, c)
    <2>1. Used(c)
      BY <1>1, <1>3, LockingIsAll DEF ShareLock
    <2>2. cell[c] \in Busy
      BY <1>1, <2>1, UsedIsBusy DEF Used
    <2>3. PICK e : e = [cell[c] EXCEPT !.readers = cell[c].readers + 1, !.owner = u]
      OBVIOUS
    <2>4. e.owner = u
      BY <2>2, <2>3 DEF Busy
    <2>5. cell' = [cell EXCEPT ![c] = e]
      BY <1>1, <1>3, <2>3 DEF ShareLock
    <2> QED BY <1>1, <2>4, <2>5
  <1> QED BY <1>2, <1>3

LEMMA GetKeeps ==
  ASSUME LocksInv, NEW u \in User, Get(u), mode[u] # "lost", UNCHANGED mode
  PROVE  LocksInv'
  <1>1. /\ held[u] \in Seq(Holding) /\ Len(held[u]) \in Nat /\ Len(held[u]) <= 2
        /\ want[u] \in Seq(Request) /\ Len(want[u]) \in Nat /\ Len(want[u]) > 0 /\ Len(want[u]) <= 2
    <2>1. want[u] # <<>>
      BY DEF Get, Waits
    <2> QED BY <2>1, Lengths
  <1>2. PICK r : r = Head(want[u])
    OBVIOUS
  <1>3. r \in Request /\ r = want[u][1]
    BY <1>1, <1>2
  <1>4. PICK c \in Cell : /\ NewLock(u, r, c) \/ ShareLock(u, r, c)
                          /\ held' = [held EXCEPT ![u] =
                               Append(@, [group |-> r.group, write |-> r.write, slot |-> c])]
    BY <1>2 DEF Get
  <1>5. want' = [want EXCEPT ![u] = Tail(@)]
    BY DEF Get
  <1>6. TableInv /\ TableTypes
    BY DEF LocksInv, TableInv
  <1>7. Len(held[u]) <= 2
    BY <1>1
  <1>8. TableInv'
    BY <1>3, <1>4, <1>6, <1>7, NewLockKeeps, ShareLockKeeps
  <1>9. PICK x \in Holding : x = [group |-> r.group, write |-> r.write, slot |-> c]
    BY <1>3 DEF Request, Holding
  <1>10. x.group = want[u][1].group
    BY <1>3, <1>9
  <1>11. /\ Len(held'[u]) = Len(held[u]) + 1 /\ held'[u][Len(held[u]) + 1] = x
         /\ \A v \in User \ {u} : held'[v] = held[v]
    <2>1. held \in [User -> Seq(Holding)]
      BY <1>6 DEF TableTypes
    <2>2. held'[u] = Append(held[u], x) /\ \A v \in User \ {u} : held'[v] = held[v]
      BY <1>4, <1>9, <2>1
    <2> QED BY <1>1, <2>2
  <1>12. /\ want' \in [User -> Seq(Request)] /\ Len(want'[u]) = Len(want[u]) - 1
         /\ \A i \in 1..(Len(want[u]) - 1) : want'[u][i] = want[u][i + 1]
         /\ \A v \in User \ {u} : want'[v] = want[v]
    <2>1. want \in [User -> Seq(Request)]
      BY DEF LocksInv, PathsOK
    <2> QED BY <1>1, <1>5, <2>1
  <1>13. PathsOK'
    <2>1. PathOK(u)'
      <3>1. PICK h \in Nat : Len(held[u]) = h /\ h <= 2
        BY <1>1
      <3>2. PICK w \in Nat : Len(want[u]) = w /\ w > 0 /\ w <= 2
        BY <1>1
      <3>3. PathOK(u)
        BY DEF LocksInv, PathsOK
      <3>4. Len(held'[u]) = h + 1 /\ Len(want'[u]) = w - 1
        BY <3>1, <3>2, <1>11, <1>12
      <3>5. CASE h + w <= 2
        <4>1. h + 1 + (w - 1) <= 2
          BY <3>5
        <4>2. Len(held'[u]) + Len(want'[u]) <= 2
          BY <3>4, <4>1
        <4> QED BY <4>2 DEF PathOK
      <3>6. CASE ~(h + w <= 2)
        <4>1. h = 2 /\ w = 1 /\ want[u][1].group \in Header
          <5>1. \/ h + w <= 2
                \/ h = 2 /\ w = 1 /\ want[u][1].group \in Header
                \/ h = 3 /\ w = 0
            BY <3>1, <3>2, <3>3 DEF PathOK
          <5> QED BY <5>1, <3>1, <3>2, <3>6
        <4>2. Len(held'[u]) = 3 /\ Len(want'[u]) = 0 /\ held'[u][3].group \in Header
          BY <3>1, <3>2, <3>4, <4>1, <1>10, <1>11
        <4> QED BY <4>2 DEF PathOK, Header
      <3> QED BY <3>5, <3>6
    <2>2. ASSUME NEW v \in User, v # u PROVE PathOK(v)'
      <3>1. held'[v] = held[v] /\ want'[v] = want[v] /\ PathOK(v)
        BY <2>2, <1>11, <1>12 DEF LocksInv, PathsOK
      <3> QED BY <3>1 DEF PathOK, Header
    <2> QED BY <2>1, <2>2, <1>12 DEF PathsOK
  <1>14. LostOK'
    <2> SUFFICES ASSUME NEW v \in User, mode[v] = "lost" PROVE NoReader(v)'
      BY DEF LostOK, LocksInv
    <2>1. NoReader(v) /\ v # u /\ held'[v] = held[v]
      BY <1>11 DEF LocksInv, LostOK
    <2>2. cell'[c].owner = u /\ \A d \in Cell \ {c} : cell'[d] = cell[d]
      BY <1>3, <1>4, <1>6, GotNames
    <2> QED BY <2>1, <2>2 DEF NoReader, Used
  <1> QED BY <1>8, <1>13, <1>14 DEF LocksInv

LEMMA GiveUpKeeps ==
  ASSUME LocksInv, NEW u \in User, GiveUp(u), mode[u] # "lost", UNCHANGED mode
  PROVE  LocksInv'
  <1>1. PICK n : Len(held[u]) = n
    OBVIOUS
  <1>2. PICK c : c = held[u][n].slot
    OBVIOUS
  <1>3. /\ want' = want /\ want[u] = <<>> /\ held[u] # <<>> /\ FreeLock(c)
        /\ held' = [held EXCEPT ![u] = SubSeq(@, 1, n - 1)]
    BY <1>1, <1>2 DEF GiveUp, Waits
  <1>4. TableInv /\ TableTypes /\ held[u] \in Seq(Holding) /\ n \in 1..3 /\ n \in 1..Len(held[u])
    <2>1. TableInv /\ TableTypes /\ held[u] \in Seq(Holding) /\ n \in Nat /\ n <= 3
      BY <1>1, Lengths DEF LocksInv, TableInv
    <2>2. n # 0
      BY <1>1, <1>3, <2>1
    <2>3. n \in 1..3 /\ n \in 1..n
      BY <2>1, <2>2
    <2> QED BY <1>1, <2>1, <2>3
  <1>5. Drops(u, n)
    BY <1>1, <1>3, <1>4 DEF Drops
  <1>6. c \in Cell /\ Used(c)
    BY <1>2, <1>4, SlotInUse
  <1>7. TableInv'
    BY <1>2, <1>3, <1>4, <1>5, <1>6, LastHolderKeeps, ReaderLeavesKeeps
  <1>8. Len(held'[u]) = n - 1 /\ \A v \in User \ {u} : held'[v] = held[v]
    BY <1>4, <1>5, Dropped
  <1>9. PathsOK'
    <2>1. PathOK(u)'
      <3>1. Len(want'[u]) = 0 /\ Len(held'[u]) = n - 1
        BY <1>3, <1>8
      <3>2. n - 1 + 0 <= 2
        BY <1>4
      <3>3. Len(held'[u]) + Len(want'[u]) <= 2
        BY <3>1, <3>2
      <3> QED BY <3>3 DEF PathOK
    <2>2. ASSUME NEW v \in User, v # u PROVE PathOK(v)'
      <3>1. held'[v] = held[v] /\ want'[v] = want[v] /\ PathOK(v)
        BY <2>2, <1>3, <1>8 DEF LocksInv, PathsOK
      <3> QED BY <3>1 DEF PathOK, Header
    <2> QED BY <2>1, <2>2, <1>3 DEF PathsOK, LocksInv
  <1>10. LostOK'
    <2> SUFFICES ASSUME NEW v \in User, mode[v] = "lost" PROVE NoReader(v)'
      BY DEF LostOK, LocksInv
    <2>1. NoReader(v) /\ v # u /\ held'[v] = held[v]
      BY <1>8 DEF LocksInv, LostOK
    <2>2. \A d \in Cell \ {c} : cell'[d] = cell[d]
      BY <1>3, <1>4, <1>6 DEF FreeLock, TableTypes
    <2>3. cell[c] \in Busy /\ cell[c].readers \in Int
      BY <1>4, <1>6, UsedIsBusy DEF TableTypes, Used, Busy
    <2>4. ~Used(c)' \/ (cell'[c].owner = cell[c].owner /\ cell[c].readers > 1)
      <3>1. CASE cell' = [cell EXCEPT ![c] = Free]
        BY <3>1, <1>4, <1>6 DEF TableTypes, Used
      <3>2. CASE cell[c].readers > 1 /\ cell' = [cell EXCEPT ![c].readers = @ - 1]
        BY <3>2, <2>3, <1>4, <1>6 DEF TableTypes, Busy
      <3> QED BY <3>1, <3>2, <1>3 DEF FreeLock
    <2>5. ASSUME NEW d \in Cell, Used(d)', cell'[d].owner = v PROVE cell'[d].readers < 0
      <3>1. CASE d # c
        BY <3>1, <2>1, <2>2, <2>5 DEF NoReader, Used
      <3>2. CASE d = c
        <4>1. cell[c].owner = v /\ cell[c].readers > 1
          BY <3>2, <2>4, <2>5
        <4>2. cell[c].readers < 0
          BY <4>1, <2>1, <1>6 DEF NoReader
        <4> QED BY <4>1, <4>2, <2>3
      <3> QED BY <3>1, <3>2
    <2> QED BY <2>1, <2>5 DEF NoReader
  <1> QED BY <1>7, <1>9, <1>10 DEF LocksInv

LEMMA TableSame ==
  ASSUME TableInv, UNCHANGED <<cell, count, held>>
  PROVE  TableInv'
  <1>1. TableTypes' /\ Short'
    BY DEF TableInv, TableTypes, Short
  <1>2. \A c \in Cell : (Used(c)' <=> Used(c)) /\ Chain(c)' = Chain(c) /\ HoldersOf(c)' = HoldersOf(c)
    BY DEF Used, Chain, HoldersOf
  <1>3. CellsOK' /\ HoldersOK'
    BY <1>2 DEF TableInv, CellsOK, HoldersOK
  <1>4. CountsOK'
    BY <1>2 DEF TableInv, CountsOK
  <1>5. SlotsOK'
    BY <1>2 DEF TableInv, SlotsOK, SlotExact
  <1> QED BY <1>1, <1>3, <1>4, <1>5 DEF TableInv

\* Steps that ask for locks, or for none.
LEMMA AskingKeeps ==
  ASSUME LocksInv, UNCHANGED <<cell, count, held, mode>>, PathsOK'
  PROVE  LocksInv'
  <1>1. TableInv'
    BY TableSame DEF LocksInv
  <1>2. LostOK'
    BY DEF LocksInv, LostOK, NoReader, Used
  <1> QED BY <1>1, <1>2 DEF LocksInv

LEMMA PathAsked ==
  ASSUME LocksInv, NEW u \in User, NEW s \in Seq(Request), held' = held,
         want' = [want EXCEPT ![u] = s], PathOK(u)'
  PROVE  PathsOK'
  <1>1. want \in [User -> Seq(Request)]
    BY DEF LocksInv, PathsOK
  <1>2. want' \in [User -> Seq(Request)] /\ \A v \in User \ {u} : want'[v] = want[v]
    BY <1>1
  <1>3. ASSUME NEW v \in User, v # u PROVE PathOK(v)'
    <2>1. want'[v] = want[v] /\ PathOK(v)
      BY <1>2, <1>3 DEF LocksInv, PathsOK
    <2> QED BY <2>1 DEF PathOK, Header
  <1> QED BY <1>2, <1>3 DEF PathsOK

LEMMA AccessKeeps ==
  ASSUME LocksInv, NEW u \in User, NEW g \in Group, NEW write \in BOOLEAN,
         Access(u, g, write), UNCHANGED mode
  PROVE  LocksInv'
  <1>1. PICK r \in Request : r = [group |-> g, write |-> write, inside |-> TRUE]
    BY DEF Request
  <1>2. held' = held /\ held[u] = <<>> /\ want' = [want EXCEPT ![u] = <<r>>]
    BY <1>1 DEF Access, Quiet
  <1>3. want'[u] = <<r>>
    BY <1>2 DEF LocksInv, PathsOK
  <1>4. Len(held'[u]) + Len(want'[u]) <= 2
    <2>1. Len(held'[u]) = 0 /\ Len(want'[u]) = 1
      BY <1>2, <1>3
    <2> QED BY <2>1
  <1>5. PathOK(u)'
    BY <1>4 DEF PathOK
  <1>6. <<r>> \in Seq(Request)
    OBVIOUS
  <1>7. PathsOK'
    BY <1>2, <1>5, <1>6, PathAsked
  <1> QED BY <1>7, AskingKeeps DEF Access

LEMMA ResizeKeeps ==
  ASSUME LocksInv, NEW u \in User, NEW g \in Group, NEW h \in Group, NEW split \in BOOLEAN,
         Resize(u, g, h, split), UNCHANGED mode
  PROVE  LocksInv'
  <1>1. PICK r \in Request : r = [group |-> g, write |-> TRUE, inside |-> TRUE]
    BY DEF Request
  <1>2. PICK s \in Request : s = [group |-> h, write |-> TRUE, inside |-> ~split]
    BY DEF Request
  <1>3. held' = held /\ held[u] = <<>> /\ want' = [want EXCEPT ![u] = <<r, s>>]
    BY <1>1, <1>2 DEF Resize, Quiet
  <1>4. want'[u] = <<r, s>>
    BY <1>3 DEF LocksInv, PathsOK
  <1>5. Len(held'[u]) + Len(want'[u]) <= 2
    <2>1. Len(held'[u]) = 0 /\ Len(want'[u]) = 2
      BY <1>3, <1>4
    <2> QED BY <2>1
  <1>6. PathOK(u)'
    BY <1>5 DEF PathOK
  <1>7. <<r, s>> \in Seq(Request)
    OBVIOUS
  <1>8. PathsOK'
    BY <1>3, <1>6, <1>7, PathAsked
  <1> QED BY <1>8, AskingKeeps DEF Resize

LEMMA LockHeaderKeeps ==
  ASSUME LocksInv, NEW u \in User, NEW h \in Header, LockHeader(u, h), UNCHANGED mode
  PROVE  LocksInv'
  <1>1. h \in Group /\ HeaderOf[h] = h
    BY GroupLocksAssumption DEF Header
  <1>2. PICK r \in Request : r = [group |-> h, write |-> TRUE, inside |-> FALSE]
    BY <1>1 DEF Request
  <1>3. r.group = h
    BY <1>2
  <1>4. /\ held' = held /\ want[u] = <<>> /\ want' = [want EXCEPT ![u] = <<r>>]
        /\ \A i \in 1..Len(held[u]) : held[u][i].group # h /\ HeaderOf[held[u][i].group] = h
    BY <1>2 DEF LockHeader
  <1>5. want'[u] = <<r>>
    BY <1>4 DEF LocksInv, PathsOK
  <1>6. PICK n \in Nat : Len(held[u]) = n /\ n <= 3
    BY Lengths
  <1>7. n # 3
    <2>1. SUFFICES ASSUME n = 3 PROVE FALSE
      OBVIOUS
    <2>2. Len(held[u]) = 3 /\ Len(want[u]) = 0
      BY <2>1, <1>4, <1>6
    <2>3. PathOK(u)
      BY DEF LocksInv, PathsOK
    <2>4. held[u][3].group \in Header
      BY <2>2, <2>3 DEF PathOK
    <2>5. HeaderOf[held[u][3].group] = held[u][3].group
      BY <2>4, GroupLocksAssumption DEF Header
    <2>6. 3 \in 1..Len(held[u])
      BY <2>2
    <2> QED BY <2>5, <2>6, <1>4
  <1>8. PathOK(u)'
    <2>1. Len(want'[u]) = 1 /\ want'[u][1].group \in Header
      BY <1>3, <1>5
    <2>2. CASE n = 2
      BY <2>1, <2>2, <1>4, <1>6 DEF PathOK, Header
    <2>3. CASE n # 2
      <3>1. n + 1 <= 2
        BY <2>3, <1>6, <1>7
      <3>2. Len(held'[u]) + Len(want'[u]) <= 2
        BY <2>1, <3>1, <1>4, <1>6
      <3> QED BY <3>2 DEF PathOK
    <2> QED BY <2>2, <2>3
  <1>9. <<r>> \in Seq(Request)
    OBVIOUS
  <1>10. PathsOK'
    BY <1>4, <1>8, <1>9, PathAsked
  <1> QED BY <1>10, AskingKeeps DEF LockHeader

LEMMA ResizedKeeps ==
  ASSUME LocksInv, NEW u \in User, Resized(u), UNCHANGED mode
  PROVE  LocksInv'
  <1>1. UNCHANGED <<cell, count, held, want>>
    BY DEF Resized
  <1>2. PathsOK'
    BY <1>1 DEF LocksInv, PathsOK, PathOK, Header
  <1> QED BY <1>1, <1>2, AskingKeeps

LEMMA LocksStepKeeps ==
  ASSUME LocksInv, NEW u \in User, LocksStep(u), mode[u] # "lost", UNCHANGED mode
  PROVE  LocksInv'
  <1>1. CASE \E g \in Group, write \in BOOLEAN : Access(u, g, write)
    BY <1>1, AccessKeeps
  <1>2. CASE \E g, h \in Group, split \in BOOLEAN : Resize(u, g, h, split)
    BY <1>2, ResizeKeeps
  <1>3. CASE \E h \in Header : LockHeader(u, h)
    BY <1>3, LockHeaderKeeps
  <1>4. CASE Get(u)
    BY <1>4, GetKeeps
  <1>5. CASE GiveUp(u)
    BY <1>5, GiveUpKeeps
  <1>6. CASE Resized(u)
    BY <1>6, ResizedKeeps
  <1> QED BY <1>1, <1>2, <1>3, <1>4, <1>5, <1>6 DEF LocksStep

\* Steps that leave the locks alone, of which Die() alone leaves a vanished process.
LEMMA OthersKeep ==
  ASSUME LocksInv, UNCHANGED <<cell, count, held, want>>, mode' \in [User -> Mode],
         \A v \in User : mode'[v] = "lost" => mode[v] = "lost" \/ NoReader(v)
  PROVE  LocksInv'
  <1>1. TableInv'
    BY TableSame DEF LocksInv
  <1>2. PathsOK'
    BY DEF LocksInv, PathsOK, PathOK, Header
  <1>3. \A v \in User : NoReader(v)' <=> NoReader(v)
    BY DEF NoReader, Used
  <1>4. LostOK'
    BY <1>3 DEF LocksInv, LostOK
  <1> QED BY <1>1, <1>2, <1>4 DEF LocksInv

LEMMA RemoveUserKeeps ==
  ASSUME LocksInv, NEW u \in User, NEW c \in User \cup {None}, RemoveUser(c, u)
  PROVE  LocksInv'
  <1>1. /\ mode[u] = "lost" /\ RemoveLocks(u)
        /\ held' = [held EXCEPT ![u] = <<>>] /\ want' = [want EXCEPT ![u] = <<>>]
        /\ mode' = [mode EXCEPT ![u] = "out"]
    BY DEF RemoveUser, Forgets
  <1>2. TableInv /\ NoReader(u) /\ held \in [User -> Seq(Holding)] /\ want \in [User -> Seq(Request)]
        /\ mode \in [User -> Mode]
    BY <1>1 DEF LocksInv, LostOK, TableInv, TableTypes, PathsOK
  <1>3. TableInv'
    BY <1>1, <1>2, RemoveLocksKeeps
  <1>4. PathsOK'
    <2>1. want' \in [User -> Seq(Request)]
      BY <1>1, <1>2
    <2>2. PathOK(u)'
      <3>1. held'[u] = <<>> /\ want'[u] = <<>>
        BY <1>1, <1>2
      <3>2. Len(held'[u]) + Len(want'[u]) <= 2
        BY <3>1
      <3> QED BY <3>2 DEF PathOK
    <2>3. ASSUME NEW v \in User, v # u PROVE PathOK(v)'
      <3>1. held'[v] = held[v] /\ want'[v] = want[v] /\ PathOK(v)
        BY <2>3, <1>1, <1>2 DEF LocksInv, PathsOK
      <3> QED BY <3>1 DEF PathOK, Header
    <2> QED BY <2>1, <2>2, <2>3 DEF PathsOK
  <1>5. LostOK'
    <2>1. mode' \in [User -> Mode]
      BY <1>1, <1>2 DEF Mode
    <2>2. ASSUME NEW v \in User, mode'[v] = "lost" PROVE NoReader(v)'
      <3>1. mode[v] = "lost" /\ v # u
        BY <2>2, <1>1, <1>2
      <3>2. NoReader(v) /\ held'[v] = held[v]
        BY <3>1, <1>1, <1>2 DEF LocksInv, LostOK
      <3>3. \A d \in Cell : Used(d)' => Used(d) /\ cell'[d] = cell[d]
        BY <1>1 DEF RemoveLocks, Used
      <3> QED BY <3>2, <3>3 DEF NoReader
    <2> QED BY <2>1, <2>2 DEF LostOK
  <1> QED BY <1>3, <1>4, <1>5 DEF LocksInv

\* No step but Die() makes a process vanish.
LEMMA ModesKept ==
  ASSUME mode \in [User -> Mode], NEW u \in User,
         \/ mode' = mode
         \/ \E m \in Mode \ {"lost"} : mode' = [mode EXCEPT ![u] = m]
  PROVE  mode' \in [User -> Mode] /\ \A v \in User : mode'[v] = "lost" => mode[v] = "lost"
  OBVIOUS

LEMMA StepKeeps ==
  ASSUME LocksInv, "dieshared" \notin Ops, [Next]_vars
  PROVE  LocksInv'
  <1>1. mode \in [User -> Mode]
    BY DEF LocksInv, LostOK
  <1>2. CASE UNCHANGED vars
    BY <1>1, <1>2, OthersKeep DEF vars, lockVars, userVars
  <1>3. ASSUME NEW u \in User, SessionStep(u) PROVE LocksInv'
    <2>1. CASE UseLocks(u)
      BY <2>1, LocksStepKeeps DEF UseLocks, InProgram, userVars
    <2>2. CASE Die(u)
      <3>1. NoReader(u) /\ UNCHANGED lockVars /\ mode' = [mode EXCEPT ![u] = "lost"]
        BY <2>2 DEF Die
      <3> QED BY <3>1, <1>1, OthersKeep DEF lockVars, Mode
    <2>3. CASE \/ Login(u) \/ LogOut(u) \/ End(u)
               \/ \E t \in Task : LockTask(u, t) \/ UnlockTask(u, t)
      <3>1. UNCHANGED <<cell, count, held, want>>
        BY <2>3 DEF Login, LogOut, End, LockTask, UnlockTask, lockVars
      <3>2. \/ mode' = mode
            \/ \E m \in Mode \ {"lost"} : mode' = [mode EXCEPT ![u] = m]
        BY <2>3 DEF Login, LogOut, End, Forgets, LockTask, UnlockTask, Mode
      <3> QED BY <3>1, <3>2, <1>1, ModesKept, OthersKeep
    <2> QED BY <1>3, <2>1, <2>2, <2>3 DEF SessionStep
  <1>4. ASSUME NEW u \in User, EventStep(u) PROVE LocksInv'
    <2>1. CASE ProcessEvents(u)
      <3>1. UNCHANGED <<cell, count, held, want>>
        BY <2>1 DEF ProcessEvents, lockVars
      <3>2. \/ mode' = mode
            \/ \E m \in Mode \ {"lost"} : mode' = [mode EXCEPT ![u] = m]
        BY <2>1 DEF ProcessEvents, Mode
      <3> QED BY <3>1, <3>2, <1>1, ModesKept, OthersKeep
    <2>2. CASE \/ \E e \in Event : RaiseEvent(u, e)
               \/ AdminUnlock(u) \/ Kill(u) \/ StartMessage(u) \/ EndMessage(u) \/ BreakOff(u)
               \/ Rebuild(u) \/ Restore(u) \/ WriteBack(u)
      <3>1. UNCHANGED <<cell, count, held, want>> /\ mode' = mode
        BY <2>2 DEF RaiseEvent, AdminUnlock, Kill, StartMessage, EndMessage, BreakOff,
                    Rebuild, Restore, WriteBack, lockVars
      <3> QED BY <3>1, <1>1, OthersKeep
    <2> QED BY <1>4, <2>1, <2>2 DEF EventStep
  <1>5. ASSUME NEW u \in User, NEW c \in User \cup {None}, RemoveUser(c, u) PROVE LocksInv'
    BY <1>5, RemoveUserKeeps
  <1> QED BY <1>2, <1>3, <1>4, <1>5 DEF Next

LEMMA InitKeeps == Init => LocksInv
  <1> SUFFICES ASSUME Init PROVE LocksInv
    OBVIOUS
  <1>1. /\ cell = [c \in Cell |-> Free] /\ count = [c \in Cell |-> 0]
        /\ held = [u \in User |-> <<>>] /\ want = [u \in User |-> <<>>]
        /\ mode = [u \in User |-> "out"]
    BY DEF Init, LocksInit
  <1>2. \A c \in Cell : ~Used(c)
    BY <1>1 DEF Used
  <1>3. \A u \in User : held[u] = <<>> /\ want[u] = <<>> /\ Len(held[u]) = 0 /\ Len(want[u]) = 0
    BY <1>1
  <1>4. TableTypes /\ want \in [User -> Seq(Request)]
    BY <1>1 DEF TableTypes
  <1>5. Short
    BY <1>3 DEF Short
  <1>6. CellsOK /\ HoldersOK
    BY <1>2, <1>3 DEF CellsOK, HoldersOK
  <1>7. CountsOK
    BY <1>1, <1>2, FS_EmptySet DEF CountsOK, Chain
  <1>8. SlotsOK
    <2>1. ASSUME NEW c \in Cell PROVE HoldersOf(c) = {}
      <3>1. ASSUME NEW v \in User, NEW k \in 1..3 PROVE <<v, k>> \notin HoldersOf(c)
        BY <1>3 DEF HoldersOf
      <3>2. HoldersOf(c) \in SUBSET (User \X (1..3)) /\ {} \in SUBSET (User \X (1..3))
        BY DEF HoldersOf
      <3> QED BY <3>1, <3>2, SamePairs
    <2> QED BY <2>1, <1>2 DEF SlotsOK, SlotExact
  <1>9. PathsOK
    BY <1>3, <1>4 DEF PathsOK, PathOK
  <1>10. LostOK
    BY <1>1 DEF LostOK, Mode
  <1> QED BY <1>4, <1>5, <1>6, <1>7, <1>8, <1>9, <1>10 DEF LocksInv, TableInv

LEMMA LocksInvariance == ASSUME "dieshared" \notin Ops PROVE Spec => []LocksInv
  <1>1. LocksInv /\ [Next]_vars => LocksInv'
    BY StepKeeps
  <1> QED BY <1>1, InitKeeps, PTL DEF Spec
-----------------------------------------------------------------------------
(* Theorems about the group locks *)

\* Unless a process is killed in a way that the clean-up cannot know of, with a
\* read lock or named by a cell of readers (habit dieshared), every slot that a
\* process will give up is the cell of its lock, a cell has as many readers as
\* hold it, and the counts that end the scans of dh_get_group_lock() are exact.
THEOREM ExactTable == ASSUME "dieshared" \notin Ops PROVE Spec => []TableExact
  <1>1. LocksInv => TableExact
    BY ExactIsBoth DEF LocksInv, TableInv
  <1> QED BY <1>1, LocksInvariance, PTL

\* Then a process that writes a group, which dh_get_group_lock() has given it,
\* is alone in it.
THEOREM ExclusiveGroups == ASSUME "dieshared" \notin Ops PROVE Spec => []GroupExclusion
  <1>1. LocksInv => GroupExclusion
    BY TableExclusive DEF LocksInv
  <1> QED BY <1>1, LocksInvariance, PTL

\* If every cell were used, each would have a holder of its own, while one who
\* waits has a place for a holding left.
LEMMA RoomLeft == LocksInv => RoomForAll
  <1> SUFFICES ASSUME LocksInv, NEW u \in User, Waits(u), \A c \in Cell : Used(c) PROVE FALSE
    BY DEF RoomForAll
  <1> DEFINE Places == User \X (1..3)
             T == Places \ {<<u, 3>>}
             f == [c \in Cell |-> CHOOSE x \in HoldersOf(c) : TRUE]
  <1>1. ASSUME NEW c \in Cell PROVE HoldersOf(c) # {}
    <2>1. SlotExact(c, Used(c), cell[c])
      BY DEF LocksInv, TableInv, SlotsOK
    <2>2. cell[c].readers # 0
      BY DEF LocksInv, TableInv, CellsOK
    <2>3. Cardinality(HoldersOf(c)) # 0
      BY <2>1, <2>2 DEF SlotExact
    <2> QED BY <2>3, FS_EmptySet
  <1>2. ASSUME NEW c \in Cell PROVE f[c] \in HoldersOf(c)
    BY <1>1
  <1>3. Len(held[u]) \in Nat /\ Len(held[u]) <= 2
    BY Lengths DEF Waits
  <1>4. ASSUME NEW c \in Cell PROVE <<u, 3>> \notin HoldersOf(c)
    BY <1>3 DEF HoldersOf
  <1>5. ASSUME NEW c \in Cell PROVE HoldersOf(c) \subseteq T
    BY <1>4 DEF HoldersOf
  <1>6. ASSUME NEW c \in Cell, NEW d \in Cell, NEW x \in HoldersOf(c), x \in HoldersOf(d) PROVE c = d
    BY <1>6 DEF HoldersOf
  <1> HIDE DEF f, T
  <1>7. f \in [Cell -> T]
    <2>1. f = [c \in Cell |-> f[c]]
      BY DEF f
    <2> QED BY <2>1, <1>2, <1>5
  <1>8. \A c, d \in Cell : f[c] = f[d] => c = d
    BY <1>2, <1>6
  <1>9. f \in Injection(Cell, T)
    BY <1>7, <1>8 DEF Injection, IsInjective
  <1>10. IsFiniteSet(T) /\ Cardinality(T) = NumLocks - 1
    <2>1. <<u, 3>> \in Places
      OBVIOUS
    <2>2. IsFiniteSet(Places) /\ Cardinality(Places) = NumLocks
      BY SlotsFinite
    <2> HIDE DEF Places
    <2> QED BY <2>1, <2>2, FS_RemoveElement DEF T
  <1>11. Cardinality(Cell) = NumLocks
    <2>1. 1 \in Int /\ NumLocks \in Int /\ ~(1 > NumLocks) /\ NumLocks - 1 + 1 = NumLocks
      BY NumLocksNat
    <2> QED BY <2>1, FS_Interval DEF Cell
  <1>12. Cardinality(Cell) <= Cardinality(T)
    BY <1>9, <1>10, FS_Injection
  <1> QED BY <1>10, <1>11, <1>12, NumLocksNat

\* num_glocks = max_users * 3 of sysseg.c is enough: whoever waits for a group
\* finds a free cell, so that dh_get_group_lock() never scans for ever.
THEOREM Room == ASSUME "dieshared" \notin Ops PROVE Spec => []RoomForAll
  BY RoomLeft, LocksInvariance, PTL

-----------------------------------------------------------------------------
(* Task locks *)

TaskInv ==
  /\ mode \in [User -> Mode]
  /\ task \in [Task -> User \cup {None}]
  /\ \A t \in Task : task[t] # None => mode[task[t]] \in {"run", "closing", "ending"}

LEMMA TaskInit == Init => TaskInv
  BY DEF Init, TaskInv, Mode

\* A step that changes the mode of u alone, and leaves the locks of the others.
LEMMA TasksKept ==
  ASSUME TaskInv, NEW u \in User, NEW m \in Mode, mode' = [mode EXCEPT ![u] = m],
         task' \in [Task -> User \cup {None}],
         \A t \in Task : task'[t] # None =>
            /\ task'[t] = task[t]
            /\ task[t] # u \/ m \in {"run", "closing", "ending"}
  PROVE  TaskInv'
  BY DEF TaskInv

LEMMA TaskStep ==
  ASSUME TaskInv, "dietask" \notin Ops, [Next]_vars
  PROVE  TaskInv'
  <1>1. None \notin User /\ mode \in [User -> Mode] /\ task \in [Task -> User \cup {None}]
    BY GroupLocksAssumption DEF TaskInv
  <1>2. CASE UNCHANGED <<mode, task>>
    BY <1>2 DEF TaskInv
  <1>3. ASSUME NEW u \in User, SessionStep(u) PROVE TaskInv'
    <2>1. CASE Login(u)
      <3>1. \A t \in Task : task[t] # u
        BY <2>1, <1>1 DEF Login, TaskInv
      <3> QED BY <2>1, <3>1, <1>1, TasksKept DEF Login, Mode
    <2>2. CASE UseLocks(u)
      BY <2>2, <1>2 DEF UseLocks, userVars
    <2>3. ASSUME NEW t \in Task, LockTask(u, t) PROVE TaskInv'
      BY <2>3, <1>1 DEF LockTask, InProgram, TaskInv
    <2>4. ASSUME NEW t \in Task, UnlockTask(u, t) PROVE TaskInv'
      BY <2>4, <1>1 DEF UnlockTask, TaskInv
    <2>5. CASE LogOut(u)
      BY <2>5, <1>1, TasksKept DEF LogOut, Mode
    <2>6. CASE End(u)
      BY <2>6, <1>1, TasksKept DEF End, Forgets, Mode
    <2>7. CASE Die(u)
      <3>1. \A t \in Task : task[t] # u
        BY <2>7 DEF Die, TasksOf
      <3> QED BY <2>7, <3>1, <1>1, TasksKept DEF Die, Mode
    <2> QED BY <1>3, <2>1, <2>2, <2>3, <2>4, <2>5, <2>6, <2>7 DEF SessionStep
  <1>4. ASSUME NEW u \in User, EventStep(u) PROVE TaskInv'
    <2>1. CASE ProcessEvents(u)
      <3>1. task' = task
        BY <2>1 DEF ProcessEvents
      <3>2. CASE mode' = mode
        BY <3>1, <3>2, <1>2
      <3>3. CASE \E m \in {"ending", "closing"} : mode' = [mode EXCEPT ![u] = m]
        BY <3>1, <3>3, <1>1, TasksKept DEF Mode
      <3> QED BY <2>1, <3>2, <3>3 DEF ProcessEvents
    <2>2. CASE \/ \E e \in Event : RaiseEvent(u, e)
               \/ AdminUnlock(u) \/ Kill(u) \/ StartMessage(u) \/ EndMessage(u) \/ BreakOff(u)
               \/ Rebuild(u) \/ Restore(u) \/ WriteBack(u)
      BY <2>2, <1>2 DEF RaiseEvent, AdminUnlock, Kill, StartMessage, EndMessage, BreakOff,
                        Rebuild, Restore, WriteBack
    <2> QED BY <1>4, <2>1, <2>2 DEF EventStep
  <1>5. ASSUME NEW u \in User, NEW c \in User \cup {None}, RemoveUser(c, u) PROVE TaskInv'
    <2>1. /\ mode[u] = "lost" /\ mode' = [mode EXCEPT ![u] = "out"]
          /\ task' = [t \in Task |-> IF task[t] = c THEN None ELSE task[t]]
      BY <1>5 DEF RemoveUser, Forgets
    <2>2. \A t \in Task : task[t] # u
      BY <2>1, <1>1 DEF TaskInv
    <2> QED BY <2>1, <2>2, <1>1, TasksKept DEF Mode
  <1> QED BY <1>2, <1>3, <1>4, <1>5 DEF Next, vars, userVars

\* Unless a process is killed with a task lock (habit dietask), a task lock names
\* a user that is logged in: kill_process() has given up those of a session that
\* ends, so that none is left to the next session with that number.
THEOREM LiveTaskLocks == ASSUME "dietask" \notin Ops PROVE Spec => []TaskLocksLive
  <1>1. TaskInv => TaskLocksLive
    BY DEF TaskInv, TaskLocksLive
  <1>2. TaskInv /\ [Next]_vars => TaskInv'
    BY TaskStep
  <1> QED BY <1>1, <1>2, TaskInit, PTL DEF Spec
=============================================================================
