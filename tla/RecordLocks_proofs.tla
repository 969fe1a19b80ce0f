------------------------ MODULE RecordLocks_proofs ------------------------
(***************************************************************************)
(* Proofs about RecordLocks: the lock table is exact and exclusive for     *)
(* every number of users, files, record ids and cells, deadlock detection  *)
(* keeps the waits for records free of cycles and always ends, the local   *)
(* lock tables cover the locks, a file lock excludes the record locks of   *)
(* others, a process that leaves its programs leaves no lock, and the      *)
(* whole implements LockService.                                           *)
(***************************************************************************)
EXTENDS RecordLocks, FiniteSetTheorems, SequenceTheorems,
        WellFoundedInduction, TLAPS

\* The part of the inductive invariant that is about the lock table.
CellsOK == cell \in [Cell -> LockEntry \cup {FreeCell}]
TableInv == CellsOK /\ CountsExact /\ WaitersCover /\ RecordExclusion

\* A lock is never taken for a free cell.
LEMMA EntryIsUsed == \A e \in LockEntry : e # FreeCell
  <1>1. ASSUME NEW e \in LockEntry, e = FreeCell PROVE FALSE
    <2>1. DOMAIN e = {"key", "owner", "waiters", "type", "fvar", "txn"}
      BY DEF LockEntry
    <2>2. DOMAIN FreeCell = {"hash"}
      BY DEF FreeCell
    <2> QED BY <1>1, <2>1, <2>2
  <1> QED BY <1>1

LEMMA UsedIsEntry ==
  ASSUME CellsOK, NEW c \in Cell
  PROVE  Used(c) <=> cell[c] \in LockEntry
  BY EntryIsUsed DEF CellsOK, Used

LEMMA CellFinite == IsFiniteSet(Cell)
  BY RecordLocksAssumption, FS_Interval DEF Cell

LEMMA SubsetFinite ==
  ASSUME NEW S \in SUBSET Cell
  PROVE  IsFiniteSet(S) /\ Cardinality(S) \in Nat
  BY CellFinite, FS_Subset, FS_CardinalityType

LEMMA UsersFinite ==
  ASSUME NEW S \in SUBSET User
  PROVE  IsFiniteSet(S) /\ Cardinality(S) \in Nat
  BY RecordLocksAssumption, FS_Subset, FS_CardinalityType

\* With exact counts a scan meets every lock of its chain.
LEMMA SeenIsChain ==
  ASSUME CountsExact, NEW i \in Cell
  PROVE  Seen(i) = Chain(i)
  <1>1. ASSUME NEW c \in Chain(i) PROVE c \in Seen(i)
    <2> DEFINE Before == {d \in Chain(i) : Dist(i, d) < Dist(i, c)}
    <2>1. Chain(i) \in SUBSET Cell /\ Before \in SUBSET Chain(i)
      BY DEF Chain
    <2>2. c \notin Before
      BY RecordLocksAssumption, <2>1, <1>1 DEF Dist, Cell
    <2>3. Before # Chain(i)
      BY <2>2, <1>1
    <2>4. IsFiniteSet(Chain(i))
      BY <2>1, SubsetFinite
    <2>5. Cardinality(Before) <= Cardinality(Chain(i)) /\ Cardinality(Before) # Cardinality(Chain(i))
      BY <2>1, <2>3, <2>4, FS_Subset
    <2>6. Cardinality(Before) \in Nat /\ Cardinality(Chain(i)) \in Nat
      BY <2>1, SubsetFinite
    <2>7. Cardinality(Before) < count[i]
      BY <2>5, <2>6 DEF CountsExact
    <2> QED BY <1>1, <2>7 DEF Seen
  <1> QED BY <1>1 DEF Seen

\* Hence lock_record() and unlock_id() see every lock on a key.
LEMMA MatchingIsAll ==
  ASSUME CountsExact, NEW k \in Key
  PROVE  Matching(k) = {c \in Cell : Used(c) /\ cell[c].key = k}
  <1>1. HashOf[k] \in Cell
    BY RecordLocksAssumption
  <1>2. Seen(HashOf[k]) = Chain(HashOf[k])
    BY <1>1, SeenIsChain
  <1> QED BY <1>2 DEF Matching, Chain

\* Freeing cells in use keeps the table well formed, exact and exclusive.
LEMMA FreeKeeps ==
  ASSUME CellsOK, CountsExact, RecordExclusion,
         NEW R \in SUBSET Cell, \A c \in R : Used(c), Free(R)
  PROVE  CellsOK' /\ CountsExact' /\ RecordExclusion'
  <1>1. CellsOK'
    BY DEF Free, CellsOK
  <1>2. \A c \in Cell : Used(c)' <=> Used(c) /\ c \notin R
    BY DEF Free, Used, CellsOK
  <1>3. \A c \in Cell : Used(c)' => cell'[c] = cell[c]
    BY <1>2 DEF Free, CellsOK
  <1>4. ASSUME NEW i \in Cell PROVE count'[i] = Cardinality(Chain(i)')
    <2>1. Chain(i)' = Chain(i) \ R
      BY <1>2, <1>3 DEF Chain
    <2>2. Chain(i) \in SUBSET Cell /\ Chain(i) \cap R = R \cap Chain(i)
      BY DEF Chain
    <2>3. IsFiniteSet(Chain(i))
      BY <2>2, SubsetFinite
    <2>4. Cardinality(Chain(i) \ R) = Cardinality(Chain(i)) - Cardinality(Chain(i) \cap R)
      BY <2>3, FS_Difference
    <2> QED BY <2>1, <2>2, <2>4 DEF Free, CountsExact
  <1>5. ASSUME NEW f \in File
        PROVE  lockCount'[f] = Cardinality({c \in Cell : Used(c)' /\ cell'[c].key[1] = f})
    <2> DEFINE In == {c \in Cell : Used(c) /\ cell[c].key[1] = f}
    <2>1. {c \in Cell : Used(c)' /\ cell'[c].key[1] = f} = In \ R
      BY <1>2, <1>3
    <2>2. {c \in R : cell[c].key[1] = f} = In \cap R
      BY DEF Free
    <2>3. In \in SUBSET Cell
      OBVIOUS
    <2>4. IsFiniteSet(In)
      BY <2>3, SubsetFinite
    <2>5. Cardinality(In \ R) = Cardinality(In) - Cardinality(In \cap R)
      BY <2>4, FS_Difference
    <2> HIDE DEF In
    <2>6. lockCount'[f] = lockCount[f] - Cardinality(In \cap R)
      BY <2>2 DEF Free
    <2>7. lockCount[f] = Cardinality(In)
      BY DEF CountsExact, In
    <2> QED BY <2>1, <2>5, <2>6, <2>7
  <1>6. RecordExclusion'
    BY <1>2, <1>3 DEF RecordExclusion
  <1> QED BY <1>1, <1>4, <1>5, <1>6 DEF CountsExact

\* A release wakes everybody that waits for the cells it frees.
LEMMA WokenIsPointing ==
  ASSUME CellsOK, WaitersCover, NEW c \in Cell, Used(c)
  PROVE  Woken(c) = Pointing(OnCell(c))
  <1> DEFINE P == Pointing(OnCell(c))
  <1>1. P \in SUBSET User
    BY DEF Pointing
  <1>2. IsFiniteSet(P) /\ Cardinality(P) \in Nat
    BY <1>1, UsersFinite
  <1>3. cell[c].waiters \in Nat
    BY UsedIsEntry DEF LockEntry
  <1>4. P = {} \/ cell[c].waiters >= Cardinality(P)
    BY DEF WaitersCover
  <1>5. CASE cell[c].waiters \in 0..Cardinality(P)
    <2> DEFINE w == cell[c].waiters
    <2>1. w = Cardinality(P)
      <3>1. CASE P = {}
        BY <3>1, <1>5, <1>3, FS_EmptySet
      <3>2. CASE w >= Cardinality(P)
        BY <3>2, <1>5, <1>2, <1>3
      <3> QED BY <3>1, <3>2, <1>4
    <2>2. \A W \in SUBSET P : Cardinality(W) = w => W = P
      BY <2>1, <1>2, FS_Subset
    <2>3. P \in SUBSET P /\ Cardinality(P) = w
      BY <2>1
    <2>4. (CHOOSE W \in SUBSET P : Cardinality(W) = w) = P
      BY <2>2, <2>3
    <2> QED BY <1>5, <2>4 DEF Woken
  <1>6. CASE cell[c].waiters \notin 0..Cardinality(P)
    BY <1>6 DEF Woken
  <1> QED BY <1>5, <1>6

-----------------------------------------------------------------------------
(* What a step does to the lock table and the waits is one of six effects;  *)
(* each keeps TableInv.                                                     *)

WaitsOK == lockwait \in [User -> Wait]

LEMMA WaitFacts ==
  /\ \A c, d \in Cell : OnCell(c) = OnCell(d) => c = d
  /\ \A c \in Cell : OnCell(c) # NotWaiting /\ OnCell(c) \in Wait
  /\ \A c \in Cell, f \in File : OnCell(c) # OnFile(f)
  /\ \A w \in Wait : w.kind = "record" => \E c \in Cell : w = OnCell(c)
  /\ \A c \in Cell : OnCell(c).kind = "record" /\ OnCell(c).cell = c
  /\ \A f \in File : OnFile(f).kind = "file" /\ OnFile(f) \in Wait
  /\ NotWaiting \in Wait /\ NotWaiting.kind = "none"
  <1>1. \A c, d \in Cell : OnCell(c) = OnCell(d) => c = d
    BY DEF OnCell
  <1>2. \A c \in Cell, f \in File : OnCell(c) # OnFile(f)
    <2>1. \A c \in Cell, f \in File : OnCell(c).kind = "record" /\ OnFile(f).kind = "file"
      BY DEF OnCell, OnFile
    <2>2. "record" # "file"
      OBVIOUS
    <2> QED BY <2>1, <2>2
  <1>3. \A c \in Cell : OnCell(c).kind = "record" /\ OnCell(c).cell = c
    BY DEF OnCell
  <1>4. \A f \in File : OnFile(f).kind = "file"
    BY DEF OnFile
  <1>5. NotWaiting.kind = "none"
    BY DEF NotWaiting
  <1>6. \A c \in Cell : OnCell(c) # NotWaiting
    BY <1>3, <1>5
  <1>7. /\ \A c \in Cell : OnCell(c) \in Wait
        /\ \A f \in File : OnFile(f) \in Wait
        /\ NotWaiting \in Wait
    BY DEF Wait
  <1>8. \A w \in Wait : w.kind = "record" => \E c \in Cell : w = OnCell(c)
    <2>1. SUFFICES ASSUME NEW w \in Wait, w.kind = "record"
                   PROVE  \E c \in Cell : w = OnCell(c)
      OBVIOUS
    <2>2. w = NotWaiting \/ (\E c \in Cell : w = OnCell(c)) \/ (\E f \in File : w = OnFile(f))
      BY DEF Wait
    <2> QED BY <2>1, <2>2, <1>4, <1>5
  <1> QED BY <1>1, <1>2, <1>3, <1>4, <1>5, <1>6, <1>7, <1>8

\* Where nobody begins to wait, the waiters of a cell still cover its waits.
LEMMA StillCovered ==
  ASSUME TableInv, NEW c \in Cell, Pointing(OnCell(c))' # {},
         \A u \in User : lockwait'[u] = OnCell(c) => lockwait[u] = OnCell(c)
  PROVE  Used(c) /\ cell[c].waiters >= Cardinality(Pointing(OnCell(c))')
  <1> DEFINE P == Pointing(OnCell(c))
             Q == {u \in User : lockwait'[u] = OnCell(c)}
  <1>1. Q \in SUBSET P /\ Q = Pointing(OnCell(c))' /\ P \in SUBSET User
    BY DEF Pointing
  <1>2. IsFiniteSet(P) /\ Cardinality(P) \in Nat
    BY <1>1, UsersFinite
  <1>3. Cardinality(Q) <= Cardinality(P) /\ Cardinality(Q) \in Nat
    BY <1>1, <1>2, FS_Subset, FS_CardinalityType
  <1>4. P # {}
    BY <1>1
  <1>5. Used(c) /\ cell[c].waiters >= Cardinality(P)
    BY <1>4 DEF TableInv, WaitersCover
  <1>6. cell[c].waiters \in Nat
    BY <1>5, UsedIsEntry DEF TableInv, LockEntry
  <1> HIDE DEF Q, P
  <1> QED BY <1>1, <1>2, <1>3, <1>5, <1>6

\* The tables stay as they are and nobody begins to wait for a record.
LEMMA QuietKeeps ==
  ASSUME TableInv, UNCHANGED <<cell, count, lockCount>>,
         \A u \in User : \A c \in Cell :
           lockwait'[u] = OnCell(c) => lockwait[u] = OnCell(c)
  PROVE  TableInv'
  <1>1. CellsOK' /\ CountsExact' /\ RecordExclusion'
    BY DEF TableInv, CellsOK, CountsExact, RecordExclusion, Chain, Used
  <1>2. ASSUME NEW c \in Cell, Pointing(OnCell(c))' # {}
        PROVE  Used(c)' /\ cell'[c].waiters >= Cardinality(Pointing(OnCell(c))')
    BY <1>2, StillCovered DEF Used
  <1> QED BY <1>1, <1>2 DEF TableInv, WaitersCover

\* Cells are freed and everybody that waited for them is woken.
LEMMA FreeingKeeps ==
  ASSUME TableInv, WaitsOK,
         NEW R \in SUBSET Cell, NEW F, \A c \in R : Used(c), Free(R),
         \A u \in User : lockwait'[u] \in {WakeAll(R, F)[u], NotWaiting}
  PROVE  TableInv'
  <1>1. CellsOK' /\ CountsExact' /\ RecordExclusion'
    BY FreeKeeps DEF TableInv
  <1>2. ASSUME NEW c \in Cell, Pointing(OnCell(c))' # {}
        PROVE  Used(c)' /\ cell'[c].waiters >= Cardinality(Pointing(OnCell(c))')
    <2> DEFINE P == Pointing(OnCell(c))
               Q == {u \in User : lockwait'[u] = OnCell(c)}
    <2>1. Q = Pointing(OnCell(c))'
      BY DEF Pointing
    <2>2. \A u \in User : lockwait'[u] = OnCell(c) =>
            /\ lockwait[u] = OnCell(c)
            /\ ~\E d \in R : u \in Woken(d)
      BY WaitFacts DEF WakeAll
    <2>3. c \notin R
      <3>1. SUFFICES ASSUME c \in R PROVE FALSE
        OBVIOUS
      <3>2. Woken(c) = P
        BY <3>1, WokenIsPointing DEF TableInv
      <3> QED BY <2>1, <2>2, <3>1, <3>2, <1>2 DEF Pointing
    <2>4. Used(c) /\ cell[c].waiters >= Cardinality(Pointing(OnCell(c))')
      BY <2>2, <1>2, StillCovered
    <2>5. cell'[c] = cell[c]
      BY <2>3 DEF Free
    <2> QED BY <2>4, <2>5 DEF Used
  <1> QED BY <1>1, <1>2 DEF TableInv, WaitersCover

\* Locks change in other ways than their key: the counts stay exact.
LEMMA SameKeysKeepCounts ==
  ASSUME CountsExact, UNCHANGED <<count, lockCount>>,
         \A c \in Cell : Used(c)' <=> Used(c),
         \A c \in Cell : Used(c) => cell'[c].key = cell[c].key
  PROVE  CountsExact'
  <1>1. \A i \in Cell : Chain(i)' = Chain(i)
    BY DEF Chain
  <1>2. \A f \in File : {c \in Cell : Used(c)' /\ cell'[c].key[1] = f}
                          = {c \in Cell : Used(c) /\ cell[c].key[1] = f}
    OBVIOUS
  <1> QED BY <1>1, <1>2 DEF CountsExact

\* A user begins to wait for the lock in a used cell.
LEMMA JoiningKeeps ==
  ASSUME TableInv, WaitsOK, NEW u \in User, NEW c \in Cell, Used(c),
         lockwait[u] = NotWaiting,
         lockwait' = [lockwait EXCEPT ![u] = OnCell(c)],
         cell' = [cell EXCEPT ![c].waiters = @ + 1],
         UNCHANGED <<count, lockCount>>
  PROVE  TableInv'
  <1>1. cell[c] \in LockEntry
    BY UsedIsEntry DEF TableInv
  <1>2. /\ cell'[c] \in LockEntry
        /\ cell'[c].waiters = cell[c].waiters + 1
        /\ cell'[c].key = cell[c].key
        /\ cell'[c].owner = cell[c].owner
        /\ cell'[c].type = cell[c].type
    BY <1>1 DEF TableInv, CellsOK, LockEntry
  <1>3. \A d \in Cell : d # c => cell'[d] = cell[d]
    BY DEF TableInv, CellsOK
  <1>4. CellsOK'
    BY <1>2, <1>3 DEF TableInv, CellsOK
  <1>5. \A d \in Cell : Used(d)' <=> Used(d)
    BY <1>2, <1>3, EntryIsUsed DEF Used
  <1>6. \A d \in Cell : /\ cell'[d].key = cell[d].key
                        /\ cell'[d].owner = cell[d].owner
                        /\ cell'[d].type = cell[d].type
    BY <1>2, <1>3
  <1>7. CountsExact' /\ RecordExclusion'
    BY <1>5, <1>6, SameKeysKeepCounts DEF TableInv, RecordExclusion
  <1>8. ASSUME NEW d \in Cell, Pointing(OnCell(d))' # {}
        PROVE  Used(d)' /\ cell'[d].waiters >= Cardinality(Pointing(OnCell(d))')
    <2> DEFINE P == Pointing(OnCell(d))
               Q == {v \in User : lockwait'[v] = OnCell(d)}
    <2>1. Q = Pointing(OnCell(d))'
      BY DEF Pointing
    <2>2. CASE d = c
      <3>1. Q = P \cup {u} /\ u \notin P
        BY <2>2, WaitFacts DEF WaitsOK, Pointing
      <3>2. P \in SUBSET User
        BY DEF Pointing
      <3>3. IsFiniteSet(P) /\ Cardinality(P) \in Nat
        BY <3>2, UsersFinite
      <3>4. Cardinality(Q) = Cardinality(P) + 1
        BY <3>1, <3>3, FS_AddElement
      <3>5. cell[c].waiters \in Nat
        BY <1>1 DEF LockEntry
      <3>6. cell[c].waiters >= Cardinality(P)
        <4>1. CASE P = {}
          BY <4>1, <3>5, FS_EmptySet
        <4>2. CASE P # {}
          BY <4>2, <2>2 DEF TableInv, WaitersCover
        <4> QED BY <4>1, <4>2
      <3> HIDE DEF Q, P
      <3> QED BY <2>1, <2>2, <3>3, <3>4, <3>5, <3>6, <1>2, <1>5
    <2>3. CASE d # c
      <3>1. Q = P
        BY <2>3, WaitFacts DEF WaitsOK, Pointing
      <3> QED BY <2>1, <2>3, <3>1, <1>3, <1>5, <1>8 DEF TableInv, WaitersCover
    <2> QED BY <2>2, <2>3
  <1> QED BY <1>4, <1>7, <1>8 DEF TableInv, WaitersCover

\* A user gives up its wait for a record lock: clear_lockwait().
LEMMA LeavingKeeps ==
  ASSUME TableInv, WaitsOK, NEW u \in User, NEW c \in Cell,
         lockwait[u] = OnCell(c),
         lockwait' = [lockwait EXCEPT ![u] = NotWaiting],
         cell' = [cell EXCEPT ![c].waiters = @ - 1],
         UNCHANGED <<count, lockCount>>
  PROVE  TableInv'
  <1> DEFINE P(d) == Pointing(OnCell(d))
             Q(d) == {v \in User : lockwait'[v] = OnCell(d)}
  <1>1. u \in P(c) /\ \A d \in Cell : P(d) \in SUBSET User /\ Q(d) = Pointing(OnCell(d))'
    BY DEF Pointing
  <1>2. \A d \in Cell : IsFiniteSet(P(d)) /\ Cardinality(P(d)) \in Nat
    BY <1>1, UsersFinite
  <1>3. Used(c) /\ cell[c].waiters >= Cardinality(P(c))
    BY <1>1 DEF TableInv, WaitersCover
  <1>4. cell[c] \in LockEntry
    BY <1>3, UsedIsEntry DEF TableInv
  <1>5. Q(c) = P(c) \ {u}
    BY WaitFacts DEF WaitsOK, Pointing
  <1>6. Cardinality(Q(c)) = Cardinality(P(c)) - 1 /\ Cardinality(Q(c)) \in Nat
    <2>1. IsFiniteSet(Q(c)) /\ Cardinality(Q(c)) = Cardinality(P(c)) - 1
      BY <1>1, <1>2, <1>5, FS_RemoveElement
    <2> QED BY <2>1, FS_CardinalityType
  <1> HIDE DEF P, Q
  <1>7. cell[c].waiters \in Nat /\ cell[c].waiters - 1 \in Nat
        /\ cell[c].waiters - 1 >= Cardinality(Q(c))
    BY <1>2, <1>3, <1>4, <1>6 DEF LockEntry
  <1>8. /\ cell'[c] \in LockEntry
        /\ cell'[c].waiters = cell[c].waiters - 1
        /\ cell'[c].key = cell[c].key
        /\ cell'[c].owner = cell[c].owner
        /\ cell'[c].type = cell[c].type
    BY <1>4, <1>7 DEF TableInv, CellsOK, LockEntry
  <1>9. \A d \in Cell : d # c => cell'[d] = cell[d]
    BY DEF TableInv, CellsOK
  <1>10. CellsOK'
    BY <1>8, <1>9 DEF TableInv, CellsOK
  <1>11. \A d \in Cell : Used(d)' <=> Used(d)
    BY <1>3, <1>8, <1>9, EntryIsUsed DEF Used
  <1>12. \A d \in Cell : /\ cell'[d].key = cell[d].key
                         /\ cell'[d].owner = cell[d].owner
                         /\ cell'[d].type = cell[d].type
    BY <1>8, <1>9
  <1>13. CountsExact' /\ RecordExclusion'
    BY <1>11, <1>12, SameKeysKeepCounts DEF TableInv, RecordExclusion
  <1>14. ASSUME NEW d \in Cell, Pointing(OnCell(d))' # {}
         PROVE  Used(d)' /\ cell'[d].waiters >= Cardinality(Pointing(OnCell(d))')
    <2>1. CASE d = c
      BY <2>1, <1>1, <1>3, <1>7, <1>8, <1>11
    <2>2. CASE d # c
      <3>1. Q(d) = P(d)
        BY <2>2, WaitFacts DEF WaitsOK, Pointing, P, Q
      <3> QED BY <2>2, <3>1, <1>1, <1>9, <1>11, <1>14 DEF TableInv, WaitersCover, P
    <2> QED BY <2>1, <2>2
  <1> QED BY <1>10, <1>13, <1>14 DEF TableInv, WaitersCover

\* The type, file variable or transaction of a lock changes.
LEMMA ChangingKeeps ==
  ASSUME TableInv, NEW c \in Cell, Used(c),
         NEW e \in LockEntry,
         e.key = cell[c].key, e.owner = cell[c].owner, e.waiters = cell[c].waiters,
         \A d \in Cell : Used(d) /\ d # c /\ cell[d].key = e.key
           => cell[d].type = "S" /\ e.type = "S",
         cell' = [cell EXCEPT ![c] = e],
         UNCHANGED <<count, lockCount>>,
         \A u \in User : \A d \in Cell :
           lockwait'[u] = OnCell(d) => lockwait[u] = OnCell(d)
  PROVE  TableInv'
  <1>1. cell'[c] = e /\ \A d \in Cell : d # c => cell'[d] = cell[d]
    BY DEF TableInv, CellsOK
  <1>2. CellsOK'
    BY <1>1 DEF TableInv, CellsOK
  <1>3. \A d \in Cell : Used(d)' <=> Used(d)
    BY <1>1, EntryIsUsed DEF Used
  <1>4. \A d \in Cell : /\ cell'[d].key = cell[d].key
                        /\ cell'[d].owner = cell[d].owner
                        /\ cell'[d].waiters = cell[d].waiters
    BY <1>1
  <1>5. CountsExact'
    BY <1>3, <1>4, SameKeysKeepCounts DEF TableInv
  <1>6. RecordExclusion'
    BY <1>1, <1>3, <1>4 DEF TableInv, RecordExclusion
  <1>7. ASSUME NEW d \in Cell, Pointing(OnCell(d))' # {}
        PROVE  Used(d)' /\ cell'[d].waiters >= Cardinality(Pointing(OnCell(d))')
    <2>1. Used(d) /\ cell[d].waiters >= Cardinality(Pointing(OnCell(d))')
      BY <1>7, StillCovered
    <2> QED BY <2>1, <1>3, <1>4
  <1> QED BY <1>2, <1>5, <1>6, <1>7 DEF TableInv, WaitersCover

\* A new lock is put into a free cell.
LEMMA AddingKeeps ==
  ASSUME TableInv, WaitsOK, count \in [Cell -> Nat], lockCount \in [File -> Nat],
         NEW c \in Cell, ~Used(c), NEW e \in LockEntry,
         \A d \in Cell : Used(d) /\ cell[d].key = e.key
           => cell[d].owner # e.owner /\ cell[d].type = "S" /\ e.type = "S",
         cell' = [cell EXCEPT ![c] = e],
         count' = [count EXCEPT ![HashOf[e.key]] = @ + 1],
         lockCount' = [lockCount EXCEPT ![e.key[1]] = @ + 1],
         \A u \in User : \A d \in Cell :
           lockwait'[u] = OnCell(d) => lockwait[u] = OnCell(d)
  PROVE  TableInv'
  <1>1. cell'[c] = e /\ \A d \in Cell : d # c => cell'[d] = cell[d]
    BY DEF TableInv, CellsOK
  <1>2. CellsOK'
    BY <1>1 DEF TableInv, CellsOK
  <1>3. \A d \in Cell : Used(d)' <=> Used(d) \/ d = c
    BY <1>1, EntryIsUsed DEF Used
  <1>4. e.key \in Key /\ HashOf[e.key] \in Cell /\ e.key[1] \in File
    BY RecordLocksAssumption DEF LockEntry, Key
  <1>5. ASSUME NEW i \in Cell PROVE count'[i] = Cardinality(Chain(i)')
    <2>1. Chain(i) \in SUBSET Cell /\ c \notin Chain(i)
      BY DEF Chain
    <2>2. IsFiniteSet(Chain(i)) /\ Cardinality(Chain(i)) \in Nat
      BY <2>1, SubsetFinite
    <2>3. CASE i = HashOf[e.key]
      <3>1. Chain(i)' = Chain(i) \cup {c}
        BY <2>3, <1>1, <1>3 DEF Chain
      <3>2. Cardinality(Chain(i)') = Cardinality(Chain(i)) + 1
        BY <3>1, <2>1, <2>2, FS_AddElement
      <3>3. count'[i] = count[i] + 1
        BY <2>3, <1>4
      <3> QED BY <3>2, <3>3 DEF TableInv, CountsExact
    <2>4. CASE i # HashOf[e.key]
      <3>1. Chain(i)' = Chain(i)
        BY <2>4, <1>1, <1>3 DEF Chain
      <3>2. count'[i] = count[i]
        BY <2>4, <1>4
      <3> QED BY <3>1, <3>2 DEF TableInv, CountsExact
    <2> QED BY <2>3, <2>4
  <1>6. ASSUME NEW f \in File
        PROVE  lockCount'[f] = Cardinality({d \in Cell : Used(d)' /\ cell'[d].key[1] = f})
    <2> DEFINE In == {d \in Cell : Used(d) /\ cell[d].key[1] = f}
               New == {d \in Cell : Used(d)' /\ cell'[d].key[1] = f}
    <2>1. In \in SUBSET Cell /\ c \notin In
      OBVIOUS
    <2>2. IsFiniteSet(In) /\ Cardinality(In) \in Nat
      BY <2>1, SubsetFinite
    <2>3. lockCount[f] = Cardinality(In)
      BY DEF TableInv, CountsExact
    <2>4. CASE f = e.key[1]
      <3>1. New = In \cup {c}
        BY <2>4, <1>1, <1>3
      <3>2. Cardinality(New) = Cardinality(In) + 1
        BY <3>1, <2>1, <2>2, FS_AddElement
      <3>3. lockCount'[f] = lockCount[f] + 1
        BY <2>4, <1>4
      <3> HIDE DEF In, New
      <3>4. lockCount'[f] = Cardinality(New)
        BY <3>2, <3>3, <2>3
      <3> QED BY <3>4 DEF New
    <2>5. CASE f # e.key[1]
      <3>1. New = In
        BY <2>5, <1>1, <1>3
      <3>2. lockCount'[f] = lockCount[f]
        BY <2>5, <1>4
      <3> QED BY <3>1, <3>2, <2>3
    <2> QED BY <2>4, <2>5
  <1>7. RecordExclusion'
    <2>1. SUFFICES ASSUME NEW a \in Cell, NEW b \in Cell, Used(a)', Used(b)', a # b,
                          cell'[a].key = cell'[b].key
                   PROVE  /\ cell'[a].owner # cell'[b].owner
                          /\ cell'[a].type = "S" /\ cell'[b].type = "S"
      BY DEF RecordExclusion
    <2>2. CASE a = c
      BY <2>1, <2>2, <1>1, <1>3
    <2>3. CASE b = c
      BY <2>1, <2>3, <1>1, <1>3
    <2>4. CASE a # c /\ b # c
      BY <2>1, <2>4, <1>1, <1>3 DEF TableInv, RecordExclusion
    <2> QED BY <2>2, <2>3, <2>4
  <1>8. ASSUME NEW d \in Cell, Pointing(OnCell(d))' # {}
        PROVE  Used(d)' /\ cell'[d].waiters >= Cardinality(Pointing(OnCell(d))')
    <2>1. Used(d) /\ cell[d].waiters >= Cardinality(Pointing(OnCell(d))')
      BY <1>8, StillCovered
    <2>2. cell'[d] = cell[d]
      BY <2>1, <1>1
    <2> QED BY <2>1, <2>2, <1>3
  <1> QED BY <1>2, <1>5, <1>6, <1>7, <1>8 DEF TableInv, WaitersCover, CountsExact

-----------------------------------------------------------------------------
(* The effect of each action on the lock table *)

\* What the actions that neither take nor release record locks do.
Quiet ==
  /\ UNCHANGED <<cell, count, lockCount>>
  /\ \A u \in User : \A c \in Cell :
       lockwait'[u] = OnCell(c) => lockwait[u] = OnCell(c)

LEMMA UnwaitingIsQuiet ==
  ASSUME WaitsOK, NEW u \in User,
         lockwait' = [lockwait EXCEPT ![u] = NotWaiting]
  PROVE  \A v \in User : \A c \in Cell :
           lockwait'[v] = OnCell(c) => lockwait[v] = OnCell(c)
  BY WaitFacts DEF WaitsOK

LEMMA FileWaitIsQuiet ==
  ASSUME WaitsOK, NEW u \in User, NEW f \in File,
         lockwait' = [lockwait EXCEPT ![u] = OnFile(f)]
  PROVE  \A v \in User : \A c \in Cell :
           lockwait'[v] = OnCell(c) => lockwait[v] = OnCell(c)
  BY WaitFacts DEF WaitsOK

\* Release and UnlockKeys free locks that exist.
LEMMA ReleaseKeeps ==
  ASSUME TableInv, WaitsOK, NEW R \in SUBSET Cell, NEW F,
         \A c \in R : Used(c), Release(R, F)
  PROVE  TableInv'
  BY FreeingKeeps DEF Release

LEMMA OwnMatchUsed ==
  ASSUME NEW u, NEW k, NEW c \in OwnMatch(u, k)
  PROVE  c \in Cell /\ Used(c)
  BY DEF OwnMatch, Matching, Seen, Chain

LEMMA UnlockKeysKeeps ==
  ASSUME TableInv, WaitsOK, NEW u, NEW K, NEW F, UnlockKeys(u, K, F)
  PROVE  TableInv'
  <1> DEFINE R == UNION {OwnMatch(u, k) : k \in {k \in K : lockCount[k[1]] # 0}}
  <1>1. R \in SUBSET Cell /\ \A c \in R : Used(c)
    BY OwnMatchUsed
  <1>2. Release(R, F)
    BY DEF UnlockKeys
  <1> HIDE DEF R
  <1> QED BY <1>1, <1>2, ReleaseKeeps

LEMMA UnlockTxnKeeps ==
  ASSUME TableInv, WaitsOK, NEW u \in User, UnlockTxn(u)
  PROVE  TableInv'
  <1> DEFINE R == {c \in CellsOf(u) : cell[c].txn = txn[u]}
             F == {f \in File : HasFileLock(u, f) /\ fileLock[f].txn = txn[u]}
  <1>1. R \in SUBSET Cell /\ \A c \in R : Used(c)
    BY DEF CellsOf
  <1>2. Free(R) /\ lockwait' = WakeAll(R, F)
    BY DEF UnlockTxn
  <1> HIDE DEF R, F
  <1> QED BY <1>1, <1>2, FreeingKeeps

LEMMA StartWaitKeeps ==
  ASSUME TableInv, WaitsOK, NEW u \in User, NEW r, NEW w, StartWait(u, r, w),
         (\E f \in File : w = OnFile(f)) \/ (\E c \in Cell : Used(c) /\ w = OnCell(c))
  PROVE  TableInv'
  <1>1. CASE lockwait[u] # NotWaiting
    BY <1>1, QuietKeeps DEF StartWait
  <1>2. CASE lockwait[u] = NotWaiting /\ \E f \in File : w = OnFile(f)
    <2>1. PICK f \in File : w = OnFile(f)
      BY <1>2
    <2>2. w.kind # "record"
      BY <2>1, WaitFacts
    <2>3. UNCHANGED <<cell, count, lockCount>> /\ lockwait' = [lockwait EXCEPT ![u] = OnFile(f)]
      BY <1>2, <2>1, <2>2 DEF StartWait
    <2> QED BY <2>3, FileWaitIsQuiet, QuietKeeps
  <1>3. CASE lockwait[u] = NotWaiting /\ \E c \in Cell : Used(c) /\ w = OnCell(c)
    <2>1. PICK c \in Cell : Used(c) /\ w = OnCell(c)
      BY <1>3
    <2>2. w.kind = "record" /\ w.cell = c
      BY <2>1, WaitFacts
    <2>3. /\ UNCHANGED <<count, lockCount>>
          /\ lockwait' = [lockwait EXCEPT ![u] = OnCell(c)]
          /\ cell' = [cell EXCEPT ![c].waiters = @ + 1]
      BY <1>3, <2>1, <2>2 DEF StartWait
    <2> QED BY <1>3, <2>1, <2>3, JoiningKeeps
  <1> QED BY <1>1, <1>2, <1>3

LEMMA LockRefreshKeeps ==
  ASSUME TypeOK, TableInv, NEW u \in User, NEW fv \in Fvar, NEW id \in Id,
         NEW upd \in BOOLEAN, LockRefresh(u, fv, id, upd)
  PROVE  TableInv'
  <1> DEFINE k == <<FileOf[fv], id>>
             e(c) == [cell[c] EXCEPT !.type = IF upd THEN "U" ELSE "S",
                                     !.fvar = fv, !.txn = LockTxn(u, fv)]
  <1>1. PICK c \in OwnMatch(u, k) :
          /\ IsFirst(c, Deciding(u, k, upd), HashOf[k])
          /\ cell' = [cell EXCEPT ![c].type = IF upd THEN "U" ELSE "S",
                                  ![c].fvar = fv, ![c].txn = LockTxn(u, fv)]
    BY DEF LockRefresh
  <1>2. c \in Cell /\ Used(c)
    BY OwnMatchUsed
  <1>3. cell[c] \in LockEntry
    BY <1>2, UsedIsEntry DEF TableInv
  <1>4. LockTxn(u, fv) \in Nat
    BY DEF LockTxn, TypeOK
  <1>5. e(c) \in LockEntry
    BY <1>3, <1>4 DEF LockEntry
  <1>6. /\ e(c).key = cell[c].key /\ e(c).owner = cell[c].owner
        /\ e(c).waiters = cell[c].waiters /\ e(c).type = IF upd THEN "U" ELSE "S"
    BY <1>3 DEF LockEntry
  <1>7. cell' = [cell EXCEPT ![c] = e(c)]
    BY <1>1, <1>2, <1>3 DEF TypeOK, LockEntry
  <1>8. upd => cell[c].type = "U"
    BY <1>1 DEF IsFirst, Deciding, OwnMatch
  <1>9. \A d \in Cell : Used(d) /\ d # c /\ cell[d].key = e(c).key
          => cell[d].type = "S" /\ e(c).type = "S"
    BY <1>2, <1>6, <1>8 DEF TableInv, RecordExclusion
  <1>10. UNCHANGED <<count, lockCount>> /\ lockwait' = [lockwait EXCEPT ![u] = NotWaiting]
    BY DEF LockRefresh, Done
  <1>11. WaitsOK
    BY DEF TypeOK, WaitsOK
  <1>12. \A v \in User : \A d \in Cell :
           lockwait'[v] = OnCell(d) => lockwait[v] = OnCell(d)
    BY <1>10, <1>11, UnwaitingIsQuiet
  <1> HIDE DEF e
  <1> QED BY <1>2, <1>5, <1>6, <1>7, <1>9, <1>10, <1>12, ChangingKeeps

LEMMA LockBlockedKeeps ==
  ASSUME TypeOK, TableInv, NEW u \in User, NEW fv \in Fvar, NEW id \in Id,
         NEW upd \in BOOLEAN, LockBlocked(u, fv, id, upd)
  PROVE  TableInv'
  <1> DEFINE k == <<FileOf[fv], id>>
             r == LockRecReq(fv, id, upd)
  <1>1. WaitsOK
    BY DEF TypeOK, WaitsOK
  <1>2. PICK c \in Deciding(u, k, upd) :
          \/ UNCHANGED <<tables, lockwait>>
          \/ StartWait(u, r, OnCell(c))
    BY DEF LockBlocked
  <1>3. c \in Cell /\ Used(c)
    BY DEF Deciding, Matching, Seen, Chain
  <1>4. CASE UNCHANGED <<tables, lockwait>>
    BY <1>4, QuietKeeps DEF tables
  <1>5. CASE StartWait(u, r, OnCell(c))
    BY <1>5, <1>1, <1>3, StartWaitKeeps
  <1> QED BY <1>2, <1>4, <1>5

LEMMA LockUpgradeKeeps ==
  ASSUME TypeOK, TableInv, NEW u \in User, NEW fv \in Fvar, NEW id \in Id,
         LockUpgrade(u, fv, id)
  PROVE  TableInv'
  <1> DEFINE k == <<FileOf[fv], id>>
             e(c) == [cell[c] EXCEPT !.type = "U"]
  <1>1. PICK c \in OwnMatch(u, k) : cell' = [cell EXCEPT ![c].type = "U"]
    BY DEF LockUpgrade
  <1>2. c \in Cell /\ Used(c) /\ cell[c].owner = u /\ cell[c].key = k
    BY OwnMatchUsed DEF OwnMatch, Matching
  <1>3. cell[c] \in LockEntry
    BY <1>2, UsedIsEntry DEF TableInv
  <1>4. e(c) \in LockEntry
    BY <1>3 DEF LockEntry
  <1>5. /\ e(c).key = cell[c].key /\ e(c).owner = cell[c].owner
        /\ e(c).waiters = cell[c].waiters
    BY <1>3 DEF LockEntry
  <1>6. cell' = [cell EXCEPT ![c] = e(c)]
    BY <1>1, <1>2, <1>3 DEF TypeOK, LockEntry
  <1>7. k \in Key
    BY RecordLocksAssumption DEF Key
  <1>8. \A d \in Cell : Used(d) /\ cell[d].key = k => cell[d].owner = u
    <2>1. \A d \in Cell : Used(d) /\ cell[d].key = k => d \in Matching(k)
      BY <1>7, MatchingIsAll DEF TableInv
    <2>2. Deciding(u, k, TRUE) = {}
      BY DEF LockUpgrade
    <2> QED BY <2>1, <2>2 DEF Deciding
  <1>9. ~\E d \in Cell : Used(d) /\ d # c /\ cell[d].key = e(c).key
    BY <1>2, <1>5, <1>8 DEF TableInv, RecordExclusion
  <1>10. UNCHANGED <<count, lockCount>> /\ lockwait' = [lockwait EXCEPT ![u] = NotWaiting]
    BY DEF LockUpgrade, Done
  <1>11. WaitsOK
    BY DEF TypeOK, WaitsOK
  <1>12. \A v \in User : \A d \in Cell :
           lockwait'[v] = OnCell(d) => lockwait[v] = OnCell(d)
    BY <1>10, <1>11, UnwaitingIsQuiet
  <1> HIDE DEF e
  <1> QED BY <1>2, <1>4, <1>5, <1>6, <1>9, <1>10, <1>12, ChangingKeeps

LEMMA LockNewKeeps ==
  ASSUME TypeOK, TableInv, NEW u \in User, NEW fv \in Fvar, NEW id \in Id,
         NEW upd \in BOOLEAN, LockNew(u, fv, id, upd)
  PROVE  TableInv'
  <1> DEFINE k == <<FileOf[fv], id>>
             t == IF upd THEN "U" ELSE "S"
             e == [key |-> k, owner |-> u, waiters |-> 0, type |-> t,
                   fvar |-> fv, txn |-> LockTxn(u, fv)]
  <1>1. PICK c \in Cell : ~Used(c) /\ cell' = [cell EXCEPT ![c] = e]
    BY DEF LockNew
  <1>2. k \in Key
    BY RecordLocksAssumption DEF Key
  <1>3. LockTxn(u, fv) \in Nat
    BY DEF LockTxn, TypeOK
  <1>4. e \in LockEntry
    BY <1>2, <1>3 DEF LockEntry
  <1>5. ASSUME NEW d \in Cell, Used(d), cell[d].key = k
        PROVE  cell[d].owner # u /\ cell[d].type = "S" /\ t = "S"
    <2>1. d \in Matching(k)
      BY <1>2, <1>5, MatchingIsAll DEF TableInv
    <2>2. d \notin OwnMatch(u, k) /\ d \notin Deciding(u, k, upd)
      BY DEF LockNew, Lockable
    <2>3. cell[d] \in LockEntry
      BY <1>5, UsedIsEntry DEF TableInv
    <2>4. cell[d].owner # u
      BY <2>1, <2>2 DEF OwnMatch
    <2>5. cell[d].type # "U" /\ ~upd
      BY <2>1, <2>2, <2>4 DEF Deciding
    <2> QED BY <2>3, <2>4, <2>5 DEF LockEntry
  <1>6. e.key = k /\ e.owner = u /\ e.type = t /\ k[1] = FileOf[fv]
    OBVIOUS
  <1>7. /\ count' = [count EXCEPT ![HashOf[k]] = @ + 1]
        /\ lockCount' = [lockCount EXCEPT ![k[1]] = @ + 1]
        /\ lockwait' = [lockwait EXCEPT ![u] = NotWaiting]
    BY DEF LockNew, Done
  <1>8. WaitsOK /\ count \in [Cell -> Nat] /\ lockCount \in [File -> Nat]
    BY DEF TypeOK, WaitsOK
  <1>9. \A v \in User : \A d \in Cell :
          lockwait'[v] = OnCell(d) => lockwait[v] = OnCell(d)
    BY <1>7, <1>8, UnwaitingIsQuiet
  <1> HIDE DEF e, k, t
  <1> QED BY <1>1, <1>4, <1>5, <1>6, <1>7, <1>8, <1>9, AddingKeeps

LEMMA LockRecordKeeps ==
  ASSUME TypeOK, TableInv, NEW u \in User, NEW fv \in Fvar, NEW id \in Id,
         NEW upd \in BOOLEAN, LockRecord(u, fv, id, upd)
  PROVE  TableInv'
  <1>1. WaitsOK /\ FileOf[fv] \in File
    BY RecordLocksAssumption DEF TypeOK, WaitsOK
  <1>2. CASE LockBlockedByFile(u, fv, id, upd)
    BY <1>1, <1>2, StartWaitKeeps DEF LockBlockedByFile
  <1>3. CASE LockTableFull(u, fv, id, upd)
    BY <1>1, <1>3, UnwaitingIsQuiet, QuietKeeps DEF LockTableFull, tables
  <1> QED
    BY <1>2, <1>3, LockRefreshKeeps, LockBlockedKeeps, LockUpgradeKeeps,
       LockNewKeeps DEF LockRecord

LEMMA FileLockIsQuiet ==
  ASSUME WaitsOK, NEW u \in User, NEW fv \in Fvar, FileLock(u, fv)
  PROVE  Quiet
  <1>1. FileOf[fv] \in File
    BY RecordLocksAssumption
  <1>2. \/ lockwait' = [lockwait EXCEPT ![u] = NotWaiting]
        \/ lockwait' = [lockwait EXCEPT ![u] = OnFile(FileOf[fv])]
    BY DEF FileLock, Done
  <1>3. UNCHANGED <<cell, count, lockCount>>
    BY DEF FileLock
  <1> QED BY <1>1, <1>2, <1>3, UnwaitingIsQuiet, FileWaitIsQuiet DEF Quiet

\* The steps that change neither the lock table nor the waits.
LEMMA OtherStepsQuiet ==
  ASSUME NEW u \in User,
         \/ \E fv \in Fvar : \/ FileUnlockCheck(u, fv)
                             \/ ClearBegin(u, fv)
                             \/ Close(u, fv)
                             \/ CloseCheck(u, fv)
         \/ \E how \in {"abort", "stop"} : Leave(u, how)
         \/ TxnBegin(u) \/ Quit(u) \/ RebuildLLT(u) \/ Die(u)
  PROVE  Quiet
  <1>1. UNCHANGED <<cell, count, lockCount, lockwait>>
    BY DEF FileUnlockCheck, ClearBegin, Close, CloseCheck, Leave, TxnBegin,
           Quit, RebuildLLT, Die, tables
  <1> QED BY <1>1 DEF Quiet

LEMMA ClearEndKeeps ==
  ASSUME TypeOK, TableInv, NEW u \in User, ClearEnd(u)
  PROVE  TableInv'
  <1>1. WaitsOK
    BY DEF TypeOK, WaitsOK
  <1>2. CASE req[u].took
    <2>1. Release({}, {FileOf[req[u].fvar]})
      BY <1>2 DEF ClearEnd
    <2> QED BY <1>1, <2>1, ReleaseKeeps
  <1>3. CASE ~req[u].took
    <2>1. UNCHANGED <<cell, count, lockCount, lockwait>>
      BY <1>3 DEF ClearEnd
    <2> QED BY <2>1, QuietKeeps
  <1> QED BY <1>2, <1>3

LEMMA ClearLockwaitKeeps ==
  ASSUME TypeOK, TableInv, NEW u \in User, ClearLockwait(u)
  PROVE  TableInv'
  <1>1. WaitsOK /\ lockwait[u] \in Wait
    BY DEF TypeOK, WaitsOK
  <1>2. /\ UNCHANGED <<count, lockCount>>
        /\ lockwait' = [lockwait EXCEPT ![u] = NotWaiting]
    BY DEF ClearLockwait
  <1>3. CASE lockwait[u].kind = "record"
    <2>1. PICK c \in Cell : lockwait[u] = OnCell(c)
      BY <1>1, <1>3, WaitFacts
    <2>2. cell' = [cell EXCEPT ![c].waiters = @ - 1]
      BY <1>3, <2>1, WaitFacts DEF ClearLockwait
    <2> QED BY <1>1, <1>2, <2>1, <2>2, LeavingKeeps
  <1>4. CASE lockwait[u].kind # "record"
    <2>1. cell' = cell
      BY <1>4 DEF ClearLockwait
    <2> QED BY <1>1, <1>2, <2>1, UnwaitingIsQuiet, QuietKeeps
  <1> QED BY <1>3, <1>4

LEMMA CleanUpKeeps ==
  ASSUME TypeOK, TableInv, NEW u \in User, CleanUp(u)
  PROVE  TableInv'
  <1> DEFINE R == CellsOf(u)
             F == {f \in File : fileLock[f].owner = u}
  <1>1. R \in SUBSET Cell /\ \A c \in R : Used(c)
    BY DEF CellsOf
  <1>2. Free(R) /\ lockwait' = [WakeAll(R, F) EXCEPT ![u] = NotWaiting]
    BY DEF CleanUp
  <1>3. \A v \in User : lockwait'[v] \in {WakeAll(R, F)[v], NotWaiting}
    BY <1>2 DEF WakeAll
  <1>4. WaitsOK
    BY DEF TypeOK, WaitsOK
  <1> HIDE DEF R, F
  <1> QED BY <1>1, <1>2, <1>3, <1>4, FreeingKeeps

LEMMA AdminStepKeeps ==
  ASSUME TypeOK, TableInv, AdminStep
  PROVE  TableInv'
  <1>1. WaitsOK
    BY DEF TypeOK, WaitsOK
  <1>2. ASSUME NEW F, NEW U, NEW I, AdminUnlock(F, U, I) PROVE TableInv'
    <2> DEFINE R == {c \in Cell : /\ Used(c) /\ cell[c].owner \in U
                                  /\ cell[c].key \in F \X I}
    <2>1. R \in SUBSET Cell /\ \A c \in R : Used(c)
      OBVIOUS
    <2>2. Release(R, {})
      BY <1>2 DEF AdminUnlock
    <2> HIDE DEF R
    <2> QED BY <1>1, <2>1, <2>2, ReleaseKeeps
  <1>3. ASSUME NEW F, NEW U, AdminUnlockFile(F, U) PROVE TableInv'
    <2>1. PICK G : Release({}, G)
      BY <1>3 DEF AdminUnlockFile
    <2> QED BY <1>1, <2>1, ReleaseKeeps
  <1> QED BY <1>2, <1>3 DEF AdminStep

LEMMA StepKeepsTables ==
  ASSUME TypeOK, TableInv, Next
  PROVE  TableInv'
  <1>1. WaitsOK
    BY DEF TypeOK, WaitsOK
  <1>2. CASE AdminStep
    BY <1>2, AdminStepKeeps
  <1>3. ASSUME NEW u \in User, UserStep(u) PROVE TableInv'
    <2>1. ASSUME Quiet PROVE TableInv'
      BY <2>1, QuietKeeps DEF Quiet
    <2>2. ASSUME NEW fv \in Fvar, NEW id \in Id,
                 \/ \E upd \in BOOLEAN : LockRecord(u, fv, id, upd)
                 \/ ReleaseRecord(u, fv, id)
          PROVE  TableInv'
      BY <1>1, <2>2, LockRecordKeeps, UnlockKeysKeeps DEF ReleaseRecord
    <2>3. ASSUME NEW fv \in Fvar,
                 ReleaseFile(u, fv) \/ FileLock(u, fv) \/ CloseFvar(u, fv)
          PROVE  TableInv'
      <3>1. CASE UnlockFvar(u, fv)
        BY <1>1, <3>1, UnlockKeysKeeps DEF UnlockFvar
      <3> QED BY <1>1, <2>1, <2>3, <3>1, FileLockIsQuiet DEF ReleaseFile, CloseFvar
    <2>4. CASE ReleaseAll(u)
      BY <1>1, <2>4, UnlockKeysKeeps DEF ReleaseAll
    <2>5. CASE TxnEnd(u)
      BY <1>1, <2>5, UnlockTxnKeeps DEF TxnEnd
    <2>6. CASE FileUnlock(u) \/ CloseFileLock(u)
      <3>1. PICK G : Release({}, G)
        BY <2>6 DEF FileUnlock, CloseFileLock
      <3> QED BY <1>1, <3>1, ReleaseKeeps
    <2>7. CASE Rollback(u)
      BY <1>1, <2>7, UnlockTxnKeeps, QuietKeeps DEF Rollback, tables
    <2> QED
      BY <1>3, <2>1, <2>2, <2>3, <2>4, <2>5, <2>6, <2>7, OtherStepsQuiet,
         ClearEndKeeps, ClearLockwaitKeeps, CleanUpKeeps DEF UserStep
  <1> QED BY <1>2, <1>3 DEF Next

-----------------------------------------------------------------------------
(* Types.  Those of the tables follow from TableInv.                        *)

LEMMA RequestFacts ==
  /\ Idle \in Request
  /\ \A o \in {"idle", "abort", "stop", "rollback", "prompt", "dead"} : [op |-> o] \in Request
  /\ \A fv \in Fvar, id \in Id, upd \in BOOLEAN : LockRecReq(fv, id, upd) \in Request
  /\ \A fv \in Fvar : /\ FileLockReq(fv) \in Request
                      /\ [op |-> "flunlock", fvar |-> fv] \in Request
  /\ \A fv \in Fvar, took \in BOOLEAN : [op |-> "clear", fvar |-> fv, took |-> took] \in Request
  /\ \A S \in SUBSET Fvar, x \in Fvar \cup {None}, n \in {"idle", "prompt"} :
       Closing(S, x, n) \in Request
  BY DEF Request, Idle, LockRecReq, FileLockReq, Closing

LEMMA ClosingFacts ==
  ASSUME NEW r \in Request, r.op = "closing"
  PROVE  /\ r = Closing(r.fvars, r.flock, r.next)
         /\ r.fvars \in SUBSET Fvar
         /\ r.flock \in Fvar \cup {None}
         /\ r.next \in {"idle", "prompt"}
  BY DEF Request, Closing

LEMMA OnFileVarFacts ==
  ASSUME NEW r \in Request, r.op \in {"flunlock", "clear"}
  PROVE  r.fvar \in Fvar
  BY DEF Request

CountsShape ==
  /\ count' = [i \in Cell |-> count'[i]]
  /\ lockCount' = [f \in File |-> lockCount'[f]]

\* The counts are natural numbers because they count.
LEMMA CountsTyped ==
  ASSUME CountsExact', CountsShape
  PROVE  count' \in [Cell -> Nat] /\ lockCount' \in [File -> Nat]
  <1>1. ASSUME NEW i \in Cell PROVE count'[i] \in Nat
    <2>1. Chain(i)' \in SUBSET Cell
      BY DEF Chain
    <2>2. count'[i] = Cardinality(Chain(i)')
      BY DEF CountsExact
    <2> QED BY <2>1, <2>2, SubsetFinite
  <1>2. ASSUME NEW f \in File PROVE lockCount'[f] \in Nat
    <2> DEFINE In == {c \in Cell : Used(c)' /\ cell'[c].key[1] = f}
    <2>1. In \in SUBSET Cell
      OBVIOUS
    <2>2. Cardinality(In) \in Nat
      BY <2>1, SubsetFinite
    <2> QED BY <2>2 DEF CountsExact
  <1> QED BY <1>1, <1>2 DEF CountsShape

LEMMA KeptShape ==
  ASSUME TypeOK, UNCHANGED <<count, lockCount>>
  PROVE  CountsShape
  BY DEF TypeOK, CountsShape

LEMMA FreeShape ==
  ASSUME NEW R, Free(R)
  PROVE  CountsShape
  BY DEF Free, CountsShape

LEMMA WakeTyped ==
  ASSUME TypeOK, NEW R, NEW F, lockwait' = WakeAll(R, F)
  PROVE  lockwait' \in [User -> Wait]
  BY WaitFacts DEF TypeOK, WakeAll

LEMMA ReleaseTyped ==
  ASSUME TypeOK, NEW R, NEW F, Release(R, F)
  PROVE  /\ CountsShape
         /\ fileLock' \in [File -> FileEntry]
         /\ lockwait' \in [User -> Wait]
  <1>1. CountsShape
    BY FreeShape DEF Release
  <1>2. fileLock' \in [File -> FileEntry]
    BY DEF Release, TypeOK, FileEntry
  <1>3. lockwait' \in [User -> Wait]
    BY WakeTyped DEF Release
  <1> QED BY <1>1, <1>2, <1>3

LEMMA ForgetTyped ==
  ASSUME TypeOK, NEW u \in User, NEW R, Forget(u, R)
  PROVE  llt' \in [User -> [Key -> Seq(Fvar)]]
  <1>1. ASSUME NEW k \in Key PROVE llt[u][k] # <<>> => Tail(llt[u][k]) \in Seq(Fvar)
    BY HeadTailProperties DEF TypeOK
  <1>2. [k \in Key |->
           IF (\E c \in R : cell[c].key = k) /\ llt[u][k] # <<>> THEN Tail(llt[u][k])
           ELSE llt[u][k]] \in [Key -> Seq(Fvar)]
    BY <1>1 DEF TypeOK
  <1> QED BY <1>2 DEF Forget, TypeOK

LEMMA UnlockKeysTyped ==
  ASSUME TypeOK, NEW u \in User, NEW K, NEW F, UnlockKeys(u, K, F)
  PROVE  /\ CountsShape
         /\ fileLock' \in [File -> FileEntry]
         /\ lockwait' \in [User -> Wait]
         /\ llt' \in [User -> [Key -> Seq(Fvar)]]
  <1>1. PICK R : Release(R, F) /\ Forget(u, R)
    BY DEF UnlockKeys
  <1> QED BY <1>1, ReleaseTyped, ForgetTyped

LEMMA UnlockTxnTyped ==
  ASSUME TypeOK, NEW u \in User, UnlockTxn(u)
  PROVE  /\ CountsShape
         /\ fileLock' \in [File -> FileEntry]
         /\ lockwait' \in [User -> Wait]
         /\ txn' \in [User -> Nat]
         /\ UNCHANGED llt
  <1>1. PICK R, F :
          /\ Free(R) /\ lockwait' = WakeAll(R, F)
          /\ fileLock' = [f \in File |->
               IF f \in F THEN [fileLock[f] EXCEPT !.owner = None, !.txn = 0]
               ELSE fileLock[f]]
    BY DEF UnlockTxn
  <1>2. fileLock' \in [File -> FileEntry]
    BY <1>1 DEF TypeOK, FileEntry
  <1>3. txn' \in [User -> Nat] /\ UNCHANGED llt
    BY DEF UnlockTxn, TypeOK
  <1> QED BY <1>1, <1>2, <1>3, FreeShape, WakeTyped

\* All of TypeOK but the types that TableInv gives.
RestOK ==
  /\ fileLock \in [File -> FileEntry]
  /\ lockwait \in [User -> Wait]
  /\ llt \in [User -> [Key -> Seq(Fvar)]]
  /\ req \in [User -> Request]
  /\ txn \in [User -> Nat]
  /\ nextTxn \in Nat
  /\ rebuild \subseteq User
  /\ stuck \in BOOLEAN

LEMMA StartWaitTyped ==
  ASSUME TypeOK, NEW u \in User, NEW r \in Request, NEW w \in Wait, StartWait(u, r, w)
  PROVE  /\ lockwait' \in [User -> Wait] /\ req' \in [User -> Request]
         /\ UNCHANGED <<count, lockCount, fileLock, llt>>
  BY DEF StartWait, TypeOK

LEMMA LockRecordTyped ==
  ASSUME TypeOK, TableInv, NEW u \in User, NEW fv \in Fvar, NEW id \in Id,
         NEW upd \in BOOLEAN, LockRecord(u, fv, id, upd)
  PROVE  CountsShape /\ RestOK'
  <1> DEFINE k == <<FileOf[fv], id>>
             r == LockRecReq(fv, id, upd)
  <1>1. FileOf[fv] \in File /\ k \in Key /\ r \in Request /\ Idle \in Request
    BY RecordLocksAssumption, RequestFacts DEF Key
  <1>2. CASE LockBlockedByFile(u, fv, id, upd)
    <2>1. StartWait(u, r, OnFile(FileOf[fv])) /\ OnFile(FileOf[fv]) \in Wait
      BY <1>1, <1>2, WaitFacts DEF LockBlockedByFile
    <2>2. UNCHANGED <<txn, nextTxn, rebuild, stuck>>
      BY <1>2 DEF LockBlockedByFile
    <2> QED BY <1>1, <2>1, <2>2, StartWaitTyped, KeptShape DEF RestOK, TypeOK
  <1>3. ASSUME Done(u) PROVE lockwait' \in [User -> Wait] /\ req' \in [User -> Request]
    BY <1>1, <1>3, WaitFacts DEF Done, TypeOK
  <1>4. CASE LockRefresh(u, fv, id, upd) \/ (upd /\ LockUpgrade(u, fv, id))
    <2>1. Done(u) /\ UNCHANGED <<count, lockCount, fileLock, llt, txn, nextTxn, rebuild, stuck>>
      BY <1>4 DEF LockRefresh, LockUpgrade
    <2> QED BY <1>3, <2>1, KeptShape DEF RestOK, TypeOK
  <1>5. CASE LockBlocked(u, fv, id, upd)
    <2>1. PICK c \in Cell :
            \/ stuck' \in BOOLEAN /\ UNCHANGED <<tables, lockwait, llt, req>>
            \/ req' = [req EXCEPT ![u] = [op |-> "abort"]] /\ UNCHANGED <<tables, lockwait, llt, stuck>>
            \/ StartWait(u, r, OnCell(c)) /\ UNCHANGED stuck
      BY <1>5 DEF LockBlocked, Deciding, Matching, Seen, Chain
    <2>2. UNCHANGED <<txn, nextTxn, rebuild>>
      BY <1>5 DEF LockBlocked
    <2>3. OnCell(c) \in Wait
      BY WaitFacts
    <2>4. CASE StartWait(u, r, OnCell(c)) /\ UNCHANGED stuck
      BY <1>1, <2>2, <2>3, <2>4, StartWaitTyped, KeptShape DEF RestOK, TypeOK
    <2>5. CASE stuck' \in BOOLEAN /\ UNCHANGED <<tables, lockwait, llt, req>>
      BY <2>2, <2>5, KeptShape DEF RestOK, TypeOK, tables
    <2>6. CASE req' = [req EXCEPT ![u] = [op |-> "abort"]] /\ UNCHANGED <<tables, lockwait, llt, stuck>>
      BY <2>2, <2>6, RequestFacts, KeptShape DEF RestOK, TypeOK, tables
    <2> QED BY <2>1, <2>4, <2>5, <2>6
  <1>6. CASE LockNew(u, fv, id, upd)
    <2>1. /\ count' = [count EXCEPT ![HashOf[k]] = @ + 1]
          /\ lockCount' = [lockCount EXCEPT ![FileOf[fv]] = @ + 1]
          /\ llt' = [llt EXCEPT ![u][k] = <<fv>> \o @]
          /\ Done(u)
          /\ UNCHANGED <<fileLock, txn, nextTxn, rebuild, stuck>>
      BY <1>6 DEF LockNew
    <2>2. CountsShape
      BY <2>1 DEF CountsShape, TypeOK
    <2>3. llt[u] \in [Key -> Seq(Fvar)] /\ llt[u][k] \in Seq(Fvar) /\ <<fv>> \in Seq(Fvar)
      BY <1>1 DEF TypeOK
    <2>4. <<fv>> \o llt[u][k] \in Seq(Fvar)
      BY <2>3, ConcatProperties
    <2>5. [llt[u] EXCEPT ![k] = <<fv>> \o @] \in [Key -> Seq(Fvar)]
      BY <2>3, <2>4
    <2>6. llt' \in [User -> [Key -> Seq(Fvar)]]
      BY <2>1, <2>5 DEF TypeOK
    <2> QED BY <1>3, <2>1, <2>2, <2>6 DEF RestOK, TypeOK
  <1>7. CASE LockTableFull(u, fv, id, upd)
    <2>1. /\ req' = [req EXCEPT ![u] = r]
          /\ lockwait' = [lockwait EXCEPT ![u] = NotWaiting]
          /\ UNCHANGED <<count, lockCount, fileLock, llt, txn, nextTxn, rebuild, stuck>>
      BY <1>7 DEF LockTableFull, tables
    <2> QED BY <1>1, <2>1, WaitFacts, KeptShape DEF RestOK, TypeOK
  <1> QED BY <1>2, <1>4, <1>5, <1>6, <1>7 DEF LockRecord

\* What the file lock operations store is a file table entry.
LEMMA FileEntryFacts ==
  ASSUME TypeOK, NEW u \in User, NEW f \in File, NEW b \in BOOLEAN, NEW n \in Nat
  PROVE  /\ [fileLock EXCEPT ![f].txn = n] \in [File -> FileEntry]
         /\ [fileLock EXCEPT ![f].owner = u, ![f].clearing = b] \in [File -> FileEntry]
  <1> DEFINE e == fileLock[f]
  <1>1. e \in FileEntry
    BY DEF TypeOK
  <1>2. [e EXCEPT !.txn = n] \in FileEntry
    BY <1>1 DEF FileEntry
  <1>3. [e EXCEPT !.owner = u, !.clearing = b] \in FileEntry
    BY <1>1 DEF FileEntry
  <1>4. [fileLock EXCEPT ![f].txn = n] = [fileLock EXCEPT ![f] = [e EXCEPT !.txn = n]]
    BY DEF TypeOK
  <1>5. [fileLock EXCEPT ![f].owner = u, ![f].clearing = b]
          = [fileLock EXCEPT ![f] = [e EXCEPT !.owner = u, !.clearing = b]]
    BY DEF TypeOK
  <1> HIDE DEF e
  <1> QED BY <1>2, <1>3, <1>4, <1>5 DEF TypeOK

LEMMA FileStepTyped ==
  ASSUME TypeOK, NEW u \in User, NEW fv \in Fvar,
         \/ FileLock(u, fv) \/ FileUnlockCheck(u, fv) \/ ClearBegin(u, fv)
  PROVE  CountsShape /\ RestOK'
  <1>1. FileOf[fv] \in File
    BY RecordLocksAssumption
  <1>2. CASE FileLock(u, fv)
    <2>1. fileLock' \in [File -> FileEntry]
      <3> DEFINE new == [owner |-> u, clearing |-> FALSE, fvar |-> fv, txn |-> txn[u]]
      <3>1. new \in FileEntry /\ txn[u] \in Nat
        BY DEF FileEntry, TypeOK
      <3>2. \/ fileLock' = [fileLock EXCEPT ![FileOf[fv]].txn = txn[u]]
            \/ fileLock' = [fileLock EXCEPT ![FileOf[fv]] = new]
            \/ UNCHANGED fileLock
        BY <1>2 DEF FileLock
      <3>3. [fileLock EXCEPT ![FileOf[fv]].txn = txn[u]] \in [File -> FileEntry]
        BY <1>1, <3>1, FileEntryFacts
      <3> HIDE DEF new
      <3>4. [fileLock EXCEPT ![FileOf[fv]] = new] \in [File -> FileEntry]
        BY <1>1, <3>1 DEF TypeOK
      <3> QED BY <3>2, <3>3, <3>4 DEF TypeOK
    <2>2. lockwait' \in [User -> Wait] /\ req' \in [User -> Request]
      BY <1>1, <1>2, WaitFacts, RequestFacts DEF FileLock, Done, TypeOK
    <2>3. UNCHANGED <<count, lockCount, llt, txn, nextTxn, rebuild, stuck>>
      BY <1>2 DEF FileLock
    <2> QED BY <2>1, <2>2, <2>3, KeptShape DEF RestOK, TypeOK
  <1>3. CASE FileUnlockCheck(u, fv)
    <2>1. req' \in [User -> Request]
      BY <1>3, RequestFacts DEF FileUnlockCheck, TypeOK
    <2> QED BY <1>3, <2>1, KeptShape DEF FileUnlockCheck, RestOK, TypeOK, tables
  <1>4. CASE ClearBegin(u, fv)
    <2>1. fileLock' \in [File -> FileEntry]
      BY <1>1, <1>4, FileEntryFacts DEF ClearBegin
    <2>2. req' \in [User -> Request]
      BY <1>4, RequestFacts DEF ClearBegin, TypeOK
    <2>3. UNCHANGED <<count, lockCount, lockwait, llt, txn, nextTxn, rebuild, stuck>>
      BY <1>4 DEF ClearBegin
    <2> QED BY <2>1, <2>2, <2>3, KeptShape DEF RestOK, TypeOK
  <1> QED BY <1>2, <1>3, <1>4

LEMMA EndFileStepTyped ==
  ASSUME TypeOK, NEW u \in User, FileUnlock(u) \/ ClearEnd(u)
  PROVE  CountsShape /\ RestOK'
  <1>1. req' \in [User -> Request] /\ UNCHANGED <<llt, txn, nextTxn, rebuild, stuck>>
    BY RequestFacts DEF FileUnlock, ClearEnd, TypeOK
  <1>2. CASE \E G : Release({}, G)
    BY <1>1, <1>2, ReleaseTyped DEF RestOK, TypeOK
  <1>3. CASE ClearEnd(u) /\ ~req[u].took
    <2>1. FileOf[req[u].fvar] \in File
      BY <1>3, OnFileVarFacts, RecordLocksAssumption DEF ClearEnd, TypeOK
    <2>2. fileLock' = [fileLock EXCEPT ![FileOf[req[u].fvar]].owner = u,
                                       ![FileOf[req[u].fvar]].clearing = FALSE]
      BY <1>3 DEF ClearEnd
    <2>3. fileLock' \in [File -> FileEntry]
      <3> DEFINE f == FileOf[req[u].fvar]
      <3>1. f \in File
        BY <2>1
      <3>2. fileLock' = [fileLock EXCEPT ![f].owner = u, ![f].clearing = FALSE]
        BY <2>2
      <3> HIDE DEF f
      <3> QED BY <3>1, <3>2, FileEntryFacts
    <2>4. UNCHANGED <<count, lockCount, lockwait>>
      BY <1>3 DEF ClearEnd
    <2> QED BY <1>1, <2>3, <2>4, KeptShape DEF RestOK, TypeOK
  <1> QED BY <1>2, <1>3 DEF FileUnlock, ClearEnd

LEMMA LeaveTyped ==
  ASSUME TypeOK, NEW u \in User,
         \/ \E how \in {"abort", "stop"} : Leave(u, how)
         \/ Quit(u) \/ Die(u) \/ ClearLockwait(u)
         \/ \E fv \in Fvar : Close(u, fv)
  PROVE  CountsShape /\ RestOK'
  <1>1. req' \in [User -> Request]
    <2>1. \E r \in Request : req' = [req EXCEPT ![u] = r]
      BY RequestFacts DEF Leave, Quit, Die, ClearLockwait, Close
    <2> QED BY <2>1 DEF TypeOK
  <1>2. lockwait' \in [User -> Wait]
    BY WaitFacts DEF Leave, Quit, Die, ClearLockwait, Close, TypeOK
  <1>3. UNCHANGED <<count, lockCount, fileLock, llt, txn, nextTxn, rebuild, stuck>>
    BY DEF Leave, Quit, Die, ClearLockwait, Close, tables
  <1> QED BY <1>1, <1>2, <1>3, KeptShape DEF RestOK, TypeOK

LEMMA CloseStepTyped ==
  ASSUME TypeOK, NEW u \in User,
         CloseFileLock(u) \/ \E fv \in Fvar : CloseCheck(u, fv) \/ CloseFvar(u, fv)
  PROVE  CountsShape /\ RestOK'
  <1> DEFINE r == req[u]
  <1>1. r \in Request /\ r.op = "closing"
    BY DEF TypeOK, CloseFileLock, CloseCheck, CloseFvar
  <1>2. /\ r = Closing(r.fvars, r.flock, r.next)
        /\ r.fvars \in SUBSET Fvar
        /\ r.flock \in Fvar \cup {None}
        /\ r.next \in {"idle", "prompt"}
    BY <1>1, ClosingFacts
  <1>3. \A x : [r EXCEPT !.flock = x] = Closing(r.fvars, x, r.next)
    BY <1>2 DEF Closing
  <1>4. \A S : [r EXCEPT !.fvars = S] = Closing(S, r.flock, r.next)
    BY <1>2 DEF Closing
  <1>5. CASE CloseFileLock(u)
    <2>1. req' = [req EXCEPT ![u] = [r EXCEPT !.flock = None]]
      BY <1>5 DEF CloseFileLock, TypeOK
    <2>2. [r EXCEPT !.flock = None] \in Request
      BY <1>2, <1>3, RequestFacts
    <2>3. req' \in [User -> Request]
      BY <2>1, <2>2 DEF TypeOK
    <2>4. PICK G : Release({}, G)
      BY <1>5 DEF CloseFileLock
    <2>5. UNCHANGED <<llt, txn, nextTxn, rebuild, stuck>>
      BY <1>5 DEF CloseFileLock
    <2> QED BY <2>3, <2>4, <2>5, ReleaseTyped DEF RestOK, TypeOK
  <1>6. ASSUME NEW fv \in Fvar, CloseCheck(u, fv) PROVE CountsShape /\ RestOK'
    <2>1. req' = [req EXCEPT ![u] = [r EXCEPT !.flock = fv]]
      BY <1>6 DEF CloseCheck, TypeOK
    <2>2. [r EXCEPT !.flock = fv] \in Request
      BY <1>2, <1>3, RequestFacts
    <2>3. req' \in [User -> Request]
      BY <2>1, <2>2 DEF TypeOK
    <2>4. UNCHANGED <<count, lockCount, fileLock, lockwait, llt, txn, nextTxn,
                      rebuild, stuck>>
      BY <1>6 DEF CloseCheck, tables
    <2> QED BY <2>3, <2>4, KeptShape DEF RestOK, TypeOK
  <1>7. ASSUME NEW fv \in Fvar, CloseFvar(u, fv) PROVE CountsShape /\ RestOK'
    <2>1. req' = [req EXCEPT ![u] = IF r.fvars = {fv} THEN [op |-> r.next]
                                    ELSE [r EXCEPT !.fvars = r.fvars \ {fv}]]
      BY <1>7 DEF CloseFvar
    <2>2. [r EXCEPT !.fvars = r.fvars \ {fv}] \in Request
      <3>1. r.fvars \ {fv} \in SUBSET Fvar
        BY <1>2
      <3> QED BY <1>2, <1>4, <3>1, RequestFacts
    <2>3. [op |-> r.next] \in Request
      BY <1>2, RequestFacts
    <2>4. req' \in [User -> Request]
      BY <2>1, <2>2, <2>3 DEF TypeOK
    <2>5. \E K, F : UnlockKeys(u, K, F)
      BY <1>7 DEF CloseFvar, UnlockFvar
    <2>6. UNCHANGED <<txn, nextTxn, rebuild, stuck>>
      BY <1>7 DEF CloseFvar
    <2> QED BY <2>4, <2>5, <2>6, UnlockKeysTyped DEF RestOK, TypeOK
  <1> QED BY <1>5, <1>6, <1>7

LEMMA ReleaseStepTyped ==
  ASSUME TypeOK, NEW u \in User,
         \/ \E fv \in Fvar, id \in Id : ReleaseRecord(u, fv, id)
         \/ \E fv \in Fvar : ReleaseFile(u, fv)
         \/ ReleaseAll(u)
  PROVE  CountsShape /\ RestOK'
  <1>1. \E K, F : UnlockKeys(u, K, F)
    BY DEF ReleaseRecord, ReleaseFile, ReleaseAll, UnlockFvar
  <1>2. UNCHANGED <<req, txn, nextTxn, rebuild, stuck>>
    BY DEF ReleaseRecord, ReleaseFile, ReleaseAll
  <1> QED BY <1>1, <1>2, UnlockKeysTyped DEF RestOK, TypeOK

LEMMA TxnStepTyped ==
  ASSUME TypeOK, NEW u \in User, TxnBegin(u) \/ TxnEnd(u) \/ Rollback(u)
  PROVE  CountsShape /\ RestOK'
  <1>1. CASE TxnBegin(u)
    <2>1. txn' \in [User -> Nat] /\ nextTxn' \in Nat
      BY <1>1 DEF TxnBegin, TypeOK
    <2> QED BY <1>1, <2>1, KeptShape DEF TxnBegin, RestOK, TypeOK, tables
  <1>2. CASE TxnEnd(u)
    BY <1>2, UnlockTxnTyped DEF TxnEnd, RestOK, TypeOK
  <1>3. CASE Rollback(u)
    <2>1. req' \in [User -> Request]
      <3>1. \E r \in Request : req' = [req EXCEPT ![u] = r]
        BY <1>3, RequestFacts DEF Rollback
      <3> QED BY <3>1 DEF TypeOK
    <2>2. UNCHANGED <<nextTxn, rebuild, stuck>>
      BY <1>3 DEF Rollback
    <2>3. CASE UnlockTxn(u)
      BY <2>1, <2>2, <2>3, UnlockTxnTyped DEF RestOK, TypeOK
    <2>4. CASE UNCHANGED <<tables, lockwait, llt, txn>>
      BY <2>1, <2>2, <2>4, KeptShape DEF RestOK, TypeOK, tables
    <2> QED BY <1>3, <2>3, <2>4 DEF Rollback
  <1> QED BY <1>1, <1>2, <1>3

LEMMA RebuildTyped ==
  ASSUME TypeOK, NEW u \in User, RebuildLLT(u)
  PROVE  CountsShape /\ RestOK'
  <1> DEFINE own(k) == {c \in CellsOf(u) : cell[c].key = k}
             new == [k \in Key |-> IF own(k) = {} THEN <<>>
                                   ELSE <<cell[CHOOSE c \in own(k) : TRUE].fvar>>]
  <1>1. ASSUME NEW k \in Key, own(k) # {}
        PROVE  cell[CHOOSE c \in own(k) : TRUE].fvar \in Fvar
    <2>1. PICK c \in own(k) : c = CHOOSE d \in own(k) : TRUE
      BY <1>1
    <2>2. cell[c] \in LockEntry
      BY <2>1, UsedIsEntry DEF CellsOf, TypeOK, CellsOK
    <2>3. cell[c].fvar \in Fvar
      BY <2>2 DEF LockEntry
    <2> QED BY <2>1, <2>3
  <1>2. \A k \in Key : new[k] \in Seq(Fvar)
    <2> HIDE DEF own
    <2>1. <<>> \in Seq(Fvar) /\ \A x \in Fvar : <<x>> \in Seq(Fvar)
      OBVIOUS
    <2> QED BY <1>1, <2>1
  <1>3. new \in [Key -> Seq(Fvar)]
    BY <1>2
  <1>4. llt' = [llt EXCEPT ![u] = new]
    BY DEF RebuildLLT
  <1> HIDE DEF new
  <1>5. llt' \in [User -> [Key -> Seq(Fvar)]]
    BY <1>3, <1>4 DEF TypeOK
  <1> QED BY <1>5, KeptShape DEF RebuildLLT, RestOK, TypeOK, tables

LEMMA CleanUpTyped ==
  ASSUME TypeOK, NEW u \in User, CleanUp(u)
  PROVE  CountsShape /\ RestOK'
  <1>1. PICK R, F :
          /\ Free(R)
          /\ fileLock' = [f \in File |->
               IF f \in F THEN [fileLock[f] EXCEPT !.owner = None, !.clearing = FALSE]
               ELSE fileLock[f]]
          /\ lockwait' = [WakeAll(R, F) EXCEPT ![u] = NotWaiting]
    BY DEF CleanUp
  <1>2. fileLock' \in [File -> FileEntry]
    BY <1>1 DEF TypeOK, FileEntry
  <1>3. lockwait' \in [User -> Wait]
    BY <1>1, WaitFacts DEF WakeAll, TypeOK
  <1>4. llt' \in [User -> [Key -> Seq(Fvar)]]
    <2>1. [k \in Key |-> <<>>] \in [Key -> Seq(Fvar)]
      OBVIOUS
    <2> QED BY <2>1 DEF CleanUp, TypeOK
  <1>5. /\ req' \in [User -> Request] /\ txn' \in [User -> Nat]
        /\ rebuild' \subseteq User /\ UNCHANGED <<nextTxn, stuck>>
    BY RequestFacts DEF CleanUp, TypeOK
  <1> QED BY <1>1, <1>2, <1>3, <1>4, <1>5, FreeShape DEF RestOK, TypeOK

LEMMA AdminStepTyped ==
  ASSUME TypeOK, AdminStep
  PROVE  CountsShape /\ RestOK'
  <1>1. ASSUME NEW F, NEW U, NEW I, AdminUnlock(F, U, I) PROVE CountsShape /\ RestOK'
    <2>1. PICK R : /\ R = {c \in Cell : /\ Used(c) /\ cell[c].owner \in U
                                        /\ cell[c].key \in F \X I}
                   /\ Release(R, {})
                   /\ rebuild' = rebuild \cup {cell[c].owner : c \in R}
      BY <1>1 DEF AdminUnlock
    <2>2. \A c \in R : cell[c].owner \in User
      BY <2>1, UsedIsEntry DEF LockEntry, TypeOK, CellsOK
    <2>3. rebuild' \subseteq User
      BY <2>1, <2>2 DEF TypeOK
    <2> QED BY <1>1, <2>1, <2>3, ReleaseTyped DEF AdminUnlock, RestOK, TypeOK
  <1>2. ASSUME NEW F, NEW U, AdminUnlockFile(F, U) PROVE CountsShape /\ RestOK'
    <2>1. PICK G : Release({}, G)
      BY <1>2 DEF AdminUnlockFile
    <2> QED BY <1>2, <2>1, ReleaseTyped DEF AdminUnlockFile, RestOK, TypeOK
  <1> QED BY <1>1, <1>2 DEF AdminStep

LEMMA StepKeepsTypes ==
  ASSUME TypeOK, TableInv, Next
  PROVE  TypeOK'
  <1>1. TableInv'
    BY StepKeepsTables
  <1>2. CountsShape /\ RestOK'
    BY LockRecordTyped, FileStepTyped, EndFileStepTyped, LeaveTyped, CloseStepTyped,
       ReleaseStepTyped, TxnStepTyped, RebuildTyped, CleanUpTyped, AdminStepTyped
    DEF Next, UserStep
  <1>3. count' \in [Cell -> Nat] /\ lockCount' \in [File -> Nat]
    BY <1>1, <1>2, CountsTyped DEF TableInv
  <1> QED BY <1>1, <1>2, <1>3 DEF TypeOK, RestOK, TableInv, CellsOK

-----------------------------------------------------------------------------
(* The theorems *)

IInv == TypeOK /\ TableInv

LEMMA InitIInv ==
  ASSUME Init
  PROVE  IInv
  <1>1. TypeOK
    <2>1. cell \in [Cell -> LockEntry \cup {FreeCell}]
      BY DEF Init
    <2>2. count \in [Cell -> Nat] /\ lockCount \in [File -> Nat] /\ txn \in [User -> Nat]
      BY DEF Init
    <2>3. fileLock \in [File -> FileEntry]
      BY DEF Init, FileEntry
    <2>4. lockwait \in [User -> Wait] /\ req \in [User -> Request]
      BY WaitFacts, RequestFacts DEF Init
    <2>5. llt \in [User -> [Key -> Seq(Fvar)]]
      <3>1. [k \in Key |-> <<>>] \in [Key -> Seq(Fvar)]
        OBVIOUS
      <3> QED BY <3>1 DEF Init
    <2>6. nextTxn \in Nat /\ rebuild \subseteq User /\ stuck \in BOOLEAN
      BY DEF Init
    <2> QED BY <2>1, <2>2, <2>3, <2>4, <2>5, <2>6 DEF TypeOK
  <1>2. \A c \in Cell : ~Used(c)
    BY DEF Init, Used
  <1>3. CountsExact
    <2>1. \A i \in Cell : Chain(i) = {}
      BY <1>2 DEF Chain
    <2>2. \A f \in File : {c \in Cell : Used(c) /\ cell[c].key[1] = f} = {}
      BY <1>2
    <2>3. Cardinality({}) = 0
      BY FS_EmptySet
    <2>4. /\ \A i \in Cell : count[i] = 0
          /\ \A f \in File : lockCount[f] = 0
      BY DEF Init
    <2> QED BY <2>1, <2>2, <2>3, <2>4 DEF CountsExact
  <1>4. WaitersCover
    <2>1. \A c \in Cell : Pointing(OnCell(c)) = {}
      BY WaitFacts DEF Pointing, Init
    <2> QED BY <2>1 DEF WaitersCover
  <1>5. RecordExclusion
    BY <1>2 DEF RecordExclusion
  <1> QED BY <1>1, <1>3, <1>4, <1>5 DEF IInv, TableInv, CellsOK, TypeOK

LEMMA NextIInv ==
  ASSUME IInv, [Next]_vars
  PROVE  IInv'
  <1>1. CASE Next
    BY <1>1, StepKeepsTypes, StepKeepsTables DEF IInv
  <1>2. CASE UNCHANGED vars
    <2>1. TypeOK'
      BY <1>2 DEF vars, tables, IInv, TypeOK
    <2>2. TableInv'
      BY <1>2, QuietKeeps DEF vars, tables, IInv
    <2> QED BY <2>1, <2>2 DEF IInv
  <1> QED BY <1>1, <1>2

\* The invariant is inductive.
LEMMA Invariance == Spec => []IInv
  <1>1. Init => IInv
    BY InitIInv
  <1>2. IInv /\ [Next]_vars => IInv'
    BY NextIInv
  <1> QED BY <1>1, <1>2, PTL DEF Spec

\* Every variable keeps its type: in particular no counter becomes negative.
THEOREM TypeCorrect == Spec => []TypeOK
  <1>1. IInv => TypeOK
    BY DEF IInv
  <1> QED BY <1>1, Invariance, PTL

\* However many users, records and cells there are, the early end of every
\* scan is harmless: two locks on one record are shared locks of two users.
THEOREM Exclusion == Spec => []RecordExclusion
  <1>1. IInv => RecordExclusion
    BY DEF IInv, TableInv
  <1> QED BY <1>1, Invariance, PTL

\* The counts on which lock_record(), unlock_id() and op_filelock() rely are
\* exact after any sequence of locks, releases, aborts and clean-ups.
THEOREM ExactCounts == Spec => []CountsExact
  <1>1. IInv => CountsExact
    BY DEF IInv, TableInv
  <1> QED BY <1>1, Invariance, PTL

\* No process is left waiting for a lock that is gone, or for one that has
\* taken its cell: no wake-up is lost.
THEOREM NoLostWakeup == Spec => []WaitersCover
  <1>1. IInv => WaitersCover
    BY DEF IInv, TableInv
  <1> QED BY <1>1, Invariance, PTL

-----------------------------------------------------------------------------
(* Deadlock detection.  The invariant says of sets what WaitsAcyclic says   *)
(* of paths: every set of users has one that waits for nobody of the set.   *)

\* A set of numbers that is not empty has a least one.
LEMMA LeastNat ==
  ASSUME NEW I \in SUBSET Nat, I # {}
  PROVE  \E i \in I : \A j \in I : i <= j
  <1>1. PICK i \in I : \A j \in I : <<j, i>> \notin OpToRel(<, Nat)
    BY NatLessThanWellFounded, WFMin
  <1>2. \A j \in I : i <= j
    <2> SUFFICES ASSUME NEW j \in I, j < i PROVE FALSE
      OBVIOUS
    <2>1. <<j, i>> \in Nat \X Nat /\ <<j, i>>[1] = j /\ <<j, i>>[2] = i
      OBVIOUS
    <2>2. <<j, i>> \in OpToRel(<, Nat)
      BY <2>1 DEF OpToRel
    <2> QED BY <1>1, <2>2
  <1> QED BY <1>2

\* What holds of zero and passes on from each number to the next holds of all.
LEMMA NatSteps ==
  ASSUME NEW I \in SUBSET Nat, 0 \in I, \A n \in Nat : n \in I => n + 1 \in I
  PROVE  I = Nat
  <1> SUFFICES ASSUME Nat \ I # {} PROVE FALSE
    OBVIOUS
  <1>1. PICK i \in Nat \ I : \A j \in Nat \ I : i <= j
    BY LeastNat
  <1>2. i # 0 /\ i - 1 \in Nat /\ ~(i <= i - 1)
    BY <1>1
  <1>3. i - 1 \in I /\ (i - 1) + 1 = i
    BY <1>1, <1>2
  <1> QED BY <1>1, <1>2, <1>3

\* A function can be iterated any number of times.
Iterates(h, v, n, f) == f[0] = v /\ \A i \in 1..n : f[i] = h[f[i - 1]]

LEMMA Iteration ==
  ASSUME NEW D, NEW h \in [D -> D], NEW v \in D, NEW n \in Nat
  PROVE  \E f \in [0..n -> D] : Iterates(h, v, n, f)
  <1> DEFINE I == {m \in Nat : \E f \in [0..m -> D] : Iterates(h, v, m, f)}
  <1>1. 0 \in I
    <2>1. [i \in 0..0 |-> v] \in [0..0 -> D] /\ Iterates(h, v, 0, [i \in 0..0 |-> v])
      BY DEF Iterates
    <2> QED BY <2>1
  <1>2. ASSUME NEW m \in Nat, m \in I PROVE m + 1 \in I
    <2>1. PICK f \in [0..m -> D] : Iterates(h, v, m, f)
      BY <1>2
    <2>2. PICK g : g = [i \in 0..m + 1 |-> IF i = m + 1 THEN h[f[m]] ELSE f[i]]
      OBVIOUS
    <2>3. g \in [0..m + 1 -> D]
      BY <2>1, <2>2
    <2>4. g[0] = v
      BY <2>1, <2>2 DEF Iterates
    <2>5. ASSUME NEW i \in 1..m + 1 PROVE g[i] = h[g[i - 1]]
      <3>1. CASE i = m + 1
        BY <2>2, <3>1
      <3>2. CASE i # m + 1
        <4>1. i \in 1..m /\ i - 1 \in 0..m /\ i - 1 # m + 1
          BY <3>2
        <4> QED BY <2>1, <2>2, <4>1 DEF Iterates
      <3> QED BY <3>1, <3>2
    <2> QED BY <2>3, <2>4, <2>5 DEF Iterates
  <1> HIDE DEF I
  <1>3. I = Nat
    <2>1. I \in SUBSET Nat
      BY DEF I
    <2> QED BY <1>1, <1>2, <2>1, NatSteps
  <1> QED BY <1>3 DEF I

-----------------------------------------------------------------------------
(* The walk along the waits *)

\* The waits of lock_record() only: no command that waits for a file is used.
RecordWaits == Ops \cap {"filelock", "clear"} = {}

NoFileWaits ==
  /\ \A f \in File : fileLock[f].owner = None
  /\ \A u \in User : lockwait[u].kind # "file" /\ req[u].op # "clear"

\* u is recorded as waiting for a lock of v.
WaitsOn(u, v) == \E c \in Cell : lockwait[u] = OnCell(c) /\ cell[c].owner = v

\* No users wait in a circle, said of sets: in each some user waits for nobody
\* of the set.
Acyclic ==
  \A S \in SUBSET User : S # {} => \E u \in S : \A v \in S : ~WaitsOn(u, v)

WaitInv == NoFileWaits /\ Acyclic

MaxWalk == Cardinality(User)
Onward(u) == IF u = None \/ lockwait[u] = NotWaiting THEN None ELSE Blocker(u)

\* A user that waits, waits for one user, to whom the walk goes on.
LEMMA OnwardFacts ==
  ASSUME IInv, NoFileWaits
  PROVE  /\ Onward(None) = None
         /\ \A u \in User : \/ Onward(u) = None /\ \A v : ~WaitsOn(u, v)
                            \/ Onward(u) \in User /\ \A v : WaitsOn(u, v) <=> v = Onward(u)
         /\ \A u \in User : lockwait[u] # NotWaiting => Onward(u) \in User
  <1>1. Onward(None) = None
    BY DEF Onward
  <1>2. ASSUME NEW u \in User, lockwait[u] = NotWaiting
        PROVE  Onward(u) = None /\ \A v : ~WaitsOn(u, v)
    BY <1>2, WaitFacts DEF Onward, WaitsOn
  <1>3. ASSUME NEW u \in User, lockwait[u] # NotWaiting
        PROVE  Onward(u) \in User /\ \A v : WaitsOn(u, v) <=> v = Onward(u)
    <2>1. lockwait[u] \in Wait
      BY DEF IInv, TypeOK
    <2>2. lockwait[u].kind = "record"
      <3>1. \A w \in Wait : w = NotWaiting \/ w.kind = "record" \/ w.kind = "file"
        BY WaitFacts DEF Wait, OnCell, OnFile
      <3> QED BY <1>3, <2>1, <3>1 DEF NoFileWaits
    <2>3. PICK c \in Cell : lockwait[u] = OnCell(c)
      BY <2>1, <2>2, WaitFacts
    <2>4. Used(c)
      BY <2>3 DEF IInv, TableInv, WaitersCover, Pointing
    <2>5. cell[c] \in LockEntry
      BY <2>4, UsedIsEntry DEF IInv, TableInv
    <2>6. cell[c].owner \in User
      BY <2>5 DEF LockEntry
    <2>7. u # None
      BY RecordLocksAssumption
    <2>8. Onward(u) = cell[c].owner
      BY <1>3, <2>2, <2>3, <2>7, WaitFacts DEF Onward, Blocker
    <2>9. \A d \in Cell : lockwait[u] = OnCell(d) <=> d = c
      BY <2>3, WaitFacts
    <2> QED BY <2>6, <2>8, <2>9 DEF WaitsOn
  <1> QED BY <1>1, <1>2, <1>3

\* The trail is what its recursive definition says it is.
LEMMA TrailFacts ==
  ASSUME IInv, NoFileWaits, NEW v \in User
  PROVE  /\ MaxWalk \in Nat
         /\ \A n \in 0..MaxWalk : Trail(v)[n] \in User \cup {None}
         /\ Trail(v)[0] = v
         /\ \A n \in 1..MaxWalk : Trail(v)[n] = Onward(Trail(v)[n - 1])
  <1> DEFINE D == User \cup {None}
  <1>1. MaxWalk \in Nat
    BY UsersFinite DEF MaxWalk
  <1>2. PICK h \in [D -> D] : \A x \in D : h[x] = Onward(x)
    <2>1. \A x \in D : Onward(x) \in D
      BY OnwardFacts
    <2>2. [x \in D |-> Onward(x)] \in [D -> D]
      BY <2>1
    <2> QED BY <2>2
  <1>3. PICK f \in [0..MaxWalk -> D] : Iterates(h, v, MaxWalk, f)
    BY <1>1, <1>2, Iteration
  <1>4. f[0] = v /\ \A n \in 1..MaxWalk : f[n] = Onward(f[n - 1])
    <2>1. \A n \in 1..MaxWalk : n - 1 \in 0..MaxWalk
      BY <1>1
    <2> QED BY <1>2, <1>3, <2>1 DEF Iterates
  <1> DEFINE W(g) == [n \in 0..MaxWalk |-> IF n = 0 THEN v
                        ELSE IF g[n - 1] = None \/ lockwait[g[n - 1]] = NotWaiting
                             THEN None ELSE Blocker(g[n - 1])]
  <1>5. f = W(f)
    <2>1. ASSUME NEW n \in 0..MaxWalk PROVE f[n] = W(f)[n]
      <3>1. CASE n = 0
        BY <1>4, <3>1
      <3>2. CASE n # 0
        <4>1. n \in 1..MaxWalk
          BY <1>1, <3>2
        <4> QED BY <1>4, <3>2, <4>1 DEF Onward
      <3> QED BY <3>1, <3>2
    <2> QED BY <1>3, <2>1
  <1>6. Trail(v) = CHOOSE g : g = W(g)
    BY DEF Trail, MaxWalk
  <1>7. PICK t : t = Trail(v)
    OBVIOUS
  <1>8. t = W(t)
    <2> HIDE DEF W
    <2> QED BY <1>5, <1>6, <1>7, Zenon
  <1>9. t[0] = v /\ \A n \in 1..MaxWalk : t[n] = Onward(t[n - 1])
    <2>1. t[0] = v
      BY <1>1, <1>8
    <2>2. ASSUME NEW n \in 1..MaxWalk PROVE t[n] = Onward(t[n - 1])
      <3>1. n \in 0..MaxWalk /\ n # 0
        BY <1>1
      <3> QED BY <1>8, <3>1 DEF Onward
    <2> QED BY <2>1, <2>2
  <1>10. \A n \in 0..MaxWalk : t[n] \in D
    <2> DEFINE I == {n \in Nat : n \in 0..MaxWalk => t[n] \in D}
    <2>1. 0 \in I
      BY <1>9
    <2>2. ASSUME NEW n \in Nat, n \in I PROVE n + 1 \in I
      <3>1. CASE n + 1 \in 0..MaxWalk
        <4>1. n \in 0..MaxWalk /\ n + 1 \in 1..MaxWalk /\ (n + 1) - 1 = n
          BY <1>1, <3>1
        <4>2. t[n] \in D /\ t[n + 1] = Onward(t[n])
          BY <1>9, <2>2, <4>1
        <4> QED BY <4>2, OnwardFacts
      <3>2. CASE n + 1 \notin 0..MaxWalk
        BY <3>2
      <3> QED BY <3>1, <3>2
    <2> HIDE DEF I
    <2>3. I = Nat
      <3>1. I \in SUBSET Nat
        BY DEF I
      <3> QED BY <2>1, <2>2, <3>1, NatSteps
    <2> QED BY <1>1, <2>3 DEF I
  <1> QED BY <1>1, <1>7, <1>9, <1>10

\* A set of users each of whom waits for one of the set, seen from a user whose
\* walk comes back.
LEMMA ReturningWalk ==
  ASSUME IInv, WaitInv, NEW u \in User,
         NEW i \in 0..MaxWalk, NEW j \in 0..MaxWalk, i < j, Trail(u)[i] = Trail(u)[j], Trail(u)[j] # None
  PROVE  FALSE
  <1> DEFINE t == Trail(u)
             S == {t[m] : m \in i..j - 1}
  <1>1. PICK s : s = t
    OBVIOUS
  <1>2. /\ MaxWalk \in Nat /\ \A m \in 0..MaxWalk : s[m] \in User \cup {None}
        /\ \A m \in 1..MaxWalk : s[m] = Onward(s[m - 1])
    BY <1>1, TrailFacts DEF WaitInv
  <1>3. ASSUME NEW m \in 0..MaxWalk, s[m] = None, NEW n \in Nat
        PROVE  m + n \in 0..MaxWalk => s[m + n] = None
    <2> DEFINE I == {k \in Nat : m + k \in 0..MaxWalk => s[m + k] = None}
    <2>1. 0 \in I
      BY <1>2, <1>3
    <2>2. ASSUME NEW k \in Nat, k \in I PROVE k + 1 \in I
      <3>1. CASE m + (k + 1) \in 0..MaxWalk
        <4>1. m + k \in 0..MaxWalk /\ m + (k + 1) \in 1..MaxWalk /\ (m + (k + 1)) - 1 = m + k
          BY <1>2, <3>1
        <4>2. s[m + k] = None /\ s[m + (k + 1)] = Onward(s[m + k])
          BY <1>2, <2>2, <4>1
        <4> QED BY <4>2, OnwardFacts DEF WaitInv
      <3>2. CASE m + (k + 1) \notin 0..MaxWalk
        BY <3>2
      <3> QED BY <3>1, <3>2
    <2> HIDE DEF I
    <2>3. I = Nat
      <3>1. I \in SUBSET Nat
        BY DEF I
      <3> QED BY <2>1, <2>2, <3>1, NatSteps
    <2> QED BY <2>3 DEF I
  <1>4. ASSUME NEW m \in i..j - 1 PROVE s[m] \in User
    <2>1. m \in 0..MaxWalk /\ j - m \in Nat /\ m + (j - m) = j
      BY <1>2
    <2>2. s[m] # None
      BY <1>1, <1>3, <2>1
    <2> QED BY <1>2, <2>1, <2>2
  <1>5. ASSUME NEW m \in i..j - 1
        PROVE  \E n \in i..j - 1 : WaitsOn(s[m], s[n])
    <2>1. m + 1 \in 1..MaxWalk /\ (m + 1) - 1 = m /\ m + 1 \in i..j /\ i \in i..j - 1 /\ m + 1 \in 0..MaxWalk
      BY <1>2
    <2>2. s[m + 1] = Onward(s[m])
      BY <1>2, <2>1
    <2>3. s[m + 1] # None
      <3>1. j - (m + 1) \in Nat /\ (m + 1) + (j - (m + 1)) = j
        BY <1>2
      <3> QED BY <1>1, <1>3, <2>1, <3>1
    <2>4. WaitsOn(s[m], s[m + 1])
      BY <1>4, <2>2, <2>3, OnwardFacts DEF WaitInv
    <2>5. CASE m + 1 = j
      BY <1>1, <2>1, <2>4, <2>5
    <2>6. CASE m + 1 # j
      <3>1. m + 1 \in i..j - 1
        BY <2>1, <2>6
      <3> QED BY <2>4, <3>1
    <2> QED BY <2>5, <2>6
  <1>6. S \in SUBSET User
    BY <1>1, <1>4
  <1>7. S # {}
    <2>1. i \in i..j - 1
      OBVIOUS
    <2> QED BY <2>1
  <1>8. \A x \in S : \E y \in S : WaitsOn(x, y)
    BY <1>1, <1>5
  <1> HIDE DEF S
  <1> QED BY <1>6, <1>7, <1>8 DEF WaitInv, Acyclic

\* A user that was told neither of a deadlock nor sent around in circles does
\* not close a circle by waiting.
LEMMA NewWait ==
  ASSUME IInv, WaitInv, NEW u \in User, NEW v \in User, u # v,
         \A n \in 1..MaxWalk : Trail(v)[n] # u, Trail(v)[MaxWalk] = None,
         \A x, y \in User : WaitsOn(x, y)' => WaitsOn(x, y) \/ (x = u /\ y = v)
  PROVE  Acyclic'
  <1> SUFFICES ASSUME NEW S \in SUBSET User, S # {},
                      \A x \in S : \E y \in S : WaitsOn(x, y)'
               PROVE  FALSE
    BY DEF Acyclic
  <1>1. PICK s : s = Trail(v)
    OBVIOUS
  <1>2. /\ MaxWalk \in Nat /\ s[0] = v
        /\ \A m \in 1..MaxWalk : s[m] = Onward(s[m - 1])
    BY <1>1, TrailFacts DEF WaitInv
  <1>3. v \in S
    <2>1. PICK x \in S : \A y \in S : ~WaitsOn(x, y)
      BY DEF WaitInv, Acyclic
    <2>2. PICK y \in S : WaitsOn(x, y)'
      OBVIOUS
    <2> QED BY <2>1, <2>2
  <1>4. ASSUME NEW m \in Nat PROVE m \in 0..MaxWalk => s[m] \in S /\ s[m] # u
    <2> DEFINE I == {k \in Nat : k \in 0..MaxWalk => s[k] \in S /\ s[k] # u}
    <2>1. 0 \in I
      BY <1>2, <1>3
    <2>2. ASSUME NEW k \in Nat, k \in I PROVE k + 1 \in I
      <3>1. CASE k + 1 \in 0..MaxWalk
        <4>1. k \in 0..MaxWalk /\ k + 1 \in 1..MaxWalk /\ (k + 1) - 1 = k
          BY <1>2, <3>1
        <4>2. s[k] \in S /\ s[k] # u /\ s[k + 1] = Onward(s[k]) /\ s[k + 1] # u
          BY <1>1, <1>2, <2>2, <4>1
        <4>3. PICK y \in S : WaitsOn(s[k], y)'
          BY <4>2
        <4>4. WaitsOn(s[k], y)
          BY <4>2, <4>3
        <4>5. y = Onward(s[k])
          BY <4>2, <4>4, OnwardFacts DEF WaitInv
        <4> QED BY <4>2, <4>5
      <3>2. CASE k + 1 \notin 0..MaxWalk
        BY <3>2
      <3> QED BY <3>1, <3>2
    <2> HIDE DEF I
    <2>3. I = Nat
      <3>1. I \in SUBSET Nat
        BY DEF I
      <3> QED BY <2>1, <2>2, <3>1, NatSteps
    <2> QED BY <2>3 DEF I
  <1>5. s[MaxWalk] \in User
    BY <1>2, <1>4
  <1> QED BY <1>1, <1>5, RecordLocksAssumption

\* A walk that comes to no end has come to some user twice.
LEMMA WalkEnds ==
  ASSUME IInv, WaitInv, NEW v \in User
  PROVE  Trail(v)[MaxWalk] = None
  <1> SUFFICES ASSUME Trail(v)[MaxWalk] # None PROVE FALSE
    OBVIOUS
  <1>1. PICK s : s = Trail(v)
    OBVIOUS
  <1>2. /\ MaxWalk \in Nat /\ \A m \in 0..MaxWalk : s[m] \in User \cup {None}
        /\ \A m \in 1..MaxWalk : s[m] = Onward(s[m - 1])
    BY <1>1, TrailFacts DEF WaitInv
  <1>3. ASSUME NEW m \in Nat PROVE m \in 0..MaxWalk => s[MaxWalk - m] # None
    <2> DEFINE I == {k \in Nat : k \in 0..MaxWalk => s[MaxWalk - k] # None}
    <2>1. 0 \in I
      BY <1>1, <1>2
    <2>2. ASSUME NEW k \in Nat, k \in I PROVE k + 1 \in I
      <3>1. CASE k + 1 \in 0..MaxWalk
        <4>1. k \in 0..MaxWalk /\ MaxWalk - k \in 1..MaxWalk /\ (MaxWalk - k) - 1 = MaxWalk - (k + 1)
          BY <1>2, <3>1
        <4>2. s[MaxWalk - k] # None /\ s[MaxWalk - k] = Onward(s[MaxWalk - (k + 1)])
          BY <1>2, <2>2, <4>1
        <4> QED BY <4>2, OnwardFacts DEF WaitInv
      <3>2. CASE k + 1 \notin 0..MaxWalk
        BY <3>2
      <3> QED BY <3>1, <3>2
    <2> HIDE DEF I
    <2>3. I = Nat
      <3>1. I \in SUBSET Nat
        BY DEF I
      <3> QED BY <2>1, <2>2, <3>1, NatSteps
    <2> QED BY <2>3 DEF I
  <1>4. ASSUME NEW m \in 0..MaxWalk PROVE s[m] \in User
    <2>1. MaxWalk - m \in Nat /\ MaxWalk - m \in 0..MaxWalk /\ MaxWalk - (MaxWalk - m) = m
      BY <1>2
    <2> QED BY <1>2, <1>3, <2>1
  <1>5. PICK g \in [0..MaxWalk -> User] : \A m \in 0..MaxWalk : g[m] = s[m]
    <2>1. [m \in 0..MaxWalk |-> s[m]] \in [0..MaxWalk -> User]
      BY <1>4
    <2> QED BY <2>1
  <1>6. IsFiniteSet(0..MaxWalk) /\ Cardinality(0..MaxWalk) = MaxWalk + 1
    BY <1>2, FS_Interval
  <1>7. IsFiniteSet(User) /\ MaxWalk < MaxWalk + 1
    BY <1>2, RecordLocksAssumption
  <1>8. PICK i \in 0..MaxWalk, j \in 0..MaxWalk : i # j /\ g[i] = g[j]
    <2>1. PICK d : d = 0..MaxWalk
      OBVIOUS
    <2>2. /\ IsFiniteSet(d) /\ IsFiniteSet(User) /\ Cardinality(User) < Cardinality(d)
          /\ g \in [d -> User]
      <3>1. Cardinality(d) = MaxWalk + 1 /\ Cardinality(User) = MaxWalk
        BY <1>6, <2>1 DEF MaxWalk
      <3> QED BY <1>2, <1>5, <1>6, <1>7, <2>1, <3>1
    <2>3. \E x, y \in d : x # y /\ g[x] = g[y]
      BY <2>2, FS_PigeonHole, Zenon
    <2> QED BY <2>1, <2>3
  <1>9. ASSUME NEW a \in 0..MaxWalk, NEW b \in 0..MaxWalk, a < b, s[a] = s[b] PROVE FALSE
    <2>1. s[b] # None
      BY <1>4, RecordLocksAssumption
    <2> QED BY <1>1, <1>9, <2>1, ReturningWalk
  <1>10. s[i] = s[j] /\ (i < j \/ j < i)
    BY <1>2, <1>5, <1>8
  <1> QED BY <1>9, <1>10

\* What the invariant says of the walk.
LEMMA WaitInvMeans ==
  ASSUME IInv, WaitInv
  PROVE  WaitsAcyclic /\ \A u \in User, v \in User : ~WalkCrashes(u, v) /\ ~WalkSpins(u, v)
  <1>1. MaxWalk \in Nat
    BY UsersFinite DEF MaxWalk
  <1>2. ASSUME NEW u \in User, NEW n \in Steps, n > 0, Trail(u)[n] = u PROVE FALSE
    <2>1. n \in 0..MaxWalk /\ 0 \in 0..MaxWalk /\ 0 < n
      BY <1>1, <1>2 DEF Steps, MaxWalk
    <2>2. Trail(u)[0] = u /\ u # None
      BY TrailFacts, RecordLocksAssumption DEF WaitInv
    <2> QED BY <1>2, <2>1, <2>2, ReturningWalk
  <1>3. ASSUME NEW v \in User, NEW n \in Steps, Trail(v)[n] # None,
               lockwait[Trail(v)[n]] # NotWaiting, Blocker(Trail(v)[n]) = None
        PROVE  FALSE
    <2>1. n \in 0..MaxWalk
      BY DEF Steps, MaxWalk
    <2>2. PICK x : x = Trail(v)[n]
      OBVIOUS
    <2>3. x \in User
      BY <1>3, <2>1, <2>2, TrailFacts DEF WaitInv
    <2>4. Onward(x) \in User
      BY <1>3, <2>2, <2>3, OnwardFacts DEF WaitInv
    <2> QED BY <1>3, <2>2, <2>4, RecordLocksAssumption DEF Onward
  <1>4. WaitsAcyclic
    BY <1>2 DEF WaitsAcyclic
  <1>5. \A u \in User, v \in User : ~WalkCrashes(u, v)
    BY <1>3 DEF WalkCrashes
  <1>6. \A u \in User, v \in User : ~WalkSpins(u, v)
    BY WalkEnds DEF WalkSpins, MaxWalk
  <1> QED BY <1>4, <1>5, <1>6
-----------------------------------------------------------------------------
(* What the steps do to the waits *)

\* Nobody begins to wait, and a lock that is waited for keeps its owner.
Calm ==
  \A u \in User, c \in Cell : lockwait'[u] = OnCell(c) =>
    lockwait[u] = OnCell(c) /\ cell'[c].owner = cell[c].owner

\* Files stay as they are, without locks and without waiters.
FilesCalm ==
  /\ \A f \in File : fileLock'[f].owner \in {None, fileLock[f].owner}
  /\ \A u \in User : lockwait'[u].kind \in {"none", "record", lockwait[u].kind}

NotClearing == \A u \in User : req'[u].op = "clear" => req[u].op = "clear"

LEMMA CalmKeeps ==
  ASSUME WaitInv, Calm, FilesCalm, NotClearing
  PROVE  WaitInv'
  <1>1. \A u, v \in User : WaitsOn(u, v)' => WaitsOn(u, v)
    BY DEF Calm, WaitsOn
  <1>2. Acyclic'
    BY <1>1 DEF WaitInv, Acyclic
  <1>3. NoFileWaits'
    BY DEF WaitInv, NoFileWaits, FilesCalm, NotClearing
  <1> QED BY <1>2, <1>3 DEF WaitInv

\* A cell that is waited for holds a lock.
LEMMA PointedUsed ==
  ASSUME IInv, NEW u \in User, NEW c \in Cell, lockwait[u] = OnCell(c)
  PROVE  Used(c) /\ cell[c] \in LockEntry
  BY UsedIsEntry DEF IInv, TableInv, WaitersCover, Pointing

\* Whoever waits for a lock that is freed is woken.
LEMMA FreeingCalm ==
  ASSUME IInv, NEW R \in SUBSET Cell, NEW F, \A c \in R : Used(c), Free(R),
         \A u \in User : lockwait'[u] \in {WakeAll(R, F)[u], NotWaiting}
  PROVE  /\ Calm
         /\ \A u \in User : lockwait'[u].kind \in {"none", lockwait[u].kind}
  <1>1. \A u \in User : lockwait'[u] \in {NotWaiting, lockwait[u]}
    BY DEF WakeAll
  <1>2. ASSUME NEW u \in User, NEW c \in Cell, lockwait'[u] = OnCell(c)
        PROVE  lockwait[u] = OnCell(c) /\ cell'[c].owner = cell[c].owner
    <2>1. /\ lockwait[u] = OnCell(c)
          /\ ~\E d \in R : u \in Woken(d)
      BY <1>2, WaitFacts DEF WakeAll
    <2>2. c \notin R
      <3>1. SUFFICES ASSUME c \in R PROVE FALSE
        OBVIOUS
      <3>2. Woken(c) = Pointing(OnCell(c))
        BY <3>1, WokenIsPointing DEF IInv, TableInv
      <3> QED BY <2>1, <3>1, <3>2 DEF Pointing
    <2> QED BY <2>1, <2>2 DEF Free
  <1> QED BY <1>1, <1>2, WaitFacts DEF Calm

LEMMA ReleaseCalm ==
  ASSUME IInv, NEW R \in SUBSET Cell, NEW F, \A c \in R : Used(c), Release(R, F)
  PROVE  Calm /\ FilesCalm
  <1>1. \A u \in User : lockwait'[u] \in {WakeAll(R, F)[u], NotWaiting}
    BY DEF Release
  <1>2. \A f \in File : fileLock'[f].owner \in {None, fileLock[f].owner}
    BY DEF Release, IInv, TypeOK, FileEntry
  <1> QED BY <1>1, <1>2, FreeingCalm DEF Release, FilesCalm

LEMMA UnlockKeysCalm ==
  ASSUME IInv, NEW u, NEW K, NEW F, UnlockKeys(u, K, F)
  PROVE  Calm /\ FilesCalm
  <1> DEFINE R == UNION {OwnMatch(u, k) : k \in {k \in K : lockCount[k[1]] # 0}}
  <1>1. R \in SUBSET Cell /\ \A c \in R : Used(c)
    BY OwnMatchUsed
  <1>2. Release(R, F)
    BY DEF UnlockKeys
  <1> HIDE DEF R
  <1> QED BY <1>1, <1>2, ReleaseCalm

LEMMA UnlockTxnCalm ==
  ASSUME IInv, NEW u \in User, UnlockTxn(u)
  PROVE  Calm /\ FilesCalm
  <1> DEFINE R == {c \in CellsOf(u) : cell[c].txn = txn[u]}
             F == {f \in File : HasFileLock(u, f) /\ fileLock[f].txn = txn[u]}
  <1>1. R \in SUBSET Cell /\ \A c \in R : Used(c)
    BY DEF CellsOf
  <1>2. Free(R) /\ lockwait' = WakeAll(R, F)
    BY DEF UnlockTxn
  <1>3. \A f \in File : fileLock'[f].owner \in {None, fileLock[f].owner}
    BY DEF UnlockTxn, IInv, TypeOK, FileEntry
  <1> HIDE DEF R, F
  <1> QED BY <1>1, <1>2, <1>3, FreeingCalm DEF FilesCalm

LEMMA CleanUpCalm ==
  ASSUME IInv, NEW u \in User, CleanUp(u)
  PROVE  Calm /\ FilesCalm
  <1> DEFINE R == CellsOf(u)
             F == {f \in File : fileLock[f].owner = u}
  <1>1. R \in SUBSET Cell /\ \A c \in R : Used(c)
    BY DEF CellsOf
  <1>2. Free(R) /\ lockwait' = [WakeAll(R, F) EXCEPT ![u] = NotWaiting]
    BY DEF CleanUp
  <1>3. \A v \in User : lockwait'[v] \in {WakeAll(R, F)[v], NotWaiting}
    BY <1>2 DEF WakeAll
  <1>4. \A f \in File : fileLock'[f].owner \in {None, fileLock[f].owner}
    BY DEF CleanUp, IInv, TypeOK, FileEntry
  <1> HIDE DEF R, F
  <1> QED BY <1>1, <1>2, <1>3, <1>4, FreeingCalm DEF FilesCalm

LEMMA ClearLockwaitCalm ==
  ASSUME IInv, NEW u \in User, ClearLockwait(u)
  PROVE  Calm /\ FilesCalm
  <1>1. lockwait' = [lockwait EXCEPT ![u] = NotWaiting] /\ UNCHANGED fileLock
    BY DEF ClearLockwait
  <1>2. lockwait \in [User -> Wait] /\ cell \in [Cell -> LockEntry \cup {FreeCell}]
    BY DEF IInv, TypeOK
  <1>3. ASSUME NEW v \in User, NEW c \in Cell, lockwait'[v] = OnCell(c)
        PROVE  lockwait[v] = OnCell(c) /\ cell'[c].owner = cell[c].owner
    <2>1. lockwait[v] = OnCell(c)
      BY <1>1, <1>2, <1>3, WaitFacts
    <2>2. cell[c] \in LockEntry
      BY <2>1, PointedUsed
    <2>3. \/ cell' = cell
          \/ \E d \in Cell : cell' = [cell EXCEPT ![d].waiters = @ - 1]
      BY <1>2, WaitFacts DEF ClearLockwait
    <2>4. cell'[c].owner = cell[c].owner
      BY <1>2, <2>2, <2>3 DEF LockEntry
    <2> QED BY <2>1, <2>4
  <1>4. \A v \in User : lockwait'[v].kind \in {"none", lockwait[v].kind}
    BY <1>1, <1>2, WaitFacts
  <1> QED BY <1>1, <1>3, <1>4 DEF Calm, FilesCalm

\* The steps in which lock_record() gets the lock or cannot have it for want of
\* a cell.
LEMMA LockTakenCalm ==
  ASSUME IInv, NEW u \in User, NEW fv \in Fvar, NEW id \in Id, NEW upd \in BOOLEAN,
         \/ LockRefresh(u, fv, id, upd) \/ LockUpgrade(u, fv, id)
         \/ LockNew(u, fv, id, upd) \/ LockTableFull(u, fv, id, upd)
  PROVE  Calm /\ FilesCalm
  <1>1. lockwait' = [lockwait EXCEPT ![u] = NotWaiting] /\ UNCHANGED fileLock
    BY DEF LockRefresh, LockUpgrade, LockNew, LockTableFull, Done, tables
  <1>2. lockwait \in [User -> Wait] /\ cell \in [Cell -> LockEntry \cup {FreeCell}]
    BY DEF IInv, TypeOK
  <1>3. ASSUME NEW c \in Cell, Used(c), cell[c] \in LockEntry
        PROVE  cell'[c].owner = cell[c].owner
    <2>1. CASE LockRefresh(u, fv, id, upd)
      <3>1. PICK d \in OwnMatch(u, <<FileOf[fv], id>>) :
              cell' = [cell EXCEPT ![d].type = IF upd THEN "U" ELSE "S",
                                   ![d].fvar = fv, ![d].txn = LockTxn(u, fv)]
        BY <2>1 DEF LockRefresh
      <3>2. d \in Cell /\ cell[d] \in LockEntry
        BY <3>1, OwnMatchUsed, UsedIsEntry DEF IInv, TableInv
      <3> QED BY <1>2, <1>3, <3>1, <3>2 DEF LockEntry
    <2>2. CASE LockUpgrade(u, fv, id)
      <3>1. PICK d \in OwnMatch(u, <<FileOf[fv], id>>) : cell' = [cell EXCEPT ![d].type = "U"]
        BY <2>2 DEF LockUpgrade
      <3>2. d \in Cell /\ cell[d] \in LockEntry
        BY <3>1, OwnMatchUsed, UsedIsEntry DEF IInv, TableInv
      <3> QED BY <1>2, <1>3, <3>1, <3>2 DEF LockEntry
    <2>3. CASE LockNew(u, fv, id, upd)
      <3>1. PICK d \in Cell : ~Used(d) /\ \E e : cell' = [cell EXCEPT ![d] = e]
        BY <2>3 DEF LockNew
      <3> QED BY <1>2, <1>3, <3>1
    <2>4. CASE LockTableFull(u, fv, id, upd)
      BY <2>4 DEF LockTableFull, tables
    <2> QED BY <2>1, <2>2, <2>3, <2>4
  <1>4. Calm
    <2>1. ASSUME NEW v \in User, NEW c \in Cell, lockwait'[v] = OnCell(c)
          PROVE  lockwait[v] = OnCell(c) /\ cell'[c].owner = cell[c].owner
      <3>1. lockwait[v] = OnCell(c)
        BY <1>1, <1>2, <2>1, WaitFacts
      <3> QED BY <1>3, <3>1, PointedUsed
    <2> QED BY <2>1 DEF Calm
  <1>5. FilesCalm
    BY <1>1, <1>2, WaitFacts DEF FilesCalm
  <1> QED BY <1>4, <1>5

\* A user begins to wait for a lock of another: the only step that adds a wait.
LEMMA StartWaitKeepsAcyclic ==
  ASSUME IInv, WaitInv, NEW u \in User, NEW r, NEW c \in Cell, Used(c),
         cell[c].owner # u, r.op # "clear",
         \A n \in 1..MaxWalk : Trail(cell[c].owner)[n] # u,
         StartWait(u, r, OnCell(c))
  PROVE  WaitInv'
  <1> DEFINE v == cell[c].owner
  <1>1. lockwait \in [User -> Wait] /\ req \in [User -> Request]
    BY DEF IInv, TypeOK
  <1>2. NotClearing
    BY <1>1 DEF StartWait, NotClearing
  <1>3. CASE lockwait[u] # NotWaiting
    BY <1>2, <1>3, CalmKeeps DEF StartWait, Calm, FilesCalm
  <1>4. CASE lockwait[u] = NotWaiting
    <2>1. /\ lockwait' = [lockwait EXCEPT ![u] = OnCell(c)] /\ UNCHANGED fileLock
          /\ cell' = [cell EXCEPT ![c].waiters = @ + 1]
      BY <1>4, WaitFacts DEF StartWait
    <2>2. cell[c] \in LockEntry /\ cell \in [Cell -> LockEntry \cup {FreeCell}]
      BY UsedIsEntry DEF IInv, TableInv, TypeOK
    <2>3. v \in User
      BY <2>2 DEF LockEntry
    <2>4. \A d \in Cell : cell'[d].owner = cell[d].owner
      BY <2>1, <2>2 DEF LockEntry
    <2>5. \A x, y \in User : WaitsOn(x, y)' => WaitsOn(x, y) \/ (x = u /\ y = v)
      BY <1>1, <2>1, <2>4, WaitFacts DEF WaitsOn
    <2>6. Trail(v)[MaxWalk] = None
      BY <2>3, WalkEnds
    <2>7. Acyclic'
      <3> HIDE DEF v
      <3>1. v # u /\ \A n \in 1..MaxWalk : Trail(v)[n] # u
        BY DEF v
      <3> QED BY <2>3, <2>5, <2>6, <3>1, NewWait
    <2>8. NoFileWaits'
      <3>1. \A x \in User : lockwait'[x].kind # "file"
        BY <1>1, <2>1, WaitFacts DEF WaitInv, NoFileWaits
      <3> QED BY <1>2, <2>1, <3>1 DEF WaitInv, NoFileWaits, NotClearing
    <2> QED BY <2>7, <2>8 DEF WaitInv
  <1> QED BY <1>3, <1>4

\* In the way of another user: told of a deadlock, or waiting; never caught.
LEMMA LockBlockedKeepsWaits ==
  ASSUME IInv, WaitInv, Deadlock, NEW u \in User, NEW fv \in Fvar, NEW id \in Id,
         NEW upd \in BOOLEAN, LockBlocked(u, fv, id, upd)
  PROVE  WaitInv' /\ UNCHANGED stuck
  <1> DEFINE k == <<FileOf[fv], id>>
             r == LockRecReq(fv, id, upd)
  <1>1. PICK c \in Deciding(u, k, upd) \ OwnMatch(u, k) :
          LET v == cell[c].owner IN
             \/ /\ WalkCrashes(u, v) \/ WalkSpins(u, v)
                /\ stuck' = TRUE
                /\ UNCHANGED <<tables, lockwait, llt, req>>
             \/ /\ FindsDeadlock(u, v)
                /\ req' = [req EXCEPT ![u] = [op |-> "abort"]]
                /\ UNCHANGED <<tables, lockwait, llt, stuck>>
             \/ /\ ~FindsDeadlock(u, v) /\ ~WalkCrashes(u, v) /\ ~WalkSpins(u, v)
                /\ StartWait(u, r, OnCell(c))
                /\ UNCHANGED stuck
    BY DEF LockBlocked
  <1> DEFINE v == cell[c].owner
  <1>2. c \in Cell /\ Used(c) /\ v # u
    BY DEF Deciding, OwnMatch, Matching, Seen, Chain
  <1>3. v \in User
    BY <1>2, UsedIsEntry DEF IInv, TableInv, LockEntry
  <1>4. ~WalkCrashes(u, v) /\ ~WalkSpins(u, v)
    BY <1>3, WaitInvMeans
  <1>5. CASE /\ req' = [req EXCEPT ![u] = [op |-> "abort"]]
             /\ UNCHANGED <<tables, lockwait, llt, stuck>>
    <2>1. Calm /\ FilesCalm
      BY <1>5 DEF Calm, FilesCalm, tables
    <2>2. NotClearing
      BY <1>5 DEF NotClearing, IInv, TypeOK
    <2> QED BY <1>5, <2>1, <2>2, CalmKeeps
  <1>6. CASE ~FindsDeadlock(u, v) /\ StartWait(u, r, OnCell(c)) /\ UNCHANGED stuck
    <2>1. \A n \in 1..MaxWalk : Trail(v)[n] # u
      <3>1. MaxWalk \in Nat
        BY UsersFinite DEF MaxWalk
      <3>2. \A n \in 1..MaxWalk : n \in Steps /\ n > 0
        BY <3>1 DEF Steps, MaxWalk
      <3> QED BY <1>6, <3>2 DEF FindsDeadlock
    <2>2. r.op # "clear"
      BY DEF LockRecReq
    <2> HIDE DEF r
    <2> QED BY <1>2, <1>6, <2>1, <2>2, StartWaitKeepsAcyclic
  <1> QED BY <1>1, <1>4, <1>5, <1>6

LEMMA LockRecordKeepsWaits ==
  ASSUME IInv, WaitInv, Deadlock, NEW u \in User, NEW fv \in Fvar, NEW id \in Id,
         NEW upd \in BOOLEAN, LockRecord(u, fv, id, upd)
  PROVE  WaitInv' /\ UNCHANGED stuck
  <1>1. CASE LockBlockedByFile(u, fv, id, upd)
    <2>1. FileOf[fv] \in File
      BY RecordLocksAssumption
    <2> QED BY <1>1, <2>1 DEF LockBlockedByFile, LockedByOther, WaitInv, NoFileWaits
  <1>2. CASE LockBlocked(u, fv, id, upd)
    BY <1>2, LockBlockedKeepsWaits
  <1>3. CASE \/ LockRefresh(u, fv, id, upd) \/ LockUpgrade(u, fv, id)
             \/ LockNew(u, fv, id, upd) \/ LockTableFull(u, fv, id, upd)
    <2>1. Calm /\ FilesCalm
      BY <1>3, LockTakenCalm
    <2>2. req \in [User -> Request]
      BY DEF IInv, TypeOK
    <2>3. NotClearing
      <3>1. \E r \in {Idle, LockRecReq(fv, id, upd)} : req' = [req EXCEPT ![u] = r]
        BY <1>3 DEF LockRefresh, LockUpgrade, LockNew, LockTableFull, Done
      <3>2. Idle.op # "clear" /\ LockRecReq(fv, id, upd).op # "clear"
        BY DEF Idle, LockRecReq
      <3> QED BY <2>2, <3>1, <3>2 DEF NotClearing
    <2>4. UNCHANGED stuck
      BY <1>3 DEF LockRefresh, LockUpgrade, LockNew, LockTableFull
    <2> QED BY <2>1, <2>3, <2>4, CalmKeeps
  <1> QED BY <1>1, <1>2, <1>3 DEF LockRecord

\* Of the other steps only CLEARFILE and FILELOCK lock a file or wait for one.
LEMMA UserStepCalm ==
  ASSUME IInv, WaitInv, RecordWaits, NEW u \in User, UserStep(u),
         ~\E fv \in Fvar, id \in Id, upd \in BOOLEAN : LockRecord(u, fv, id, upd)
  PROVE  Calm /\ FilesCalm
  <1>1. ASSUME UNCHANGED <<cell, fileLock, lockwait>> PROVE Calm /\ FilesCalm
    BY <1>1 DEF Calm, FilesCalm
  <1>2. CASE \/ \E fv \in Fvar : \/ FileUnlockCheck(u, fv) \/ Close(u, fv) \/ CloseCheck(u, fv)
             \/ \E how \in {"abort", "stop"} : Leave(u, how)
             \/ TxnBegin(u) \/ Quit(u) \/ RebuildLLT(u) \/ Die(u)
    <2>1. UNCHANGED <<cell, fileLock, lockwait>>
      BY <1>2 DEF FileUnlockCheck, Close, CloseCheck, Leave, TxnBegin, Quit, RebuildLLT, Die, tables
    <2> QED BY <1>1, <2>1
  <1>3. CASE \/ \E fv \in Fvar, id \in Id : ReleaseRecord(u, fv, id)
             \/ \E fv \in Fvar : ReleaseFile(u, fv) \/ CloseFvar(u, fv)
             \/ ReleaseAll(u)
    <2>1. \E K, F : UnlockKeys(u, K, F)
      BY <1>3 DEF ReleaseRecord, ReleaseFile, CloseFvar, ReleaseAll, UnlockFvar
    <2> QED BY <2>1, UnlockKeysCalm
  <1>4. CASE TxnEnd(u) \/ Rollback(u)
    <2>1. UnlockTxn(u) \/ UNCHANGED <<cell, fileLock, lockwait>>
      BY <1>4 DEF TxnEnd, Rollback, tables
    <2> QED BY <1>1, <2>1, UnlockTxnCalm
  <1>5. CASE FileUnlock(u) \/ CloseFileLock(u)
    <2>1. PICK F : Release({}, F)
      BY <1>5 DEF FileUnlock, CloseFileLock
    <2> QED BY <2>1, ReleaseCalm
  <1>6. CASE (\E fv \in Fvar : FileLock(u, fv) \/ ClearBegin(u, fv)) \/ ClearEnd(u)
    BY <1>6 DEF FileLock, ClearBegin, ClearEnd, RecordWaits, WaitInv, NoFileWaits
  <1>7. CASE ClearLockwait(u) \/ CleanUp(u)
    BY <1>7, ClearLockwaitCalm, CleanUpCalm
  <1> QED BY <1>2, <1>3, <1>4, <1>5, <1>6, <1>7 DEF UserStep

LEMMA ClosedRequest ==
  ASSUME NEW r \in Request, r.op = "closing"
  PROVE  \E S, x, n : /\ r = [op |-> "closing", fvars |-> S, flock |-> x, next |-> n]
                      /\ n \in {"idle", "prompt"}
  <1>1. r = Closing(r.fvars, r.flock, r.next) /\ r.next \in {"idle", "prompt"}
    BY ClosingFacts
  <1>2. r = [op |-> "closing", fvars |-> r.fvars, flock |-> r.flock, next |-> r.next]
    BY <1>1 DEF Closing
  <1> QED BY <1>1, <1>2

\* No step but ClearBegin leaves a user inside CLEARFILE.
LEMMA UserStepNotClearing ==
  ASSUME IInv, RecordWaits, NEW u \in User, UserStep(u),
         ~\E fv \in Fvar, id \in Id, upd \in BOOLEAN : LockRecord(u, fv, id, upd)
  PROVE  NotClearing
  <1>1. req \in [User -> Request]
    BY DEF IInv, TypeOK
  <1>2. ASSUME NEW r, r.op # "clear", req' = [req EXCEPT ![u] = r] PROVE NotClearing
    BY <1>1, <1>2 DEF NotClearing
  <1>3. CASE UNCHANGED req
    BY <1>3 DEF NotClearing
  <1>4. CASE \E fv \in Fvar : FileLock(u, fv) \/ ClearBegin(u, fv)
    BY <1>4 DEF FileLock, ClearBegin, RecordWaits
  <1>5. CASE \E fv \in Fvar : FileUnlockCheck(u, fv) \/ Close(u, fv)
    BY <1>2, <1>5 DEF FileUnlockCheck, Close, Closing
  <1>6. CASE \E fv \in Fvar : CloseCheck(u, fv) \/ CloseFvar(u, fv)
    <2>1. req[u].op = "closing"
      BY <1>6 DEF CloseCheck, CloseFvar
    <2>2. PICK S, x, n : /\ req[u] = [op |-> "closing", fvars |-> S, flock |-> x, next |-> n]
                         /\ n \in {"idle", "prompt"}
      BY <1>1, <2>1, ClosedRequest
    <2>3. CASE \E fv \in Fvar : CloseCheck(u, fv)
      <3>1. PICK fv \in Fvar : req' = [req EXCEPT ![u].flock = fv]
        BY <2>3 DEF CloseCheck
      <3>2. [req[u] EXCEPT !.flock = fv] = [op |-> "closing", fvars |-> S, flock |-> fv, next |-> n]
        BY <2>2
      <3>3. req' = [req EXCEPT ![u] = [req[u] EXCEPT !.flock = fv]]
        BY <3>1, Zenon
      <3> QED BY <1>2, <3>2, <3>3
    <2>4. CASE \E fv \in Fvar : CloseFvar(u, fv)
      <3>1. PICK fv \in Fvar :
              req' = [req EXCEPT ![u] = IF req[u].fvars = {fv} THEN [op |-> req[u].next]
                                        ELSE [req[u] EXCEPT !.fvars = @ \ {fv}]]
        BY <2>4 DEF CloseFvar
      <3>2. /\ [op |-> req[u].next].op # "clear"
            /\ [req[u] EXCEPT !.fvars = @ \ {fv}].op # "clear"
        BY <2>2
      <3> QED BY <1>2, <3>1, <3>2
    <2> QED BY <1>6, <2>3, <2>4
  <1>7. CASE \/ \E how \in {"abort", "stop"} : Leave(u, how)
             \/ FileUnlock(u) \/ ClearEnd(u) \/ Die(u) \/ CleanUp(u)
    BY <1>2, <1>7 DEF Leave, FileUnlock, ClearEnd, Die, CleanUp, Idle
  <1>8. CASE Quit(u) \/ ClearLockwait(u) \/ Rollback(u)
    BY <1>2, <1>8 DEF Quit, ClearLockwait, Rollback, Closing, Idle
  <1>9. CASE CloseFileLock(u)
    <2>1. req[u].op = "closing" /\ req' = [req EXCEPT ![u].flock = None]
      BY <1>9 DEF CloseFileLock
    <2>2. PICK S, x, n : req[u] = [op |-> "closing", fvars |-> S, flock |-> x, next |-> n]
      BY <1>1, <2>1, ClosedRequest
    <2>3. [req[u] EXCEPT !.flock = None].op # "clear"
      BY <2>2
    <2>4. req' = [req EXCEPT ![u] = [req[u] EXCEPT !.flock = None]]
      BY <2>1, Zenon
    <2> QED BY <1>2, <2>3, <2>4
  <1>10. CASE \/ \E fv \in Fvar, id \in Id : ReleaseRecord(u, fv, id)
              \/ \E fv \in Fvar : ReleaseFile(u, fv)
              \/ ReleaseAll(u) \/ TxnBegin(u) \/ TxnEnd(u) \/ RebuildLLT(u)
    BY <1>3, <1>10 DEF ReleaseRecord, ReleaseFile, ReleaseAll, TxnBegin, TxnEnd, RebuildLLT
  <1> QED BY <1>4, <1>5, <1>6, <1>7, <1>8, <1>9, <1>10 DEF UserStep

WaitIInv == IInv /\ WaitInv /\ NeverStuck

LEMMA NextKeepsWaits ==
  ASSUME WaitIInv, IInv', RecordWaits, Deadlock, [Next]_vars
  PROVE  WaitInv' /\ NeverStuck'
  <1> USE DEF WaitIInv
  <1>1. CASE UNCHANGED vars
    BY <1>1, CalmKeeps DEF vars, tables, Calm, FilesCalm, NotClearing, NeverStuck
  <1>2. CASE AdminStep
    <2>1. ASSUME NEW F, NEW U, NEW I, AdminUnlock(F, U, I)
          PROVE  Calm /\ FilesCalm /\ NotClearing /\ UNCHANGED stuck
      <3> DEFINE R == {c \in Cell : /\ Used(c) /\ cell[c].owner \in U
                                    /\ cell[c].key \in F \X I}
      <3>1. R \in SUBSET Cell /\ \A c \in R : Used(c)
        OBVIOUS
      <3>2. Release(R, {}) /\ UNCHANGED <<req, stuck>>
        BY <2>1 DEF AdminUnlock
      <3> HIDE DEF R
      <3> QED BY <3>1, <3>2, ReleaseCalm DEF NotClearing
    <2>2. ASSUME NEW F, NEW U, AdminUnlockFile(F, U)
          PROVE  Calm /\ FilesCalm /\ NotClearing /\ UNCHANGED stuck
      <3>1. PICK G : Release({}, G) /\ UNCHANGED <<req, stuck>>
        BY <2>2 DEF AdminUnlockFile
      <3> QED BY <3>1, ReleaseCalm DEF NotClearing
    <2>3. Calm /\ FilesCalm /\ NotClearing /\ UNCHANGED stuck
      BY <1>2, <2>1, <2>2 DEF AdminStep
    <2> QED BY <2>3, CalmKeeps DEF NeverStuck
  <1>3. ASSUME NEW u \in User, UserStep(u) PROVE WaitInv' /\ NeverStuck'
    <2>1. CASE \E fv \in Fvar, id \in Id, upd \in BOOLEAN : LockRecord(u, fv, id, upd)
      BY <2>1, LockRecordKeepsWaits DEF NeverStuck
    <2>2. CASE ~\E fv \in Fvar, id \in Id, upd \in BOOLEAN : LockRecord(u, fv, id, upd)
      <3>1. Calm /\ FilesCalm /\ NotClearing
        BY <1>3, <2>2, UserStepCalm, UserStepNotClearing
      <3>2. UNCHANGED stuck
        BY <1>3, <2>2 DEF UserStep, ReleaseRecord, ReleaseFile, FileLock, FileUnlockCheck,
             ClearBegin, Close, CloseCheck, CloseFvar, Leave, ReleaseAll, TxnBegin, TxnEnd,
             FileUnlock, ClearEnd, Quit, ClearLockwait, Rollback, CloseFileLock, RebuildLLT,
             Die, CleanUp
      <3> QED BY <3>1, <3>2, CalmKeeps DEF NeverStuck
    <2> QED BY <2>1, <2>2
  <1> QED BY <1>1, <1>2, <1>3 DEF Next

LEMMA InitWaitInv ==
  ASSUME Init
  PROVE  WaitInv /\ NeverStuck
  <1>1. NoFileWaits
    BY WaitFacts DEF Init, NoFileWaits, Idle
  <1>2. \A u, v \in User : ~WaitsOn(u, v)
    BY WaitFacts DEF Init, WaitsOn
  <1>3. Acyclic
    BY <1>2 DEF Acyclic
  <1> QED BY <1>1, <1>3 DEF WaitInv, Init, NeverStuck

LEMMA WaitInvariance ==
  ASSUME RecordWaits, Deadlock
  PROVE  Spec => []WaitIInv
  <1>1. Init => WaitIInv
    BY InitIInv, InitWaitInv DEF WaitIInv
  <1>2. WaitIInv /\ [Next]_vars => WaitIInv'
    BY NextIInv, NextKeepsWaits DEF WaitIInv
  <1> QED BY <1>1, <1>2, PTL DEF Spec

\* Without FILELOCK and CLEARFILE, and with deadlock detection on, the recorded
\* waits never form a cycle, for any number of users and locks: the one check
\* that lock_record() makes before it waits, along one owner of each lock, is
\* enough for what it walks along.
THEOREM NoCircularWaits ==
  ASSUME RecordWaits, Deadlock
  PROVE  Spec => []WaitsAcyclic
  <1>1. WaitIInv => WaitsAcyclic
    BY WaitInvMeans DEF WaitIInv
  <1> QED BY <1>1, WaitInvariance, PTL

\* Under the same conditions the walk of lock_record(), a loop without a bound
\* that runs with REC_LOCK_SEM taken, always ends, and never follows a wait to
\* user 0.
THEOREM DetectionEnds ==
  ASSUME RecordWaits, Deadlock
  PROVE  Spec => []NeverStuck
  <1>1. WaitIInv => NeverStuck
    BY DEF WaitIInv
  <1> QED BY <1>1, WaitInvariance, PTL

\* Two processes, if there are only two, are never both recorded as waiting
\* when each is in the other's way: the second is told of the deadlock.
THEOREM PairNoticed ==
  ASSUME RecordWaits, Deadlock,
         \A x, y, z \in User : x = y \/ y = z \/ x = z
  PROVE  Spec => []DeadlockNoticed
  <1>1. ASSUME WaitIInv, NEW u \in User, NEW v \in User, u # v,
               lockwait[u] # NotWaiting, lockwait[v] # NotWaiting
        PROVE  FALSE
    <2> USE DEF WaitIInv, WaitInv
    <2>6. ASSUME NEW z \in User, lockwait[z] # NotWaiting PROVE \E x \in User : WaitsOn(z, x)
      <3>1. Onward(z) \in User /\ Onward(z) # None
        BY <1>1, <2>6, OnwardFacts, RecordLocksAssumption
      <3> QED BY <1>1, <3>1, OnwardFacts
    <2>1. PICK x \in User : WaitsOn(u, x)
      BY <1>1, <2>6
    <2>2. PICK y \in User : WaitsOn(v, y)
      BY <1>1, <2>6
    <2>3. x \in {u, v} /\ y \in {u, v}
      BY <1>1
    <2>4. {u, v} \in SUBSET User /\ {u, v} # {}
      OBVIOUS
    <2>5. PICK w \in {u, v} : \A z \in {u, v} : ~WaitsOn(w, z)
      BY <1>1, <2>4 DEF Acyclic
    <2> QED BY <2>1, <2>2, <2>3, <2>5
  <1>2. WaitIInv => DeadlockNoticed
    BY <1>1 DEF DeadlockNoticed
  <1> QED BY <1>2, WaitInvariance, PTL


-----------------------------------------------------------------------------
(* What a step does to the locks                                           *)

\* Locks stay what they are, except for their waiters and transactions.
SameLocks ==
  \A c \in Cell :
    /\ Used(c)' <=> Used(c)
    /\ Used(c) => /\ cell'[c].key = cell[c].key
                  /\ cell'[c].owner = cell[c].owner
                  /\ cell'[c].type = cell[c].type
                  /\ cell'[c].fvar = cell[c].fvar

\* The locks in the cells R go, the others stay.
Freed(R) ==
  /\ R \subseteq Cell /\ \A c \in R : Used(c)
  /\ \A c \in Cell : Used(c)' <=> Used(c) /\ c \notin R
  /\ \A c \in Cell : Used(c)' => cell'[c] = cell[c]

LEMMA FreeIsFreed ==
  ASSUME NEW R \in SUBSET Cell, \A c \in R : Used(c), Free(R)
  PROVE  Freed(R)
  BY DEF Free, Freed, Used

LEMMA NoneFreed ==
  ASSUME Freed({})
  PROVE  SameLocks
  BY DEF Freed, SameLocks

\* The steps that touch no lock but its count of waiters.
SteadyStep(u) ==
  \/ \E fv \in Fvar, id \in Id, upd \in BOOLEAN :
       LockBlockedByFile(u, fv, id, upd) \/ LockBlocked(u, fv, id, upd)
         \/ LockTableFull(u, fv, id, upd)
  \/ \E fv \in Fvar : FileLock(u, fv) \/ FileUnlockCheck(u, fv) \/ ClearBegin(u, fv)
                        \/ Close(u, fv) \/ CloseCheck(u, fv)
  \/ \E how \in {"abort", "stop"} : Leave(u, how)
  \/ TxnBegin(u) \/ FileUnlock(u) \/ ClearEnd(u) \/ Quit(u) \/ ClearLockwait(u)
  \/ CloseFileLock(u) \/ RebuildLLT(u) \/ Die(u)
  \/ Rollback(u) /\ txn[u] = 0

LEMMA WaitersOnly ==
  ASSUME CellsOK, NEW c \in Cell, Used(c), NEW n,
         cell' = [cell EXCEPT ![c].waiters = n]
  PROVE  SameLocks
  <1>1. cell[c] \in LockEntry
    BY UsedIsEntry
  <1>2. /\ cell'[c].key = cell[c].key /\ cell'[c].owner = cell[c].owner
        /\ cell'[c].type = cell[c].type /\ cell'[c].fvar = cell[c].fvar
    BY <1>1 DEF CellsOK, LockEntry
  <1>3. cell'[c] # FreeCell
    <2>1. DOMAIN cell'[c] = DOMAIN cell[c]
      BY DEF CellsOK
    <2>2. "key" \in DOMAIN cell[c] /\ "key" \notin DOMAIN FreeCell
      BY <1>1 DEF LockEntry, FreeCell
    <2> QED BY <2>1, <2>2
  <1>4. \A d \in Cell : d # c => cell'[d] = cell[d]
    BY DEF CellsOK
  <1> QED BY <1>2, <1>3, <1>4 DEF SameLocks, Used

LEMMA UnchangedCells ==
  ASSUME UNCHANGED cell
  PROVE  SameLocks
  BY DEF SameLocks, Used

LEMMA WaitingSame ==
  ASSUME CellsOK, NEW u, NEW r, NEW w, StartWait(u, r, w),
         (\E f \in File : w = OnFile(f)) \/ (\E c \in Cell : Used(c) /\ w = OnCell(c))
  PROVE  SameLocks
  <1>1. CASE UNCHANGED cell
    BY <1>1, UnchangedCells
  <1>2. CASE w.kind = "record" /\ cell' = [cell EXCEPT ![w.cell].waiters = @ + 1]
    <2>1. PICK c \in Cell : Used(c) /\ w = OnCell(c)
      BY <1>2, WaitFacts
    <2>2. w.cell = c
      BY <2>1, WaitFacts
    <2>3. cell' = [cell EXCEPT ![c].waiters = cell[c].waiters + 1]
      BY <1>2, <2>2
    <2> QED BY <2>1, <2>3, WaitersOnly
  <1> QED BY <1>1, <1>2 DEF StartWait

LEMMA SteadySame ==
  ASSUME IInv, NEW u \in User, SteadyStep(u)
  PROVE  SameLocks
  <1> USE DEF IInv
  <1>1. ASSUME NEW fv \in Fvar, NEW id \in Id, NEW upd \in BOOLEAN,
               LockBlockedByFile(u, fv, id, upd)
        PROVE  SameLocks
    <2>1. FileOf[fv] \in File
      BY RecordLocksAssumption
    <2> QED BY <1>1, <2>1, WaitingSame DEF LockBlockedByFile, TableInv
  <1>2. ASSUME NEW fv \in Fvar, NEW id \in Id, NEW upd \in BOOLEAN,
               LockBlocked(u, fv, id, upd)
        PROVE  SameLocks
    <2>1. PICK c \in Deciding(u, <<FileOf[fv], id>>, upd) :
             UNCHANGED cell \/ StartWait(u, LockRecReq(fv, id, upd), OnCell(c))
      BY <1>2 DEF LockBlocked, tables
    <2>2. c \in Cell /\ Used(c)
      BY DEF Deciding, Matching, Seen, Chain
    <2> QED BY <2>1, <2>2, WaitingSame, UnchangedCells DEF TableInv
  <1>3. CASE ClearLockwait(u)
    <2>1. CASE lockwait[u].kind = "record"
      <3>1. lockwait[u] \in Wait
        BY DEF TypeOK
      <3>2. PICK c \in Cell : lockwait[u] = OnCell(c)
        BY <2>1, <3>1, WaitFacts
      <3>3. u \in Pointing(OnCell(c))
        BY <3>2 DEF Pointing
      <3>4. Used(c)
        BY <3>3 DEF TableInv, WaitersCover
      <3>5. cell' = [cell EXCEPT ![c].waiters = cell[c].waiters - 1]
        BY <1>3, <2>1, <3>2, WaitFacts DEF ClearLockwait
      <3> QED BY <3>4, <3>5, WaitersOnly DEF TableInv
    <2>2. CASE lockwait[u].kind # "record"
      BY <1>3, <2>2, UnchangedCells DEF ClearLockwait
    <2> QED BY <2>1, <2>2
  <1>4. ASSUME NEW F, Release({}, F) PROVE SameLocks
    BY <1>4, FreeIsFreed, NoneFreed DEF Release
  <1>5. CASE FileUnlock(u) \/ ClearEnd(u) \/ CloseFileLock(u)
    BY <1>4, <1>5, UnchangedCells DEF FileUnlock, ClearEnd, CloseFileLock
  <1>6. ASSUME NEW fv \in Fvar, NEW id \in Id, NEW upd \in BOOLEAN,
               LockTableFull(u, fv, id, upd)
        PROVE  SameLocks
    BY <1>6, UnchangedCells DEF LockTableFull, tables
  <1>7. ASSUME NEW fv \in Fvar,
               FileLock(u, fv) \/ FileUnlockCheck(u, fv) \/ ClearBegin(u, fv)
                 \/ Close(u, fv) \/ CloseCheck(u, fv)
        PROVE  SameLocks
    BY <1>7, UnchangedCells DEF FileLock, FileUnlockCheck, ClearBegin, Close, CloseCheck, tables
  <1>8. CASE \/ \E how \in {"abort", "stop"} : Leave(u, how)
             \/ TxnBegin(u) \/ Quit(u) \/ RebuildLLT(u) \/ Die(u)
             \/ Rollback(u) /\ txn[u] = 0
    BY <1>8, UnchangedCells DEF Leave, TxnBegin, Quit, RebuildLLT, Die, Rollback, tables
  <1> QED BY <1>1, <1>2, <1>3, <1>5, <1>6, <1>7, <1>8 DEF SteadyStep

\* Locks released by their owner u, through the local lock table or not.
LEMMA OwnMatchOwned ==
  ASSUME NEW u, NEW k, NEW c \in OwnMatch(u, k)
  PROVE  c \in CellsOf(u) /\ cell[c].key = k
  BY OwnMatchUsed DEF OwnMatch, Matching, CellsOf

LEMMA UnlockKeysFreed ==
  ASSUME NEW u, NEW K, NEW F, UnlockKeys(u, K, F)
  PROVE  \E R \in SUBSET CellsOf(u) : /\ R = UNION {OwnMatch(u, k) : k \in {k \in K : lockCount[k[1]] # 0}}
                                      /\ Freed(R) /\ Release(R, F) /\ Forget(u, R)
  <1> DEFINE R == UNION {OwnMatch(u, k) : k \in {k \in K : lockCount[k[1]] # 0}}
  <1>1. R \in SUBSET CellsOf(u)
    BY OwnMatchOwned
  <1>2. R \in SUBSET Cell /\ \A c \in R : Used(c)
    BY <1>1 DEF CellsOf
  <1>3. Release(R, F) /\ Forget(u, R)
    BY DEF UnlockKeys
  <1> HIDE DEF R
  <1>4. Freed(R)
    BY <1>2, <1>3, FreeIsFreed DEF Release
  <1> QED BY <1>1, <1>3, <1>4 DEF R

\* The steps by which a user gives up locks of its own: those found in its
\* local lock table, those of a transaction, and those of a dead user.
KeyStep(u) ==
  \/ \E fv \in Fvar, id \in Id : ReleaseRecord(u, fv, id)
  \/ \E fv \in Fvar : ReleaseFile(u, fv) \/ CloseFvar(u, fv)
  \/ ReleaseAll(u)
EndStep(u) == TxnEnd(u) \/ (Rollback(u) /\ txn[u] # 0)

LEMMA KeyStepFreed ==
  ASSUME NEW u \in User, KeyStep(u)
  PROVE  \E R \in SUBSET CellsOf(u) : Freed(R) /\ Forget(u, R)
  <1>1. PICK K, F : UnlockKeys(u, K, F)
    BY DEF KeyStep, ReleaseRecord, ReleaseFile, CloseFvar, ReleaseAll, UnlockFvar
  <1> QED BY <1>1, UnlockKeysFreed

LEMMA EndStepFreed ==
  ASSUME NEW u \in User, EndStep(u)
  PROVE  (\E R \in SUBSET CellsOf(u) : Freed(R)) /\ llt' = llt
  <1>1. UnlockTxn(u)
    BY DEF EndStep, TxnEnd, Rollback
  <1>2. {c \in CellsOf(u) : cell[c].txn = txn[u]} \in SUBSET Cell
    BY DEF CellsOf
  <1>3. Freed({c \in CellsOf(u) : cell[c].txn = txn[u]})
    BY <1>1, <1>2, FreeIsFreed DEF UnlockTxn, CellsOf
  <1> QED BY <1>1, <1>3 DEF UnlockTxn

LEMMA CleanUpFreed ==
  ASSUME NEW u \in User, CleanUp(u)
  PROVE  Freed(CellsOf(u))
  <1>1. CellsOf(u) \in SUBSET Cell /\ \A c \in CellsOf(u) : Used(c)
    BY DEF CellsOf
  <1> QED BY <1>1, FreeIsFreed DEF CleanUp

LEMMA AdminFreed ==
  ASSUME AdminStep
  PROVE  (\E R \in SUBSET Cell : Freed(R)) /\ llt' = llt /\ req' = req
  <1>1. ASSUME NEW F, NEW U, NEW I, AdminUnlock(F, U, I)
        PROVE  (\E R \in SUBSET Cell : Freed(R)) /\ llt' = llt /\ req' = req
    <2> DEFINE R == {c \in Cell : /\ Used(c) /\ cell[c].owner \in U
                                  /\ cell[c].key \in F \X I}
    <2>1. Release(R, {}) /\ llt' = llt /\ req' = req
      BY <1>1 DEF AdminUnlock
    <2>2. Freed(R)
      BY <2>1, FreeIsFreed DEF Release
    <2> QED BY <2>1, <2>2
  <1>2. ASSUME NEW F, NEW U, AdminUnlockFile(F, U)
        PROVE  (\E R \in SUBSET Cell : Freed(R)) /\ llt' = llt /\ req' = req
    BY <1>2, FreeIsFreed DEF AdminUnlockFile, Release
  <1> QED BY <1>1, <1>2 DEF AdminStep

\* A lock that is refreshed or strengthened keeps its key and owner.
ChangeStep(u) ==
  \/ \E fv \in Fvar, id \in Id, upd \in BOOLEAN : LockRefresh(u, fv, id, upd)
  \/ \E fv \in Fvar, id \in Id : LockUpgrade(u, fv, id)

SameOwners ==
  \A c \in Cell : /\ Used(c)' <=> Used(c)
                  /\ Used(c) => cell'[c].key = cell[c].key /\ cell'[c].owner = cell[c].owner

\* Lock c of u gets another type, file variable or transaction.
Changed(u, c, e) ==
  /\ c \in CellsOf(u) /\ e \in LockEntry /\ cell' = [cell EXCEPT ![c] = e]
  /\ e.key = cell[c].key /\ e.owner = u

LEMMA ChangedSame ==
  ASSUME CellsOK, NEW u \in User, NEW c, NEW e, Changed(u, c, e)
  PROVE  SameOwners /\ \A d \in Cell : d # c => cell'[d] = cell[d]
  <1>1. c \in Cell /\ Used(c) /\ cell[c].owner = u
    BY DEF Changed, CellsOf
  <1>2. cell'[c] = e /\ \A d \in Cell : d # c => cell'[d] = cell[d]
    BY <1>1 DEF Changed, CellsOK
  <1> QED BY <1>1, <1>2, EntryIsUsed DEF SameOwners, Changed, Used

LEMMA RefreshChanges ==
  ASSUME IInv, NEW u \in User, NEW fv \in Fvar, NEW id \in Id, NEW upd \in BOOLEAN,
         LockRefresh(u, fv, id, upd)
  PROVE  \E c, e : /\ Changed(u, c, e) /\ e.key = <<FileOf[fv], id>>
                   /\ e.type = (IF upd THEN "U" ELSE "S") /\ e.fvar = fv
  <1> DEFINE k == <<FileOf[fv], id>>
             e(c) == [cell[c] EXCEPT !.type = IF upd THEN "U" ELSE "S",
                                     !.fvar = fv, !.txn = LockTxn(u, fv)]
  <1>1. PICK c \in OwnMatch(u, k) :
          cell' = [cell EXCEPT ![c].type = IF upd THEN "U" ELSE "S",
                               ![c].fvar = fv, ![c].txn = LockTxn(u, fv)]
    BY DEF LockRefresh
  <1>2. c \in CellsOf(u) /\ c \in Cell /\ Used(c) /\ cell[c].key = k /\ cell[c].owner = u
    BY OwnMatchOwned DEF CellsOf
  <1>3. cell[c] \in LockEntry
    BY <1>2, UsedIsEntry DEF IInv, TableInv
  <1>4. LockTxn(u, fv) \in Nat
    BY DEF LockTxn, IInv, TypeOK
  <1>5. e(c) \in LockEntry
    BY <1>3, <1>4 DEF LockEntry
  <1>6. /\ e(c).key = k /\ e(c).owner = u
        /\ e(c).type = (IF upd THEN "U" ELSE "S") /\ e(c).fvar = fv
    BY <1>2, <1>3 DEF LockEntry
  <1>7. cell' = [cell EXCEPT ![c] = e(c)]
    BY <1>1, <1>2, <1>3 DEF IInv, TypeOK, LockEntry
  <1> HIDE DEF e
  <1> QED BY <1>2, <1>5, <1>6, <1>7 DEF Changed

LEMMA UpgradeChanges ==
  ASSUME IInv, NEW u \in User, NEW fv \in Fvar, NEW id \in Id, LockUpgrade(u, fv, id)
  PROVE  \E c, e : /\ Changed(u, c, e) /\ e.key = <<FileOf[fv], id>>
                   /\ e.type = "U" /\ e.fvar = cell[c].fvar
  <1> DEFINE k == <<FileOf[fv], id>>
             e(c) == [cell[c] EXCEPT !.type = "U"]
  <1>1. PICK c \in OwnMatch(u, k) : cell' = [cell EXCEPT ![c].type = "U"]
    BY DEF LockUpgrade
  <1>2. c \in CellsOf(u) /\ c \in Cell /\ Used(c) /\ cell[c].key = k /\ cell[c].owner = u
    BY OwnMatchOwned DEF CellsOf
  <1>3. cell[c] \in LockEntry
    BY <1>2, UsedIsEntry DEF IInv, TableInv
  <1>4. e(c) \in LockEntry
    BY <1>3 DEF LockEntry
  <1>5. e(c).key = k /\ e(c).owner = u /\ e(c).type = "U" /\ e(c).fvar = cell[c].fvar
    BY <1>2, <1>3 DEF LockEntry
  <1>6. cell' = [cell EXCEPT ![c] = e(c)]
    BY <1>1, <1>2, <1>3 DEF IInv, TypeOK, LockEntry
  <1> HIDE DEF e
  <1> QED BY <1>2, <1>4, <1>5, <1>6 DEF Changed

LEMMA ChangeStepSame ==
  ASSUME IInv, NEW u \in User, ChangeStep(u)
  PROVE  SameOwners /\ llt' = llt /\ UNCHANGED <<fileLock, txn, nextTxn, rebuild>>
  <1>1. \E c, e : Changed(u, c, e)
    BY RefreshChanges, UpgradeChanges DEF ChangeStep
  <1>2. SameOwners
    BY <1>1, ChangedSame DEF IInv, TableInv
  <1> QED BY <1>2 DEF ChangeStep, LockRefresh, LockUpgrade

\* A new lock of u, and its entry in the local lock table.
Added(u, fv, k, c, t) ==
  /\ c \in Cell /\ ~Used(c) /\ Used(c)'
  /\ cell'[c].key = k /\ cell'[c].owner = u /\ cell'[c].type = t /\ cell'[c].fvar = fv
  /\ \A d \in Cell : d # c => cell'[d] = cell[d]
  /\ llt'[u][k] = <<fv>> \o llt[u][k]
  /\ \A v \in User, j \in Key : v # u \/ j # k => llt'[v][j] = llt[v][j]

LEMMA NewIsAdded ==
  ASSUME IInv, NEW u \in User, NEW fv \in Fvar, NEW id \in Id, NEW upd \in BOOLEAN,
         LockNew(u, fv, id, upd)
  PROVE  /\ <<FileOf[fv], id>> \in Key
         /\ \E c : Added(u, fv, <<FileOf[fv], id>>, c, IF upd THEN "U" ELSE "S")
  <1> DEFINE k == <<FileOf[fv], id>>
             t == IF upd THEN "U" ELSE "S"
             e == [key |-> k, owner |-> u, waiters |-> 0, type |-> t,
                   fvar |-> fv, txn |-> LockTxn(u, fv)]
  <1>1. PICK c \in Cell : ~Used(c) /\ cell' = [cell EXCEPT ![c] = e]
    BY DEF LockNew
  <1>2. k \in Key
    BY RecordLocksAssumption DEF Key
  <1>3. LockTxn(u, fv) \in Nat
    BY DEF LockTxn, IInv, TypeOK
  <1>4. e \in LockEntry
    BY <1>2, <1>3 DEF LockEntry
  <1>5. cell'[c] = e /\ \A d \in Cell : d # c => cell'[d] = cell[d]
    BY <1>1 DEF IInv, TypeOK
  <1>6. Used(c)'
    BY <1>4, <1>5, EntryIsUsed DEF Used
  <1>7. llt' = [llt EXCEPT ![u][k] = <<fv>> \o @]
    BY DEF LockNew
  <1>8. llt'[u][k] = <<fv>> \o llt[u][k]
    BY <1>2, <1>7 DEF IInv, TypeOK
  <1>9. \A v \in User, j \in Key : v # u \/ j # k => llt'[v][j] = llt[v][j]
    BY <1>2, <1>7 DEF IInv, TypeOK
  <1> QED BY <1>1, <1>2, <1>5, <1>6, <1>8, <1>9 DEF Added

\* Every step is one of these.
LEMMA StepKinds ==
  ASSUME NEW u \in User, UserStep(u)
  PROVE  \/ SteadyStep(u) \/ KeyStep(u) \/ EndStep(u) \/ CleanUp(u) \/ ChangeStep(u)
         \/ \E fv \in Fvar, id \in Id, upd \in BOOLEAN : LockNew(u, fv, id, upd)
  BY DEF UserStep, LockRecord, SteadyStep, KeyStep, EndStep, ChangeStep

-----------------------------------------------------------------------------
(* The local lock tables cover the locks                                   *)

LEMMA SteadyLLT ==
  ASSUME NEW u, SteadyStep(u), ~RebuildLLT(u)
  PROVE  llt' = llt
  <1>1. ASSUME NEW fv, NEW id, NEW upd,
               LockBlockedByFile(u, fv, id, upd) \/ LockTableFull(u, fv, id, upd)
        PROVE  llt' = llt
    BY <1>1 DEF LockBlockedByFile, LockTableFull, StartWait
  <1>2. ASSUME NEW fv, NEW id, NEW upd, LockBlocked(u, fv, id, upd)
        PROVE  llt' = llt
    BY <1>2 DEF LockBlocked, StartWait
  <1>3. ASSUME NEW fv, FileLock(u, fv) \/ FileUnlockCheck(u, fv) \/ ClearBegin(u, fv)
                         \/ Close(u, fv) \/ CloseCheck(u, fv)
        PROVE  llt' = llt
    BY <1>3 DEF FileLock, FileUnlockCheck, ClearBegin, Close, CloseCheck
  <1>4. ASSUME \/ \E how \in {"abort", "stop"} : Leave(u, how)
               \/ TxnBegin(u) \/ FileUnlock(u) \/ ClearEnd(u) \/ Quit(u)
               \/ ClearLockwait(u) \/ CloseFileLock(u) \/ Die(u)
               \/ Rollback(u) /\ txn[u] = 0
        PROVE  llt' = llt
    BY <1>4 DEF Leave, TxnBegin, FileUnlock, ClearEnd, Quit, ClearLockwait, CloseFileLock,
                Die, Rollback
  <1> QED BY <1>1, <1>2, <1>3, <1>4 DEF SteadyStep

LEMMA LLTStep ==
  ASSUME IInv, LLTCovers, NEW u \in User, UserStep(u)
  PROVE  LLTCovers'
  <1> SUFFICES ASSUME NEW v \in User, NEW c \in Cell, Used(c)', cell'[c].owner = v
               PROVE  llt'[v][cell'[c].key] # <<>>
    BY DEF LLTCovers, CellsOf
  <1> DEFINE j == cell[c].key
  <1>0. Used(c) /\ cell[c].owner = v => llt[v][j] # <<>> /\ j \in Key
    BY UsedIsEntry DEF LLTCovers, CellsOf, IInv, TableInv, LockEntry
  <1>1. CASE SteadyStep(u) /\ ~RebuildLLT(u)
    BY <1>0, <1>1, SteadySame, SteadyLLT DEF SameLocks
  <1>2. CASE RebuildLLT(u)
    <2>1. UNCHANGED cell
      BY <1>2 DEF RebuildLLT, tables
    <2>2. Used(c) /\ cell[c].owner = v /\ j \in Key /\ cell'[c].key = j
      BY <1>0, <2>1 DEF Used
    <2>3. CASE v # u
      <3>1. llt'[v] = llt[v]
        BY <1>2, <2>3 DEF RebuildLLT, IInv, TypeOK
      <3> QED BY <1>0, <2>2, <3>1
    <2>4. CASE v = u
      <3> DEFINE own(k) == {d \in CellsOf(u) : cell[d].key = k}
                 new(k) == IF own(k) = {} THEN <<>> ELSE <<cell[CHOOSE d \in own(k) : TRUE].fvar>>
      <3>1. c \in own(j)
        BY <2>2, <2>4 DEF CellsOf
      <3>2. llt' = [llt EXCEPT ![u] = [k \in Key |-> new(k)]]
        BY <1>2 DEF RebuildLLT
      <3>3. PICK s : new(j) = <<s>>
        BY <3>1
      <3> HIDE DEF new
      <3>4. llt'[u][j] = new(j)
        BY <2>2, <3>2 DEF IInv, TypeOK
      <3> QED BY <2>2, <2>4, <3>3, <3>4
    <2> QED BY <2>3, <2>4
  <1>3. CASE KeyStep(u)
    <2>1. PICK R \in SUBSET CellsOf(u) : Freed(R) /\ Forget(u, R)
      BY <1>3, KeyStepFreed
    <2>2. Used(c) /\ c \notin R /\ cell[c].owner = v /\ cell'[c].key = j /\ j \in Key
      BY <1>0, <2>1 DEF Freed
    <2>3. v = u => ~\E d \in R : cell[d].key = j
      <3> SUFFICES ASSUME v = u, NEW d \in R, cell[d].key = j PROVE FALSE
        OBVIOUS
      <3>1. d \in Cell /\ Used(d) /\ cell[d].owner = cell[c].owner /\ d # c
        BY <2>1, <2>2 DEF CellsOf
      <3>2. RecordExclusion
        BY DEF IInv, TableInv
      <3> QED BY <2>2, <3>1, <3>2 DEF RecordExclusion
    <2>4. llt'[v][j] = llt[v][j]
      BY <2>1, <2>2, <2>3 DEF Forget, IInv, TypeOK
    <2> QED BY <1>0, <2>2, <2>4
  <1>4. CASE EndStep(u)
    BY <1>0, <1>4, EndStepFreed DEF Freed
  <1>5. CASE CleanUp(u)
    <2>1. Used(c) /\ c \notin CellsOf(u) /\ cell'[c] = cell[c]
      BY <1>5, CleanUpFreed DEF Freed
    <2>2. v # u
      BY <2>1 DEF CellsOf
    <2>3. llt'[v] = llt[v]
      BY <1>5, <2>2 DEF CleanUp, IInv, TypeOK
    <2> QED BY <1>0, <2>1, <2>3
  <1>6. CASE ChangeStep(u)
    BY <1>0, <1>6, ChangeStepSame DEF SameOwners
  <1>7. ASSUME NEW fv \in Fvar, NEW id \in Id, NEW upd \in BOOLEAN, LockNew(u, fv, id, upd)
        PROVE  llt'[v][cell'[c].key] # <<>>
    <2> DEFINE k == <<FileOf[fv], id>>
    <2>1. PICK d : Added(u, fv, k, d, IF upd THEN "U" ELSE "S")
      BY <1>7, NewIsAdded
    <2>2. k \in Key
      BY <1>7, NewIsAdded
    <2>3. llt[u][k] \in Seq(Fvar)
      BY <2>2 DEF IInv, TypeOK
    <2>4. llt'[u][k] # <<>>
      <3>1. llt'[u][k] = <<fv>> \o llt[u][k]
        BY <2>1 DEF Added
      <3> HIDE DEF k
      <3>2. <<fv>> \in Seq(Fvar) /\ Len(<<fv>>) = 1
        OBVIOUS
      <3>3. Len(llt'[u][k]) = 1 + Len(llt[u][k]) /\ Len(llt[u][k]) \in Nat
        BY <2>3, <3>1, <3>2, ConcatProperties
      <3> QED BY <3>3
    <2> HIDE DEF k
    <2>5. CASE c = d
      BY <2>1, <2>4, <2>5 DEF Added
    <2>6. CASE c # d
      <3>1. cell'[c] = cell[c] /\ Used(c)
        BY <2>1, <2>6 DEF Added, Used
      <3>2. (v = u /\ j = k) \/ llt'[v][j] = llt[v][j]
        BY <1>0, <2>1, <3>1 DEF Added
      <3> QED BY <1>0, <2>4, <3>1, <3>2
    <2> QED BY <2>5, <2>6
  <1> QED BY <1>1, <1>2, <1>3, <1>4, <1>5, <1>6, <1>7, StepKinds

LEMMA LLTAdmin ==
  ASSUME IInv, LLTCovers, AdminStep
  PROVE  LLTCovers'
  BY AdminFreed DEF LLTCovers, CellsOf, Freed

LEMMA LLTInit ==
  ASSUME Init
  PROVE  LLTCovers
  BY DEF Init, LLTCovers, CellsOf, Used

LEMMA LLTNext ==
  ASSUME IInv, LLTCovers, [Next]_vars
  PROVE  LLTCovers'
  <1>1. CASE UNCHANGED vars
    BY <1>1 DEF vars, tables, LLTCovers, CellsOf, Used
  <1> QED BY <1>1, LLTStep, LLTAdmin DEF Next

\* Whatever locks, releases, transactions, rebuilds and clean-ups do, no lock
\* is without an entry in the local lock table of its owner, where RELEASE and
\* close look for it.
THEOREM LocksCovered == Spec => []LLTCovers
  <1>1. Init => LLTCovers
    BY LLTInit
  <1>2. IInv /\ LLTCovers /\ [Next]_vars => LLTCovers'
    BY LLTNext
  <1> QED BY <1>1, <1>2, Invariance, PTL DEF Spec

-----------------------------------------------------------------------------
(* What a step does to the requests and to the file locks                  *)

LEMMA StepGroups ==
  ASSUME NEW u \in User, UserStep(u)
  PROVE  \/ \E fv \in Fvar, id \in Id, upd \in BOOLEAN : LockRecord(u, fv, id, upd)
         \/ \E fv \in Fvar, id \in Id : ReleaseRecord(u, fv, id)
         \/ \E fv \in Fvar : \/ ReleaseFile(u, fv) \/ CloseFvar(u, fv)
                             \/ FileLock(u, fv) \/ FileUnlockCheck(u, fv)
                             \/ ClearBegin(u, fv) \/ Close(u, fv) \/ CloseCheck(u, fv)
         \/ ReleaseAll(u) \/ FileUnlock(u) \/ ClearEnd(u) \/ CloseFileLock(u)
         \/ TxnEnd(u) \/ Rollback(u) \/ CleanUp(u)
         \/ \E how \in {"abort", "stop"} : Leave(u, how)
         \/ TxnBegin(u) \/ Quit(u) \/ ClearLockwait(u) \/ RebuildLLT(u) \/ Die(u)
  BY DEF UserStep

\* What LOCK and the locking reads leave in the request of their user.
LEMMA LockRecordReq ==
  ASSUME TypeOK, NEW u \in User, NEW fv \in Fvar, NEW id \in Id, NEW upd \in BOOLEAN,
         LockRecord(u, fv, id, upd)
  PROVE  /\ req[u].op \in {"idle", "lockrec"}
         /\ \/ req' = req
            \/ req' = [req EXCEPT ![u] = Idle]
            \/ req' = [req EXCEPT ![u] = [op |-> "abort"]]
            \/ req' = [req EXCEPT ![u] = LockRecReq(fv, id, upd)]
         /\ UNCHANGED <<fileLock, txn, nextTxn, rebuild>>
  <1>1. Idle.op = "idle" /\ LockRecReq(fv, id, upd).op = "lockrec"
    BY DEF Idle, LockRecReq
  <1>2. CASE LockBlockedByFile(u, fv, id, upd)
    BY <1>1, <1>2 DEF LockBlockedByFile, StartWait, Runs
  <1>3. CASE LockRefresh(u, fv, id, upd)
    BY <1>1, <1>3 DEF LockRefresh, Done, Runs
  <1>4. CASE LockBlocked(u, fv, id, upd)
    <2>1. req[u].op \in {"idle", "lockrec"}
      BY <1>1, <1>4 DEF LockBlocked, Runs
    <2>2. /\ UNCHANGED <<fileLock, txn, nextTxn, rebuild>>
          /\ \/ req' = req
             \/ req' = [req EXCEPT ![u] = [op |-> "abort"]]
             \/ req' = [req EXCEPT ![u] = LockRecReq(fv, id, upd)]
      BY <1>4 DEF LockBlocked, StartWait, tables
    <2> QED BY <2>1, <2>2
  <1>5. CASE upd /\ LockUpgrade(u, fv, id)
    <2>1. req[u].op \in {"idle", "lockrec"}
      BY <1>1, <1>5 DEF LockUpgrade, Runs, LockRecReq
    <2> QED BY <1>5, <2>1 DEF LockUpgrade, Done
  <1>6. CASE LockNew(u, fv, id, upd)
    BY <1>1, <1>6 DEF LockNew, Lockable, Done, Runs
  <1>7. CASE LockTableFull(u, fv, id, upd)
    BY <1>1, <1>7 DEF LockTableFull, Lockable, Runs, tables
  <1> QED BY <1>2, <1>3, <1>4, <1>5, <1>6, <1>7 DEF LockRecord

\* The request and the local lock table of another user stay.
LEMMA OthersKept ==
  ASSUME TypeOK, NEW u \in User, UserStep(u), NEW v \in User \ {u}
  PROVE  req'[v] = req[v] /\ llt'[v] = llt[v]
  <1>1. ASSUME NEW r, req' = [req EXCEPT ![u] = r] PROVE req'[v] = req[v]
    BY <1>1 DEF TypeOK
  <1>2. ASSUME NEW t, llt' = [llt EXCEPT ![u] = t] PROVE llt'[v] = llt[v]
    BY <1>2 DEF TypeOK
  <1>3. ASSUME NEW K, NEW F, UnlockKeys(u, K, F) PROVE llt'[v] = llt[v]
    BY <1>2, <1>3 DEF UnlockKeys, Forget
  <1>4. ASSUME NEW fv \in Fvar, NEW id \in Id, NEW upd \in BOOLEAN, LockRecord(u, fv, id, upd)
        PROVE  req'[v] = req[v] /\ llt'[v] = llt[v]
    <2>1. req'[v] = req[v]
      BY <1>1, <1>4, LockRecordReq
    <2>2. CASE LockNew(u, fv, id, upd)
      BY <2>1, <2>2 DEF LockNew, TypeOK
    <2>3. CASE SteadyStep(u) /\ ~RebuildLLT(u)
      BY <2>1, <2>3, SteadyLLT
    <2>4. CASE RebuildLLT(u)
      BY <2>1, <2>4, <1>2 DEF RebuildLLT
    <2>5. CASE LockRefresh(u, fv, id, upd) \/ LockUpgrade(u, fv, id)
      BY <2>1, <2>5 DEF LockRefresh, LockUpgrade
    <2> QED BY <1>4, <2>2, <2>3, <2>4, <2>5 DEF LockRecord, SteadyStep
  <1>5. CASE \/ \E fv \in Fvar, id \in Id : ReleaseRecord(u, fv, id)
             \/ \E fv \in Fvar : ReleaseFile(u, fv)
             \/ ReleaseAll(u)
    BY <1>3, <1>5 DEF ReleaseRecord, ReleaseFile, UnlockFvar, ReleaseAll
  <1>6. CASE \E fv \in Fvar : CloseFvar(u, fv)
    BY <1>1, <1>3, <1>6 DEF CloseFvar, UnlockFvar
  <1>7. CASE \E fv \in Fvar : \/ FileLock(u, fv) \/ FileUnlockCheck(u, fv)
                              \/ ClearBegin(u, fv) \/ Close(u, fv)
    BY <1>1, <1>7 DEF FileLock, FileUnlockCheck, ClearBegin, Close, Done
  <1>8. CASE \/ \E fv \in Fvar : CloseCheck(u, fv)
             \/ CloseFileLock(u)
    BY <1>8 DEF CloseCheck, CloseFileLock, TypeOK
  <1>9. CASE FileUnlock(u) \/ ClearEnd(u)
    BY <1>1, <1>9 DEF FileUnlock, ClearEnd
  <1>12. CASE Quit(u) \/ Die(u) \/ \E how \in {"abort", "stop"} : Leave(u, how)
    BY <1>1, <1>12 DEF Quit, Die, Leave
  <1>10. CASE TxnEnd(u) \/ Rollback(u) \/ ClearLockwait(u) \/ TxnBegin(u)
    BY <1>1, <1>10 DEF TxnEnd, Rollback, UnlockTxn, ClearLockwait, TxnBegin
  <1>11. CASE RebuildLLT(u) \/ CleanUp(u)
    BY <1>1, <1>2, <1>11 DEF RebuildLLT, CleanUp
  <1> QED BY <1>4, <1>5, <1>6, <1>7, <1>8, <1>9, <1>10, <1>11, <1>12, StepGroups

\* The requests that stand for a check made earlier are entered by the check.
LEMMA RequestEntered ==
  ASSUME TypeOK, NEW u \in User, UserStep(u)
  PROVE  /\ req'[u].op = "clear" =>
              \E fv \in Fvar : ClearBegin(u, fv) /\ req'[u].fvar = fv
                                 /\ req'[u].took = ~HasFileLock(u, FileOf[fv])
         /\ req'[u].op = "flunlock" =>
              \E fv \in Fvar : FileUnlockCheck(u, fv) /\ req'[u].fvar = fv
         /\ req'[u].op = "closing" /\ req'[u].flock # None =>
              \E fv \in Fvar : CloseCheck(u, fv) /\ req'[u].flock = fv
  <1> DEFINE Goal ==
        /\ req'[u].op = "clear" =>
             \E fv \in Fvar : ClearBegin(u, fv) /\ req'[u].fvar = fv
                                /\ req'[u].took = ~HasFileLock(u, FileOf[fv])
        /\ req'[u].op = "flunlock" =>
             \E fv \in Fvar : FileUnlockCheck(u, fv) /\ req'[u].fvar = fv
        /\ req'[u].op = "closing" /\ req'[u].flock # None =>
             \E fv \in Fvar : CloseCheck(u, fv) /\ req'[u].flock = fv
  <1>0. SUFFICES Goal
    OBVIOUS
  <1>1. ASSUME NEW r, req' = [req EXCEPT ![u] = r] PROVE req'[u] = r
    BY <1>1 DEF TypeOK
  <1>2. ASSUME req'[u].op \in {"idle", "lockrec", "filelock", "abort", "stop", "rollback",
                               "prompt", "dead"}
        PROVE  Goal
    BY <1>2
  <1>3. ASSUME NEW S, NEW next, req'[u] = Closing(S, None, next) PROVE Goal
    BY <1>3 DEF Closing
  <1>4. Idle.op = "idle" /\ \A fv, id, upd : LockRecReq(fv, id, upd).op = "lockrec"
    BY DEF Idle, LockRecReq
  <1>5. ASSUME NEW fv \in Fvar, NEW id \in Id, NEW upd \in BOOLEAN, LockRecord(u, fv, id, upd)
        PROVE  Goal
    <2>1. req'[u].op \in {"idle", "lockrec", "abort"}
      BY <1>1, <1>4, <1>5, LockRecordReq
    <2> QED BY <1>2, <2>1
  <1>6. CASE \/ \E fv \in Fvar, id \in Id : ReleaseRecord(u, fv, id)
             \/ \E fv \in Fvar : ReleaseFile(u, fv)
             \/ ReleaseAll(u) \/ TxnEnd(u) \/ TxnBegin(u) \/ RebuildLLT(u)
    <2>1. req' = req
      BY <1>6 DEF ReleaseRecord, ReleaseFile, ReleaseAll, TxnEnd, TxnBegin, RebuildLLT
    <2>2. req[u] = Idle \/ RebuildLLT(u)
      BY <1>6 DEF ReleaseRecord, ReleaseFile, ReleaseAll, TxnEnd, TxnBegin, RunsNew
    <2>3. req[u].op \in {"idle", "lockrec", "filelock"}
      BY <1>4, <2>2 DEF RebuildLLT
    <2> QED BY <1>2, <2>1, <2>3
  <1>7. CASE FileUnlock(u) \/ ClearEnd(u) \/ CleanUp(u) \/ Die(u)
             \/ \E how \in {"abort", "stop"} : Leave(u, how)
    <2>1. \/ req' = [req EXCEPT ![u] = Idle]
          \/ \E o \in {"dead", "abort", "stop"} : req' = [req EXCEPT ![u] = [op |-> o]]
      BY <1>7 DEF FileUnlock, ClearEnd, CleanUp, Die, Leave
    <2>2. req'[u].op \in {"idle", "dead", "abort", "stop"}
      BY <1>1, <1>4, <2>1
    <2> QED BY <1>2, <2>2
  <1>8. ASSUME NEW fv \in Fvar, FileLock(u, fv) PROVE Goal
    <2>1. req'[u] = Idle \/ req'[u] = FileLockReq(fv)
      BY <1>1, <1>8 DEF FileLock, Done
    <2>2. req'[u].op \in {"idle", "filelock"}
      BY <1>4, <2>1 DEF FileLockReq
    <2> QED BY <1>2, <2>2
  <1>9. ASSUME NEW fv \in Fvar, FileUnlockCheck(u, fv) PROVE Goal
    <2>1. req' = [req EXCEPT ![u] = [op |-> "flunlock", fvar |-> fv]]
      BY <1>9 DEF FileUnlockCheck
    <2>2. req'[u] = [op |-> "flunlock", fvar |-> fv]
      BY <1>1, <2>1
    <2>3. req'[u].op = "flunlock" /\ req'[u].fvar = fv
      BY <2>2
    <2> QED BY <1>9, <2>3
  <1>10. ASSUME NEW fv \in Fvar, ClearBegin(u, fv) PROVE Goal
    <2> DEFINE took == ~HasFileLock(u, FileOf[fv])
    <2>1. req' = [req EXCEPT ![u] = [op |-> "clear", fvar |-> fv, took |-> took]]
      BY <1>10 DEF ClearBegin
    <2>2. req'[u] = [op |-> "clear", fvar |-> fv, took |-> took]
      BY <1>1, <2>1
    <2> HIDE DEF took
    <2>3. req'[u].op = "clear" /\ req'[u].fvar = fv /\ req'[u].took = took
      BY <2>2
    <2> QED BY <1>10, <2>3 DEF took
  <1>11. CASE Quit(u) \/ (\E fv \in Fvar : Close(u, fv)) \/ Rollback(u) \/ ClearLockwait(u)
    <2>1. \/ \E S, next : req' = [req EXCEPT ![u] = Closing(S, None, next)]
          \/ req' = [req EXCEPT ![u] = Idle]
          \/ req' = [req EXCEPT ![u] = [op |-> "rollback"]]
      BY <1>11 DEF Quit, Close, Rollback, ClearLockwait
    <2>2. (\E S, next : req'[u] = Closing(S, None, next)) \/ req'[u].op \in {"idle", "rollback"}
      BY <1>1, <1>4, <2>1
    <2> QED BY <1>2, <1>3, <2>2
  <1>12. ASSUME req[u].op = "closing"
         PROVE  /\ req[u].next \in {"idle", "prompt"}
                /\ \A x : [req[u] EXCEPT !.flock = x] = Closing(req[u].fvars, x, req[u].next)
                /\ \A S : [req[u] EXCEPT !.fvars = S] = Closing(S, req[u].flock, req[u].next)
    <2>1. req[u] = Closing(req[u].fvars, req[u].flock, req[u].next) /\ req[u].next \in {"idle", "prompt"}
      BY <1>12, ClosingFacts DEF TypeOK
    <2> QED BY <2>1 DEF Closing
  <1>13. ASSUME NEW fv \in Fvar, CloseCheck(u, fv) PROVE Goal
    <2>1. req'[u] = Closing(req[u].fvars, fv, req[u].next)
      BY <1>1, <1>12, <1>13 DEF CloseCheck, TypeOK
    <2> QED BY <1>13, <2>1 DEF Closing
  <1>14. CASE CloseFileLock(u)
    <2>1. req'[u] = Closing(req[u].fvars, None, req[u].next)
      BY <1>12, <1>14 DEF CloseFileLock, TypeOK
    <2> QED BY <1>3, <2>1
  <1>15. ASSUME NEW fv \in Fvar, CloseFvar(u, fv) PROVE Goal
    <2>1. \/ req'[u] = [op |-> req[u].next]
          \/ req'[u] = Closing(req[u].fvars \ {fv}, None, req[u].next)
      BY <1>1, <1>12, <1>15 DEF CloseFvar
    <2>2. req[u].next \in {"idle", "prompt"}
      BY <1>12, <1>15 DEF CloseFvar
    <2> QED BY <1>2, <1>3, <2>1, <2>2
  <1> HIDE DEF Goal
  <1> QED BY <1>5, <1>6, <1>7, <1>8, <1>9, <1>10, <1>11, <1>13, <1>14, <1>15, StepGroups

-----------------------------------------------------------------------------
(* A file lock excludes the record locks of others                         *)

\* All record locks in file f are locks of u.
OnlyOwn(u, f) == \A c \in Cell : Used(c) /\ cell[c].key[1] = f => cell[c].owner = u

\* What user u knows of the file locks: while it has a lock nobody else has
\* record locks in the file; the file that it clears is marked as its own, and
\* so is a lock that it found to be its own and is about to release.
UserFiles(u) ==
  /\ \A f \in File : HasFileLock(u, f) => OnlyOwn(u, f)
  /\ req[u].op = "clear" =>
       LET f == FileOf[req[u].fvar]
       IN /\ fileLock[f].owner = u /\ fileLock[f].clearing
          /\ req[u].took \/ OnlyOwn(u, f)
  /\ req[u].op = "flunlock" => HasFileLock(u, FileOf[req[u].fvar])
  /\ req[u].op = "closing" /\ req[u].flock # None =>
       fileLock[FileOf[req[u].flock]].owner = u
FileInv == \A u \in User : UserFiles(u)

\* The file locks of the files F, all of them locks or marks of u, go.
Unlocked(u, F) ==
  /\ F \subseteq {f \in File : fileLock[f].owner = u}
  /\ \A f \in File : IF f \in F THEN fileLock'[f].owner = None
                     ELSE fileLock'[f] = fileLock[f]

LEMMA ReleaseUnlocks ==
  ASSUME TypeOK, NEW u \in User, NEW R, NEW F \in SUBSET {f \in File : fileLock[f].owner = u},
         Release(R, F)
  PROVE  Unlocked(u, F)
  BY DEF Release, Unlocked, TypeOK, FileEntry

LEMMA UnlockKeysUnlocks ==
  ASSUME TypeOK, NEW u \in User, NEW K, NEW F \in SUBSET {f \in File : HasFileLock(u, f)},
         UnlockKeys(u, K, F)
  PROVE  \E G : Unlocked(u, G)
  <1>1. F \in SUBSET {f \in File : fileLock[f].owner = u}
    BY DEF HasFileLock
  <1> QED BY <1>1, ReleaseUnlocks DEF UnlockKeys

LEMMA SameUnlocked ==
  ASSUME NEW u \in User, UNCHANGED fileLock
  PROVE  Unlocked(u, {})
  BY DEF Unlocked

\* Every step but these leaves the file locks alone or gives up own ones.
LEMMA FileSteps ==
  ASSUME TypeOK, FileInv, NEW u \in User, UserStep(u)
  PROVE  \/ \E F : Unlocked(u, F)
         \/ \E fv \in Fvar : FileLock(u, fv) \/ ClearBegin(u, fv)
         \/ ClearEnd(u) /\ ~req[u].took
  <1>1. ASSUME NEW fv \in Fvar, NEW id \in Id, NEW upd \in BOOLEAN, LockRecord(u, fv, id, upd)
        PROVE  \E F : Unlocked(u, F)
    BY <1>1, LockRecordReq, SameUnlocked
  <1>2. CASE \E fv \in Fvar, id \in Id : ReleaseRecord(u, fv, id)
    BY <1>2, UnlockKeysUnlocks DEF ReleaseRecord
  <1>3. CASE \E fv \in Fvar : ReleaseFile(u, fv) \/ CloseFvar(u, fv)
    <2>1. PICK fv : UnlockFvar(u, fv)
      BY <1>3 DEF ReleaseFile, CloseFvar
    <2>2. FileOf[fv] \in File => {g \in {FileOf[fv]} : HasFileLock(u, g) /\ FvarFileLock(u, fv)}
                                   \in SUBSET {f \in File : HasFileLock(u, f)}
      OBVIOUS
    <2>3. fv \in Fvar => FileOf[fv] \in File
      BY RecordLocksAssumption
    <2> QED BY <1>3, <2>2, <2>3, RecordLocksAssumption, UnlockKeysUnlocks
            DEF UnlockFvar, ReleaseFile, CloseFvar
  <1>4. CASE ReleaseAll(u)
    BY <1>4, UnlockKeysUnlocks DEF ReleaseAll
  <1>5. CASE FileUnlock(u)
    <2>1. HasFileLock(u, FileOf[req[u].fvar]) /\ FileOf[req[u].fvar] \in File
      BY <1>5, OnFileVarFacts, RecordLocksAssumption DEF FileUnlock, FileInv, UserFiles, TypeOK
    <2>2. {FileOf[req[u].fvar]} \in SUBSET {f \in File : fileLock[f].owner = u}
      BY <2>1 DEF HasFileLock
    <2> QED BY <1>5, <2>2, ReleaseUnlocks DEF FileUnlock
  <1>6. CASE ClearEnd(u)
    <2>1. fileLock[FileOf[req[u].fvar]].owner = u /\ FileOf[req[u].fvar] \in File
      BY <1>6, OnFileVarFacts, RecordLocksAssumption DEF ClearEnd, FileInv, UserFiles, TypeOK
    <2>2. {FileOf[req[u].fvar]} \in SUBSET {f \in File : fileLock[f].owner = u}
      BY <2>1
    <2> QED BY <1>6, <2>2, ReleaseUnlocks DEF ClearEnd
  <1>7. CASE CloseFileLock(u)
    <2>1. req[u].flock \in Fvar
      BY <1>7, ClosingFacts DEF CloseFileLock, TypeOK
    <2>2. fileLock[FileOf[req[u].flock]].owner = u /\ FileOf[req[u].flock] \in File
      BY <1>7, <2>1, RecordLocksAssumption DEF CloseFileLock, FileInv, UserFiles
    <2>3. {FileOf[req[u].flock]} \in SUBSET {f \in File : fileLock[f].owner = u}
      BY <2>2
    <2> QED BY <1>7, <2>3, ReleaseUnlocks DEF CloseFileLock
  <1>8. ASSUME UnlockTxn(u) PROVE \E F : Unlocked(u, F)
    <2> DEFINE F == {f \in File : HasFileLock(u, f) /\ fileLock[f].txn = txn[u]}
    <2>1. Unlocked(u, F)
      BY <1>8 DEF UnlockTxn, Unlocked, TypeOK, FileEntry, HasFileLock
    <2> QED BY <2>1
  <1>9. CASE TxnEnd(u) \/ Rollback(u)
    BY <1>8, <1>9, SameUnlocked DEF TxnEnd, Rollback, tables
  <1>10. CASE CleanUp(u)
    <2> DEFINE F == {f \in File : fileLock[f].owner = u}
    <2>1. Unlocked(u, F)
      BY <1>10 DEF CleanUp, Unlocked, TypeOK, FileEntry
    <2> QED BY <2>1
  <1>11. CASE \E fv \in Fvar : FileUnlockCheck(u, fv) \/ Close(u, fv) \/ CloseCheck(u, fv)
    BY <1>11, SameUnlocked DEF FileUnlockCheck, Close, CloseCheck, tables
  <1>12. CASE \/ \E how \in {"abort", "stop"} : Leave(u, how)
              \/ TxnBegin(u) \/ Quit(u) \/ ClearLockwait(u) \/ RebuildLLT(u) \/ Die(u)
    BY <1>12, SameUnlocked DEF Leave, TxnBegin, Quit, ClearLockwait, RebuildLLT, Die, tables
  <1> QED BY <1>1, <1>2, <1>3, <1>4, <1>5, <1>6, <1>7, <1>9, <1>10, <1>11, <1>12, StepGroups

LEMMA CellSteps ==
  ASSUME IInv, NEW u \in User, UserStep(u), NEW c \in Cell, Used(c)'
  PROVE  \/ Used(c) /\ cell'[c].key = cell[c].key /\ cell'[c].owner = cell[c].owner
         \/ /\ cell'[c].owner = u /\ cell'[c].key[1] \in File
            /\ fileLock[cell'[c].key[1]].owner \in {u, None} /\ fileLock' = fileLock
  <1>1. CASE SteadyStep(u)
    BY <1>1, SteadySame DEF SameLocks
  <1>2. CASE KeyStep(u) \/ EndStep(u) \/ CleanUp(u)
    BY <1>2, KeyStepFreed, EndStepFreed, CleanUpFreed DEF Freed
  <1>3. CASE ChangeStep(u)
    BY <1>3, ChangeStepSame DEF SameOwners
  <1>4. ASSUME NEW fv \in Fvar, NEW id \in Id, NEW upd \in BOOLEAN, LockNew(u, fv, id, upd)
        PROVE  \/ Used(c) /\ cell'[c].key = cell[c].key /\ cell'[c].owner = cell[c].owner
               \/ /\ cell'[c].owner = u /\ cell'[c].key[1] \in File
                  /\ fileLock[cell'[c].key[1]].owner \in {u, None} /\ fileLock' = fileLock
    <2>1. PICK d : Added(u, fv, <<FileOf[fv], id>>, d, IF upd THEN "U" ELSE "S")
      BY <1>4, NewIsAdded
    <2>2. FileOf[fv] \in File /\ fileLock[FileOf[fv]].owner \in {u, None} /\ fileLock' = fileLock
      BY <1>4, RecordLocksAssumption DEF LockNew, Lockable, LockedByOther
    <2>3. CASE c = d
      BY <2>1, <2>2, <2>3 DEF Added
    <2>4. CASE c # d
      BY <2>1, <2>4 DEF Added, Used
    <2> QED BY <2>3, <2>4
  <1> QED BY <1>1, <1>2, <1>3, <1>4, StepKinds

\* No step lets another user have a lock in a file that is only u's ...
LEMMA OnlyOwnKept ==
  ASSUME IInv, NEW u \in User, UserStep(u), NEW v \in User, NEW f \in File,
         fileLock[f].owner = v \/ u = v, OnlyOwn(v, f)
  PROVE  OnlyOwn(v, f)'
  <1> SUFFICES ASSUME NEW c \in Cell, Used(c)', cell'[c].key[1] = f
               PROVE  cell'[c].owner = v
    BY DEF OnlyOwn
  <1> QED BY CellSteps, RecordLocksAssumption DEF OnlyOwn

\* ... or touches the file lock of another user.
LEMMA OthersFileLock ==
  ASSUME TypeOK, FileInv, NEW u \in User, UserStep(u), NEW f \in File, NEW v \in User \ {u},
         fileLock[f].owner = v \/ fileLock'[f].owner = v
  PROVE  fileLock'[f] = fileLock[f]
  <1>0. v # None /\ u # None
    BY RecordLocksAssumption
  <1>1. ASSUME NEW F, Unlocked(u, F) PROVE fileLock'[f] = fileLock[f]
    BY <1>0, <1>1 DEF Unlocked
  <1>2. ASSUME NEW fv \in Fvar, FileLock(u, fv) \/ ClearBegin(u, fv)
        PROVE  fileLock'[f] = fileLock[f]
    <2> DEFINE g == FileOf[fv]
    <2>1. g \in File
      BY RecordLocksAssumption
    <2>2. /\ fileLock' # fileLock => fileLock[g].owner \in {u, None}
          /\ \E e : e.owner = u /\ fileLock' \in {fileLock, [fileLock EXCEPT ![g] = e]}
      <3>1. CASE FileLock(u, fv) /\ HasFileLock(u, g)
        <4> DEFINE e == [fileLock[g] EXCEPT !.txn = txn[u]]
        <4>1. e.owner = u
          BY <2>1, <3>1 DEF HasFileLock, TypeOK, FileEntry
        <4>2. fileLock' = [fileLock EXCEPT ![g].txn = txn[u]]
          BY <1>0, <3>1 DEF FileLock, Vacant, HasFileLock
        <4>3. fileLock' = [fileLock EXCEPT ![g] = e]
          BY <2>1, <4>2 DEF TypeOK
        <4> HIDE DEF e
        <4> QED BY <3>1, <4>1, <4>3 DEF HasFileLock
      <3>2. CASE FileLock(u, fv) /\ ~HasFileLock(u, g) /\ Vacant(u, g)
        <4> DEFINE e == [owner |-> u, clearing |-> FALSE, fvar |-> fv, txn |-> txn[u]]
        <4>1. fileLock' = [fileLock EXCEPT ![g] = e]
          BY <3>2 DEF FileLock
        <4>2. e.owner = u
          OBVIOUS
        <4>3. fileLock[g].owner = None
          BY <3>2 DEF Vacant
        <4> HIDE DEF e
        <4> QED BY <4>1, <4>2, <4>3
      <3>3. CASE FileLock(u, fv) /\ ~HasFileLock(u, g) /\ ~Vacant(u, g)
        <4>1. fileLock' = fileLock
          BY <3>3 DEF FileLock
        <4>2. [owner |-> u].owner = u
          OBVIOUS
        <4> QED BY <4>1, <4>2
      <3>4. CASE ClearBegin(u, fv)
        <4> DEFINE e == [fileLock[g] EXCEPT !.owner = u, !.clearing = TRUE]
        <4>0. fileLock[g] \in FileEntry
          BY <2>1 DEF TypeOK
        <4>1. e.owner = u
          BY <4>0 DEF FileEntry
        <4>2. fileLock' = [fileLock EXCEPT ![g].owner = u, ![g].clearing = TRUE]
          BY <3>4 DEF ClearBegin
        <4>3. fileLock' = [fileLock EXCEPT ![g] = e]
          BY <2>1, <4>2 DEF TypeOK
        <4>4. fileLock[g].owner \in {u, None}
          BY <3>4 DEF ClearBegin, HasFileLock
        <4> HIDE DEF e
        <4> QED BY <4>1, <4>3, <4>4
      <3> QED BY <1>2, <3>1, <3>2, <3>3, <3>4
    <2>3. PICK e : e.owner = u /\ fileLock' \in {fileLock, [fileLock EXCEPT ![g] = e]}
      BY <2>2
    <2> HIDE DEF g
    <2>4. CASE fileLock' = [fileLock EXCEPT ![g] = e] /\ fileLock' # fileLock
      BY <1>0, <2>1, <2>2, <2>3, <2>4 DEF TypeOK
    <2> QED BY <2>3, <2>4
  <1>3. CASE ClearEnd(u) /\ ~req[u].took
    <2> DEFINE g == FileOf[req[u].fvar]
    <2>1. g \in File /\ fileLock[g].owner = u
      BY <1>3, OnFileVarFacts, RecordLocksAssumption DEF ClearEnd, TypeOK, FileInv, UserFiles
    <2>2. fileLock' = [fileLock EXCEPT ![g].owner = u, ![g].clearing = FALSE]
      BY <1>3 DEF ClearEnd
    <2> HIDE DEF g
    <2> QED BY <2>1, <2>2 DEF TypeOK, FileEntry
  <1> QED BY <1>1, <1>2, <1>3, FileSteps

LEMMA OthersFiles ==
  ASSUME IInv, FileInv, NEW u \in User, UserStep(u), NEW v \in User \ {u}
  PROVE  UserFiles(v)'
  <1> USE DEF IInv
  <1>1. req'[v] = req[v]
    BY OthersKept
  <1>2. UserFiles(v)
    BY DEF FileInv
  <1>3. ASSUME NEW f \in File, HasFileLock(v, f)'
        PROVE  HasFileLock(v, f) /\ OnlyOwn(v, f)'
    BY <1>2, <1>3, OthersFileLock, OnlyOwnKept DEF HasFileLock, UserFiles
  <1>4. ASSUME req'[v].op = "clear"
        PROVE  (LET f == FileOf[req[v].fvar]
                IN /\ fileLock[f].owner = v /\ fileLock[f].clearing
                   /\ req[v].took \/ OnlyOwn(v, f))'
    <2>1. FileOf[req[v].fvar] \in File
      BY <1>1, <1>4, OnFileVarFacts, RecordLocksAssumption DEF TypeOK
    <2> QED BY <1>1, <1>2, <1>4, <2>1, OthersFileLock, OnlyOwnKept DEF UserFiles
  <1>5. ASSUME req'[v].op = "flunlock" PROVE HasFileLock(v, FileOf[req[v].fvar])'
    <2>1. FileOf[req[v].fvar] \in File
      BY <1>1, <1>5, OnFileVarFacts, RecordLocksAssumption DEF TypeOK
    <2> QED BY <1>1, <1>2, <1>5, <2>1, OthersFileLock DEF UserFiles, HasFileLock
  <1>6. ASSUME req'[v].op = "closing", req'[v].flock # None
        PROVE  fileLock'[FileOf[req'[v].flock]].owner = v
    <2>1. FileOf[req[v].flock] \in File
      BY <1>1, <1>6, ClosingFacts, RecordLocksAssumption DEF TypeOK
    <2> QED BY <1>1, <1>2, <1>6, <2>1, OthersFileLock DEF UserFiles
  <1> QED BY <1>3, <1>4, <1>5, <1>6 DEF UserFiles

LEMMA VacantOnlyOwn ==
  ASSUME CountsExact, NEW u, NEW f \in File, Vacant(u, f)
  PROVE  OnlyOwn(u, f)
  <1>1. CASE lockCount[f] = 0
    <2> DEFINE S == {c \in Cell : Used(c) /\ cell[c].key[1] = f}
    <2>1. S \in SUBSET Cell /\ Cardinality(S) = 0
      BY <1>1 DEF CountsExact
    <2>2. S = {}
      BY <2>1, SubsetFinite, FS_EmptySet
    <2> QED BY <2>2 DEF OnlyOwn
  <1> QED BY <1>1 DEF Vacant, OnlyOwn

LEMMA OwnLockTaken ==
  ASSUME IInv, FileInv, NEW u \in User, UserStep(u), NEW f \in File, HasFileLock(u, f)'
  PROVE  HasFileLock(u, f) \/ OnlyOwn(u, f)
  <1> USE DEF IInv
  <1>0. u # None
    BY RecordLocksAssumption
  <1>1. ASSUME NEW F, Unlocked(u, F) PROVE HasFileLock(u, f)
    BY <1>0, <1>1 DEF Unlocked, HasFileLock
  <1>2. ASSUME NEW fv \in Fvar, FileLock(u, fv) PROVE HasFileLock(u, f) \/ OnlyOwn(u, f)
    <2>1. FileOf[fv] \in File /\ CountsExact
      BY RecordLocksAssumption DEF TableInv
    <2>2. CASE f = FileOf[fv]
      <3>1. HasFileLock(u, f) \/ Vacant(u, f) \/ fileLock' = fileLock
        BY <1>2, <2>2 DEF FileLock
      <3>2. fileLock' = fileLock => HasFileLock(u, f)
        BY DEF HasFileLock
      <3> QED BY <2>1, <3>1, <3>2, VacantOnlyOwn
    <2>3. CASE f # FileOf[fv]
      <3>1. fileLock'[f] = fileLock[f]
        BY <1>2, <2>1, <2>3 DEF FileLock, TypeOK
      <3> QED BY <3>1 DEF HasFileLock
    <2> QED BY <2>2, <2>3
  <1>3. ASSUME NEW fv \in Fvar, ClearBegin(u, fv) PROVE HasFileLock(u, f)
    <2> DEFINE g == FileOf[fv]
    <2>1. g \in File /\ fileLock' = [fileLock EXCEPT ![g].owner = u, ![g].clearing = TRUE]
      BY <1>3, RecordLocksAssumption DEF ClearBegin
    <2> HIDE DEF g
    <2>2. CASE f = g
      <3>1. fileLock[f] \in FileEntry
        BY DEF TypeOK
      <3>2. fileLock'[f].clearing
        BY <2>1, <2>2, <3>1 DEF TypeOK, FileEntry
      <3> QED BY <3>2 DEF HasFileLock
    <2>3. CASE f # g
      BY <2>1, <2>3 DEF HasFileLock, TypeOK
    <2> QED BY <2>2, <2>3
  <1>4. CASE ClearEnd(u) /\ ~req[u].took
    <2> DEFINE g == FileOf[req[u].fvar]
    <2>1. /\ fileLock' = [fileLock EXCEPT ![g].owner = u, ![g].clearing = FALSE]
          /\ OnlyOwn(u, g)
      BY <1>4 DEF ClearEnd, FileInv, UserFiles
    <2> HIDE DEF g
    <2>2. f # g => fileLock'[f] = fileLock[f]
      BY <2>1 DEF TypeOK
    <2> QED BY <2>1, <2>2 DEF HasFileLock
  <1> QED BY <1>1, <1>2, <1>3, <1>4, FileSteps

LEMMA OwnFiles ==
  ASSUME IInv, FileInv, NEW u \in User, UserStep(u)
  PROVE  UserFiles(u)'
  <1> USE DEF IInv
  <1>1. ASSUME NEW f \in File, HasFileLock(u, f)'
        PROVE  OnlyOwn(u, f)'
    <2>1. OnlyOwn(u, f)
      BY <1>1, OwnLockTaken DEF FileInv, UserFiles
    <2> QED BY <2>1, OnlyOwnKept
  <1>2. ASSUME req'[u].op = "clear"
        PROVE  (LET f == FileOf[req[u].fvar]
                IN /\ fileLock[f].owner = u /\ fileLock[f].clearing
                   /\ req[u].took \/ OnlyOwn(u, f))'
    <2>1. PICK fv \in Fvar : ClearBegin(u, fv) /\ req'[u].fvar = fv
                               /\ req'[u].took = ~HasFileLock(u, FileOf[fv])
      BY <1>2, RequestEntered
    <2> DEFINE f == FileOf[fv]
    <2>2. f \in File /\ fileLock' = [fileLock EXCEPT ![f].owner = u, ![f].clearing = TRUE]
      BY <2>1, RecordLocksAssumption DEF ClearBegin
    <2>3. req'[u].took \/ OnlyOwn(u, f)'
      BY <2>1, <2>2, OnlyOwnKept DEF FileInv, UserFiles
    <2>4. fileLock[f] \in FileEntry
      BY <2>2 DEF TypeOK
    <2>5. fileLock'[f].owner = u /\ fileLock'[f].clearing
      <3> HIDE DEF f
      <3> QED BY <2>2, <2>4 DEF TypeOK, FileEntry
    <2> QED BY <2>1, <2>3, <2>5
  <1>3. ASSUME req'[u].op = "flunlock" PROVE HasFileLock(u, FileOf[req[u].fvar])'
    <2>1. PICK fv \in Fvar : FileUnlockCheck(u, fv) /\ req'[u].fvar = fv
      BY <1>3, RequestEntered
    <2> QED BY <2>1 DEF FileUnlockCheck, tables, HasFileLock
  <1>4. ASSUME req'[u].op = "closing", req'[u].flock # None
        PROVE  fileLock'[FileOf[req'[u].flock]].owner = u
    <2>1. PICK fv \in Fvar : CloseCheck(u, fv) /\ req'[u].flock = fv
      BY <1>4, RequestEntered
    <2> QED BY <2>1 DEF CloseCheck, tables, FvarFileLock
  <1> QED BY <1>1, <1>2, <1>3, <1>4 DEF UserFiles

LEMMA FileInvInit ==
  ASSUME Init
  PROVE  FileInv
  <1>1. \A u \in User, f \in File : ~HasFileLock(u, f)
    BY RecordLocksAssumption DEF Init, HasFileLock
  <1>2. \A u \in User : req[u].op = "idle"
    BY DEF Init, Idle
  <1> QED BY <1>1, <1>2 DEF FileInv, UserFiles

LEMMA FileInvNext ==
  ASSUME "admin" \notin Ops, IInv, FileInv, [Next]_vars
  PROVE  FileInv'
  <1>1. CASE UNCHANGED vars
    BY <1>1 DEF vars, tables, FileInv, UserFiles, HasFileLock, OnlyOwn, Used
  <1>2. ~AdminStep
    BY DEF AdminStep, AdminUnlock, AdminUnlockFile
  <1>3. ASSUME NEW u \in User, UserStep(u) PROVE FileInv'
    BY <1>3, OthersFiles, OwnFiles DEF FileInv
  <1> QED BY <1>1, <1>2, <1>3 DEF Next

LEMMA FileInvAlways ==
  ASSUME "admin" \notin Ops
  PROVE  Spec => []FileInv
  <1>1. Init => FileInv
    BY FileInvInit
  <1>2. IInv /\ FileInv /\ [Next]_vars => FileInv'
    BY FileInvNext
  <1> QED BY <1>1, <1>2, Invariance, PTL DEF Spec

\* Unless an administrator unlocks files, a user that has a file lock is the
\* only one with record locks in the file, whoever clears, unlocks or closes
\* the file in the meantime, and whoever dies.
THEOREM FileLockExcludes ==
  ASSUME "admin" \notin Ops
  PROVE  Spec => []FileLockExclusion
  <1>1. FileInv => FileLockExclusion
    BY DEF FileInv, UserFiles, FileLockExclusion, OnlyOwn
  <1> QED BY <1>1, FileInvAlways, PTL

-----------------------------------------------------------------------------
(* The tables implement the lock service                                   *)

LockIn(c) == [user |-> cell[c].owner, key |-> cell[c].key, type |-> cell[c].type]

LEMMA HeldIs ==
  /\ \A c \in Cell : Used(c) => LockIn(c) \in Held
  /\ \A l \in Held : \E c \in Cell : Used(c) /\ l = LockIn(c)
  BY DEF Held, LockIn

LEMMA HeldIsNext ==
  /\ \A c \in Cell : Used(c)' => LockIn(c)' \in Held'
  /\ \A l \in Held' : \E c \in Cell : Used(c)' /\ l = LockIn(c)'
  BY DEF Held, LockIn

LEMMA SameHeld ==
  ASSUME SameLocks
  PROVE  Held' = Held
  <1>1. ASSUME NEW c \in Cell, Used(c) PROVE Used(c)' /\ LockIn(c)' = LockIn(c)
    BY <1>1 DEF SameLocks, LockIn
  <1>2. \A c \in Cell : Used(c)' => Used(c)
    BY DEF SameLocks
  <1> QED BY <1>1, <1>2, HeldIs, HeldIsNext

LEMMA FreedHeld ==
  ASSUME NEW u, NEW R \in SUBSET CellsOf(u), Freed(R)
  PROVE  Held' \subseteq Held /\ Held \ Held' \subseteq {l \in Held : l.user = u}
  <1>1. ASSUME NEW c \in Cell, Used(c)' PROVE Used(c) /\ LockIn(c)' = LockIn(c)
    BY <1>1 DEF Freed, LockIn
  <1>2. Held' \subseteq Held
    BY <1>1, HeldIs, HeldIsNext
  <1>3. ASSUME NEW l \in Held, l \notin Held' PROVE l.user = u
    <2>1. PICK c \in Cell : Used(c) /\ l = LockIn(c)
      BY HeldIs
    <2>2. c \in R
      <3> SUFFICES ASSUME c \notin R PROVE FALSE
        OBVIOUS
      <3>1. Used(c)'
        BY <2>1 DEF Freed
      <3> QED BY <1>1, <1>3, <2>1, <3>1, HeldIsNext
    <2> QED BY <2>1, <2>2 DEF CellsOf, LockIn
  <1> QED BY <1>2, <1>3

Waits == {"lockrec", "filelock"}
LEMMA WaitingSteps ==
  ASSUME TypeOK, NEW u \in User, UserStep(u)
  PROVE  /\ req'[u].op \in Waits => Waiting' = Waiting \cup {u}
         /\ req'[u].op \notin Waits => Waiting' = Waiting \ {u}
         /\ u \in Waiting <=> req[u].op \in Waits
  <1>1. \A v \in User \ {u} : req'[v] = req[v]
    BY OthersKept
  <1>2. \A v \in User \ {u} : v \in Waiting' <=> v \in Waiting
    BY <1>1 DEF Waiting
  <1>3. /\ u \in Waiting' <=> req'[u].op \in Waits
        /\ u \in Waiting <=> req[u].op \in Waits
        /\ Waiting \subseteq User /\ Waiting' \subseteq User
    BY DEF Waiting, Waits
  <1> QED BY <1>2, <1>3

\* A step that leaves the locks alone can only start or end a wait.
LEMMA OnlyWaits ==
  ASSUME TypeOK, NEW u \in User, UserStep(u), Held' = Held, FileHeld' = FileHeld
  PROVE  Service!ServiceNext
  <1>1. Waiting' = Waiting \cup {u} \/ Waiting' = Waiting \ {u}
    BY WaitingSteps
  <1>2. Service!Block(u) \/ Service!GiveUp(u)
    BY <1>1 DEF Service!Block, Service!GiveUp
  <1> QED BY <1>2 DEF Service!ServiceNext

LEMMA FileHeldIs ==
  \A f \in File : /\ FileHeld[f] = IF fileLock[f].clearing THEN None ELSE fileLock[f].owner
                  /\ FileHeld'[f] = IF fileLock'[f].clearing THEN None ELSE fileLock'[f].owner
  BY DEF FileHeld

LEMMA FileHeldShape ==
  /\ FileHeld = [f \in File |-> FileHeld[f]]
  /\ FileHeld' = [f \in File |-> FileHeld'[f]]
  BY DEF FileHeld

\* Giving up locks, by a user that does not wait.
LEMMA Yields ==
  ASSUME TypeOK, NEW u \in User, UserStep(u), NEW F, Unlocked(u, F),
         req[u].op \notin Waits, req'[u].op \notin Waits,
         Held' \subseteq Held, Held \ Held' \subseteq {l \in Held : l.user = u}
  PROVE  Service!ServiceNext
  <1> DEFINE G == {f \in F : ~fileLock[f].clearing}
  <1>1. G \in SUBSET {f \in File : FileHeld[f] = u}
    BY FileHeldIs DEF Unlocked
  <1>2. \A f \in File : FileHeld'[f] = IF f \in G THEN None ELSE FileHeld[f]
    BY FileHeldIs DEF Unlocked
  <1>3. FileHeld' = [f \in File |-> IF f \in G THEN None ELSE FileHeld[f]]
    BY <1>2, FileHeldShape
  <1>4. u \notin Waiting /\ Waiting' = Waiting
    BY WaitingSteps
  <1> HIDE DEF G
  <1>5. Service!Yield(u)
    BY <1>1, <1>3, <1>4 DEF Service!Yield, Service!Of
  <1> QED BY <1>5 DEF Service!ServiceNext

\* A lock granted by LOCK: cell c is new, or it was u's lock on the key.
LEMMA Grants ==
  ASSUME TypeOK, RecordExclusion', NEW u \in User, UserStep(u),
         NEW k \in Key, NEW t \in {"S", "U"}, NEW c \in Cell,
         fileLock[k[1]].owner \in {u, None}, UNCHANGED fileLock,
         Used(c)', cell'[c].key = k, cell'[c].owner = u, cell'[c].type = t,
         Used(c) => cell[c].key = k /\ cell[c].owner = u,
         \A d \in Cell : d # c => cell'[d] = cell[d],
         req'[u].op \notin Waits
  PROVE  Service!ServiceNext
  <1> DEFINE new == [user |-> u, key |-> k, type |-> t]
             rest == {l \in Held : l.user # u \/ l.key # k}
  <1>1. ASSUME NEW d \in Cell, d # c, Used(d)
        PROVE  /\ Used(d)' /\ LockIn(d)' = LockIn(d)
               /\ LockIn(d) \in rest
               /\ LockIn(d).key = k => LockIn(d).user # u /\ LockIn(d).type = "S" /\ t = "S"
    <2>1. cell'[d] = cell[d] /\ Used(d)'
      BY <1>1 DEF Used
    <2>2. cell[d].key = k => cell[d].owner # u /\ cell[d].type = "S" /\ t = "S"
      BY <1>1, <2>1 DEF RecordExclusion
    <2>3. LockIn(d)' = LockIn(d) /\ LockIn(d) \in Held
      BY <1>1, <2>1, HeldIs DEF LockIn
    <2>4. /\ LockIn(d).user = cell[d].owner /\ LockIn(d).key = cell[d].key
          /\ LockIn(d).type = cell[d].type
      BY DEF LockIn
    <2> QED BY <2>1, <2>2, <2>3, <2>4
  <1>2. LockIn(c)' = new
    BY DEF LockIn
  <1>3. ASSUME NEW l \in rest PROVE \E d \in Cell : d # c /\ Used(d) /\ l = LockIn(d)
    <2>1. PICK d \in Cell : Used(d) /\ l = LockIn(d)
      BY HeldIs
    <2> QED BY <2>1 DEF LockIn
  <1>4. \A l \in rest : Service!Compatible(l, new)
    BY <1>1, <1>3 DEF Service!Compatible
  <1>5. Held' = rest \cup {new}
    <2>1. ASSUME NEW l \in Held' PROVE l \in rest \cup {new}
      <3>1. PICK d \in Cell : Used(d)' /\ l = LockIn(d)'
        BY HeldIsNext
      <3>2. d # c => Used(d)
        BY <3>1 DEF Used
      <3> QED BY <1>1, <1>2, <3>1, <3>2
    <2>2. ASSUME NEW l \in rest PROVE l \in Held'
      BY <1>1, <1>3, HeldIsNext
    <2>3. new \in Held'
      BY <1>2, HeldIsNext
    <2> HIDE DEF rest, new
    <2> QED BY <2>1, <2>2, <2>3
  <1>6. FileHeld[k[1]] \in {u, None} /\ FileHeld' = FileHeld
    BY FileHeldIs DEF FileHeld, Key
  <1>7. Waiting' = Waiting \ {u}
    BY WaitingSteps
  <1>8. Service!Grant(u, k, t)
    BY <1>4, <1>5, <1>6, <1>7 DEF Service!Grant
  <1> QED BY <1>8 DEF Service!ServiceNext, Service!Key, Key

\* A file lock granted.
LEMMA GrantsFile ==
  ASSUME TypeOK, NEW u \in User, UserStep(u), NEW f \in File,
         FileHeld[f] \in {u, None}, OnlyOwn(u, f), Held' = Held,
         FileHeld'[f] = u, \A g \in File : g # f => FileHeld'[g] = FileHeld[g],
         req'[u].op \notin Waits
  PROVE  Service!ServiceNext
  <1>1. FileHeld' = [FileHeld EXCEPT ![f] = u]
    BY FileHeldShape
  <1>2. ASSUME NEW l \in Held, l.key[1] = f PROVE l.user = u
    <2>1. PICK d \in Cell : Used(d) /\ l = LockIn(d)
      BY HeldIs
    <2> QED BY <1>2, <2>1 DEF OnlyOwn, LockIn
  <1>3. Waiting' = Waiting \ {u}
    BY WaitingSteps
  <1>4. Service!GrantFile(u, f)
    BY <1>1, <1>2, <1>3 DEF Service!GrantFile
  <1> QED BY <1>4 DEF Service!ServiceNext

LEMMA ClearEndOp ==
  ASSUME NEW u, ClearEnd(u)
  PROVE  req[u].op = "clear"
  BY Zenon DEF ClearEnd

\* The steps that give up locks start and end outside a wait.
LEMMA NotInWait ==
  ASSUME TypeOK, NEW u \in User,
         KeyStep(u) \/ EndStep(u) \/ CleanUp(u) \/ FileUnlock(u) \/ CloseFileLock(u)
           \/ ClearEnd(u) \/ \E fv \in Fvar : ClearBegin(u, fv)
  PROVE  req[u].op \notin Waits /\ req'[u].op \notin Waits
  <1> USE DEF Waits
  <1>1. ASSUME NEW r, req' = [req EXCEPT ![u] = r] PROVE req'[u] = r
    BY <1>1 DEF TypeOK
  <1>2. Idle.op = "idle"
    BY DEF Idle
  <1>3. CASE \/ \E fv \in Fvar, id \in Id : ReleaseRecord(u, fv, id)
             \/ \E fv \in Fvar : ReleaseFile(u, fv)
             \/ ReleaseAll(u)
    <2>1. req' = req /\ req[u] = Idle
      BY <1>3 DEF ReleaseRecord, ReleaseFile, ReleaseAll, RunsNew
    <2> QED BY <1>2, <2>1
  <1>4. ASSUME NEW fv \in Fvar, CloseFvar(u, fv)
        PROVE  req[u].op \notin Waits /\ req'[u].op \notin Waits
    <2>1. req[u] = Closing(req[u].fvars, req[u].flock, req[u].next) /\ req[u].next \in {"idle", "prompt"}
      BY <1>4, ClosingFacts DEF CloseFvar, TypeOK
    <2>2. \/ req'[u] = [op |-> req[u].next]
          \/ req'[u] = Closing(req[u].fvars \ {fv}, req[u].flock, req[u].next)
      <3>1. [req[u] EXCEPT !.fvars = @ \ {fv}] = Closing(req[u].fvars \ {fv}, req[u].flock, req[u].next)
        BY <2>1 DEF Closing
      <3> QED BY <1>1, <1>4, <3>1 DEF CloseFvar
    <2>3. req'[u].op \in {"idle", "prompt", "closing"}
      BY <2>1, <2>2 DEF Closing
    <2> QED BY <1>4, <2>3 DEF CloseFvar
  <1>5. CASE EndStep(u)
    <2>1. TxnEnd(u) \/ Rollback(u)
      BY <1>5 DEF EndStep
    <2>2. CASE TxnEnd(u)
      BY <1>2, <2>2 DEF TxnEnd, RunsNew
    <2>3. CASE Rollback(u)
      <3>1. \E r \in {Idle, Closing(Fvar, None, "prompt")} : req' = [req EXCEPT ![u] = r]
        BY <2>3 DEF Rollback
      <3>2. req'[u] = Idle \/ req'[u] = Closing(Fvar, None, "prompt")
        BY <1>1, <3>1
      <3>3. req[u].op \in {"rollback", "prompt"}
        BY <2>3 DEF Rollback
      <3> QED BY <1>2, <3>2, <3>3 DEF Closing
    <2> QED BY <2>1, <2>2, <2>3
  <1>6. CASE CleanUp(u) \/ FileUnlock(u) \/ ClearEnd(u)
    <2>1. req' = [req EXCEPT ![u] = Idle]
      BY <1>6, Zenon DEF CleanUp, FileUnlock, ClearEnd
    <2>2. req'[u] = Idle
      BY <1>1, <2>1
    <2>3. CASE CleanUp(u)
      BY <1>2, <2>2, <2>3 DEF CleanUp
    <2>4. CASE FileUnlock(u)
      BY <1>2, <2>2, <2>4 DEF FileUnlock
    <2>5. CASE ClearEnd(u)
      BY <1>2, <2>2, <2>5, ClearEndOp
    <2> QED BY <1>6, <2>3, <2>4, <2>5
  <1>7. CASE CloseFileLock(u)
    <2>1. req[u].op = "closing" /\ req[u] = Closing(req[u].fvars, req[u].flock, req[u].next)
      BY <1>7, ClosingFacts DEF CloseFileLock, TypeOK
    <2>2. req'[u] = [req[u] EXCEPT !.flock = None]
      BY <1>7 DEF CloseFileLock, TypeOK
    <2>3. req'[u].op = "closing"
      BY <2>1, <2>2 DEF Closing
    <2> QED BY <2>1, <2>3
  <1>8. ASSUME NEW fv \in Fvar, ClearBegin(u, fv)
        PROVE  req[u].op \notin Waits /\ req'[u].op \notin Waits
    <2>1. req[u] = Idle
      BY <1>8 DEF ClearBegin, RunsNew
    <2> DEFINE took == ~HasFileLock(u, FileOf[fv])
    <2>2. req' = [req EXCEPT ![u] = [op |-> "clear", fvar |-> fv, took |-> took]]
      BY <1>8 DEF ClearBegin
    <2> HIDE DEF took
    <2>3. req'[u].op = "clear"
      BY <1>1, <2>2
    <2> QED BY <1>2, <2>1, <2>3
  <1> QED BY <1>3, <1>4, <1>5, <1>6, <1>7, <1>8 DEF KeyStep

LEMMA SteadyFileLock ==
  ASSUME NEW u \in User, SteadyStep(u), fileLock' # fileLock
  PROVE  \/ \E fv \in Fvar : FileLock(u, fv) \/ ClearBegin(u, fv)
         \/ FileUnlock(u) \/ ClearEnd(u) \/ CloseFileLock(u)
  <1>1. ASSUME NEW fv \in Fvar, NEW id \in Id, NEW upd \in BOOLEAN,
               LockBlockedByFile(u, fv, id, upd) \/ LockTableFull(u, fv, id, upd)
        PROVE  fileLock' = fileLock
    BY <1>1 DEF LockBlockedByFile, LockTableFull, StartWait, tables
  <1>2. ASSUME NEW fv \in Fvar, NEW id \in Id, NEW upd \in BOOLEAN, LockBlocked(u, fv, id, upd)
        PROVE  fileLock' = fileLock
    BY <1>2 DEF LockBlocked, StartWait, tables
  <1>3. ASSUME NEW fv \in Fvar, FileUnlockCheck(u, fv) \/ Close(u, fv) \/ CloseCheck(u, fv)
        PROVE  fileLock' = fileLock
    BY <1>3 DEF FileUnlockCheck, Close, CloseCheck, tables
  <1>4. ASSUME \/ \E how \in {"abort", "stop"} : Leave(u, how)
               \/ TxnBegin(u) \/ Quit(u) \/ ClearLockwait(u) \/ RebuildLLT(u) \/ Die(u)
               \/ Rollback(u) /\ txn[u] = 0
        PROVE  fileLock' = fileLock
    BY <1>4 DEF Leave, TxnBegin, Quit, ClearLockwait, RebuildLLT, Die, Rollback, tables
  <1> QED BY <1>1, <1>2, <1>3, <1>4 DEF SteadyStep

LEMMA SteadyImplements ==
  ASSUME IInv, FileInv, NEW u \in User, UserStep(u), SteadyStep(u)
  PROVE  Service!ServiceNext
  <1> USE DEF IInv
  <1>1. Held' = Held
    BY SteadySame, SameHeld
  <1>2. CASE fileLock' = fileLock
    BY <1>1, <1>2, OnlyWaits DEF FileHeld
  <1>3. CASE FileUnlock(u) \/ CloseFileLock(u) \/ (ClearEnd(u) /\ req[u].took)
    <2>1. PICK F : Unlocked(u, F)
      <3>1. CASE FileUnlock(u)
        <4>1. HasFileLock(u, FileOf[req[u].fvar]) /\ FileOf[req[u].fvar] \in File
          BY <3>1, OnFileVarFacts, RecordLocksAssumption DEF FileUnlock, FileInv, UserFiles, TypeOK
        <4>2. {FileOf[req[u].fvar]} \in SUBSET {f \in File : fileLock[f].owner = u}
          BY <4>1 DEF HasFileLock
        <4> QED BY <3>1, <4>2, ReleaseUnlocks DEF FileUnlock
      <3>2. CASE CloseFileLock(u)
        <4>1. req[u].flock \in Fvar
          BY <3>2, ClosingFacts DEF CloseFileLock, TypeOK
        <4>2. fileLock[FileOf[req[u].flock]].owner = u /\ FileOf[req[u].flock] \in File
          BY <3>2, <4>1, RecordLocksAssumption DEF CloseFileLock, FileInv, UserFiles
        <4>3. {FileOf[req[u].flock]} \in SUBSET {f \in File : fileLock[f].owner = u}
          BY <4>2
        <4> QED BY <3>2, <4>3, ReleaseUnlocks DEF CloseFileLock
      <3>3. CASE ClearEnd(u) /\ req[u].took
        <4>1. fileLock[FileOf[req[u].fvar]].owner = u /\ FileOf[req[u].fvar] \in File
          BY <3>3, OnFileVarFacts, RecordLocksAssumption DEF ClearEnd, FileInv, UserFiles, TypeOK
        <4>2. {FileOf[req[u].fvar]} \in SUBSET {f \in File : fileLock[f].owner = u}
          BY <4>1
        <4> QED BY <3>3, <4>2, ReleaseUnlocks DEF ClearEnd
      <3> QED BY <1>3, <3>1, <3>2, <3>3
    <2> QED BY <1>1, <1>3, <2>1, NotInWait, Yields
  <1>4. ASSUME NEW fv \in Fvar, FileLock(u, fv) PROVE Service!ServiceNext
    <2> DEFINE f == FileOf[fv]
    <2>1. f \in File /\ CountsExact
      BY RecordLocksAssumption DEF TableInv
    <2>2. CASE HasFileLock(u, f) /\ ~Vacant(u, f)
      <3>1. fileLock' = [fileLock EXCEPT ![f].txn = txn[u]]
        BY <1>4, <2>2 DEF FileLock
      <3> HIDE DEF f
      <3>2. \A g \in File : /\ fileLock'[g].owner = fileLock[g].owner
                            /\ fileLock'[g].clearing = fileLock[g].clearing
        BY <2>1, <3>1 DEF TypeOK, FileEntry
      <3>3. FileHeld' = FileHeld
        BY <3>2 DEF FileHeld
      <3> QED BY <1>1, <3>3, OnlyWaits
    <2>3. CASE Vacant(u, f)
      <3> DEFINE e == [owner |-> u, clearing |-> FALSE, fvar |-> fv, txn |-> txn[u]]
      <3>1. fileLock' = [fileLock EXCEPT ![f] = e] /\ Done(u)
        BY <1>4, <2>3, RecordLocksAssumption DEF FileLock, Vacant, HasFileLock
      <3>2. e.owner = u /\ ~e.clearing
        OBVIOUS
      <3> HIDE DEF e
      <3>3. fileLock[f].owner = None /\ OnlyOwn(u, f)
        BY <2>1, <2>3, VacantOnlyOwn DEF Vacant
      <3>4. fileLock'[f] = e /\ \A g \in File : g # f => fileLock'[g] = fileLock[g]
        BY <2>1, <3>1 DEF TypeOK
      <3>5. FileHeld[f] = None /\ FileHeld'[f] = u
        BY <2>1, <3>2, <3>3, <3>4, FileHeldIs
      <3>6. \A g \in File : g # f => FileHeld'[g] = FileHeld[g]
        BY <3>4, FileHeldIs
      <3>7. req'[u].op \notin Waits
        BY <3>1 DEF Done, Idle, TypeOK, Waits
      <3> HIDE DEF f
      <3> QED BY <1>1, <2>1, <3>3, <3>5, <3>6, <3>7, GrantsFile
    <2>4. CASE ~HasFileLock(u, f) /\ ~Vacant(u, f)
      <3>1. fileLock' = fileLock
        BY <1>4, <2>4 DEF FileLock
      <3> QED BY <1>2, <3>1
    <2> QED BY <2>2, <2>3, <2>4
  <1>5. ASSUME NEW fv \in Fvar, ClearBegin(u, fv) PROVE Service!ServiceNext
    <2> DEFINE f == FileOf[fv]
               e == [fileLock[f] EXCEPT !.owner = u, !.clearing = TRUE]
    <2>1. f \in File /\ fileLock[f] \in FileEntry
      BY RecordLocksAssumption DEF TypeOK
    <2>2. fileLock' = [fileLock EXCEPT ![f].owner = u, ![f].clearing = TRUE]
      BY <1>5 DEF ClearBegin
    <2>3. HasFileLock(u, f) \/ fileLock[f].owner = None
      BY <1>5 DEF ClearBegin
    <2>4. e.clearing
      BY <2>1 DEF FileEntry
    <2>5. fileLock' = [fileLock EXCEPT ![f] = e]
      BY <2>1, <2>2 DEF TypeOK
    <2> HIDE DEF e, f
    <2>6. fileLock'[f] = e /\ \A g \in File : g # f => fileLock'[g] = fileLock[g]
      BY <2>1, <2>5 DEF TypeOK
    <2>7. FileHeld'[f] = None /\ \A g \in File : g # f => FileHeld'[g] = FileHeld[g]
      BY <2>1, <2>4, <2>6, FileHeldIs
    <2>8. u \notin Waiting /\ Waiting' = Waiting
      BY <1>5, NotInWait, WaitingSteps
    <2>9. CASE HasFileLock(u, f)
      <3>1. FileHeld[f] = u
        BY <2>1, <2>9, FileHeldIs DEF HasFileLock
      <3>2. FileHeld' = [g \in File |-> IF g \in {f} THEN None ELSE FileHeld[g]]
        BY <2>7, FileHeldShape
      <3>3. {f} \in SUBSET {g \in File : FileHeld[g] = u}
        BY <2>1, <3>1
      <3>4. Service!Yield(u)
        BY <1>1, <2>8, <3>2, <3>3 DEF Service!Yield, Service!Of
      <3> QED BY <3>4 DEF Service!ServiceNext
    <2>10. CASE fileLock[f].owner = None
      <3>1. FileHeld[f] = None
        BY <2>1, <2>10, FileHeldIs
      <3>2. FileHeld' = FileHeld
        BY <2>7, <3>1, FileHeldShape
      <3> QED BY <1>1, <3>2, OnlyWaits
    <2> QED BY <2>3, <2>9, <2>10
  <1>6. CASE ClearEnd(u) /\ ~req[u].took
    <2> DEFINE f == FileOf[req[u].fvar]
               e == [fileLock[f] EXCEPT !.owner = u, !.clearing = FALSE]
    <2>1. f \in File /\ fileLock[f].clearing /\ OnlyOwn(u, f)
      BY <1>6, OnFileVarFacts, RecordLocksAssumption DEF ClearEnd, FileInv, UserFiles, TypeOK
    <2>2. fileLock' = [fileLock EXCEPT ![f].owner = u, ![f].clearing = FALSE]
      BY <1>6 DEF ClearEnd
    <2>3. fileLock[f] \in FileEntry
      BY <2>1 DEF TypeOK
    <2>4. e.owner = u /\ ~e.clearing
      BY <2>3 DEF FileEntry
    <2>5. fileLock' = [fileLock EXCEPT ![f] = e]
      BY <2>1, <2>2 DEF TypeOK
    <2> HIDE DEF e, f
    <2>6. fileLock'[f] = e /\ \A g \in File : g # f => fileLock'[g] = fileLock[g]
      BY <2>1, <2>5 DEF TypeOK
    <2>7. /\ FileHeld[f] = None /\ FileHeld'[f] = u
          /\ \A g \in File : g # f => FileHeld'[g] = FileHeld[g]
      BY <2>1, <2>4, <2>6, FileHeldIs
    <2> QED BY <1>1, <1>6, <2>1, <2>7, NotInWait, GrantsFile
  <1> QED BY <1>2, <1>3, <1>4, <1>5, <1>6, SteadyFileLock

LEMMA OtherStepsImplement ==
  ASSUME IInv, IInv', FileInv, NEW u \in User, UserStep(u), ~SteadyStep(u)
  PROVE  Service!ServiceNext
  <1> USE DEF IInv
  <1>0. RecordExclusion'
    BY DEF TableInv
  <1>1. CASE KeyStep(u) \/ EndStep(u) \/ CleanUp(u)
    <2>1. PICK R \in SUBSET CellsOf(u) : Freed(R)
      BY <1>1, KeyStepFreed, EndStepFreed, CleanUpFreed
    <2>2. PICK F : Unlocked(u, F)
      <3>1. SteadyStep(u) \/ \E F : Unlocked(u, F)
        BY FileSteps DEF SteadyStep
      <3> QED BY <3>1
    <2> QED BY <1>1, <2>1, <2>2, FreedHeld, NotInWait, Yields
  <1>2. ASSUME NEW fv \in Fvar, NEW id \in Id, NEW upd \in BOOLEAN, LockNew(u, fv, id, upd)
        PROVE  Service!ServiceNext
    <2> DEFINE k == <<FileOf[fv], id>>
               t == IF upd THEN "U" ELSE "S"
    <2>1. PICK c : Added(u, fv, k, c, t)
      BY <1>2, NewIsAdded
    <2>2. k \in Key /\ k[1] = FileOf[fv] /\ t \in {"S", "U"}
      BY <1>2, NewIsAdded
    <2>3. fileLock[FileOf[fv]].owner \in {u, None} /\ UNCHANGED fileLock
      BY <1>2 DEF LockNew, Lockable, LockedByOther
    <2>4. req'[u].op \notin Waits
      BY <1>2 DEF LockNew, Done, Idle, TypeOK, Waits
    <2> HIDE DEF k, t
    <2> QED BY <1>0, <2>1, <2>2, <2>3, <2>4, Grants DEF Added
  <1>3. ASSUME NEW fv \in Fvar, NEW id \in Id, NEW upd \in BOOLEAN,
               NEW c, NEW e, Changed(u, c, e), e.key = <<FileOf[fv], id>>,
               LockRefresh(u, fv, id, upd) \/ LockUpgrade(u, fv, id)
        PROVE  Service!ServiceNext
    <2> DEFINE k == <<FileOf[fv], id>>
    <2>1. k \in Key /\ k[1] = FileOf[fv]
      BY RecordLocksAssumption DEF Key
    <2>2. fileLock[FileOf[fv]].owner \in {u, None} /\ UNCHANGED fileLock /\ Done(u)
      BY <1>3 DEF LockRefresh, LockUpgrade, LockedByOther
    <2>3. req'[u].op \notin Waits
      BY <2>2 DEF Done, Idle, TypeOK, Waits
    <2>4. /\ c \in Cell /\ Used(c) /\ cell[c].owner = u /\ cell[c].key = k
          /\ cell'[c] = e /\ e.owner = u
      BY <1>3 DEF Changed, CellsOf, TypeOK
    <2>5. e.type \in {"S", "U"} /\ e \in LockEntry
      BY <1>3 DEF Changed, LockEntry
    <2>6. Used(c)' /\ \A d \in Cell : d # c => cell'[d] = cell[d]
      BY <1>3, <2>4, ChangedSame DEF SameOwners, TableInv
    <2>7. e.key = k
      BY <1>3
    <2> HIDE DEF k
    <2> QED BY <1>0, <2>1, <2>2, <2>3, <2>4, <2>5, <2>6, <2>7, Grants
  <1>4. CASE ChangeStep(u)
    <2>1. CASE \E fv \in Fvar, id \in Id, upd \in BOOLEAN : LockRefresh(u, fv, id, upd)
      BY <1>3, <2>1, RefreshChanges
    <2>2. CASE \E fv \in Fvar, id \in Id : LockUpgrade(u, fv, id)
      BY <1>3, <2>2, UpgradeChanges
    <2> QED BY <1>4, <2>1, <2>2 DEF ChangeStep
  <1> QED BY <1>1, <1>2, <1>4, StepKinds

LEMMA ServiceStep ==
  ASSUME "admin" \notin Ops, IInv, IInv', FileInv, [Next]_vars
  PROVE  [Service!ServiceNext]_(Service!service)
  <1>1. CASE UNCHANGED vars
    BY <1>1 DEF vars, tables, Service!service, Held, FileHeld, Waiting, Used
  <1>2. ~AdminStep
    BY DEF AdminStep, AdminUnlock, AdminUnlockFile
  <1> QED BY <1>1, <1>2, SteadyImplements, OtherStepsImplement DEF Next

LEMMA ServiceStart ==
  ASSUME Init
  PROVE  Service!ServiceInit
  <1>1. Held = {}
    BY DEF Init, Held, Used
  <1>2. FileHeld = [f \in File |-> None]
    BY DEF Init, FileHeld
  <1>3. Waiting = {}
    BY DEF Init, Waiting, Idle
  <1> QED BY <1>1, <1>2, <1>3 DEF Service!ServiceInit

\* Unless an administrator unlocks, the tables are a lock service: locks are
\* granted beside compatible ones only, and given up only by steps of their
\* owner that do not wait.
THEOREM LockServiceImplemented ==
  ASSUME "admin" \notin Ops
  PROVE  Spec => ImplementsLockService
  <1>1. Init => Service!ServiceInit
    BY ServiceStart
  <1>2. IInv /\ IInv' /\ FileInv /\ [Next]_vars => [Service!ServiceNext]_(Service!service)
    BY ServiceStep
  <1> QED BY <1>1, <1>2, Invariance, FileInvAlways, PTL
          DEF Spec, ImplementsLockService, Service!ServiceSpec

-----------------------------------------------------------------------------
(* Nothing is left at the command prompt                                   *)

\* File variables recorded for a file are instances of that file.
FvarsFit ==
  /\ \A f \in File : fileLock[f].fvar # None => FileOf[fileLock[f].fvar] = f
  /\ \A c \in Cell : Used(c) => FileOf[cell[c].fvar] = cell[c].key[1]
  /\ \A u \in User, k \in Key : \A n \in DOMAIN llt[u][k] : FileOf[llt[u][k][n]] = k[1]

\* A file lock names the file variable that is to be closed, also while the
\* file is cleared; and it is a mark of CLEARFILE only in a CLEARFILE.
LocksNamed ==
  /\ \A f \in File : fileLock[f].owner # None /\ ~fileLock[f].clearing
                       => fileLock[f].fvar # None
  /\ \A u \in User : req[u].op = "clear" /\ ~req[u].took
                       => fileLock[FileOf[req[u].fvar]].fvar # None
MarkedByClear ==
  \A u \in User, f \in File : fileLock[f].owner = u /\ fileLock[f].clearing =>
    \/ req[u].op = "dead"
    \/ req[u].op = "clear" /\ FileOf[req[u].fvar] = f

\* On the way to the prompt, the file variables still to be closed are those
\* of all locks that are left.
Leftovers(u, S) ==
  /\ \A c \in CellsOf(u) : \A n \in DOMAIN llt[u][cell[c].key] : llt[u][cell[c].key][n] \in S
  /\ \A f \in File : fileLock[f].owner = u => fileLock[f].fvar \in S
Left(u) ==
  /\ req[u].op = "closing" /\ req[u].next = "prompt" => Leftovers(u, req[u].fvars)
  /\ req[u].op = "prompt" => Leftovers(u, {})

FilesNamed == LocksNamed /\ MarkedByClear
LeavingInv == FvarsFit /\ FilesNamed /\ LLTCovers /\ \A u \in User : Left(u)

LEMMA NonEmptyDomain ==
  ASSUME NEW S, NEW s \in Seq(S), s # <<>>
  PROVE  1 \in DOMAIN s
  <1>1. Len(s) \in Nat /\ DOMAIN s = 1..Len(s) /\ Len(s) # 0
    BY EmptySeq, LenProperties
  <1> QED BY <1>1

LEMMA LeavingEnough ==
  ASSUME LeavingInv, TypeOK
  PROVE  NothingLeftAtPrompt
  <1> SUFFICES ASSUME NEW u \in User, req[u].op = "prompt"
               PROVE  CellsOf(u) = {} /\ \A f \in File : fileLock[f].owner # u
    BY DEF NothingLeftAtPrompt
  <1>1. Leftovers(u, {})
    BY DEF LeavingInv, Left
  <1>2. ASSUME NEW c \in CellsOf(u) PROVE FALSE
    <2>1. llt[u][cell[c].key] # <<>> /\ DOMAIN llt[u][cell[c].key] = {}
      BY <1>1 DEF Leftovers, LeavingInv, LLTCovers
    <2>2. c \in Cell /\ cell[c] \in LockEntry
      BY EntryIsUsed DEF CellsOf, TypeOK, Used
    <2>3. llt[u][cell[c].key] \in Seq(Fvar)
      BY <2>2 DEF TypeOK, LockEntry
    <2> QED BY <2>1, <2>3, NonEmptyDomain
  <1> QED BY <1>1, <1>2 DEF Leftovers

\* What a step makes of the lock of one file.
Freeing(f) == fileLock'[f].owner = None /\ fileLock'[f].fvar = fileLock[f].fvar
Locking(u, f) ==
  \E fv \in Fvar : /\ FileLock(u, fv) /\ FileOf[fv] = f /\ fileLock'[f].fvar = fv
                   /\ fileLock'[f].owner = u /\ ~fileLock'[f].clearing
Relocking(u, f) ==
  \E fv \in Fvar : /\ FileLock(u, fv) /\ FileOf[fv] = f /\ HasFileLock(u, f)
                   /\ fileLock'[f].fvar = fileLock[f].fvar
                   /\ fileLock'[f].owner = u /\ ~fileLock'[f].clearing
Marking(u, f) ==
  \E fv \in Fvar : /\ ClearBegin(u, fv) /\ FileOf[fv] = f
                   /\ fileLock'[f].fvar = fileLock[f].fvar
                   /\ fileLock'[f].owner = u /\ fileLock'[f].clearing
Unmarking(u, f) ==
  /\ ClearEnd(u) /\ ~req[u].took /\ FileOf[req[u].fvar] = f
  /\ fileLock'[f].fvar = fileLock[f].fvar
  /\ fileLock'[f].owner = u /\ ~fileLock'[f].clearing

LEMMA ReleaseMoves ==
  ASSUME TypeOK, NEW R, NEW F, Release(R, F), NEW f \in File
  PROVE  fileLock'[f] = fileLock[f] \/ Freeing(f)
  <1>1. fileLock[f] \in FileEntry
    BY DEF TypeOK
  <1> QED BY <1>1 DEF Release, Freeing, FileEntry

LEMMA LockMoves ==
  ASSUME TypeOK, NEW u \in User, UserStep(u), NEW f \in File
  PROVE  \/ fileLock'[f] = fileLock[f] \/ Freeing(f)
         \/ Locking(u, f) \/ Relocking(u, f) \/ Marking(u, f) \/ Unmarking(u, f)
  <1> DEFINE Goal == \/ fileLock'[f] = fileLock[f] \/ Freeing(f)
                     \/ Locking(u, f) \/ Relocking(u, f) \/ Marking(u, f) \/ Unmarking(u, f)
  <1> SUFFICES Goal
    OBVIOUS
  <1>0. fileLock[f] \in FileEntry
    BY DEF TypeOK
  <1>1. ASSUME NEW fv \in Fvar, NEW id \in Id, NEW upd \in BOOLEAN, LockRecord(u, fv, id, upd)
        PROVE  Goal
    BY <1>1, LockRecordReq
  <1>2. ASSUME NEW K, NEW F, UnlockKeys(u, K, F) PROVE Goal
    BY <1>2, ReleaseMoves DEF UnlockKeys
  <1>3. CASE \/ \E fv \in Fvar, id \in Id : ReleaseRecord(u, fv, id)
             \/ \E fv \in Fvar : ReleaseFile(u, fv) \/ CloseFvar(u, fv)
             \/ ReleaseAll(u)
    BY <1>2, <1>3 DEF ReleaseRecord, ReleaseFile, CloseFvar, UnlockFvar, ReleaseAll
  <1>4. CASE FileUnlock(u) \/ CloseFileLock(u)
    BY <1>4, ReleaseMoves DEF FileUnlock, CloseFileLock
  <1>5. CASE ClearEnd(u)
    <2>1. CASE req[u].took
      BY <1>5, <2>1, ReleaseMoves DEF ClearEnd
    <2>2. CASE ~req[u].took
      <3> DEFINE g == FileOf[req[u].fvar]
      <3>1. fileLock' = [fileLock EXCEPT ![g].owner = u, ![g].clearing = FALSE]
        BY <1>5, <2>2 DEF ClearEnd
      <3> HIDE DEF g
      <3>2. CASE f = g
        <4>1. /\ fileLock'[f].owner = u /\ ~fileLock'[f].clearing
              /\ fileLock'[f].fvar = fileLock[f].fvar
          BY <1>0, <3>1, <3>2 DEF TypeOK, FileEntry
        <4>2. Unmarking(u, f)
          BY <1>5, <2>2, <3>2, <4>1 DEF Unmarking, g
        <4> QED BY <4>2
      <3>3. CASE f # g
        BY <3>1, <3>3 DEF TypeOK
      <3> QED BY <3>2, <3>3
    <2> QED BY <2>1, <2>2
  <1>6. CASE TxnEnd(u) \/ Rollback(u)
    <2>1. UnlockTxn(u) \/ fileLock' = fileLock
      BY <1>6 DEF TxnEnd, Rollback, tables
    <2>2. ASSUME UnlockTxn(u) PROVE Goal
      BY <1>0, <2>2 DEF UnlockTxn, Freeing, FileEntry
    <2> QED BY <2>1, <2>2
  <1>7. CASE CleanUp(u)
    BY <1>0, <1>7 DEF CleanUp, Freeing, FileEntry
  <1>8. ASSUME NEW fv \in Fvar, FileLock(u, fv) PROVE Goal
    <2> DEFINE g == FileOf[fv]
               e == [owner |-> u, clearing |-> FALSE, fvar |-> fv, txn |-> txn[u]]
    <2>1. \/ HasFileLock(u, g) /\ fileLock' = [fileLock EXCEPT ![g].txn = txn[u]]
          \/ fileLock' = [fileLock EXCEPT ![g] = e]
          \/ fileLock' = fileLock
      BY <1>8 DEF FileLock
    <2>2. e.owner = u /\ ~e.clearing /\ e.fvar = fv
      OBVIOUS
    <2>3. CASE f # g
      BY <2>1, <2>3 DEF TypeOK
    <2>4. CASE f = g /\ HasFileLock(u, g) /\ fileLock' = [fileLock EXCEPT ![g].txn = txn[u]]
      <3> HIDE DEF g
      <3>1. /\ fileLock'[f].owner = fileLock[f].owner /\ fileLock'[f].fvar = fileLock[f].fvar
            /\ fileLock'[f].clearing = fileLock[f].clearing
        BY <1>0, <2>4 DEF TypeOK, FileEntry
      <3>2. Relocking(u, f)
        BY <1>8, <2>4, <3>1 DEF Relocking, HasFileLock, g
      <3> QED BY <3>2
    <2>5. CASE f = g /\ fileLock' = [fileLock EXCEPT ![g] = e]
      <3> HIDE DEF e, g
      <3>1. fileLock'[f] = e
        BY <2>5 DEF TypeOK
      <3>2. Locking(u, f)
        BY <1>8, <2>2, <2>5, <3>1 DEF Locking, g
      <3> QED BY <3>2
    <2> QED BY <2>1, <2>3, <2>4, <2>5
  <1>9. ASSUME NEW fv \in Fvar, ClearBegin(u, fv) PROVE Goal
    <2> DEFINE g == FileOf[fv]
    <2>1. fileLock' = [fileLock EXCEPT ![g].owner = u, ![g].clearing = TRUE]
      BY <1>9 DEF ClearBegin
    <2> HIDE DEF g
    <2>2. CASE f = g
      <3>1. /\ fileLock'[f].owner = u /\ fileLock'[f].clearing
            /\ fileLock'[f].fvar = fileLock[f].fvar
        BY <1>0, <2>1, <2>2 DEF TypeOK, FileEntry
      <3>2. Marking(u, f)
        BY <1>9, <2>2, <3>1 DEF Marking, g
      <3> QED BY <3>2
    <2>3. CASE f # g
      BY <2>1, <2>3 DEF TypeOK
    <2> QED BY <2>2, <2>3
  <1>10. CASE \E fv \in Fvar : FileUnlockCheck(u, fv) \/ Close(u, fv) \/ CloseCheck(u, fv)
    BY <1>10 DEF FileUnlockCheck, Close, CloseCheck, tables
  <1>11. CASE \/ \E how \in {"abort", "stop"} : Leave(u, how)
              \/ TxnBegin(u) \/ Quit(u) \/ ClearLockwait(u) \/ RebuildLLT(u) \/ Die(u)
    BY <1>11 DEF Leave, TxnBegin, Quit, ClearLockwait, RebuildLLT, Die, tables
  <1> HIDE DEF Goal
  <1> QED BY <1>1, <1>3, <1>4, <1>5, <1>6, <1>7, <1>8, <1>9, <1>10, <1>11, StepGroups

LEMMA AdminMoves ==
  ASSUME TypeOK, AdminStep, NEW f \in File
  PROVE  fileLock'[f] = fileLock[f] \/ Freeing(f)
  BY ReleaseMoves DEF AdminStep, AdminUnlock, AdminUnlockFile

\* The opcodes that a request lets its user execute.
LEMMA OpSteps ==
  ASSUME TypeOK, NEW u \in User, UserStep(u)
  PROVE  /\ req[u].op = "clear" /\ "trigger" \notin Ops => ClearEnd(u) \/ Die(u)
         /\ req[u].op = "dead" => CleanUp(u)
  <1> DEFINE o == req[u].op
  <1>1. ASSUME NEW fv \in Fvar, NEW id \in Id, NEW upd \in BOOLEAN, LockRecord(u, fv, id, upd)
        PROVE  o \in {"idle", "lockrec"}
    BY <1>1, LockRecordReq
  <1>2. CASE \/ \E fv \in Fvar, id \in Id : ReleaseRecord(u, fv, id)
             \/ \E fv \in Fvar : ReleaseFile(u, fv) \/ FileUnlockCheck(u, fv)
                                   \/ ClearBegin(u, fv) \/ Close(u, fv)
             \/ ReleaseAll(u) \/ TxnBegin(u) \/ TxnEnd(u)
    <2>1. req[u] = Idle
      BY <1>2 DEF ReleaseRecord, ReleaseFile, FileUnlockCheck, ClearBegin, Close, ReleaseAll,
                  TxnBegin, TxnEnd, RunsNew
    <2> QED BY <2>1 DEF Idle
  <1>3. CASE \E fv \in Fvar : FileLock(u, fv)
    BY <1>3 DEF FileLock, Runs, Idle, FileLockReq
  <1>4. CASE (\E fv \in Fvar : CloseFvar(u, fv) \/ CloseCheck(u, fv)) \/ CloseFileLock(u)
    BY <1>4 DEF CloseFvar, CloseCheck, CloseFileLock
  <1>5. CASE FileUnlock(u) \/ Rollback(u) \/ ClearLockwait(u) \/ Quit(u) \/ RebuildLLT(u)
    BY <1>5 DEF FileUnlock, Rollback, ClearLockwait, Quit, RebuildLLT
  <1>6. CASE \E how \in {"abort", "stop"} : Leave(u, how)
    BY <1>6 DEF Leave
  <1>7. CASE ClearEnd(u)
    BY <1>7, ClearEndOp
  <1>8. CASE Die(u)
    BY <1>8 DEF Die
  <1>9. CASE CleanUp(u)
    BY <1>9 DEF CleanUp
  <1> QED BY <1>1, <1>2, <1>3, <1>4, <1>5, <1>6, <1>7, <1>8, <1>9, StepGroups

LEMMA ClosingSteps ==
  ASSUME TypeOK, NEW u \in User, UserStep(u)
  PROVE  /\ req'[u].op = "closing" /\ req'[u].next = "prompt" =>
              \/ Quit(u) \/ ClearLockwait(u) \/ Rollback(u)
              \/ /\ req[u].op = "closing" /\ req[u].next = "prompt"
                 /\ \/ req'[u].fvars = req[u].fvars
                       /\ (CloseFileLock(u) \/ \E fv \in Fvar : CloseCheck(u, fv))
                    \/ \E fv \in Fvar : CloseFvar(u, fv) /\ req'[u].fvars = req[u].fvars \ {fv}
         /\ req'[u].op = "prompt" =>
              /\ req[u].op = "closing" /\ req[u].next = "prompt"
              /\ \E fv \in Fvar : CloseFvar(u, fv) /\ req[u].fvars = {fv}
  <1> DEFINE ToPrompt == req'[u].op = "closing" /\ req'[u].next = "prompt"
             Goal == /\ ToPrompt =>
                          \/ Quit(u) \/ ClearLockwait(u) \/ Rollback(u)
                          \/ /\ req[u].op = "closing" /\ req[u].next = "prompt"
                             /\ \/ req'[u].fvars = req[u].fvars
                                   /\ (CloseFileLock(u) \/ \E fv \in Fvar : CloseCheck(u, fv))
                                \/ \E fv \in Fvar : /\ CloseFvar(u, fv)
                                                    /\ req'[u].fvars = req[u].fvars \ {fv}
                     /\ req'[u].op = "prompt" =>
                          /\ req[u].op = "closing" /\ req[u].next = "prompt"
                          /\ \E fv \in Fvar : CloseFvar(u, fv) /\ req[u].fvars = {fv}
  <1> SUFFICES Goal
    OBVIOUS
  <1>1. ASSUME NEW r, req' = [req EXCEPT ![u] = r] PROVE req'[u] = r
    BY <1>1 DEF TypeOK
  <1>2. ASSUME req'[u].op \notin {"closing", "prompt"} PROVE Goal
    BY <1>2
  <1>3. ASSUME NEW S, NEW x, req'[u] = Closing(S, x, "idle") PROVE Goal
    BY <1>3 DEF Closing
  <1>4. Idle.op = "idle" /\ \A fv, id, upd : LockRecReq(fv, id, upd).op = "lockrec"
    BY DEF Idle, LockRecReq
  <1>5. ASSUME NEW fv \in Fvar, NEW id \in Id, NEW upd \in BOOLEAN, LockRecord(u, fv, id, upd)
        PROVE  Goal
    <2>1. req'[u].op \in {"idle", "lockrec", "abort"}
      BY <1>1, <1>4, <1>5, LockRecordReq
    <2> QED BY <1>2, <2>1
  <1>6. CASE \/ \E fv \in Fvar, id \in Id : ReleaseRecord(u, fv, id)
             \/ \E fv \in Fvar : ReleaseFile(u, fv)
             \/ ReleaseAll(u) \/ TxnEnd(u) \/ TxnBegin(u) \/ RebuildLLT(u)
    <2>1. req' = req
      BY <1>6 DEF ReleaseRecord, ReleaseFile, ReleaseAll, TxnEnd, TxnBegin, RebuildLLT
    <2>2. req[u] = Idle \/ RebuildLLT(u)
      BY <1>6 DEF ReleaseRecord, ReleaseFile, ReleaseAll, TxnEnd, TxnBegin, RunsNew
    <2>3. req[u].op \in {"idle", "lockrec", "filelock"}
      BY <1>4, <2>2 DEF RebuildLLT
    <2> QED BY <1>2, <2>1, <2>3
  <1>7. CASE FileUnlock(u) \/ ClearEnd(u) \/ CleanUp(u) \/ Die(u)
             \/ \E how \in {"abort", "stop"} : Leave(u, how)
    <2>1. \/ req' = [req EXCEPT ![u] = Idle]
          \/ \E o \in {"dead", "abort", "stop"} : req' = [req EXCEPT ![u] = [op |-> o]]
      BY <1>7, Zenon DEF FileUnlock, ClearEnd, CleanUp, Die, Leave
    <2>2. req'[u].op \in {"idle", "dead", "abort", "stop"}
      BY <1>1, <1>4, <2>1
    <2> QED BY <1>2, <2>2
  <1>8. ASSUME NEW fv \in Fvar, FileLock(u, fv) PROVE Goal
    <2>1. req'[u] = Idle \/ req'[u] = FileLockReq(fv)
      BY <1>1, <1>8 DEF FileLock, Done
    <2>2. req'[u].op \in {"idle", "filelock"}
      BY <1>4, <2>1 DEF FileLockReq
    <2> QED BY <1>2, <2>2
  <1>9. ASSUME NEW fv \in Fvar, FileUnlockCheck(u, fv) PROVE Goal
    <2>1. req' = [req EXCEPT ![u] = [op |-> "flunlock", fvar |-> fv]]
      BY <1>9 DEF FileUnlockCheck
    <2>2. req'[u].op = "flunlock"
      BY <1>1, <2>1
    <2> QED BY <1>2, <2>2
  <1>10. ASSUME NEW fv \in Fvar, ClearBegin(u, fv) PROVE Goal
    <2>1. req'[u].op = "clear"
      <3> DEFINE took == ~HasFileLock(u, FileOf[fv])
      <3>1. req' = [req EXCEPT ![u] = [op |-> "clear", fvar |-> fv, took |-> took]]
        BY <1>10 DEF ClearBegin
      <3> HIDE DEF took
      <3> QED BY <1>1, <3>1
    <2> QED BY <1>2, <2>1
  <1>11. CASE Quit(u) \/ ClearLockwait(u) \/ Rollback(u)
    <2>1. req'[u].op # "prompt"
      <3>1. \/ \E S, next : req' = [req EXCEPT ![u] = Closing(S, None, next)]
            \/ req' = [req EXCEPT ![u] = [op |-> "rollback"]]
            \/ req' = [req EXCEPT ![u] = Idle]
        BY <1>11 DEF Quit, ClearLockwait, Rollback
      <3> QED BY <1>1, <1>4, <3>1 DEF Closing
    <2> QED BY <1>11, <2>1
  <1>12. CASE \E fv \in Fvar : Close(u, fv)
    <2>1. \E S : req' = [req EXCEPT ![u] = Closing(S, None, "idle")]
      BY <1>12, Zenon DEF Close
    <2>2. \E S : req'[u] = Closing(S, None, "idle")
      BY <1>1, <2>1
    <2> QED BY <1>3, <2>2
  <1>13. ASSUME req[u].op = "closing"
         PROVE  /\ req[u].next \in {"idle", "prompt"}
                /\ \A x : [req[u] EXCEPT !.flock = x] = Closing(req[u].fvars, x, req[u].next)
                /\ \A S : [req[u] EXCEPT !.fvars = S] = Closing(S, req[u].flock, req[u].next)
    <2>1. req[u] = Closing(req[u].fvars, req[u].flock, req[u].next) /\ req[u].next \in {"idle", "prompt"}
      BY <1>13, ClosingFacts DEF TypeOK
    <2> QED BY <2>1 DEF Closing
  <1>14. CASE CloseFileLock(u) \/ \E fv \in Fvar : CloseCheck(u, fv)
    <2>1. req[u].op = "closing" /\ \E x : req'[u] = Closing(req[u].fvars, x, req[u].next)
      <3>1. req[u].op = "closing" /\ \E x : req' = [req EXCEPT ![u].flock = x]
        BY <1>14 DEF CloseFileLock, CloseCheck
      <3>2. PICK x : req' = [req EXCEPT ![u].flock = x]
        BY <3>1
      <3>3. req'[u] = [req[u] EXCEPT !.flock = x]
        BY <3>2 DEF TypeOK
      <3> QED BY <1>13, <3>1, <3>3
    <2>2. /\ req'[u].op = "closing" /\ req'[u].fvars = req[u].fvars
          /\ req'[u].next = req[u].next
      BY <2>1 DEF Closing
    <2> QED BY <1>14, <2>1, <2>2
  <1>15. ASSUME NEW fv \in Fvar, CloseFvar(u, fv) PROVE Goal
    <2>1. req[u].op = "closing"
      BY <1>15 DEF CloseFvar
    <2>2. CASE req[u].fvars = {fv}
      <3>1. req'[u] = [op |-> req[u].next]
        BY <1>1, <1>15, <2>2 DEF CloseFvar
      <3>2. req'[u].op = req[u].next
        BY <3>1
      <3> QED BY <1>13, <1>15, <2>1, <2>2, <3>2
    <2>3. CASE req[u].fvars # {fv}
      <3>1. req'[u] = Closing(req[u].fvars \ {fv}, None, req[u].next)
        BY <1>1, <1>13, <1>15, <2>3 DEF CloseFvar
      <3>2. /\ req'[u].op = "closing" /\ req'[u].fvars = req[u].fvars \ {fv}
            /\ req'[u].next = req[u].next
        BY <3>1 DEF Closing
      <3> QED BY <1>15, <2>1, <3>2
    <2> QED BY <2>2, <2>3
  <1> HIDE DEF Goal
  <1> QED BY <1>5, <1>6, <1>7, <1>8, <1>9, <1>10, <1>11, <1>12, <1>14, <1>15, StepGroups

\* The entries of a local lock table after a step are entries from before, or
\* the file variable of a new lock, or those of the locks when it is rebuilt.
LEMMA TailEntries ==
  ASSUME NEW S, NEW s \in Seq(S), s # <<>>, NEW n \in DOMAIN Tail(s)
  PROVE  \E m \in DOMAIN s : Tail(s)[n] = s[m]
  <1>1. Len(s) \in Nat /\ Len(Tail(s)) = Len(s) - 1 /\ DOMAIN Tail(s) = 1..Len(Tail(s))
        /\ DOMAIN s = 1..Len(s) /\ Len(s) # 0
    BY HeadTailProperties, EmptySeq, LenProperties
  <1>2. Tail(s)[n] = s[n + 1] /\ n + 1 \in DOMAIN s
    BY <1>1, HeadTailProperties
  <1> QED BY <1>2

LEMMA ForgetEntries ==
  ASSUME TypeOK, NEW u \in User, NEW R, Forget(u, R), NEW k \in Key,
         NEW n \in DOMAIN llt'[u][k]
  PROVE  \E m \in DOMAIN llt[u][k] : llt'[u][k][n] = llt[u][k][m]
  <1> DEFINE s == llt[u][k]
  <1>1. s \in Seq(Fvar)
    BY DEF TypeOK
  <1>2. llt'[u][k] = IF (\E c \in R : cell[c].key = k) /\ s # <<>> THEN Tail(s) ELSE s
    BY DEF Forget, TypeOK
  <1>3. CASE llt'[u][k] = s
    BY <1>3
  <1>4. CASE s # <<>> /\ llt'[u][k] = Tail(s)
    BY <1>1, <1>4, TailEntries
  <1> QED BY <1>2, <1>3, <1>4

LEMMA PushEntries ==
  ASSUME NEW S, NEW s \in Seq(S), NEW x \in S, NEW n \in DOMAIN (<<x>> \o s)
  PROVE  (<<x>> \o s)[n] = x \/ \E m \in DOMAIN s : (<<x>> \o s)[n] = s[m]
  <1>1. <<x>> \in Seq(S) /\ Len(<<x>>) = 1 /\ <<x>>[1] = x
    OBVIOUS
  <1>2. Len(s) \in Nat /\ DOMAIN s = 1..Len(s) /\ <<x>> \o s \in Seq(S)
    BY <1>1, LenProperties, ConcatProperties
  <1>3. Len(<<x>> \o s) = 1 + Len(s) /\ DOMAIN (<<x>> \o s) = 1..Len(<<x>> \o s)
    BY <1>1, <1>2, ConcatProperties, LenProperties
  <1>4. n \in 1..(1 + Len(s))
    BY <1>2, <1>3
  <1>5. CASE n = 1
    <2>1. (<<x>> \o s)[n] = <<x>>[1]
      BY <1>1, <1>2, <1>3, <1>5, ConcatProperties
    <2> QED BY <1>1, <2>1
  <1>6. CASE n # 1
    <2>1. (<<x>> \o s)[n] = s[n - 1]
      BY <1>1, <1>2, <1>4, <1>6, ConcatProperties
    <2>2. n - 1 \in DOMAIN s
      BY <1>2, <1>4, <1>6
    <2> QED BY <2>1, <2>2
  <1> QED BY <1>5, <1>6

LEMMA FitFiles ==
  ASSUME TypeOK, FvarsFit, NEW f \in File, fileLock'[f].fvar # None,
         AdminStep \/ \E u \in User : UserStep(u)
  PROVE  FileOf[fileLock'[f].fvar] = f
  <1>1. fileLock'[f].fvar = fileLock[f].fvar \/ \E fv \in Fvar : FileOf[fv] = f /\ fileLock'[f].fvar = fv
    <2>1. CASE AdminStep
      BY <2>1, AdminMoves DEF Freeing
    <2>2. ASSUME NEW u \in User, UserStep(u)
          PROVE  \/ fileLock'[f].fvar = fileLock[f].fvar
                 \/ \E fv \in Fvar : FileOf[fv] = f /\ fileLock'[f].fvar = fv
      BY <2>2, LockMoves DEF Freeing, Locking, Relocking, Marking, Unmarking
    <2> QED BY <2>1, <2>2
  <1> QED BY <1>1 DEF FvarsFit

LEMMA FitCells ==
  ASSUME IInv, FvarsFit, NEW c \in Cell, Used(c)', NEW u \in User, UserStep(u)
  PROVE  FileOf[cell'[c].fvar] = cell'[c].key[1]
  <1>0. Used(c) => FileOf[cell[c].fvar] = cell[c].key[1]
    BY DEF FvarsFit
  <1>1. CASE SteadyStep(u)
    BY <1>0, <1>1, SteadySame DEF SameLocks
  <1>2. CASE KeyStep(u) \/ EndStep(u) \/ CleanUp(u)
    BY <1>0, <1>2, KeyStepFreed, EndStepFreed, CleanUpFreed DEF Freed
  <1>3. ASSUME NEW d, NEW e, Changed(u, d, e), FileOf[e.fvar] = e.key[1]
        PROVE  FileOf[cell'[c].fvar] = cell'[c].key[1]
    <2>1. /\ c = d => cell'[c] = e
          /\ c # d => cell'[c] = cell[c] /\ Used(c)
      BY <1>3 DEF Changed, CellsOf, IInv, TypeOK, Used
    <2> QED BY <1>0, <1>3, <2>1
  <1>4. CASE ChangeStep(u)
    <2>1. ASSUME NEW fv \in Fvar, NEW id \in Id, NEW upd \in BOOLEAN, LockRefresh(u, fv, id, upd)
          PROVE  FileOf[cell'[c].fvar] = cell'[c].key[1]
      <3>1. PICK d, e : /\ Changed(u, d, e) /\ e.key = <<FileOf[fv], id>> /\ e.fvar = fv
        BY <2>1, RefreshChanges
      <3> QED BY <1>3, <3>1
    <2>2. ASSUME NEW fv \in Fvar, NEW id \in Id, LockUpgrade(u, fv, id)
          PROVE  FileOf[cell'[c].fvar] = cell'[c].key[1]
      <3>1. PICK d, e : /\ Changed(u, d, e) /\ e.fvar = cell[d].fvar
        BY <2>2, UpgradeChanges
      <3>2. e.key = cell[d].key /\ d \in Cell /\ Used(d)
        BY <3>1 DEF Changed, CellsOf
      <3> QED BY <1>3, <3>1, <3>2 DEF FvarsFit
    <2> QED BY <1>4, <2>1, <2>2 DEF ChangeStep
  <1>5. ASSUME NEW fv \in Fvar, NEW id \in Id, NEW upd \in BOOLEAN, LockNew(u, fv, id, upd)
        PROVE  FileOf[cell'[c].fvar] = cell'[c].key[1]
    <2>1. PICK d : Added(u, fv, <<FileOf[fv], id>>, d, IF upd THEN "U" ELSE "S")
      BY <1>5, NewIsAdded
    <2>2. /\ c = d => cell'[c].fvar = fv /\ cell'[c].key = <<FileOf[fv], id>>
          /\ c # d => cell'[c] = cell[c] /\ Used(c)
      BY <2>1 DEF Added, Used
    <2> QED BY <1>0, <2>2
  <1> QED BY <1>1, <1>2, <1>4, <1>5, StepKinds

LEMMA FitEntries ==
  ASSUME IInv, FvarsFit, NEW u \in User, UserStep(u), NEW k \in Key,
         NEW n \in DOMAIN llt'[u][k]
  PROVE  FileOf[llt'[u][k][n]] = k[1]
  <1>0. \A m \in DOMAIN llt[u][k] : FileOf[llt[u][k][m]] = k[1]
    BY DEF FvarsFit
  <1>1. CASE llt'[u][k] = llt[u][k]
    BY <1>0, <1>1
  <1>2. CASE RebuildLLT(u)
    <2> DEFINE own == {c \in CellsOf(u) : cell[c].key = k}
    <2>1. llt'[u][k] = IF own = {} THEN <<>> ELSE <<cell[CHOOSE c \in own : TRUE].fvar>>
      BY <1>2 DEF RebuildLLT, IInv, TypeOK
    <2>2. CASE own = {}
      BY <2>1, <2>2
    <2>3. CASE own # {}
      <3>1. PICK c \in own : llt'[u][k] = <<cell[c].fvar>>
        BY <2>1, <2>3
      <3>2. llt'[u][k][n] = cell[c].fvar
        BY <3>1
      <3> QED BY <3>1, <3>2 DEF FvarsFit, CellsOf
    <2> QED BY <2>2, <2>3
  <1>3. CASE KeyStep(u)
    <2>1. PICK R : Forget(u, R)
      BY <1>3, KeyStepFreed
    <2> QED BY <1>0, <2>1, ForgetEntries DEF IInv
  <1>4. CASE CleanUp(u)
    <2>1. llt'[u][k] = <<>>
      BY <1>4 DEF CleanUp, IInv, TypeOK
    <2> QED BY <2>1
  <1>5. ASSUME NEW fv \in Fvar, NEW id \in Id, NEW upd \in BOOLEAN, LockNew(u, fv, id, upd)
        PROVE  FileOf[llt'[u][k][n]] = k[1]
    <2> DEFINE j == <<FileOf[fv], id>>
    <2>1. PICK d : Added(u, fv, j, d, IF upd THEN "U" ELSE "S")
      BY <1>5, NewIsAdded
    <2>2. CASE k = j
      <3>0. llt[u][k] \in Seq(Fvar)
        BY DEF IInv, TypeOK
      <3>1. llt'[u][k] = <<fv>> \o llt[u][k]
        BY <2>1, <2>2 DEF Added
      <3>2. llt'[u][k][n] = fv \/ \E m \in DOMAIN llt[u][k] : llt'[u][k][n] = llt[u][k][m]
        BY <3>0, <3>1, PushEntries
      <3> QED BY <1>0, <2>2, <3>2
    <2>3. CASE k # j
      BY <1>1, <2>1, <2>3 DEF Added
    <2> QED BY <2>2, <2>3
  <1>6. CASE (SteadyStep(u) /\ ~RebuildLLT(u)) \/ EndStep(u) \/ ChangeStep(u)
    BY <1>1, <1>6, SteadyLLT, EndStepFreed, ChangeStepSame
  <1> QED BY <1>2, <1>3, <1>4, <1>5, <1>6, StepKinds

LEMMA FitNext ==
  ASSUME IInv, FvarsFit, AdminStep \/ \E u \in User : UserStep(u)
  PROVE  FvarsFit'
  <1>1. \A f \in File : fileLock'[f].fvar # None => FileOf[fileLock'[f].fvar] = f
    BY FitFiles DEF IInv
  <1>2. ASSUME AdminStep PROVE FvarsFit'
    <2>1. \A c \in Cell : Used(c)' => FileOf[cell'[c].fvar] = cell'[c].key[1]
      BY <1>2, AdminFreed DEF Freed, FvarsFit
    <2>2. llt' = llt
      BY <1>2, AdminFreed
    <2> QED BY <1>1, <2>1, <2>2 DEF FvarsFit
  <1>3. ASSUME NEW u \in User, UserStep(u) PROVE FvarsFit'
    <2>1. \A c \in Cell : Used(c)' => FileOf[cell'[c].fvar] = cell'[c].key[1]
      BY <1>3, FitCells
    <2>2. ASSUME NEW v \in User, NEW k \in Key, NEW n \in DOMAIN llt'[v][k]
          PROVE  FileOf[llt'[v][k][n]] = k[1]
      <3>1. CASE v = u
        BY <1>3, <2>2, <3>1, FitEntries
      <3>2. CASE v # u
        <4>1. llt'[v] = llt[v]
          BY <1>3, <3>2, OthersKept DEF IInv
        <4> QED BY <2>2, <4>1 DEF FvarsFit
      <3> QED BY <3>1, <3>2
    <2> QED BY <1>1, <2>1, <2>2 DEF FvarsFit
  <1> QED BY <1>2, <1>3

LEMMA NamedNext ==
  ASSUME IInv, FilesNamed, "trigger" \notin Ops, NEW u \in User, UserStep(u)
  PROVE  FilesNamed'
  <1> USE DEF IInv, FilesNamed
  <1>0. None \notin User /\ None \notin Fvar
    BY RecordLocksAssumption
  <1>1. ASSUME NEW f \in File, fileLock'[f].owner # None, ~fileLock'[f].clearing
        PROVE  fileLock'[f].fvar # None
    <2>1. CASE fileLock'[f] = fileLock[f]
      BY <1>1, <2>1 DEF LocksNamed
    <2>2. CASE Locking(u, f)
      BY <1>0, <2>2 DEF Locking
    <2>3. CASE Relocking(u, f)
      BY <1>0, <2>3 DEF Relocking, HasFileLock, LocksNamed
    <2>4. CASE Unmarking(u, f)
      <3>1. req[u].op = "clear"
        BY <2>4, ClearEndOp DEF Unmarking
      <3> QED BY <2>4, <3>1 DEF Unmarking, LocksNamed
    <2>5. ~Freeing(f) /\ ~Marking(u, f)
      BY <1>1 DEF Freeing, Marking
    <2> QED BY <2>1, <2>2, <2>3, <2>4, <2>5, LockMoves
  <1>2. ASSUME NEW f \in File, fileLock[f].fvar # None
        PROVE  fileLock'[f].fvar # None
    BY <1>0, <1>2, LockMoves DEF Freeing, Locking, Relocking, Marking, Unmarking
  <1>3. ASSUME NEW v \in User, req'[v].op = "clear", ~req'[v].took
        PROVE  fileLock'[FileOf[req'[v].fvar]].fvar # None
    <2>1. CASE v # u
      <3>1. req'[v] = req[v]
        BY <2>1, OthersKept
      <3>2. FileOf[req[v].fvar] \in File
        BY <1>3, <3>1, OnFileVarFacts, RecordLocksAssumption DEF TypeOK
      <3> QED BY <1>2, <1>3, <3>1, <3>2 DEF LocksNamed
    <2>2. CASE v = u
      <3>1. PICK fv \in Fvar : req'[u].fvar = fv /\ HasFileLock(u, FileOf[fv])
        BY <1>3, <2>2, RequestEntered
      <3>2. FileOf[fv] \in File
        BY RecordLocksAssumption
      <3> QED BY <1>0, <1>2, <2>2, <3>1, <3>2 DEF HasFileLock, LocksNamed
    <2> QED BY <2>1, <2>2
  <1>4. ASSUME NEW v \in User, NEW f \in File, fileLock'[f].owner = v, fileLock'[f].clearing
        PROVE  req'[v].op = "dead" \/ (req'[v].op = "clear" /\ FileOf[req'[v].fvar] = f)
    <2>1. CASE fileLock'[f] = fileLock[f]
      <3>1. req[v].op = "dead" \/ (req[v].op = "clear" /\ FileOf[req[v].fvar] = f)
        BY <1>4, <2>1 DEF MarkedByClear
      <3>2. CASE v # u
        BY <3>1, <3>2, OthersKept
      <3>3. CASE v = u /\ Die(u)
        BY <3>3 DEF Die, TypeOK
      <3>4. CASE v = u /\ CleanUp(u)
        <4>1. fileLock'[f].owner = None
          BY <1>4, <2>1, <3>4 DEF CleanUp, TypeOK, FileEntry
        <4> QED BY <1>0, <1>4, <4>1
      <3>5. CASE v = u /\ ClearEnd(u)
        <4>1. FileOf[req[u].fvar] = f
          BY <3>1, <3>5, ClearEndOp
        <4>2. ~fileLock'[f].clearing
          <5>1. CASE req[u].took
            <6>1. Release({}, {f})
              BY <3>5, <4>1, <5>1 DEF ClearEnd
            <6>2. fileLock[f] \in FileEntry
              BY DEF TypeOK
            <6> QED BY <6>1, <6>2 DEF Release, FileEntry
          <5>2. CASE ~req[u].took
            <6>1. fileLock' = [fileLock EXCEPT ![f].owner = u, ![f].clearing = FALSE]
              BY <3>5, <4>1, <5>2 DEF ClearEnd
            <6>2. fileLock[f] \in FileEntry
              BY DEF TypeOK
            <6> QED BY <6>1, <6>2 DEF TypeOK, FileEntry
          <5> QED BY <5>1, <5>2
        <4> QED BY <1>4, <4>2
      <3> QED BY <3>1, <3>2, <3>3, <3>4, <3>5, OpSteps
    <2>2. CASE Marking(u, f)
      <3>1. PICK fv \in Fvar : ClearBegin(u, fv) /\ FileOf[fv] = f
        BY <2>2 DEF Marking
      <3>2. v = u
        BY <1>4, <2>2 DEF Marking
      <3> DEFINE took == ~HasFileLock(u, FileOf[fv])
      <3>3. req' = [req EXCEPT ![u] = [op |-> "clear", fvar |-> fv, took |-> took]]
        BY <3>1 DEF ClearBegin
      <3> HIDE DEF took
      <3>4. req'[u].op = "clear" /\ req'[u].fvar = fv
        BY <3>3 DEF TypeOK
      <3> QED BY <3>1, <3>2, <3>4
    <2>3. ~Freeing(f) /\ ~Locking(u, f) /\ ~Relocking(u, f) /\ ~Unmarking(u, f)
      BY <1>0, <1>4 DEF Freeing, Locking, Relocking, Unmarking
    <2> QED BY <2>1, <2>2, <2>3, LockMoves
  <1> QED BY <1>1, <1>3, <1>4 DEF LocksNamed, MarkedByClear

\* Others leave the locks of a user that is leaving alone, or take some away.
LEMMA OthersLeft ==
  ASSUME IInv, NEW v \in User, NEW S, Leftovers(v, S), llt'[v] = llt[v],
         \A c \in CellsOf(v)' : c \in CellsOf(v) /\ cell'[c].key = cell[c].key,
         \A f \in File : fileLock'[f].owner = v => fileLock'[f] = fileLock[f]
  PROVE  Leftovers(v, S)'
  BY DEF Leftovers

LEMMA OthersCells ==
  ASSUME IInv, NEW u \in User, UserStep(u), NEW v \in User \ {u}, NEW c \in CellsOf(v)'
  PROVE  c \in CellsOf(v) /\ cell'[c].key = cell[c].key
  <1>1. c \in Cell /\ Used(c)' /\ cell'[c].owner = v
    BY DEF CellsOf
  <1>2. Used(c) /\ cell'[c].key = cell[c].key /\ cell'[c].owner = cell[c].owner
    BY <1>1, CellSteps
  <1> QED BY <1>1, <1>2 DEF CellsOf

LEMMA OthersLeaving ==
  ASSUME IInv, LeavingInv, NEW u \in User, UserStep(u), NEW v \in User \ {u}
  PROVE  Left(v)'
  <1>1. req'[v] = req[v] /\ llt'[v] = llt[v]
    BY OthersKept DEF IInv
  <1>2. ASSUME NEW f \in File, fileLock'[f].owner = v PROVE fileLock'[f] = fileLock[f]
    <2>1. v # None
      BY RecordLocksAssumption
    <2> QED BY <1>2, <2>1, LockMoves DEF IInv, Freeing, Locking, Relocking, Marking, Unmarking
  <1>3. ASSUME NEW S, Leftovers(v, S) PROVE Leftovers(v, S)'
    BY <1>1, <1>2, <1>3, OthersCells, OthersLeft
  <1> QED BY <1>1, <1>3 DEF LeavingInv, Left

LEMMA AdminLeaving ==
  ASSUME IInv, LeavingInv, AdminStep, NEW v \in User
  PROVE  Left(v)'
  <1>1. req' = req /\ llt' = llt
    BY AdminFreed
  <1>2. ASSUME NEW c \in CellsOf(v)' PROVE c \in CellsOf(v) /\ cell'[c].key = cell[c].key
    BY AdminFreed DEF Freed, CellsOf
  <1>3. ASSUME NEW f \in File, fileLock'[f].owner = v PROVE fileLock'[f] = fileLock[f]
    <2>1. v # None
      BY RecordLocksAssumption
    <2> QED BY <1>3, <2>1, AdminMoves DEF IInv, Freeing
  <1>4. ASSUME NEW S, Leftovers(v, S) PROVE Leftovers(v, S)'
    BY <1>1, <1>2, <1>3, <1>4, OthersLeft
  <1> QED BY <1>1, <1>4 DEF LeavingInv, Left

\* When the closes begin, every file variable is still to be closed.
LEMMA AllLeftAtFirst ==
  ASSUME IInv, LeavingInv, NEW u \in User, req[u].op \notin {"clear", "dead"}
  PROVE  Leftovers(u, Fvar)
  <1>1. ASSUME NEW c \in CellsOf(u), NEW n \in DOMAIN llt[u][cell[c].key]
        PROVE  llt[u][cell[c].key][n] \in Fvar
    <2>1. cell[c].key \in Key
      BY EntryIsUsed DEF CellsOf, IInv, TypeOK, Used, LockEntry
    <2>2. llt[u][cell[c].key] \in Seq(Fvar)
      BY <2>1 DEF IInv, TypeOK
    <2> QED BY <1>1, <2>2
  <1>2. ASSUME NEW f \in File, fileLock[f].owner = u
        PROVE  fileLock[f].fvar \in Fvar
    <2>1. ~fileLock[f].clearing
      BY <1>2 DEF LeavingInv, FilesNamed, MarkedByClear
    <2>2. fileLock[f].fvar # None /\ fileLock[f] \in FileEntry
      BY <1>2, <2>1, RecordLocksAssumption DEF LeavingInv, FilesNamed, LocksNamed, IInv, TypeOK
    <2> QED BY <2>2 DEF FileEntry
  <1> QED BY <1>1, <1>2 DEF Leftovers

\* Closing a file variable releases the locks that name it.
LEMMA CloseLeaves ==
  ASSUME IInv, LeavingInv, NEW u \in User, NEW fv \in Fvar, CloseFvar(u, fv),
         NEW S, Leftovers(u, S)
  PROVE  Leftovers(u, S \ {fv})'
  <1> DEFINE f == FileOf[fv]
             K == {k \in Key : k[1] = f /\ \E n \in DOMAIN llt[u][k] : llt[u][k][n] = fv}
             F == {g \in {f} : HasFileLock(u, g) /\ FvarFileLock(u, fv)}
             R == UNION {OwnMatch(u, k) : k \in {k \in K : lockCount[k[1]] # 0}}
  <1>0. UnlockFvar(u, fv) /\ ~FvarFileLock(u, fv)
    BY DEF CloseFvar
  <1>1. UnlockKeys(u, K, F) /\ ~FvarFileLock(u, fv)
    BY <1>0, Zenon DEF UnlockFvar
  <1>2. R \in SUBSET CellsOf(u) /\ Freed(R) /\ Forget(u, R)
    <2> HIDE DEF K, F
    <2>1. PICK Q \in SUBSET CellsOf(u) :
            /\ Q = UNION {OwnMatch(u, k) : k \in {k \in K : lockCount[k[1]] # 0}}
            /\ Freed(Q) /\ Forget(u, Q)
      BY <1>1, UnlockKeysFreed
    <2>2. Q = R
      BY <2>1
    <2> QED BY <2>1, <2>2
  <1>3. ASSUME NEW c \in CellsOf(u)'
        PROVE  /\ c \in CellsOf(u) /\ cell'[c].key = cell[c].key
               /\ llt'[u][cell[c].key] = llt[u][cell[c].key]
               /\ \A n \in DOMAIN llt[u][cell[c].key] : llt[u][cell[c].key][n] # fv
    <2> DEFINE k == cell[c].key
    <2>1. c \in Cell /\ Used(c) /\ c \notin R /\ cell'[c] = cell[c] /\ cell[c].owner = u
      BY <1>2 DEF Freed, CellsOf
    <2>2. k \in Key /\ k[1] \in File
      BY <2>1, UsedIsEntry DEF IInv, TableInv, LockEntry, Key
    <2>3. ~\E d \in R : cell[d].key = k
      <3> SUFFICES ASSUME NEW d \in R, cell[d].key = k PROVE FALSE
        OBVIOUS
      <3>1. d \in Cell /\ Used(d) /\ cell[d].owner = cell[c].owner /\ d # c
        BY <1>2, <2>1 DEF CellsOf
      <3>2. RecordExclusion
        BY DEF IInv, TableInv
      <3> HIDE DEF R
      <3> QED BY <2>1, <3>1, <3>2 DEF RecordExclusion
    <2>4. llt'[u][k] = llt[u][k]
      <3> HIDE DEF R, k
      <3> QED BY <1>2, <2>2, <2>3 DEF Forget, IInv, TypeOK
    <2>5. ASSUME NEW n \in DOMAIN llt[u][k], llt[u][k][n] = fv PROVE FALSE
      <3>1. k[1] = f
        BY <2>2, <2>5 DEF LeavingInv, FvarsFit
      <3>2. lockCount[k[1]] # 0
        <4> DEFINE C == {d \in Cell : Used(d) /\ cell[d].key[1] = k[1]}
        <4>1. c \in C /\ C \in SUBSET Cell
          BY <2>1
        <4>2. Cardinality(C) # 0
          BY <4>1, SubsetFinite, FS_EmptySet
        <4> QED BY <2>2, <4>2 DEF IInv, TableInv, CountsExact
      <3>3. c \in OwnMatch(u, k)
        BY <2>1, <2>2, MatchingIsAll DEF OwnMatch, IInv, TableInv
      <3>4. k \in K
        BY <2>2, <2>5, <3>1
      <3>5. c \in R
        <4> HIDE DEF K, k
        <4> QED BY <3>2, <3>3, <3>4
      <3> QED BY <2>1, <3>5
    <2>6. c \in CellsOf(u)
      BY <2>1 DEF CellsOf
    <2> QED BY <2>1, <2>4, <2>5, <2>6
  <1> HIDE DEF R
  <1>4. ASSUME NEW c \in CellsOf(u)', NEW n \in DOMAIN llt'[u][cell'[c].key]
        PROVE  llt'[u][cell'[c].key][n] \in S \ {fv}
    BY <1>3 DEF Leftovers
  <1>5. ASSUME NEW g \in File, fileLock'[g].owner = u
        PROVE  fileLock'[g].fvar \in S \ {fv}
    <2>1. u # None /\ fv # None
      BY RecordLocksAssumption
    <2>2. fileLock'[g] = fileLock[g]
      BY <1>1, <1>5, <2>1, ReleaseMoves DEF UnlockKeys, Freeing, IInv
    <2>3. fileLock[g].fvar # fv
      <3> SUFFICES ASSUME fileLock[g].fvar = fv PROVE FALSE
        OBVIOUS
      <3>1. FileOf[fv] = g
        BY <2>1 DEF LeavingInv, FvarsFit
      <3> QED BY <1>1, <1>5, <2>2, <3>1 DEF FvarFileLock
    <2> QED BY <1>5, <2>2, <2>3 DEF Leftovers
  <1> QED BY <1>4, <1>5 DEF Leftovers

\* Closing a file variable's file lock, and finding it, takes no other lock.
LEMMA CloseKeeps ==
  ASSUME IInv, NEW u \in User, NEW S, Leftovers(u, S),
         CloseFileLock(u) \/ \E fv \in Fvar : CloseCheck(u, fv)
  PROVE  Leftovers(u, S)'
  <1>1. llt' = llt
    BY DEF CloseFileLock, CloseCheck
  <1>2. SameLocks
    BY SteadySame DEF SteadyStep
  <1>3. \A c \in CellsOf(u)' : c \in CellsOf(u) /\ cell'[c].key = cell[c].key
    BY <1>2 DEF SameLocks, CellsOf
  <1>4. ASSUME NEW f \in File, fileLock'[f].owner = u PROVE fileLock'[f] = fileLock[f]
    <2>1. u # None
      BY RecordLocksAssumption
    <2>2. fileLock' = fileLock \/ \E F : Release({}, F)
      BY DEF CloseFileLock, CloseCheck, tables
    <2> QED BY <1>4, <2>1, <2>2, ReleaseMoves DEF IInv, Freeing
  <1> QED BY <1>1, <1>3, <1>4, OthersLeft

\* A rollback releases locks and leaves the entries of the local lock table.
LEMMA RollbackKeeps ==
  ASSUME IInv, NEW u \in User, Rollback(u), Leftovers(u, Fvar)
  PROVE  Leftovers(u, Fvar)'
  <1>1. CASE txn[u] = 0
    <2>1. UNCHANGED <<fileLock, llt>> /\ SameLocks
      BY <1>1, UnchangedCells DEF Rollback, tables
    <2>2. \A c \in CellsOf(u)' : c \in CellsOf(u) /\ cell'[c].key = cell[c].key
      BY <2>1 DEF SameLocks, CellsOf
    <2> QED BY <2>1, <2>2, OthersLeft
  <1>2. CASE txn[u] # 0
    <2>1. UnlockTxn(u) /\ EndStep(u)
      BY <1>2 DEF Rollback, EndStep
    <2>2. llt' = llt /\ \E R \in SUBSET CellsOf(u) : Freed(R)
      BY <2>1, EndStepFreed
    <2>3. \A c \in CellsOf(u)' : c \in CellsOf(u) /\ cell'[c].key = cell[c].key
      BY <2>2 DEF Freed, CellsOf
    <2>4. ASSUME NEW f \in File, fileLock'[f].owner = u PROVE fileLock'[f] = fileLock[f]
      <3>1. fileLock[f] \in FileEntry /\ u # None
        BY RecordLocksAssumption DEF IInv, TypeOK
      <3> QED BY <2>1, <2>4, <3>1 DEF UnlockTxn, FileEntry
    <2> QED BY <2>2, <2>3, <2>4, OthersLeft
  <1> QED BY <1>1, <1>2

LEMMA OwnLeaving ==
  ASSUME IInv, LeavingInv, NEW u \in User, UserStep(u)
  PROVE  Left(u)'
  <1> USE DEF IInv
  <1>1. ASSUME req'[u].op = "closing", req'[u].next = "prompt"
        PROVE  Leftovers(u, req[u].fvars)'
    <2>1. CASE Quit(u) \/ ClearLockwait(u)
      <3>1. req[u].op \notin {"clear", "dead"} /\ UNCHANGED <<fileLock, llt>>
        BY <2>1 DEF Quit, ClearLockwait, tables
      <3>2. Leftovers(u, Fvar)
        BY <3>1, AllLeftAtFirst
      <3>3. SameLocks
        BY <2>1, SteadySame DEF SteadyStep
      <3>4. \A c \in CellsOf(u)' : c \in CellsOf(u) /\ cell'[c].key = cell[c].key
        BY <3>3 DEF SameLocks, CellsOf
      <3>5. Leftovers(u, Fvar)'
        BY <3>1, <3>2, <3>4, OthersLeft
      <3>6. req'[u].fvars = Fvar
        <4>1. \/ req' = [req EXCEPT ![u] = Closing(Fvar, None, "prompt")]
              \/ req' = [req EXCEPT ![u] = [op |-> "rollback"]]
          BY <2>1 DEF Quit, ClearLockwait
        <4>2. req'[u] = Closing(Fvar, None, "prompt")
          BY <1>1, <4>1 DEF TypeOK
        <4> QED BY <4>2 DEF Closing
      <3> QED BY <3>5, <3>6
    <2>4. CASE Rollback(u)
      <3>1. req[u].op \notin {"clear", "dead"}
        BY <2>4 DEF Rollback
      <3>2. Leftovers(u, Fvar)'
        BY <2>4, <3>1, AllLeftAtFirst, RollbackKeeps
      <3>3. req'[u].fvars = Fvar
        <4>1. \/ req' = [req EXCEPT ![u] = Closing(Fvar, None, "prompt")]
              \/ req' = [req EXCEPT ![u] = Idle]
          BY <2>4 DEF Rollback
        <4>2. req'[u] = Closing(Fvar, None, "prompt")
          BY <1>1, <4>1 DEF TypeOK, Idle
        <4> QED BY <4>2 DEF Closing
      <3> QED BY <3>2, <3>3
    <2>2. CASE /\ req[u].op = "closing" /\ req[u].next = "prompt"
               /\ req'[u].fvars = req[u].fvars
               /\ CloseFileLock(u) \/ \E fv \in Fvar : CloseCheck(u, fv)
      <3>1. Leftovers(u, req[u].fvars)
        BY <2>2 DEF LeavingInv, Left
      <3>2. PICK S : S = req[u].fvars
        OBVIOUS
      <3>3. Leftovers(u, S) /\ req'[u].fvars = S
        BY <2>2, <3>1, <3>2
      <3>4. Leftovers(u, S)'
        BY <2>2, <3>3, CloseKeeps
      <3> QED BY <3>3, <3>4 DEF Leftovers
    <2>3. CASE /\ req[u].op = "closing" /\ req[u].next = "prompt"
               /\ \E fv \in Fvar : CloseFvar(u, fv) /\ req'[u].fvars = req[u].fvars \ {fv}
      <3>1. PICK fv \in Fvar : CloseFvar(u, fv) /\ req'[u].fvars = req[u].fvars \ {fv}
        BY <2>3
      <3>2. PICK S : S = req[u].fvars
        OBVIOUS
      <3>3. Leftovers(u, S)
        BY <2>3, <3>2 DEF LeavingInv, Left
      <3>4. Leftovers(u, S \ {fv})'
        BY <3>1, <3>3, CloseLeaves
      <3> QED BY <3>1, <3>2, <3>4 DEF Leftovers
    <2> QED BY <1>1, <2>1, <2>2, <2>3, <2>4, ClosingSteps
  <1>2. ASSUME req'[u].op = "prompt"
        PROVE  Leftovers(u, {})'
    <2>1. PICK fv \in Fvar : CloseFvar(u, fv) /\ req[u].fvars = {fv}
      BY <1>2, ClosingSteps
    <2>2. Leftovers(u, {fv})
      BY <1>2, <2>1, ClosingSteps DEF LeavingInv, Left
    <2>3. Leftovers(u, {fv} \ {fv})'
      BY <2>1, <2>2, CloseLeaves
    <2> QED BY <2>3 DEF Leftovers
  <1> QED BY <1>1, <1>2 DEF Left

LEMMA LeavingInit ==
  ASSUME Init
  PROVE  LeavingInv
  <1>1. /\ \A c \in Cell : ~Used(c)
        /\ \A f \in File : /\ fileLock[f].owner = None /\ fileLock[f].fvar = None
                           /\ ~fileLock[f].clearing
        /\ \A u \in User, k \in Key : llt[u][k] = <<>>
        /\ \A u \in User : req[u].op = "idle"
    BY DEF Init, Used, Idle
  <1>2. FvarsFit
    BY <1>1 DEF FvarsFit
  <1>3. FilesNamed
    BY <1>1 DEF FilesNamed, LocksNamed, MarkedByClear
  <1>4. \A u \in User : Left(u)
    BY <1>1 DEF Left
  <1> QED BY <1>2, <1>3, <1>4, LLTInit DEF LeavingInv

LEMMA LeavingNext ==
  ASSUME "trigger" \notin Ops, IInv, LeavingInv, [Next]_vars
  PROVE  LeavingInv'
  <1>1. CASE UNCHANGED vars
    BY <1>1 DEF vars, tables, LeavingInv, FvarsFit, FilesNamed, LocksNamed, MarkedByClear,
                LLTCovers, Left, Leftovers, CellsOf, Used
  <1>2. CASE AdminStep
    <2>1. FilesNamed'
      <3>1. req' = req /\ None \notin User
        BY <1>2, AdminFreed, RecordLocksAssumption
      <3>2. \A f \in File : /\ fileLock'[f].fvar = fileLock[f].fvar
                            /\ fileLock'[f].owner # None => fileLock'[f] = fileLock[f]
        BY <1>2, AdminMoves DEF IInv, Freeing
      <3>3. \A u \in User : req[u].op = "clear" => FileOf[req[u].fvar] \in File
        BY OnFileVarFacts, RecordLocksAssumption DEF IInv, TypeOK
      <3>4. LocksNamed'
        BY <3>1, <3>2, <3>3 DEF LeavingInv, FilesNamed, LocksNamed
      <3>5. MarkedByClear'
        BY <3>1, <3>2 DEF LeavingInv, FilesNamed, MarkedByClear
      <3> QED BY <3>4, <3>5 DEF FilesNamed
    <2> QED BY <1>2, <2>1, FitNext, LLTNext, AdminLeaving DEF LeavingInv, Next
  <1>3. ASSUME NEW u \in User, UserStep(u) PROVE LeavingInv'
    <2>1. FilesNamed' /\ FvarsFit' /\ LLTCovers'
      BY <1>3, NamedNext, FitNext, LLTNext DEF LeavingInv, Next
    <2>2. \A v \in User : Left(v)'
      BY <1>3, OwnLeaving, OthersLeaving
    <2> QED BY <2>1, <2>2 DEF LeavingInv
  <1> QED BY <1>1, <1>2, <1>3 DEF Next

\* Unless a trigger function of CLEARFILE aborts, a process that is back at
\* the command prompt after an abort, a stop or a quit has no lock left,
\* however its programs took, changed and lost their locks and whatever the
\* administrator unlocked.
THEOREM PromptHasNothing ==
  ASSUME "trigger" \notin Ops
  PROVE  Spec => []NothingLeftAtPrompt
  <1>1. Init => LeavingInv
    BY LeavingInit
  <1>2. IInv /\ LeavingInv /\ [Next]_vars => LeavingInv'
    BY LeavingNext
  <1>3. IInv /\ LeavingInv => NothingLeftAtPrompt
    BY LeavingEnough DEF IInv
  <1> QED BY <1>1, <1>2, <1>3, Invariance, PTL DEF Spec
=============================================================================
