---------------------------- MODULE DHFile_proofs ---------------------------
(***************************************************************************)
(* Proofs about DHFile: for every number of processes, ids and groups and  *)
(* every hash function, records are where dh_read() looks for them, no     *)
(* record is stored twice, inhibit_count is exact, a select lists what it  *)
(* should, and the load covers the records, whatever is split, merged,     *)
(* written and selected at the same time; and the whole implements         *)
(* KVStore: a read, write or delete takes effect at the moment at which it *)
(* reads or writes its group, and nothing else changes the store.  First   *)
(* the arithmetic of the groups.                                           *)
(***************************************************************************)
EXTENDS DHFile, FiniteSetTheorems, TLAPS

-----------------------------------------------------------------------------
(* The arithmetic of LinearHash, for every file size and hash value: a      *)
(* split moves records from one group into the new one only, a merge moves  *)
(* them back, and both keep the parameters sound.                           *)

(* Remainders *)

LEMMA DivideInt ==
  ASSUME NEW h \in Int, NEW v \in Nat \ {0}
  PROVE  h % v \in 0..v - 1 /\ h \div v \in Int /\ h = v * (h \div v) + (h % v)
  OBVIOUS

\* A remainder is determined by what it is.
LEMMA RemainderIs ==
  ASSUME NEW v \in Nat \ {0}, NEW q \in Int, NEW r \in 0..v - 1
  PROVE  (v * q + r) % v = r
<1> DEFINE h == v * q + r
<1> DEFINE s == h % v
<1> DEFINE k == h \div v
<1>1. h \in Int /\ s \in 0..v - 1 /\ k \in Int /\ h = v * k + s
  BY DivideInt
<1>2. v * (q - k) = s - r
  BY <1>1
<1>3. q - k = 0
  <2> HIDE DEF h, s, k
  <2> DEFINE e == q - k
  <2>1. e \in Int /\ v * e = s - r
    BY <1>1, <1>2
  <2> HIDE DEF e
  <2>2. ~(e >= 1)
    <3>1. SUFFICES ASSUME e >= 1 PROVE FALSE
      OBVIOUS
    <3>2. v * e >= v
      BY <2>1, <3>1
    <3> QED
      BY <2>1, <3>2, <1>1
  <2>3. ~(e <= -1)
    <3>1. SUFFICES ASSUME e <= -1 PROVE FALSE
      OBVIOUS
    <3>2. v * e <= -v
      BY <2>1, <3>1
    <3> QED
      BY <2>1, <3>2, <1>1
  <2>4. e = 0
    BY <2>1, <2>2, <2>3
  <2> QED
    BY <2>4 DEF e
<1> QED
  BY <1>1, <1>2, <1>3

\* The remainder for w is the remainder for 2 * w, less w if it is that large.
LEMMA HalfRemainder ==
  ASSUME NEW h \in Nat, NEW w \in Nat \ {0}, NEW v \in Nat, v = 2 * w
  PROVE  /\ h % v \in 0..v - 1
         /\ h % w = IF h % v < w THEN h % v ELSE (h % v) - w
<1>0. v \in Nat \ {0} /\ h \in Int
  OBVIOUS
<1> DEFINE r == h % v
<1> DEFINE q == h \div v
<1>1. r \in 0..v - 1 /\ q \in Int /\ h = v * q + r
  BY <1>0, DivideInt
<1>2. h = w * (2 * q) + r /\ h = w * (2 * q + 1) + (r - w)
  BY <1>1
<1>3. ASSUME r < w PROVE h % w = r
  <2> HIDE DEF r, q
  <2>1. r \in 0..w - 1 /\ 2 * q \in Int
    BY <1>1, <1>3
  <2>2. (w * (2 * q) + r) % w = r
    BY <2>1, RemainderIs
  <2> QED
    BY <1>2, <2>2
<1>4. ASSUME r >= w PROVE h % w = r - w
  <2> HIDE DEF r, q
  <2>1. r - w \in 0..w - 1 /\ 2 * q + 1 \in Int
    BY <1>1, <1>4
  <2>2. (w * (2 * q + 1) + (r - w)) % w = r - w
    BY <2>1, RemainderIs
  <2> QED
    BY <1>2, <2>2
<1> QED
  BY <1>1, <1>3, <1>4

-----------------------------------------------------------------------------
(* Powers of two *)

LEMMA PowerOfTwoEven ==
  ASSUME NEW v, PowerOfTwo(v), v # 1
  PROVE  v \div 2 \in Nat \ {0} /\ v = 2 * (v \div 2)
<1>1. v \in Nat \ {0} /\ v = v * 1
  BY DEF PowerOfTwo
<1>2. v % 2 = 0
  BY <1>1 DEF PowerOfTwo
<1> QED
  BY <1>1, <1>2

LEMMA PowerOfTwoHalf ==
  ASSUME NEW w \in Nat \ {0}, PowerOfTwo(2 * w)
  PROVE  PowerOfTwo(w)
<1>1. ASSUME NEW d \in 1..w, NEW q \in 1..w, w = d * q
      PROVE  d = 1 \/ d % 2 = 0
  <2>1. 2 * w = d * (2 * q) /\ d \in 1..2 * w /\ 2 * q \in 1..2 * w
    BY <1>1
  <2> QED
    BY <2>1 DEF PowerOfTwo
<1> QED
  BY <1>1 DEF PowerOfTwo

LEMMA PowerOfTwoDouble ==
  ASSUME NEW v, PowerOfTwo(v)
  PROVE  PowerOfTwo(2 * v)
<1>0. v \in Nat \ {0}
  BY DEF PowerOfTwo
<1>1. ASSUME NEW d \in 1..2 * v, NEW q \in 1..2 * v, 2 * v = d * q, d % 2 # 0
      PROVE  d = 1
  <2>1. PICK a \in Nat : d = 2 * a + 1
    <3>1. d = 2 * (d \div 2) + 1 /\ d \div 2 \in Nat
      BY <1>1, <1>0
    <3> QED
      BY <3>1
  <2>2. q = 2 * (v - a * q)
    BY <1>0, <1>1, <2>1
  <2> DEFINE k == v - a * q
  <2>3. k \in Int /\ q = 2 * k
    BY <1>0, <2>1, <2>2
  <2> HIDE DEF k
  <2>4. k \in 1..v
    BY <1>0, <2>3
  <2>5. v = d * k
    BY <1>0, <1>1, <2>3
  <2>6. d <= d * k
    BY <1>0, <2>4
  <2>7. d \in 1..v
    BY <1>0, <2>5, <2>6
  <2> QED
    BY <2>4, <2>5, <2>7, <1>1 DEF PowerOfTwo
<1> QED
  BY <1>0, <1>1 DEF PowerOfTwo

-----------------------------------------------------------------------------
(* Hashing, splits and merges *)

\* A record hashes to a group of the file.
THEOREM HashInFile ==
  ASSUME NEW h \in Nat, NEW m, NEW v, ParamsOK(m, v)
  PROVE  GroupOf(h, m, v) \in 1..m
<1>1. CASE v = 1
  BY <1>1 DEF GroupOf, ParamsOK
<1>2. CASE v # 1
  <2> DEFINE w == v \div 2
  <2>1. w \in Nat \ {0} /\ v \in Nat /\ v = 2 * w
    BY <1>2, PowerOfTwoEven DEF ParamsOK, PowerOfTwo
  <2>2. h \in Int /\ v \in Nat \ {0}
    BY <2>1
  <2>3. h % v \in 0..v - 1
    BY <2>2, DivideInt
  <2> HIDE DEF w
  <2>4. h % w \in 0..w - 1
    BY <2>1, <2>2, DivideInt
  <2> QED
    BY <2>1, <2>3, <2>4 DEF GroupOf, ParamsOK, w
<1> QED
  BY <1>1, <1>2

\* A split keeps the parameters sound, its source is a group of the file, and
\* each record stays where it was unless it was in the source and belongs to
\* the new group.
THEOREM SplitMoves ==
  ASSUME NEW m, NEW v, ParamsOK(m, v)
  PROVE  /\ ParamsOK(m + 1, SplitModValue(m, v))
         /\ SplitSource(m, v) \in 1..m
         /\ \A h \in Nat :
              LET g == GroupOf(h, m + 1, SplitModValue(m, v)) IN
              g = GroupOf(h, m, v) \/ (g = m + 1 /\ GroupOf(h, m, v) = SplitSource(m, v))
<1>0. m \in Nat \ {0} /\ v \in Nat \ {0} /\ v \div 2 < m /\ m <= v
  BY DEF ParamsOK, PowerOfTwo
<1>1. CASE m + 1 > v
  <2>1. m = v /\ SplitModValue(m, v) = 2 * v /\ SplitSource(m, v) = 1
    BY <1>0, <1>1 DEF SplitModValue, SplitSource
  <2>2. ParamsOK(m + 1, 2 * v)
    BY <1>0, <2>1, PowerOfTwoDouble DEF ParamsOK
  <2>3. ASSUME NEW h \in Nat
        PROVE  LET g == GroupOf(h, m + 1, 2 * v) IN
               g = GroupOf(h, m, v) \/ (g = m + 1 /\ GroupOf(h, m, v) = 1)
    <3>1. /\ h % (2 * v) \in 0..2 * v - 1
          /\ h % v = IF h % (2 * v) < v THEN h % (2 * v) ELSE (h % (2 * v)) - v
      <4> DEFINE x == 2 * v
      <4>1. x \in Nat /\ x = 2 * v
        BY <1>0
      <4> HIDE DEF x
      <4> QED
        BY <1>0, <4>1, HalfRemainder
    <3>2. GroupOf(h, m, v) = (h % v) + 1
      BY <1>0, <2>1, <3>1 DEF GroupOf
    <3>3. (2 * v) \div 2 = v
      BY <1>0
    <3> QED
      BY <1>0, <2>1, <3>1, <3>2, <3>3 DEF GroupOf
  <2> QED
    BY <1>0, <2>1, <2>2, <2>3
<1>2. CASE m + 1 <= v
  <2> DEFINE w == v \div 2
  <2>1. w \in Nat \ {0} /\ v = 2 * w
    BY <1>0, <1>2, PowerOfTwoEven DEF ParamsOK
  <2>2. SplitModValue(m, v) = v /\ SplitSource(m, v) = m + 1 - w
    BY <1>0, <1>2 DEF SplitModValue, SplitSource
  <2>3. ParamsOK(m + 1, v)
    BY <1>0, <1>2 DEF ParamsOK
  <2>4. ASSUME NEW h \in Nat
        PROVE  LET g == GroupOf(h, m + 1, v) IN
               g = GroupOf(h, m, v) \/ (g = m + 1 /\ GroupOf(h, m, v) = m + 1 - w)
    <3>1. /\ h % v \in 0..v - 1
          /\ h % w = IF h % v < w THEN h % v ELSE (h % v) - w
      BY <1>0, <2>1, HalfRemainder
    <3> QED
      BY <1>0, <1>2, <2>1, <3>1 DEF GroupOf
  <2> QED
    BY <1>0, <2>1, <2>2, <2>3, <2>4
<1> QED
  BY <1>0, <1>1, <1>2

\* A merge is a split the other way round.
LEMMA MergeUndoesSplit ==
  ASSUME NEW m, NEW v, ParamsOK(m, v), m > 1
  PROVE  /\ ParamsOK(m - 1, MergeModValue(m, v))
         /\ SplitModValue(m - 1, MergeModValue(m, v)) = v
         /\ SplitSource(m - 1, MergeModValue(m, v)) = MergeTarget(m, v)
<1>0. m \in Nat \ {0} /\ v \in Nat \ {0} /\ v \div 2 < m /\ m <= v /\ v # 1
  BY DEF ParamsOK, PowerOfTwo
<1> DEFINE w == v \div 2
<1>1. w \in Nat \ {0} /\ v = 2 * w
  BY <1>0, PowerOfTwoEven DEF ParamsOK
<1>2. CASE m - 1 = w
  <2>1. PowerOfTwo(w)
    BY <1>1, PowerOfTwoHalf DEF ParamsOK
  <2>2. MergeModValue(m, v) = w /\ SplitModValue(m - 1, w) = v
    BY <1>0, <1>1, <1>2 DEF MergeModValue, SplitModValue
  <2>3. ParamsOK(m - 1, w)
    BY <1>0, <1>1, <1>2, <2>1 DEF ParamsOK
  <2> QED
    BY <1>0, <1>1, <2>2, <2>3 DEF SplitSource, MergeTarget
<1>3. CASE m - 1 # w
  <2>1. MergeModValue(m, v) = v /\ SplitModValue(m - 1, v) = v
    BY <1>0, <1>1, <1>3 DEF MergeModValue, SplitModValue
  <2>2. ParamsOK(m - 1, v)
    BY <1>0, <1>1, <1>3 DEF ParamsOK
  <2> QED
    BY <1>0, <1>1, <2>1, <2>2 DEF SplitSource, MergeTarget
<1> QED
  BY <1>2, <1>3

\* A merge keeps the parameters sound, its target is another group of the
\* file, and each record stays where it was unless it was in the last group:
\* then it belongs to the target.
THEOREM MergeMoves ==
  ASSUME NEW m, NEW v, ParamsOK(m, v), m > 1
  PROVE  /\ ParamsOK(m - 1, MergeModValue(m, v))
         /\ MergeTarget(m, v) \in 1..m - 1
         /\ \A h \in Nat :
              LET g == GroupOf(h, m - 1, MergeModValue(m, v)) IN
              \/ GroupOf(h, m, v) = g
              \/ GroupOf(h, m, v) = m /\ g = MergeTarget(m, v)
<1> DEFINE n == m - 1
<1> DEFINE u == MergeModValue(m, v)
<1>1. /\ ParamsOK(n, u) /\ SplitModValue(n, u) = v
      /\ SplitSource(n, u) = MergeTarget(m, v)
  BY MergeUndoesSplit
<1>2. m \in Nat /\ n + 1 = m
  BY DEF ParamsOK
<1> HIDE DEF n, u
<1>3. /\ SplitSource(n, u) \in 1..n
      /\ \A h \in Nat :
           LET g == GroupOf(h, n + 1, SplitModValue(n, u)) IN
           g = GroupOf(h, n, u) \/ (g = n + 1 /\ GroupOf(h, n, u) = SplitSource(n, u))
  BY <1>1, SplitMoves
<1> QED
  BY <1>1, <1>2, <1>3 DEF n, u

-----------------------------------------------------------------------------
(* The inductive invariant *)

Holding == {"lock", "newlock", "mergetgt", "mergesrc", "sellock"}
Splitting == {"newlock", "splitsrc", "splitmove"}
Resizer == Splitting \cup {"mergetgt", "mergesrc", "mergemove", "freeother", "resized"}
Selecting == {"selgroup", "sellock", "selread", "selsave", "seldone"}

\* The parameters are those of a linear hash file.
ModulusOK == ParamsOK(modulus, modValue)

\* FILE_TABLE_LOCK is held where the code waits for a group under it.
TableOK == \A p \in Proc : ftl = p <=> pc[p] \in Holding

\* A process that works on a request has one, and has a select or not.
WorkOK == \A p \in Proc :
  /\ pc[p] \in {"hash", "lock", "access", "account"} => op[p] \in Request
  /\ pc[p] = "select" => sel[p].next = 0
  /\ pc[p] \in Selecting => sel[p].next # 0

\* There is at most one split or merge at a time.
OneResizer == \A p, q \in Proc : pc[p] \in Resizer /\ pc[q] \in Resizer => p = q

\* A split has made the last group, still empty; a merge is to drop it.
ResizeOK == \A p \in Proc :
  /\ pc[p] \in Splitting =>
       /\ other[p] = modulus /\ grp[p] \in 1..modulus - 1
       /\ data[other[p]] = Empty
  /\ pc[p] \in {"mergetgt", "mergesrc"} =>
       modulus > MinMod /\ grp[p] = modulus /\ other[p] = MergeTarget(modulus, modValue)
  /\ pc[p] = "mergemove" => grp[p] = modulus + 1 /\ other[p] \in 1..modulus
  /\ pc[p] = "freeother" => other[p] \in Group

\* The groups that a process has locked.
Writes(p, g) ==
  \/ pc[p] = "access" /\ op[p].kind # "read" /\ grp[p] = g
  \/ pc[p] \in {"splitmove", "mergemove"} /\ grp[p] = g
  \/ pc[p] \in {"splitsrc", "splitmove", "mergesrc", "mergemove", "freeother"} /\ other[p] = g
Reads(p, g) ==
  \/ pc[p] = "access" /\ op[p].kind = "read" /\ grp[p] = g
  \/ pc[p] = "selread" /\ grp[p] = g
LocksOK ==
  /\ \A p \in Proc : \A g \in Group : Writes(p, g) => writer[g] = p
  /\ \A p \in Proc : \A g \in Group : Reads(p, g) => p \in readers[g]
  /\ \A g \in Group : writer[g] # None => readers[g] = {}

\* A process works on the group of its record, or on the group that a split
\* is waiting for to take the record from.
AccessOK == \A p \in Proc :
  pc[p] \in {"lock", "access"} =>
    \/ grp[p] = Home(op[p].id)
    \/ /\ pc[p] = "access"
       /\ \E q \in Proc : /\ pc[q] \in {"newlock", "splitsrc"}
                          /\ grp[q] = grp[p] /\ other[q] = Home(op[p].id)

\* Nobody is in a new group before it is locked.
NewGroupFree == \A p, q \in Proc :
  pc[p] = "newlock" /\ pc[q] = "access" => grp[q] # other[p]

IInv ==
  /\ TypeOK /\ ModulusOK /\ TableOK /\ WorkOK /\ InhibitExact
  /\ OneResizer /\ ResizeOK /\ LocksOK /\ AccessOK /\ NewGroupFree
  /\ RecordsAtHome /\ RecordsOnce

-----------------------------------------------------------------------------
(* Facts *)

LEMMA IdsFinite ==
  ASSUME NEW S \in SUBSET Id
  PROVE  IsFiniteSet(S) /\ Cardinality(S) \in Nat
  BY DHFileAssumption, FS_Subset, FS_CardinalityType

LEMMA ProcsFinite ==
  ASSUME NEW S \in SUBSET Proc
  PROVE  IsFiniteSet(S) /\ Cardinality(S) \in Nat
  BY DHFileAssumption, FS_Subset, FS_CardinalityType

LEMMA HomeInFile ==
  ASSUME ModulusOK, NEW id \in Id
  PROVE  Home(id) \in 1..modulus
<1>1. HashOf[id] \in Nat
  BY DHFileAssumption
<1> QED
  BY <1>1, HashInFile DEF ModulusOK, Home

\* When inhibit_count is zero and nobody holds FILE_TABLE_LOCK there is no
\* split, merge or select.
LEMMA NobodyBusy ==
  ASSUME TypeOK, TableOK, InhibitExact, inhibit = 0, ftl = None
  PROVE  \A p \in Proc : pc[p] \notin Resizer /\ pc[p] # "lock" /\ sel[p].next = 0
<1> DEFINE A == {p \in Proc : Resizing(p)}
<1> DEFINE B == {p \in Proc : sel[p].next # 0}
<1>1. /\ IsFiniteSet(A) /\ Cardinality(A) \in Nat
      /\ IsFiniteSet(B) /\ Cardinality(B) \in Nat
  BY ProcsFinite
<1>2. Cardinality(A) + Cardinality(B) = 0
  BY DEF InhibitExact
<1>3. Cardinality(A) = 0 /\ Cardinality(B) = 0
  <2> HIDE DEF A, B
  <2> QED BY <1>1, <1>2
<1>4. A = {} /\ B = {}
  BY <1>1, <1>3, FS_EmptySet
<1>5. \A p \in Proc : pc[p] \notin Holding
  BY DHFileAssumption DEF TableOK
<1> QED
  BY <1>4, <1>5 DEF Resizer, Splitting, Holding, Resizing

\* Then every record is in its own group, and so is everybody who uses one.
LEMMA AllAtHome ==
  ASSUME TypeOK, ModulusOK, RecordsAtHome, AccessOK,
         \A p \in Proc : pc[p] \notin Resizer
  PROVE  /\ \A g \in Group : \A id \in RecordsIn(g) : g = Home(id)
         /\ \A g \in Group : g > modulus => data[g] = Empty
         /\ \A p \in Proc : pc[p] \in {"lock", "access"} => grp[p] = Home(op[p].id)
<1>1. \A g \in Group : \A id \in RecordsIn(g) : g = Home(id)
  BY DEF RecordsAtHome, Moving, Resizer, Splitting
<1>2. ASSUME NEW g \in Group, g > modulus PROVE data[g] = Empty
  <2>1. \A id \in Id : id \notin RecordsIn(g)
    BY <1>1, <1>2, HomeInFile DEF TypeOK, Group, RecordsIn, DHFileAssumption
  <2>2. data[g] \in [Id -> Val \cup {None}] /\ \A id \in Id : data[g][id] = None
    BY <2>1 DEF TypeOK, RecordsIn
  <2> QED
    BY <2>2 DEF Empty
<1>3. \A p \in Proc : pc[p] \in {"lock", "access"} => grp[p] = Home(op[p].id)
  BY DEF AccessOK, Resizer, Splitting
<1> QED
  BY <1>1, <1>2, <1>3

-----------------------------------------------------------------------------
(* Types *)

\* The parts of TypeOK.
ParamTypes == modulus \in Group /\ modValue \in Nat
LoadTypes == load \in Nat /\ inhibit \in Int
DataTypes == data \in [Group -> [Id -> Val \cup {None}]]
LockTypes == /\ ftl \in Proc \cup {None}
             /\ readers \in [Group -> SUBSET Proc]
             /\ writer \in [Group -> Proc \cup {None}]
WorkTypes == /\ pc \in [Proc -> PC]
             /\ op \in [Proc -> Request \cup {None}]
             /\ grp \in [Proc -> 0..MaxMod] /\ other \in [Proc -> 0..MaxMod]
             /\ old \in [Proc -> Val \cup {None}]
SelTypes == sel \in [Proc -> SelectList]

LEMMA TypeParts ==
  TypeOK <=> /\ ParamTypes /\ LoadTypes /\ DataTypes /\ LockTypes
             /\ WorkTypes /\ SelTypes
  BY DEF TypeOK, ParamTypes, LoadTypes, DataTypes, LockTypes, WorkTypes, SelTypes

(* Select lists *)

LEMMA SelectStarts ==
  ASSUME NEW b \in BOOLEAN
  PROVE  NoSelect \in SelectList /\ [NoSelect EXCEPT !.next = 1, !.splitting = b] \in SelectList
<1>1. MaxMod \in Nat
  BY DHFileAssumption
<1>2. NoSelect \in SelectList
  BY <1>1 DEF NoSelect, SelectList
<1>3. [NoSelect EXCEPT !.next = 1, !.splitting = b] \in SelectList
  <2>1. \A s \in SelectList, n \in 0..MaxMod + 1 : [s EXCEPT !.next = n, !.splitting = b] \in SelectList
    BY DEF SelectList
  <2>2. 1 \in 0..MaxMod + 1
    BY <1>1
  <2> QED
    BY <1>2, <2>1, <2>2, Zenon
<1> QED
  BY <1>2, <1>3

LEMMA SelectMoves ==
  ASSUME NEW s \in SelectList, NEW n \in 0..MaxMod + 1
  PROVE  [s EXCEPT !.next = n] \in SelectList
  BY DEF SelectList

LEMMA SelectCompletes ==
  ASSUME NEW s \in SelectList
  PROVE  [s EXCEPT !.all = TRUE] \in SelectList
  BY DEF SelectList

LEMMA SelectLists ==
  ASSUME NEW s \in SelectList, NEW found \in SUBSET Id
  PROVE  Listed(s, found) \in SelectList
<1> DEFINE l == [id \in Id |-> IF id \in found THEN s.list[id] + 1 ELSE s.list[id]]
<1> DEFINE r == s.recs + Cardinality(found)
<1> DEFINE b == (s.found \/ found # {}) /\ s.all
<1>1. Listed(s, found) = [s EXCEPT !.list = l, !.recs = r, !.found = b]
  BY DEF Listed
<1>2. Cardinality(found) \in Nat
  BY IdsFinite
<1>3. l \in [Id -> Nat] /\ r \in Nat
  BY <1>2 DEF SelectList
<1>4. b \in BOOLEAN
  OBVIOUS
<1> HIDE DEF l, r, b
<1>5. [s EXCEPT !.list = l, !.recs = r, !.found = b] \in SelectList
  BY <1>3, <1>4 DEF SelectList
<1> QED
  BY <1>1, <1>5

LEMMA AccessGroup ==
  ASSUME ParamTypes, ModulusOK, WorkOK, ResizeOK, AccessOK,
         NEW p \in Proc, pc[p] \in {"lock", "access"}
  PROVE  /\ grp[p] \in Group /\ op[p].id \in Id
         /\ op[p].kind = "write" => op[p].val \in Val
<1>1. op[p] \in Request
  BY DEF WorkOK
<1>2. /\ op[p].id \in Id
      /\ op[p].kind = "write" => op[p].val \in Val
  BY <1>1 DEF Request
<1>3. CASE grp[p] = Home(op[p].id)
  BY <1>2, <1>3, HomeInFile, DHFileAssumption DEF ParamTypes, Group
<1>4. CASE grp[p] # Home(op[p].id)
  <2>1. PICK q \in Proc : pc[q] \in {"newlock", "splitsrc"} /\ grp[q] = grp[p]
    BY <1>4 DEF AccessOK
  <2> QED
    <3>1. grp[q] \in 1..modulus - 1
      BY <2>1 DEF ResizeOK, Splitting
    <3> QED
      BY <1>2, <2>1, <3>1, DHFileAssumption DEF ParamTypes, Group
<1> QED
  BY <1>2, <1>3, <1>4

LEMMA ParamTypesKept ==
  ASSUME ParamTypes, ModulusOK, ResizeOK, [Next]_vars
  PROVE  ParamTypes'
<1> SUFFICES ASSUME NEW p \in Proc, Step(p) \/ Program(p) PROVE ParamTypes'
  BY DEF Next, vars, params, locks, local, ParamTypes
<1> USE DHFileAssumption DEF ParamTypes, Group
<1>1. CASE SplitBegin(p)
  <2>1. ParamsOK(modulus + 1, SplitModValue(modulus, modValue)) /\ modulus + 1 <= MaxMod
    BY <1>1, SplitMoves DEF SplitBegin, ModulusOK
  <2> QED
    BY <1>1, <2>1 DEF SplitBegin, ParamsOK, PowerOfTwo
<1>2. CASE MergeLockSource(p)
  <2>1. modulus > 1
    BY <1>2 DEF MergeLockSource, ResizeOK, At
  <2>2. ParamsOK(modulus - 1, MergeModValue(modulus, modValue))
    BY <2>1, MergeMoves DEF ModulusOK
  <2> QED
    BY <1>2, <2>1, <2>2 DEF MergeLockSource, ParamsOK, PowerOfTwo
<1>3. ASSUME NEW r \in Request, Call(p, r) PROVE ParamTypes'
  BY <1>3 DEF Call, params, locks, local
<1>4. CASE HashId(p) \/ LockGroup(p) \/ ReadRecord(p) \/ WriteRecord(p) \/
           Account(p) \/ CheckLoad(p) \/ Return(p)
  BY <1>4 DEF HashId, LockGroup, ReadRecord, WriteRecord, Account, CheckLoad,
     Return, params, locks, local
<1>5. CASE NoSplit(p) \/ SplitLockNew(p) \/ SplitLockSource(p) \/
           SplitMove(p) \/ FreeOther(p) \/ ResizeEnd(p)
  BY <1>5 DEF NoSplit, SplitLockNew, SplitLockSource, SplitMove, FreeOther,
     ResizeEnd, params, locks, local
<1>6. CASE NoMerge(p) \/ MergeBegin(p) \/ MergeLockTarget(p) \/ MergeMove(p)
  BY <1>6 DEF NoMerge, MergeBegin, MergeLockTarget, MergeMove, params, locks,
     local
<1>7. CASE SelectBegin(p) \/ SelectGroup(p) \/ SelectLock(p) \/
           SelectRead(p) \/ SelectEnd(p) \/ SelectCheck(p) \/ SelectSave(p) \/
           SelectDone(p) \/ Select(p) \/ SelectMore(p) \/ SelectAll(p) \/
           EndSelect(p)
  BY <1>7 DEF SelectBegin, SelectGroup, SelectLock, SelectRead, SelectEnd,
     SelectCheck, SelectSave, SelectDone, Select, SelectMore, SelectAll,
     EndSelect, params, locks, local
<1> QED
  BY <1>1, <1>2, <1>3, <1>4, <1>5, <1>6, <1>7 DEF Step, Program

LEMMA LoadTypesKept ==
  ASSUME LoadTypes, SelTypes, [Next]_vars
  PROVE  LoadTypes'
<1> SUFFICES ASSUME NEW p \in Proc, Step(p) \/ Program(p) PROVE LoadTypes'
  BY DEF Next, vars, params, locks, local, LoadTypes
<1> USE DHFileAssumption DEF LoadTypes, SelTypes, SelectList
<1>1. ASSUME NEW r \in Request, Call(p, r) PROVE LoadTypes'
  BY <1>1 DEF Call, params, locks, local
<1>2. CASE HashId(p) \/ LockGroup(p) \/ ReadRecord(p) \/ WriteRecord(p) \/
           Account(p) \/ CheckLoad(p) \/ Return(p)
  BY <1>2 DEF HashId, LockGroup, ReadRecord, WriteRecord, Account, CheckLoad,
     Return, params, locks, local
<1>3. CASE NoSplit(p) \/ SplitBegin(p) \/ SplitLockNew(p) \/
           SplitLockSource(p) \/ SplitMove(p) \/ FreeOther(p) \/ ResizeEnd(p)
  BY <1>3 DEF NoSplit, SplitBegin, SplitLockNew, SplitLockSource, SplitMove,
     FreeOther, ResizeEnd, params, locks, local
<1>4. CASE NoMerge(p) \/ MergeBegin(p) \/ MergeLockTarget(p) \/
           MergeLockSource(p) \/ MergeMove(p)
  BY <1>4 DEF NoMerge, MergeBegin, MergeLockTarget, MergeLockSource, MergeMove,
     params, locks, local
<1>5. CASE SelectBegin(p) \/ SelectGroup(p) \/ SelectLock(p) \/
           SelectRead(p) \/ SelectEnd(p) \/ SelectCheck(p) \/ SelectSave(p) \/
           SelectDone(p) \/ Select(p) \/ SelectMore(p) \/ SelectAll(p) \/
           EndSelect(p)
  BY <1>5 DEF SelectBegin, SelectGroup, SelectLock, SelectRead, SelectEnd,
     SelectCheck, SelectSave, SelectDone, Select, SelectMore, SelectAll,
     EndSelect, params, locks, local
<1> QED
  BY <1>1, <1>2, <1>3, <1>4, <1>5 DEF Step, Program

LEMMA DataTypesKept ==
  ASSUME ParamTypes, DataTypes, WorkTypes, ModulusOK, WorkOK, ResizeOK, AccessOK, [Next]_vars
  PROVE  DataTypes'
<1> SUFFICES ASSUME NEW p \in Proc, Step(p) \/ Program(p) PROVE DataTypes'
  BY DEF Next, vars, params, locks, local, DataTypes
<1> USE DHFileAssumption DEF DataTypes
<1>1. CASE WriteRecord(p)
  <2>1. grp[p] \in Group /\ op[p].id \in Id /\ (op[p].kind = "write" => op[p].val \in Val)
    BY <1>1, AccessGroup DEF WriteRecord, At
  <2> QED
    BY <1>1, <2>1 DEF WriteRecord
<1>2. CASE SplitMove(p)
  <2>1. grp[p] \in Group /\ other[p] \in Group
    BY <1>2 DEF SplitMove, At, ResizeOK, Splitting, Group, ParamTypes
  <2> QED
    BY <1>2, <2>1 DEF SplitMove
<1>3. CASE MergeMove(p)
  <2>1. grp[p] \in Group /\ other[p] \in Group /\ grp[p] # other[p]
    BY <1>3 DEF MergeMove, At, ResizeOK, Group, ParamTypes, WorkTypes
  <2>2. data' = [data EXCEPT
          ![grp[p]] = Empty,
          ![other[p]] = [id \in Id |-> IF id \in RecordsIn(grp[p]) THEN data[grp[p]][id]
                                        ELSE data[other[p]][id]]]
    BY <1>3, <2>1 DEF MergeMove
  <2> QED
    BY <2>1, <2>2 DEF Empty
<1>4. ASSUME NEW r \in Request, Call(p, r) PROVE DataTypes'
  BY <1>4 DEF Call, params, locks, local
<1>5. CASE HashId(p) \/ LockGroup(p) \/ ReadRecord(p) \/ Account(p) \/
           CheckLoad(p) \/ Return(p)
  BY <1>5 DEF HashId, LockGroup, ReadRecord, Account, CheckLoad, Return,
     params, locks, local
<1>6. CASE NoSplit(p) \/ SplitBegin(p) \/ SplitLockNew(p) \/
           SplitLockSource(p) \/ FreeOther(p) \/ ResizeEnd(p)
  BY <1>6 DEF NoSplit, SplitBegin, SplitLockNew, SplitLockSource, FreeOther,
     ResizeEnd, params, locks, local
<1>7. CASE NoMerge(p) \/ MergeBegin(p) \/ MergeLockTarget(p) \/
           MergeLockSource(p)
  BY <1>7 DEF NoMerge, MergeBegin, MergeLockTarget, MergeLockSource, params,
     locks, local
<1>8. CASE SelectBegin(p) \/ SelectGroup(p) \/ SelectLock(p) \/
           SelectRead(p) \/ SelectEnd(p) \/ SelectCheck(p) \/ SelectSave(p) \/
           SelectDone(p) \/ Select(p) \/ SelectMore(p) \/ SelectAll(p) \/
           EndSelect(p)
  BY <1>8 DEF SelectBegin, SelectGroup, SelectLock, SelectRead, SelectEnd,
     SelectCheck, SelectSave, SelectDone, Select, SelectMore, SelectAll,
     EndSelect, params, locks, local
<1> QED
  BY <1>1, <1>2, <1>3, <1>4, <1>5, <1>6, <1>7, <1>8 DEF Step, Program

LEMMA LockTypesKept ==
  ASSUME LockTypes, [Next]_vars
  PROVE  LockTypes'
<1> SUFFICES ASSUME NEW p \in Proc, Step(p) \/ Program(p) PROVE LockTypes'
  BY DEF Next, vars, params, locks, local, LockTypes
<1> USE DHFileAssumption DEF LockTypes, TakeTable, WithTable, ReadLock,
   WriteLock, FreeRead, FreeWrite
<1>1. ASSUME NEW r \in Request, Call(p, r) PROVE LockTypes'
  BY <1>1 DEF Call, params, locks, local
<1>2. CASE HashId(p) \/ LockGroup(p) \/ ReadRecord(p) \/ WriteRecord(p) \/
           Account(p) \/ CheckLoad(p) \/ Return(p)
  BY <1>2 DEF HashId, LockGroup, ReadRecord, WriteRecord, Account, CheckLoad,
     Return, params, locks, local
<1>3. CASE NoSplit(p) \/ SplitBegin(p) \/ SplitLockNew(p) \/
           SplitLockSource(p) \/ SplitMove(p) \/ FreeOther(p) \/ ResizeEnd(p)
  BY <1>3 DEF NoSplit, SplitBegin, SplitLockNew, SplitLockSource, SplitMove,
     FreeOther, ResizeEnd, params, locks, local
<1>4. CASE NoMerge(p) \/ MergeBegin(p) \/ MergeLockTarget(p) \/
           MergeLockSource(p) \/ MergeMove(p)
  BY <1>4 DEF NoMerge, MergeBegin, MergeLockTarget, MergeLockSource, MergeMove,
     params, locks, local
<1>5. CASE SelectBegin(p) \/ SelectGroup(p) \/ SelectLock(p) \/
           SelectRead(p) \/ SelectEnd(p) \/ SelectCheck(p) \/ SelectSave(p) \/
           SelectDone(p) \/ Select(p) \/ SelectMore(p) \/ SelectAll(p) \/
           EndSelect(p)
  BY <1>5 DEF SelectBegin, SelectGroup, SelectLock, SelectRead, SelectEnd,
     SelectCheck, SelectSave, SelectDone, Select, SelectMore, SelectAll,
     EndSelect, params, locks, local
<1> QED
  BY <1>1, <1>2, <1>3, <1>4, <1>5 DEF Step, Program

LEMMA WorkTypesKept ==
  ASSUME ParamTypes, DataTypes, WorkTypes, SelTypes, ModulusOK, WorkOK, ResizeOK, AccessOK, [Next]_vars
  PROVE  WorkTypes'
<1> SUFFICES ASSUME NEW p \in Proc, Step(p) \/ Program(p) PROVE WorkTypes'
  BY DEF Next, vars, params, locks, local, WorkTypes
<1> USE DHFileAssumption DEF WorkTypes, PC, Goto, At
<1>1. CASE HashId(p)
  <2>1. op[p].id \in Id
    BY <1>1 DEF HashId, WorkOK, Request
  <2>2. Home(op[p].id) \in 0..MaxMod
    BY <2>1, HomeInFile DEF ParamTypes, Group
  <2> QED
    BY <1>1, <2>2 DEF HashId
<1>2. CASE ReadRecord(p)
  <2>1. grp[p] \in Group /\ op[p].id \in Id
    BY <1>2, AccessGroup DEF ReadRecord
  <2> QED
    BY <1>2, <2>1 DEF ReadRecord, DataTypes
<1>3. CASE WriteRecord(p)
  <2>1. grp[p] \in Group /\ op[p].id \in Id
    BY <1>3, AccessGroup DEF WriteRecord
  <2> QED
    BY <1>3, <2>1 DEF WriteRecord, DataTypes
<1>4. CASE SplitBegin(p)
  <2>1. SplitSource(modulus, modValue) \in 0..MaxMod /\ modulus + 1 \in 0..MaxMod
    BY <1>4, SplitMoves DEF SplitBegin, ModulusOK, ParamTypes, Group
  <2> QED
    BY <1>4, <2>1 DEF SplitBegin
<1>5. CASE MergeBegin(p)
  <2>1. MergeTarget(modulus, modValue) \in 0..MaxMod /\ modulus \in 0..MaxMod
    BY <1>5, MergeMoves DEF MergeBegin, NeedsMerge, ModulusOK, ParamTypes, Group
  <2> QED
    BY <1>5, <2>1 DEF MergeBegin
<1>6. CASE SelectGroup(p)
  <2>1. sel[p].next \in 0..MaxMod
    BY <1>6 DEF SelectGroup, ParamTypes, Group, SelTypes, SelectList
  <2> QED
    BY <1>6, <2>1 DEF SelectGroup
<1>7. ASSUME NEW r \in Request, Call(p, r) PROVE WorkTypes'
  BY <1>7 DEF Call, SelTypes, params, locks, local
<1>8. CASE LockGroup(p) \/ Account(p) \/ CheckLoad(p) \/ Return(p)
  BY <1>8 DEF LockGroup, Account, CheckLoad, Return, SelTypes, params, locks,
     local
<1>9. CASE NoSplit(p) \/ SplitLockNew(p) \/ SplitLockSource(p) \/
           SplitMove(p) \/ FreeOther(p) \/ ResizeEnd(p)
  BY <1>9 DEF NoSplit, SplitLockNew, SplitLockSource, SplitMove, FreeOther,
     ResizeEnd, SelTypes, params, locks, local
<1>10. CASE NoMerge(p) \/ MergeLockTarget(p) \/ MergeLockSource(p) \/
           MergeMove(p)
  BY <1>10 DEF NoMerge, MergeLockTarget, MergeLockSource, MergeMove, SelTypes,
     params, locks, local
<1>11. CASE SelectBegin(p) \/ SelectLock(p) \/ SelectRead(p) \/ SelectEnd(p) \/
           SelectCheck(p) \/ SelectSave(p) \/ SelectDone(p) \/ Select(p) \/
           SelectMore(p) \/ SelectAll(p) \/ EndSelect(p)
  BY <1>11 DEF SelectBegin, SelectLock, SelectRead, SelectEnd, SelectCheck,
     SelectSave, SelectDone, Select, SelectMore, SelectAll, EndSelect,
     SelTypes, params, locks, local
<1> QED
  BY <1>1, <1>2, <1>3, <1>4, <1>5, <1>6, <1>7, <1>8, <1>9, <1>10, <1>11 DEF Step, Program

LEMMA SelTypesKept ==
  ASSUME ParamTypes, WorkTypes, SelTypes, ModulusOK, WorkOK, ResizeOK, AccessOK, [Next]_vars
  PROVE  SelTypes'
<1> SUFFICES ASSUME NEW p \in Proc, Step(p) \/ Program(p) PROVE SelTypes'
  BY DEF Next, vars, params, locks, local, SelTypes
<1> USE DHFileAssumption DEF SelTypes
<1>1. CASE LockGroup(p)
  <2>1. CASE UNCHANGED sel
    BY <2>1
  <2>2. CASE sel' = [q \in Proc |-> [sel[q] EXCEPT !.updated = sel[q].updated \/ sel[q].next # 0]]
    <3>1. ASSUME NEW q \in Proc, NEW b \in BOOLEAN
          PROVE  [sel[q] EXCEPT !.updated = b] \in SelectList
      BY DEF SelectList
    <3> QED
      BY <2>2, <3>1
  <2> QED
    BY <1>1, <2>1, <2>2 DEF LockGroup
<1>2. CASE WriteRecord(p)
  <2>1. op[p].id \in Id
    BY <1>2, AccessGroup DEF WriteRecord, At, TypeOK, ParamTypes
  <2>2. ASSUME NEW q \in Proc
        PROVE  [sel[q] EXCEPT !.touched = @ \cup {op[p].id}] \in SelectList
    BY <2>1 DEF SelectList
  <2> QED
    BY <1>2, <2>2 DEF WriteRecord
<1>3. CASE SelectBegin(p)
  <2> DEFINE b == \E q \in Proc : At(q, "splitsrc")
  <2>1. sel' = [sel EXCEPT ![p] = [NoSelect EXCEPT !.next = 1, !.splitting = b]]
    BY <1>3 DEF SelectBegin
  <2>2. b \in BOOLEAN
    OBVIOUS
  <2> HIDE DEF b
  <2>3. [NoSelect EXCEPT !.next = 1, !.splitting = b] \in SelectList
    BY <2>2, SelectStarts
  <2> QED
    BY <2>1, <2>3
<1>4. CASE SelectGroup(p)
  <2>1. sel' = [sel EXCEPT ![p] = [sel[p] EXCEPT !.next = sel[p].next + 1]]
    BY <1>4 DEF SelectGroup
  <2>2. sel[p] \in SelectList /\ sel[p].next + 1 \in 0..MaxMod + 1
    BY <1>4 DEF SelectGroup, ParamTypes, Group, SelectList
  <2> QED
    BY <2>1, <2>2, SelectMoves
<1>5. CASE SelectRead(p)
  <2>1. sel[p] \in SelectList
    OBVIOUS
  <2>2. Listed(sel[p], RecordsIn(grp[p])) \in SelectList
    BY <2>1, SelectLists DEF RecordsIn
  <2>3. sel' = [sel EXCEPT ![p] = Listed(sel[p], RecordsIn(grp[p]))]
    BY <1>5 DEF SelectRead
  <2> QED
    BY <2>2, <2>3
<1>6. CASE SelectAll(p)
  <2>1. sel' = [sel EXCEPT ![p] = [sel[p] EXCEPT !.all = TRUE]]
    BY <1>6 DEF SelectAll
  <2> QED
    BY <2>1, SelectCompletes
<1>7. ASSUME NEW r \in Request, Call(p, r) PROVE SelTypes'
  BY <1>7 DEF Call, SelectList, NoSelect, params, locks, local
<1>8. CASE HashId(p) \/ ReadRecord(p) \/ Account(p) \/ CheckLoad(p) \/
           Return(p)
  BY <1>8 DEF HashId, ReadRecord, Account, CheckLoad, Return, SelectList,
     NoSelect, params, locks, local
<1>9. CASE NoSplit(p) \/ SplitBegin(p) \/ SplitLockNew(p) \/
           SplitLockSource(p) \/ SplitMove(p) \/ FreeOther(p) \/ ResizeEnd(p)
  BY <1>9 DEF NoSplit, SplitBegin, SplitLockNew, SplitLockSource, SplitMove,
     FreeOther, ResizeEnd, SelectList, NoSelect, params, locks, local
<1>10. CASE NoMerge(p) \/ MergeBegin(p) \/ MergeLockTarget(p) \/
           MergeLockSource(p) \/ MergeMove(p)
  BY <1>10 DEF NoMerge, MergeBegin, MergeLockTarget, MergeLockSource,
     MergeMove, SelectList, NoSelect, params, locks, local
<1>11. CASE SelectLock(p)
  BY <1>11 DEF SelectLock, SelectList, NoSelect, params, locks, local
<1>12. CASE SelectEnd(p)
  BY <1>12 DEF SelectEnd, SelectList, NoSelect, params, locks, local
<1>13. CASE SelectCheck(p)
  BY <1>13 DEF SelectCheck, SelectList, NoSelect, params, locks, local
<1>14. CASE SelectSave(p)
  BY <1>14 DEF SelectSave, SelectList, NoSelect, params, locks, local
<1>15. CASE SelectDone(p)
  BY <1>15 DEF SelectDone, SelectList, NoSelect, params, locks, local
<1>16. CASE Select(p)
  BY <1>16 DEF Select, SelectList, NoSelect, params, locks, local
<1>17. CASE SelectMore(p)
  BY <1>17 DEF SelectMore, SelectList, NoSelect, params, locks, local
<1>18. CASE EndSelect(p)
  BY <1>18 DEF EndSelect, SelectList, NoSelect, params, locks, local
<1> QED
  BY <1>1, <1>2, <1>3, <1>4, <1>5, <1>6, <1>7, <1>8, <1>9, <1>10, <1>11, <1>12,
     <1>13, <1>14, <1>15, <1>16, <1>17, <1>18 DEF Step, Program

LEMMA TypeKept ==
  ASSUME TypeOK, ModulusOK, WorkOK, ResizeOK, AccessOK, [Next]_vars
  PROVE  TypeOK'
<1>1. /\ ParamTypes /\ LoadTypes /\ DataTypes /\ LockTypes
      /\ WorkTypes /\ SelTypes
  BY TypeParts
<1>2. ParamTypes' /\ LoadTypes'
  BY <1>1, ParamTypesKept, LoadTypesKept
<1>3. DataTypes' /\ LockTypes'
  BY <1>1, DataTypesKept, LockTypesKept
<1>4. WorkTypes' /\ SelTypes'
  BY <1>1, WorkTypesKept, SelTypesKept
<1> QED
  BY <1>2, <1>3, <1>4, TypeParts, PTL

-----------------------------------------------------------------------------
(* FILE_TABLE_LOCK and the work in hand *)

LEMMA TableKept ==
  ASSUME TypeOK, TableOK, [Next]_vars
  PROVE  TableOK'
<1> SUFFICES ASSUME NEW p \in Proc, Step(p) \/ Program(p) PROVE TableOK'
  BY DEF Next, vars, params, locks, local, TableOK
<1> USE DHFileAssumption DEF TypeOK, TableOK, Holding, At, Goto, TakeTable, WithTable
<1>1. ASSUME NEW r \in Request, Call(p, r) PROVE TableOK'
  BY <1>1 DEF Call, params, locks, local
<1>2. CASE HashId(p) \/ LockGroup(p) \/ ReadRecord(p) \/ WriteRecord(p) \/
           Account(p) \/ CheckLoad(p) \/ Return(p)
  BY <1>2 DEF HashId, LockGroup, ReadRecord, WriteRecord, Account, CheckLoad,
     Return, params, locks, local
<1>3. CASE NoSplit(p) \/ SplitBegin(p) \/ SplitLockNew(p) \/
           SplitLockSource(p) \/ SplitMove(p) \/ FreeOther(p) \/ ResizeEnd(p)
  BY <1>3 DEF NoSplit, SplitBegin, SplitLockNew, SplitLockSource, SplitMove,
     FreeOther, ResizeEnd, params, locks, local
<1>4. CASE NoMerge(p) \/ MergeBegin(p) \/ MergeLockTarget(p) \/
           MergeLockSource(p) \/ MergeMove(p)
  BY <1>4 DEF NoMerge, MergeBegin, MergeLockTarget, MergeLockSource, MergeMove,
     params, locks, local
<1>5. CASE SelectBegin(p) \/ SelectGroup(p) \/ SelectLock(p) \/
           SelectRead(p) \/ SelectEnd(p) \/ SelectCheck(p) \/ SelectSave(p) \/
           SelectDone(p) \/ Select(p) \/ SelectMore(p) \/ SelectAll(p) \/
           EndSelect(p)
  BY <1>5 DEF SelectBegin, SelectGroup, SelectLock, SelectRead, SelectEnd,
     SelectCheck, SelectSave, SelectDone, Select, SelectMore, SelectAll,
     EndSelect, params, locks, local
<1> QED
  BY <1>1, <1>2, <1>3, <1>4, <1>5 DEF Step, Program

LEMMA WorkKept ==
  ASSUME TypeOK, WorkOK, [Next]_vars
  PROVE  WorkOK'
<1> SUFFICES ASSUME NEW p \in Proc, Step(p) \/ Program(p) PROVE WorkOK'
  BY DEF Next, vars, params, locks, local, WorkOK
<1> USE DHFileAssumption DEF TypeOK, WorkOK, Selecting, Holding, At, Goto,
   TakeTable, WithTable, NoSelect, SelectList
<1>1. ASSUME NEW r \in Request, Call(p, r) PROVE WorkOK'
  BY <1>1 DEF Call, params, locks, local
<1>2. CASE HashId(p) \/ LockGroup(p) \/ ReadRecord(p) \/ WriteRecord(p) \/
           Account(p) \/ CheckLoad(p) \/ Return(p)
  BY <1>2 DEF HashId, LockGroup, ReadRecord, WriteRecord, Account, CheckLoad,
     Return, params, locks, local
<1>3. CASE NoSplit(p) \/ SplitBegin(p) \/ SplitLockNew(p) \/
           SplitLockSource(p) \/ SplitMove(p) \/ FreeOther(p) \/ ResizeEnd(p)
  BY <1>3 DEF NoSplit, SplitBegin, SplitLockNew, SplitLockSource, SplitMove,
     FreeOther, ResizeEnd, params, locks, local
<1>4. CASE NoMerge(p) \/ MergeBegin(p) \/ MergeLockTarget(p) \/
           MergeLockSource(p) \/ MergeMove(p)
  BY <1>4 DEF NoMerge, MergeBegin, MergeLockTarget, MergeLockSource, MergeMove,
     params, locks, local
<1>5. CASE SelectBegin(p)
  BY <1>5 DEF SelectBegin, params, locks, local
<1>6. CASE SelectGroup(p)
  BY <1>6 DEF SelectGroup, params, locks, local
<1>7. CASE SelectLock(p)
  BY <1>7 DEF SelectLock, params, locks, local
<1>8. CASE SelectEnd(p)
  BY <1>8 DEF SelectEnd, params, locks, local
<1>9. CASE SelectCheck(p)
  BY <1>9 DEF SelectCheck, params, locks, local
<1>10. CASE SelectSave(p)
  BY <1>10 DEF SelectSave, params, locks, local
<1>11. CASE SelectDone(p)
  BY <1>11 DEF SelectDone, params, locks, local
<1>12. CASE Select(p)
  BY <1>12 DEF Select, params, locks, local
<1>13. CASE SelectMore(p)
  BY <1>13 DEF SelectMore, params, locks, local
<1>14. CASE SelectAll(p)
  BY <1>14 DEF SelectAll, params, locks, local
<1>15. CASE EndSelect(p)
  BY <1>15 DEF EndSelect, params, locks, local
<1>16. CASE SelectRead(p)
  BY <1>16 DEF SelectRead, Listed, params, locks, local
<1> QED
  BY <1>1, <1>2, <1>3, <1>4, <1>5, <1>6, <1>7, <1>8, <1>9, <1>10, <1>11, <1>12,
     <1>13, <1>14, <1>15, <1>16 DEF Step, Program

-----------------------------------------------------------------------------
(* inhibit_count *)

\* The same operations hold off splits and merges, and are counted.
LEMMA InhibitFrame ==
  ASSUME InhibitExact, inhibit' = inhibit,
         \A q \in Proc : Resizing(q)' <=> Resizing(q),
         \A q \in Proc : sel'[q].next # 0 <=> sel[q].next # 0
  PROVE  InhibitExact'
<1>1. {q \in Proc : Resizing(q)}' = {q \in Proc : Resizing(q)}
  OBVIOUS
<1>2. {q \in Proc : sel[q].next # 0}' = {q \in Proc : sel[q].next # 0}
  OBVIOUS
<1> QED
  BY <1>1, <1>2 DEF InhibitExact

LEMMA OneMore ==
  ASSUME NEW S \in SUBSET Proc, NEW p \in Proc, p \notin S
  PROVE  Cardinality(S \cup {p}) = Cardinality(S) + 1
  BY ProcsFinite, FS_AddElement

LEMMA InhibitResize ==
  ASSUME InhibitExact, NEW p \in Proc,
         \A q \in Proc : q # p => (Resizing(q)' <=> Resizing(q)),
         \A q \in Proc : sel'[q].next # 0 <=> sel[q].next # 0,
         \/ inhibit' = inhibit + 1 /\ ~Resizing(p) /\ Resizing(p)'
         \/ inhibit' = inhibit - 1 /\ Resizing(p) /\ ~Resizing(p)'
  PROVE  InhibitExact'
<1> DEFINE A == {q \in Proc : Resizing(q)}
<1> DEFINE B == {q \in Proc : sel[q].next # 0}
<1>1. B' = B
  OBVIOUS
<1>2. Cardinality(A) \in Nat /\ Cardinality(A') \in Nat /\ Cardinality(B) \in Nat
  BY ProcsFinite
<1>3. inhibit = Cardinality(A) + Cardinality(B)
  BY DEF InhibitExact
<1>4. CASE inhibit' = inhibit + 1 /\ ~Resizing(p) /\ Resizing(p)'
  <2>1. A' = A \cup {p} /\ p \notin A /\ A \in SUBSET Proc
    BY <1>4
  <2>2. Cardinality(A') = Cardinality(A) + 1
    BY <2>1, OneMore
  <2> HIDE DEF A, B
  <2>3. inhibit' = Cardinality(A') + Cardinality(B')
    BY <1>1, <1>2, <1>3, <1>4, <2>2
  <2> QED
    BY <2>3 DEF InhibitExact, A, B
<1>5. CASE inhibit' = inhibit - 1 /\ Resizing(p) /\ ~Resizing(p)'
  <2>1. A = A' \cup {p} /\ p \notin A' /\ A' \in SUBSET Proc
    BY <1>5
  <2>2. Cardinality(A) = Cardinality(A') + 1
    BY <2>1, OneMore
  <2> HIDE DEF A, B
  <2>3. inhibit' = Cardinality(A') + Cardinality(B')
    BY <1>1, <1>2, <1>3, <1>5, <2>2
  <2> QED
    BY <2>3 DEF InhibitExact, A, B
<1> QED
  BY <1>4, <1>5

LEMMA InhibitSelect ==
  ASSUME InhibitExact, NEW p \in Proc,
         \A q \in Proc : Resizing(q)' <=> Resizing(q),
         \A q \in Proc : q # p => (sel'[q].next # 0 <=> sel[q].next # 0),
         \/ inhibit' = inhibit + 1 /\ sel[p].next = 0 /\ sel'[p].next # 0
         \/ inhibit' = inhibit - 1 /\ sel[p].next # 0 /\ sel'[p].next = 0
  PROVE  InhibitExact'
<1> DEFINE A == {q \in Proc : Resizing(q)}
<1> DEFINE B == {q \in Proc : sel[q].next # 0}
<1>1. A' = A
  OBVIOUS
<1>2. Cardinality(A) \in Nat /\ Cardinality(B) \in Nat /\ Cardinality(B') \in Nat
  BY ProcsFinite
<1>3. inhibit = Cardinality(A) + Cardinality(B)
  BY DEF InhibitExact
<1>4. CASE inhibit' = inhibit + 1 /\ sel[p].next = 0 /\ sel'[p].next # 0
  <2>1. B' = B \cup {p} /\ p \notin B /\ B \in SUBSET Proc
    BY <1>4
  <2>2. Cardinality(B') = Cardinality(B) + 1
    BY <2>1, OneMore
  <2> HIDE DEF A, B
  <2>3. inhibit' = Cardinality(A') + Cardinality(B')
    BY <1>1, <1>2, <1>3, <1>4, <2>2
  <2> QED
    BY <2>3 DEF InhibitExact, A, B
<1>5. CASE inhibit' = inhibit - 1 /\ sel[p].next # 0 /\ sel'[p].next = 0
  <2>1. B = B' \cup {p} /\ p \notin B' /\ B' \in SUBSET Proc
    BY <1>5
  <2>2. Cardinality(B) = Cardinality(B') + 1
    BY <2>1, OneMore
  <2> HIDE DEF A, B
  <2>3. inhibit' = Cardinality(A') + Cardinality(B')
    BY <1>1, <1>2, <1>3, <1>5, <2>2
  <2> QED
    BY <2>3 DEF InhibitExact, A, B
<1> QED
  BY <1>4, <1>5

LEMMA InhibitKept ==
  ASSUME TypeOK, WorkOK, InhibitExact, [Next]_vars
  PROVE  InhibitExact'
<1> SUFFICES ASSUME NEW p \in Proc, Step(p) \/ Program(p) PROVE InhibitExact'
  BY DEF Next, vars, params, locks, local, InhibitExact, Resizing
<1> USE DHFileAssumption DEF TypeOK, At, Goto
<1>1. CASE HashId(p)
  BY <1>1, InhibitFrame DEF HashId, Resizing, params, locks, local
<1>2. CASE LockGroup(p)
  <2>1. \A q \in Proc : sel'[q].next = sel[q].next
    BY <1>2 DEF LockGroup, SelectList
  <2> QED
    BY <1>2, <2>1, InhibitFrame DEF LockGroup, Resizing
<1>3. CASE ReadRecord(p)
  BY <1>3, InhibitFrame DEF ReadRecord, Resizing, params, locks, local
<1>4. CASE WriteRecord(p)
  <2>1. inhibit' = inhibit /\ \A q \in Proc : Resizing(q)' <=> Resizing(q)
    BY <1>4 DEF WriteRecord, Resizing
  <2>2. \A q \in Proc : sel'[q].next # 0 <=> sel[q].next # 0
    BY <1>4 DEF WriteRecord, SelectList
  <2> QED
    BY <2>1, <2>2, InhibitFrame
<1>5. CASE Account(p)
  BY <1>5, InhibitFrame DEF Account, Resizing, params, locks, local
<1>6. CASE CheckLoad(p)
  BY <1>6, InhibitFrame DEF CheckLoad, Resizing, params, locks, local
<1>7. CASE Return(p)
  BY <1>7, InhibitFrame DEF Return, Resizing, params, locks, local
<1>8. CASE NoSplit(p)
  BY <1>8, InhibitFrame DEF NoSplit, Resizing, params, locks, local
<1>9. CASE SplitBegin(p)
  BY <1>9, InhibitFrame DEF SplitBegin, Resizing, params, locks, local
<1>10. CASE SplitLockNew(p)
  BY <1>10, InhibitResize DEF SplitLockNew, Resizing, params, locks, local
<1>11. CASE SplitLockSource(p)
  BY <1>11, InhibitFrame DEF SplitLockSource, Resizing, params, locks, local
<1>12. CASE SplitMove(p)
  BY <1>12, InhibitFrame DEF SplitMove, Resizing, params, locks, local
<1>13. CASE FreeOther(p)
  BY <1>13, InhibitFrame DEF FreeOther, Resizing, params, locks, local
<1>14. CASE ResizeEnd(p)
  BY <1>14, InhibitResize DEF ResizeEnd, Resizing, params, locks, local
<1>15. CASE NoMerge(p)
  BY <1>15, InhibitFrame DEF NoMerge, Resizing, params, locks, local
<1>16. CASE MergeBegin(p)
  BY <1>16, InhibitFrame DEF MergeBegin, Resizing, params, locks, local
<1>17. CASE MergeLockTarget(p)
  BY <1>17, InhibitFrame DEF MergeLockTarget, Resizing, params, locks, local
<1>18. CASE MergeLockSource(p)
  BY <1>18, InhibitResize DEF MergeLockSource, Resizing, params, locks, local
<1>19. CASE MergeMove(p)
  BY <1>19, InhibitFrame DEF MergeMove, Resizing, params, locks, local
<1>20. CASE SelectBegin(p)
  BY <1>20, InhibitSelect DEF SelectBegin, NoSelect, WorkOK, Selecting, Resizing,
     params, locks, local
<1>21. CASE SelectGroup(p)
  <2>1. inhibit' = inhibit /\ \A q \in Proc : Resizing(q)' <=> Resizing(q)
    BY <1>21 DEF SelectGroup, Resizing
  <2>2. \A q \in Proc : sel'[q].next # 0 <=> sel[q].next # 0
    <3>1. sel[p].next # 0 /\ sel[p].next \in Nat
      BY <1>21 DEF SelectGroup, WorkOK, Selecting, SelectList
    <3>2. \A q \in Proc : sel'[q].next = IF q = p THEN sel[p].next + 1 ELSE sel[q].next
      BY <1>21 DEF SelectGroup, SelectList
    <3> QED
      BY <3>1, <3>2
  <2> QED
    BY <2>1, <2>2, InhibitFrame
<1>22. CASE SelectLock(p)
  BY <1>22, InhibitFrame DEF SelectLock, Resizing, params, locks, local
<1>23. CASE SelectRead(p)
  <2>1. inhibit' = inhibit /\ \A q \in Proc : Resizing(q)' <=> Resizing(q)
    BY <1>23 DEF SelectRead, Resizing
  <2>2. \A q \in Proc : sel'[q].next # 0 <=> sel[q].next # 0
    BY <1>23 DEF SelectRead, Listed, SelectList
  <2> QED
    BY <2>1, <2>2, InhibitFrame
<1>24. CASE SelectEnd(p)
  BY <1>24, InhibitSelect DEF SelectEnd, NoSelect, WorkOK, Selecting, Resizing,
     params, locks, local
<1>25. CASE SelectCheck(p)
  BY <1>25, InhibitFrame DEF SelectCheck, Resizing, params, locks, local
<1>26. CASE SelectSave(p)
  BY <1>26, InhibitFrame DEF SelectSave, Resizing, params, locks, local
<1>27. CASE SelectDone(p)
  BY <1>27, InhibitSelect DEF SelectDone, NoSelect, WorkOK, Selecting, Resizing,
     params, locks, local
<1>28. CASE Select(p)
  BY <1>28, InhibitFrame DEF Select, Resizing, params, locks, local
<1>29. CASE SelectMore(p)
  BY <1>29, InhibitFrame DEF SelectMore, Resizing, params, locks, local
<1>30. CASE SelectAll(p)
  <2>1. inhibit' = inhibit /\ \A q \in Proc : Resizing(q)' <=> Resizing(q)
    BY <1>30 DEF SelectAll, Resizing
  <2>2. \A q \in Proc : sel'[q].next # 0 <=> sel[q].next # 0
    BY <1>30 DEF SelectAll, SelectList
  <2> QED
    BY <2>1, <2>2, InhibitFrame
<1>31. CASE EndSelect(p)
  BY <1>31, InhibitSelect DEF EndSelect, NoSelect, WorkOK, Selecting, Resizing,
     params, locks, local
<1>32. ASSUME NEW r \in Request, Call(p, r) PROVE InhibitExact'
  BY <1>32, InhibitFrame DEF Call, Resizing, params, locks, local
<1> QED
  BY <1>1, <1>2, <1>3, <1>4, <1>5, <1>6, <1>7, <1>8, <1>9, <1>10, <1>11, <1>12,
     <1>13, <1>14, <1>15, <1>16, <1>17, <1>18, <1>19, <1>20, <1>21, <1>22,
     <1>23, <1>24, <1>25, <1>26, <1>27, <1>28, <1>29, <1>30, <1>31, <1>32 DEF Step, Program

-----------------------------------------------------------------------------
(* Splits and merges *)

LEMMA ModulusKept ==
  ASSUME TypeOK, ModulusOK, ResizeOK, [Next]_vars
  PROVE  ModulusOK'
<1> SUFFICES ASSUME NEW p \in Proc, Step(p) \/ Program(p) PROVE ModulusOK'
  BY DEF Next, vars, params, locks, local, ModulusOK
<1> USE DHFileAssumption DEF TypeOK, ModulusOK
<1>1. CASE SplitBegin(p)
  BY <1>1, SplitMoves DEF SplitBegin
<1>2. CASE MergeLockSource(p)
  <2>1. modulus > 1
    BY <1>2 DEF MergeLockSource, ResizeOK, At
  <2> QED
    BY <1>2, <2>1, MergeMoves DEF MergeLockSource
<1>3. ASSUME NEW r \in Request, Call(p, r) PROVE ModulusOK'
  BY <1>3 DEF Call, params, locks, local
<1>4. CASE HashId(p) \/ LockGroup(p) \/ ReadRecord(p) \/ WriteRecord(p) \/
           Account(p) \/ CheckLoad(p) \/ Return(p)
  BY <1>4 DEF HashId, LockGroup, ReadRecord, WriteRecord, Account, CheckLoad,
     Return, params, locks, local
<1>5. CASE NoSplit(p) \/ SplitLockNew(p) \/ SplitLockSource(p) \/
           SplitMove(p) \/ FreeOther(p) \/ ResizeEnd(p)
  BY <1>5 DEF NoSplit, SplitLockNew, SplitLockSource, SplitMove, FreeOther,
     ResizeEnd, params, locks, local
<1>6. CASE NoMerge(p) \/ MergeBegin(p) \/ MergeLockTarget(p) \/ MergeMove(p)
  BY <1>6 DEF NoMerge, MergeBegin, MergeLockTarget, MergeMove, params, locks,
     local
<1>7. CASE SelectBegin(p) \/ SelectGroup(p) \/ SelectLock(p) \/
           SelectRead(p) \/ SelectEnd(p) \/ SelectCheck(p) \/ SelectSave(p) \/
           SelectDone(p) \/ Select(p) \/ SelectMore(p) \/ SelectAll(p) \/
           EndSelect(p)
  BY <1>7 DEF SelectBegin, SelectGroup, SelectLock, SelectRead, SelectEnd,
     SelectCheck, SelectSave, SelectDone, Select, SelectMore, SelectAll,
     EndSelect, params, locks, local
<1> QED
  BY <1>1, <1>2, <1>3, <1>4, <1>5, <1>6, <1>7 DEF Step, Program

LEMMA OneResizerKept ==
  ASSUME TypeOK, OneResizer, TableOK, InhibitExact, [Next]_vars
  PROVE  OneResizer'
<1> SUFFICES ASSUME NEW p \in Proc, Step(p) \/ Program(p) PROVE OneResizer'
  BY DEF Next, vars, params, locks, local, OneResizer
<1> USE DHFileAssumption DEF TypeOK, OneResizer, Resizer, Splitting, At, Goto
<1>1. CASE SplitBegin(p)
  <2>1. \A q \in Proc : pc[q] \notin Resizer
    BY <1>1, NobodyBusy DEF SplitBegin, TakeTable
  <2>2. \A q \in Proc : q # p => pc'[q] = pc[q]
    BY <1>1 DEF SplitBegin
  <2> QED
    BY <2>1, <2>2 DEF Resizer, Splitting
<1>2. CASE MergeBegin(p)
  <2>1. \A q \in Proc : pc[q] \notin Resizer
    BY <1>2, NobodyBusy DEF MergeBegin, TakeTable
  <2>2. \A q \in Proc : q # p => pc'[q] = pc[q]
    BY <1>2 DEF MergeBegin
  <2> QED
    BY <2>1, <2>2 DEF Resizer, Splitting
<1>3. ASSUME NEW r \in Request, Call(p, r) PROVE OneResizer'
  BY <1>3 DEF Call, params, locks, local
<1>4. CASE HashId(p) \/ LockGroup(p) \/ ReadRecord(p) \/ WriteRecord(p) \/
           Account(p) \/ CheckLoad(p) \/ Return(p)
  BY <1>4 DEF HashId, LockGroup, ReadRecord, WriteRecord, Account, CheckLoad,
     Return, params, locks, local
<1>5. CASE NoSplit(p) \/ SplitLockNew(p) \/ SplitLockSource(p) \/
           SplitMove(p) \/ FreeOther(p) \/ ResizeEnd(p)
  BY <1>5 DEF NoSplit, SplitLockNew, SplitLockSource, SplitMove, FreeOther,
     ResizeEnd, params, locks, local
<1>6. CASE NoMerge(p) \/ MergeLockTarget(p) \/ MergeLockSource(p) \/
           MergeMove(p)
  BY <1>6 DEF NoMerge, MergeLockTarget, MergeLockSource, MergeMove, params,
     locks, local
<1>7. CASE SelectBegin(p) \/ SelectGroup(p) \/ SelectLock(p) \/
           SelectRead(p) \/ SelectEnd(p) \/ SelectCheck(p) \/ SelectSave(p) \/
           SelectDone(p) \/ Select(p) \/ SelectMore(p) \/ SelectAll(p) \/
           EndSelect(p)
  BY <1>7 DEF SelectBegin, SelectGroup, SelectLock, SelectRead, SelectEnd,
     SelectCheck, SelectSave, SelectDone, Select, SelectMore, SelectAll,
     EndSelect, params, locks, local
<1> QED
  BY <1>1, <1>2, <1>3, <1>4, <1>5, <1>6, <1>7 DEF Step, Program

LEMMA ResizeKept ==
  ASSUME TypeOK, ModulusOK, TableOK, InhibitExact, OneResizer, ResizeOK,
         LocksOK, AccessOK, NewGroupFree, RecordsAtHome, [Next]_vars
  PROVE  ResizeOK'
<1> SUFFICES ASSUME NEW p \in Proc, Step(p) \/ Program(p) PROVE ResizeOK'
  BY DEF Next, vars, params, locks, local, ResizeOK, Empty
<1> USE DHFileAssumption DEF TypeOK, OneResizer, Resizer, Splitting, ResizeOK,
   At, Goto, Empty
<1>1. CASE WriteRecord(p)
  <2>1. /\ pc[p] = "access" /\ op[p].kind # "read"
        /\ \A q \in Proc : q # p => pc'[q] = pc[q]
        /\ pc' = [pc EXCEPT ![p] = "account"]
        /\ \A g \in Group : g # grp[p] => data'[g] = data[g]
        /\ UNCHANGED <<modulus, modValue, grp, other>>
    BY <1>1 DEF WriteRecord, params
  <2>2. ASSUME NEW q \in Proc, pc[q] \in Splitting PROVE other[q] # grp[p]
    <3>1. other[q] \in Group
      BY <2>2
    <3>2. CASE pc[q] = "newlock"
      BY <3>2, <2>1 DEF NewGroupFree
    <3>3. CASE pc[q] \in {"splitsrc", "splitmove"} /\ other[q] = grp[p]
      <4>1. Writes(q, other[q]) /\ Writes(p, other[q])
        BY <3>3, <2>1 DEF Writes
      <4>2. p = q
        BY <4>1, <3>1 DEF LocksOK
      <4> QED
        BY <4>2, <3>3, <2>1
    <3> QED
      BY <2>2, <3>2, <3>3
  <2>3. \A q \in Proc : pc'[q] \in Splitting => pc[q] \in Splitting /\ data'[other[q]] = data[other[q]]
    BY <2>1, <2>2
  <2> QED
    BY <2>1, <2>3
<1>2. CASE SplitBegin(p)
  <2>1. \A q \in Proc : pc[q] \notin Resizer
    BY <1>2, NobodyBusy DEF SplitBegin, TakeTable
  <2>2. /\ modulus' = modulus + 1 /\ modulus + 1 \in Group /\ UNCHANGED data
        /\ grp' = [grp EXCEPT ![p] = SplitSource(modulus, modValue)]
        /\ other' = [other EXCEPT ![p] = modulus + 1]
        /\ pc' = [pc EXCEPT ![p] = "newlock"]
    BY <1>2 DEF SplitBegin, Group
  <2>3. SplitSource(modulus, modValue) \in 1..modulus
    BY SplitMoves DEF ModulusOK
  <2>4. data[modulus + 1] = [id \in Id |-> None]
    BY <2>1, <2>2, AllAtHome DEF Group, Empty
  <2> QED
    BY <2>1, <2>2, <2>3, <2>4 DEF Group
<1>3. CASE MergeLockSource(p)
  <2>1. /\ modulus' = modulus - 1 /\ UNCHANGED <<grp, other, data>>
        /\ pc[p] = "mergesrc" /\ pc' = [pc EXCEPT ![p] = "mergemove"]
    BY <1>3 DEF MergeLockSource, local
  <2>2. /\ modulus > MinMod /\ grp[p] = modulus
        /\ other[p] = MergeTarget(modulus, modValue)
    BY <2>1
  <2>3. other[p] \in 1..modulus - 1
    BY <2>2, MergeMoves DEF ModulusOK, Group
  <2>4. \A q \in Proc : q # p => pc[q] \notin Resizer
    BY <2>1
  <2> QED
    BY <2>1, <2>2, <2>3, <2>4 DEF Group
<1>4. CASE MergeMove(p)
  <2>1. /\ UNCHANGED <<modulus, modValue, grp, other>>
        /\ pc[p] = "mergemove" /\ pc' = [pc EXCEPT ![p] = "freeother"]
    BY <1>4 DEF MergeMove, local, params
  <2>2. \A q \in Proc : q # p => pc[q] \notin Resizer
    BY <2>1
  <2> QED
    BY <2>1, <2>2 DEF Group
<1>5. ASSUME NEW r \in Request, Call(p, r) PROVE ResizeOK'
  BY <1>5 DEF Call, params, locks, local
<1>6. CASE HashId(p) \/ LockGroup(p) \/ ReadRecord(p) \/ Account(p) \/
           CheckLoad(p) \/ Return(p)
  BY <1>6 DEF HashId, LockGroup, ReadRecord, Account, CheckLoad, Return,
     params, locks, local
<1>7. CASE NoSplit(p) \/ SplitLockNew(p) \/ SplitLockSource(p) \/
           SplitMove(p) \/ FreeOther(p) \/ ResizeEnd(p)
  BY <1>7 DEF NoSplit, SplitLockNew, SplitLockSource, SplitMove, FreeOther,
     ResizeEnd, params, locks, local
<1>8. CASE NoMerge(p) \/ MergeLockTarget(p)
  BY <1>8 DEF NoMerge, MergeLockTarget, params, locks, local
<1>9. CASE SelectBegin(p) \/ SelectGroup(p) \/ SelectLock(p) \/
           SelectRead(p) \/ SelectEnd(p) \/ SelectCheck(p) \/ SelectSave(p) \/
           SelectDone(p) \/ Select(p) \/ SelectMore(p) \/ SelectAll(p) \/
           EndSelect(p)
  BY <1>9 DEF SelectBegin, SelectGroup, SelectLock, SelectRead, SelectEnd,
     SelectCheck, SelectSave, SelectDone, Select, SelectMore, SelectAll,
     EndSelect, params, locks, local
<1>10. CASE MergeBegin(p)
  BY <1>10 DEF MergeBegin, NeedsMerge, params
<1> QED
  BY <1>1, <1>2, <1>3, <1>4, <1>5, <1>6, <1>7, <1>8, <1>9, <1>10 DEF Step, Program

LEMMA NewGroupKept ==
  ASSUME TypeOK, ModulusOK, TableOK, WorkOK, InhibitExact, OneResizer, AccessOK,
         NewGroupFree, RecordsAtHome, [Next]_vars
  PROVE  NewGroupFree'
<1> SUFFICES ASSUME NEW p \in Proc, Step(p) \/ Program(p) PROVE NewGroupFree'
  BY DEF Next, vars, params, locks, local, NewGroupFree
<1> USE DHFileAssumption DEF TypeOK, Holding, OneResizer, Resizer, Splitting,
   NewGroupFree, TableOK, At, Goto
<1>1. CASE SplitBegin(p)
  <2>1. \A q \in Proc : pc[q] \notin Resizer
    BY <1>1, NobodyBusy DEF SplitBegin, TakeTable
  <2>2. \A q \in Proc : pc[q] = "access" => grp[q] \in 1..modulus
    <3>1. \A q \in Proc : pc[q] = "access" => grp[q] = Home(op[q].id) /\ op[q].id \in Id
      BY <2>1, AllAtHome DEF WorkOK, Request
    <3> QED
      BY <3>1, HomeInFile
  <2>3. /\ modulus + 1 \in Group /\ other' = [other EXCEPT ![p] = modulus + 1]
        /\ pc[p] = "split" /\ pc' = [pc EXCEPT ![p] = "newlock"]
        /\ \A q \in Proc : q # p => grp'[q] = grp[q]
    BY <1>1 DEF SplitBegin, Group
  <2> QED
    BY <2>1, <2>2, <2>3 DEF Group
<1>2. ASSUME NEW r \in Request, Call(p, r) PROVE NewGroupFree'
  BY <1>2 DEF Call, params, locks, local
<1>3. CASE HashId(p) \/ LockGroup(p) \/ ReadRecord(p) \/ WriteRecord(p) \/
           Account(p) \/ CheckLoad(p) \/ Return(p)
  BY <1>3 DEF HashId, LockGroup, ReadRecord, WriteRecord, Account, CheckLoad,
     Return, params, locks, local
<1>4. CASE NoSplit(p) \/ SplitLockNew(p) \/ SplitLockSource(p) \/
           SplitMove(p) \/ FreeOther(p) \/ ResizeEnd(p)
  BY <1>4 DEF NoSplit, SplitLockNew, SplitLockSource, SplitMove, FreeOther,
     ResizeEnd, params, locks, local
<1>5. CASE NoMerge(p) \/ MergeBegin(p) \/ MergeLockTarget(p) \/
           MergeLockSource(p) \/ MergeMove(p)
  BY <1>5 DEF NoMerge, MergeBegin, MergeLockTarget, MergeLockSource, MergeMove,
     params, locks, local
<1>6. CASE SelectBegin(p) \/ SelectGroup(p) \/ SelectLock(p) \/
           SelectRead(p) \/ SelectEnd(p) \/ SelectCheck(p) \/ SelectSave(p) \/
           SelectDone(p) \/ Select(p) \/ SelectMore(p) \/ SelectAll(p) \/
           EndSelect(p)
  BY <1>6 DEF SelectBegin, SelectGroup, SelectLock, SelectRead, SelectEnd,
     SelectCheck, SelectSave, SelectDone, Select, SelectMore, SelectAll,
     EndSelect, params, locks, local
<1> QED
  BY <1>1, <1>2, <1>3, <1>4, <1>5, <1>6 DEF Step, Program

-----------------------------------------------------------------------------
(* Group locks *)

LEMMA LocksKept ==
  ASSUME TypeOK, WorkOK, ResizeOK, LocksOK, [Next]_vars
  PROVE  LocksOK'
<1> SUFFICES ASSUME NEW p \in Proc, Step(p) \/ Program(p) PROVE LocksOK'
  BY DEF Next, vars, params, locks, local, LocksOK, Writes, Reads
<1> USE DHFileAssumption DEF TypeOK, WorkOK, ResizeOK, Splitting, LocksOK,
   Writes, Reads, ReadLock, WriteLock, FreeRead, FreeWrite, At, Goto, Empty
<1>1. CASE HashId(p)
  BY <1>1 DEF HashId, params, locks, local
<1>2. CASE LockGroup(p)
  <2>1. /\ UNCHANGED <<op, grp, other>>
        /\ pc[p] = "lock" /\ pc' = [pc EXCEPT ![p] = "access"]
    BY <1>2 DEF LockGroup, local
  <2>2. CASE op[p].kind = "read"
    <3>1. /\ writer[grp[p]] = None /\ UNCHANGED writer
          /\ readers' = [readers EXCEPT ![grp[p]] = readers[grp[p]] \cup {p}]
      BY <1>2, <2>2 DEF LockGroup
    <3>2. \A q \in Proc : \A g \in Group : Writes(q, g)' => Writes(q, g)
      BY <2>1, <2>2
    <3>3. \A q \in Proc : \A g \in Group : Reads(q, g)' => Reads(q, g) \/ (q = p /\ g = grp[p])
      BY <2>1, <2>2
    <3>4. \A g \in Group : readers[g] \subseteq readers'[g] /\ (g = grp[p] => p \in readers'[g])
      BY <3>1
    <3>5. \A g \in Group : writer'[g] # None => readers'[g] = {}
      BY <3>1
    <3> QED
      BY <3>1, <3>2, <3>3, <3>4, <3>5
  <2>3. CASE op[p].kind # "read"
    <3>1. /\ writer[grp[p]] = None /\ readers[grp[p]] = {} /\ UNCHANGED readers
          /\ writer' = [writer EXCEPT ![grp[p]] = p]
      BY <1>2, <2>3 DEF LockGroup
    <3>2. \A q \in Proc : \A g \in Group : Reads(q, g)' => Reads(q, g)
      BY <2>1, <2>3
    <3>3. \A q \in Proc : \A g \in Group : Writes(q, g)' => Writes(q, g) \/ (q = p /\ g = grp[p])
      BY <2>1, <2>3
    <3>4. \A g \in Group : g # grp[p] => writer'[g] = writer[g]
      BY <3>1
    <3>5. \A g \in Group : writer'[g] # None => readers'[g] = {}
      BY <3>1
    <3> QED
      BY <3>1, <3>2, <3>3, <3>4, <3>5
  <2> QED
    BY <2>2, <2>3
<1>3. CASE ReadRecord(p)
  BY <1>3 DEF ReadRecord, params, locks, local
<1>4. CASE WriteRecord(p)
  BY <1>4 DEF WriteRecord, params, locks, local
<1>5. CASE Account(p)
  BY <1>5 DEF Account, params, locks, local
<1>6. CASE CheckLoad(p)
  BY <1>6 DEF CheckLoad, params, locks, local
<1>7. CASE Return(p)
  BY <1>7 DEF Return, params, locks, local
<1>8. CASE NoSplit(p)
  BY <1>8 DEF NoSplit, params, locks, local
<1>9. CASE SplitBegin(p)
  BY <1>9 DEF SplitBegin, params, locks, local
<1>10. CASE SplitLockNew(p)
  BY <1>10 DEF SplitLockNew, params, locks, local
<1>11. CASE SplitLockSource(p)
  BY <1>11 DEF SplitLockSource, params, locks, local
<1>12. CASE SplitMove(p)
  BY <1>12 DEF SplitMove, params, locks, local
<1>13. CASE FreeOther(p)
  BY <1>13 DEF FreeOther, params, locks, local
<1>14. CASE ResizeEnd(p)
  BY <1>14 DEF ResizeEnd, params, locks, local
<1>15. CASE NoMerge(p)
  BY <1>15 DEF NoMerge, params, locks, local
<1>16. CASE MergeBegin(p)
  BY <1>16 DEF MergeBegin, params, locks, local
<1>17. CASE MergeLockTarget(p)
  BY <1>17 DEF MergeLockTarget, params, locks, local
<1>18. CASE MergeLockSource(p)
  BY <1>18 DEF MergeLockSource, params, locks, local
<1>19. CASE MergeMove(p)
  <2>1. /\ UNCHANGED <<op, grp, other, readers>>
        /\ writer' = [writer EXCEPT ![grp[p]] = None]
        /\ pc[p] = "mergemove" /\ pc' = [pc EXCEPT ![p] = "freeother"]
    BY <1>19 DEF MergeMove, local
  <2>2. grp[p] # other[p]
    BY <2>1 DEF Group
  <2> QED
    BY <2>1, <2>2
<1>20. CASE SelectBegin(p)
  BY <1>20 DEF SelectBegin, params, locks, local
<1>21. CASE SelectGroup(p)
  BY <1>21 DEF SelectGroup, params, locks, local
<1>22. CASE SelectLock(p)
  BY <1>22 DEF SelectLock, params, locks, local
<1>23. CASE SelectRead(p)
  BY <1>23 DEF SelectRead, params, locks, local
<1>24. CASE SelectEnd(p)
  BY <1>24 DEF SelectEnd, params, locks, local
<1>25. CASE SelectCheck(p)
  BY <1>25 DEF SelectCheck, params, locks, local
<1>26. CASE SelectSave(p)
  BY <1>26 DEF SelectSave, params, locks, local
<1>27. CASE SelectDone(p)
  BY <1>27 DEF SelectDone, params, locks, local
<1>28. CASE Select(p)
  BY <1>28 DEF Select, params, locks, local
<1>29. CASE SelectMore(p)
  BY <1>29 DEF SelectMore, params, locks, local
<1>30. CASE SelectAll(p)
  BY <1>30 DEF SelectAll, params, locks, local
<1>31. CASE EndSelect(p)
  BY <1>31 DEF EndSelect, params, locks, local
<1>32. ASSUME NEW r \in Request, Call(p, r) PROVE LocksOK'
  BY <1>32 DEF Call, params, locks, local
<1> QED
  BY <1>1, <1>2, <1>3, <1>4, <1>5, <1>6, <1>7, <1>8, <1>9, <1>10, <1>11, <1>12,
     <1>13, <1>14, <1>15, <1>16, <1>17, <1>18, <1>19, <1>20, <1>21, <1>22, <1>23,
     <1>24, <1>25, <1>26, <1>27, <1>28, <1>29, <1>30, <1>31, <1>32 DEF Step,
     Program

LEMMA AccessKept ==
  ASSUME TypeOK, ModulusOK, TableOK, WorkOK, InhibitExact, OneResizer, ResizeOK,
         LocksOK, AccessOK, RecordsAtHome, [Next]_vars
  PROVE  AccessOK'
<1> SUFFICES ASSUME NEW p \in Proc, Step(p) \/ Program(p) PROVE AccessOK'
  BY DEF Next, vars, params, locks, local, AccessOK, Home
<1> USE DHFileAssumption DEF TypeOK, AccessOK, At, Goto
<1>1. CASE HashId(p)
  BY <1>1 DEF HashId, Home, params, locks, local
<1>2. CASE LockGroup(p)
  BY <1>2 DEF LockGroup, Home, params, locks, local
<1>3. CASE ReadRecord(p)
  BY <1>3 DEF ReadRecord, Home, params, locks, local
<1>4. CASE WriteRecord(p)
  BY <1>4 DEF WriteRecord, Home, params, locks, local
<1>5. CASE Account(p)
  BY <1>5 DEF Account, Home, params, locks, local
<1>6. CASE CheckLoad(p)
  BY <1>6 DEF CheckLoad, Home, params, locks, local
<1>7. CASE Return(p)
  BY <1>7 DEF Return, Home, params, locks, local
<1>8. CASE NoSplit(p)
  BY <1>8 DEF NoSplit, Home, params, locks, local
<1>9. CASE SplitBegin(p)
  <2>1. \A q \in Proc : pc[q] \notin Resizer /\ pc[q] # "lock"
    BY <1>9, NobodyBusy DEF SplitBegin, TakeTable
  <2>2. /\ modulus' = modulus + 1 /\ modValue' = SplitModValue(modulus, modValue)
        /\ grp' = [grp EXCEPT ![p] = SplitSource(modulus, modValue)]
        /\ other' = [other EXCEPT ![p] = modulus + 1]
        /\ pc[p] = "split" /\ pc' = [pc EXCEPT ![p] = "newlock"] /\ UNCHANGED op
    BY <1>9 DEF SplitBegin
  <2>3. ASSUME NEW q \in Proc, pc'[q] \in {"lock", "access"}
        PROVE  /\ pc[q] = "access" /\ pc'[q] = "access" /\ q # p
               /\ op[q].id \in Id /\ grp'[q] = Home(op[q].id)
    <3>1. pc[q] = "access" /\ q # p
      BY <2>1, <2>2, <2>3
    <3>2. grp[q] = Home(op[q].id)
      BY <2>1, <3>1, AllAtHome
    <3> QED
      BY <2>2, <3>1, <3>2 DEF WorkOK, Request
  <2>4. ASSUME NEW id \in Id
        PROVE  \/ Home(id)' = Home(id)
               \/ Home(id)' = modulus + 1 /\ Home(id) = SplitSource(modulus, modValue)
    <3>1. HashOf[id] \in Nat
      OBVIOUS
    <3> QED
      BY <2>2, <3>1, SplitMoves DEF ModulusOK, Home
  <2>5. ASSUME NEW q \in Proc, pc'[q] \in {"lock", "access"}
        PROVE  \/ grp'[q] = Home(op[q].id)'
               \/ /\ pc'[q] = "access" /\ pc'[p] = "newlock"
                  /\ grp'[p] = grp'[q] /\ other'[p] = Home(op[q].id)'
    BY <2>2, <2>3, <2>4, <2>5
  <2> QED
    BY <2>2, <2>5
<1>10. CASE SplitLockNew(p)
  BY <1>10 DEF SplitLockNew, Home, params, locks, local
<1>11. CASE SplitLockSource(p)
  <2>1. /\ pc[p] = "splitsrc" /\ pc' = [pc EXCEPT ![p] = "splitmove"]
        /\ writer[grp[p]] = None /\ readers[grp[p]] = {}
        /\ UNCHANGED <<op, grp, other, modulus, modValue>>
    BY <1>11 DEF SplitLockSource, WriteLock, local, params
  <2>2. grp[p] \in Group
    BY <2>1 DEF ResizeOK, Splitting, Group
  <2>3. ASSUME NEW q \in Proc, pc[q] = "access" PROVE grp[q] # grp[p]
    BY <2>1, <2>2, <2>3 DEF LocksOK, Writes, Reads
  <2>4. \A id : Home(id)' = Home(id)
    BY <2>1 DEF Home
  <2>5. ASSUME NEW q \in Proc, pc[q] \in {"newlock", "splitsrc"}, q # p PROVE FALSE
    BY <2>1, <2>5 DEF OneResizer, Resizer, Splitting
  <2> QED
    BY <2>1, <2>3, <2>4, <2>5
<1>12. CASE SplitMove(p)
  BY <1>12 DEF SplitMove, Home, params, locks, local
<1>13. CASE FreeOther(p)
  BY <1>13 DEF FreeOther, Home, params, locks, local
<1>14. CASE ResizeEnd(p)
  BY <1>14 DEF ResizeEnd, Home, params, locks, local
<1>15. CASE NoMerge(p)
  BY <1>15 DEF NoMerge, Home, params, locks, local
<1>16. CASE MergeBegin(p)
  BY <1>16 DEF MergeBegin, Home, params, locks, local
<1>17. CASE MergeLockTarget(p)
  BY <1>17 DEF MergeLockTarget, Home, params, locks, local
<1>18. CASE MergeLockSource(p)
  <2>1. /\ modulus' = modulus - 1 /\ modValue' = MergeModValue(modulus, modValue)
        /\ pc[p] = "mergesrc" /\ pc' = [pc EXCEPT ![p] = "mergemove"]
        /\ writer[grp[p]] = None /\ readers[grp[p]] = {} /\ ftl = p
        /\ UNCHANGED <<op, grp, other>>
    BY <1>18 DEF MergeLockSource, WriteLock, local, TableOK, Holding
  <2>2. grp[p] = modulus /\ modulus > 1
    BY <2>1 DEF ResizeOK
  <2>3. \A q \in Proc : pc[q] # "lock" /\ pc[q] \notin {"newlock", "splitsrc"}
    BY <2>1 DEF TableOK, Holding, OneResizer, Resizer, Splitting
  <2>4. ASSUME NEW q \in Proc, pc[q] = "access" PROVE grp[q] # modulus
    BY <2>1, <2>2, <2>4 DEF LocksOK, Writes, Reads
  <2>5. ASSUME NEW id \in Id, Home(id) # modulus
        PROVE  GroupOf(HashOf[id], modulus', modValue') = Home(id)
    <3>1. HashOf[id] \in Nat
      OBVIOUS
    <3> QED
      BY <2>1, <2>2, <2>5, <3>1, MergeMoves DEF ModulusOK, Home
  <2>6. ASSUME NEW q \in Proc, pc[q] = "access"
        PROVE  grp[q] = Home(op[q].id) /\ op[q].id \in Id
    BY <2>3, <2>6 DEF WorkOK, Request
  <2>7. ASSUME NEW q \in Proc, pc[q] = "access"
        PROVE  grp[q] = GroupOf(HashOf[op[q].id], modulus', modValue')
    <3>1. Home(op[q].id) # modulus /\ op[q].id \in Id
      BY <2>4, <2>6, <2>7
    <3> QED
      BY <2>5, <2>6, <2>7, <3>1
  <2>8. \A q \in Proc : pc'[q] \in {"lock", "access"} => pc[q] = "access"
    BY <2>1, <2>3
  <2>9. \A q \in Proc : Home(op[q].id)' = GroupOf(HashOf[op[q].id], modulus', modValue')
    BY <2>1 DEF Home
  <2> HIDE DEF AccessOK
  <2>10. \A q \in Proc : pc'[q] \in {"lock", "access"} => grp'[q] = Home(op[q].id)'
    BY <2>1, <2>7, <2>8, <2>9
  <2> QED
    BY <2>10 DEF AccessOK
<1>19. CASE MergeMove(p)
  BY <1>19 DEF MergeMove, Home, params, locks, local
<1>20. CASE SelectBegin(p)
  BY <1>20 DEF SelectBegin, Home, params, locks, local
<1>21. CASE SelectGroup(p)
  BY <1>21 DEF SelectGroup, Home, params, locks, local
<1>22. CASE SelectLock(p)
  BY <1>22 DEF SelectLock, Home, params, locks, local
<1>23. CASE SelectRead(p)
  BY <1>23 DEF SelectRead, Home, params, locks, local
<1>24. CASE SelectEnd(p)
  BY <1>24 DEF SelectEnd, Home, params, locks, local
<1>25. CASE SelectCheck(p)
  BY <1>25 DEF SelectCheck, Home, params, locks, local
<1>26. CASE SelectSave(p)
  BY <1>26 DEF SelectSave, Home, params, locks, local
<1>27. CASE SelectDone(p)
  BY <1>27 DEF SelectDone, Home, params, locks, local
<1>28. CASE Select(p)
  BY <1>28 DEF Select, Home, params, locks, local
<1>29. CASE SelectMore(p)
  BY <1>29 DEF SelectMore, Home, params, locks, local
<1>30. CASE SelectAll(p)
  BY <1>30 DEF SelectAll, Home, params, locks, local
<1>31. CASE EndSelect(p)
  BY <1>31 DEF EndSelect, Home, params, locks, local
<1>32. ASSUME NEW r \in Request, Call(p, r) PROVE AccessOK'
  BY <1>32 DEF Call, Home, params, locks, local
<1> QED
  BY <1>1, <1>2, <1>3, <1>4, <1>5, <1>6, <1>7, <1>8, <1>9, <1>10, <1>11, <1>12,
     <1>13, <1>14, <1>15, <1>16, <1>17, <1>18, <1>19, <1>20, <1>21, <1>22, <1>23,
     <1>24, <1>25, <1>26, <1>27, <1>28, <1>29, <1>30, <1>31, <1>32 DEF Step,
     Program

-----------------------------------------------------------------------------
(* Records *)

\* A step that leaves the records and the hashing alone, and ends no split or
\* merge, keeps them at home.
LEMMA AtHomeFrame ==
  ASSUME RecordsAtHome, UNCHANGED <<modulus, modValue, data>>,
         \A q \in Proc : \A g, h : Moving(q, g, h) => Moving(q, g, h)'
  PROVE  RecordsAtHome'
<1>1. \A id : Home(id)' = Home(id)
  BY DEF Home
<1>2. \A g : RecordsIn(g)' = RecordsIn(g)
  BY DEF RecordsIn
<1> QED
  BY <1>1, <1>2 DEF RecordsAtHome

LEMMA AtHomeKept ==
  ASSUME TypeOK, ModulusOK, TableOK, InhibitExact, OneResizer, ResizeOK,
         AccessOK, RecordsAtHome, [Next]_vars
  PROVE  RecordsAtHome'
<1> SUFFICES ASSUME NEW p \in Proc, Step(p) \/ Program(p) PROVE RecordsAtHome'
  BY DEF Next, vars, params, locks, local, RecordsAtHome, RecordsIn, Moving, Home
<1> USE DHFileAssumption DEF TypeOK, At, Goto
<1>1. CASE HashId(p)
  BY <1>1, AtHomeFrame DEF HashId, Moving, params, locks, local
<1>2. CASE LockGroup(p)
  BY <1>2, AtHomeFrame DEF LockGroup, Moving, params, locks, local
<1>3. CASE ReadRecord(p)
  BY <1>3, AtHomeFrame DEF ReadRecord, Moving, params, locks, local
<1>4. CASE WriteRecord(p)
  <2>1. /\ pc[p] = "access" /\ pc' = [pc EXCEPT ![p] = "account"]
        /\ \A g \in Group, id \in Id :
             (g # grp[p] \/ id # op[p].id) => data'[g][id] = data[g][id]
        /\ UNCHANGED <<modulus, modValue, op, grp, other>>
    BY <1>4 DEF WriteRecord, params
  <2>2. \A q \in Proc : \A g, h \in Group : Moving(q, g, h)' <=> Moving(q, g, h)
    BY <2>1 DEF Moving
  <2>3. \A id \in Id : Home(id)' = Home(id)
    BY <2>1 DEF Home
  <2>4. ASSUME NEW g \in Group, NEW id \in Id, id \in RecordsIn(g)'
        PROVE  g = Home(id) \/ \E q \in Proc : Moving(q, g, Home(id))
    <3>1. CASE id \in RecordsIn(g)
      BY <3>1 DEF RecordsAtHome
    <3>2. CASE g = grp[p] /\ id = op[p].id
      BY <2>1, <3>2 DEF AccessOK, Moving
    <3> QED
      BY <2>1, <2>4, <3>1, <3>2 DEF RecordsIn
  <2>5. \A id \in Id : Home(id) \in Group
    BY HomeInFile DEF Group
  <2> QED
    BY <2>2, <2>3, <2>4, <2>5 DEF RecordsAtHome, RecordsIn
<1>5. CASE Account(p)
  BY <1>5, AtHomeFrame DEF Account, Moving, params, locks, local
<1>6. CASE CheckLoad(p)
  BY <1>6, AtHomeFrame DEF CheckLoad, Moving, params, locks, local
<1>7. CASE Return(p)
  BY <1>7, AtHomeFrame DEF Return, Moving, params, locks, local
<1>8. CASE NoSplit(p)
  BY <1>8, AtHomeFrame DEF NoSplit, Moving, params, locks, local
<1>9. CASE SplitBegin(p)
  <2>1. \A q \in Proc : pc[q] \notin Resizer
    BY <1>9, NobodyBusy DEF SplitBegin, TakeTable
  <2>2. /\ modulus' = modulus + 1 /\ modValue' = SplitModValue(modulus, modValue)
        /\ grp' = [grp EXCEPT ![p] = SplitSource(modulus, modValue)]
        /\ other' = [other EXCEPT ![p] = modulus + 1]
        /\ pc[p] = "split" /\ pc' = [pc EXCEPT ![p] = "newlock"] /\ UNCHANGED data
    BY <1>9 DEF SplitBegin
  <2>3. ASSUME NEW id \in Id
        PROVE  \/ Home(id)' = Home(id)
               \/ Home(id)' = modulus + 1 /\ Home(id) = SplitSource(modulus, modValue)
    <3>1. HashOf[id] \in Nat
      OBVIOUS
    <3> QED
      BY <2>2, <3>1, SplitMoves DEF ModulusOK, Home
  <2>4. ASSUME NEW g \in Group, NEW id \in RecordsIn(g)
        PROVE  g = Home(id)' \/ Moving(p, g, Home(id))'
    <3>1. g = Home(id) /\ id \in Id
      BY <2>1, AllAtHome DEF RecordsIn
    <3>2. CASE Home(id)' = Home(id)
      BY <3>1, <3>2
    <3>3. CASE Home(id)' = modulus + 1 /\ Home(id) = SplitSource(modulus, modValue)
      BY <2>2, <3>1, <3>3 DEF Moving
    <3> QED
      BY <2>3, <3>1, <3>2, <3>3
  <2>5. \A g \in Group : RecordsIn(g)' = RecordsIn(g)
    BY <2>2 DEF RecordsIn
  <2> QED
    BY <2>4, <2>5 DEF RecordsAtHome
<1>10. CASE SplitLockNew(p)
  BY <1>10, AtHomeFrame DEF SplitLockNew, Moving, params, locks, local
<1>11. CASE SplitLockSource(p)
  BY <1>11, AtHomeFrame DEF SplitLockSource, Moving, params, locks, local
<1>12. CASE SplitMove(p)
  <2> DEFINE s == grp[p]
  <2> DEFINE n == other[p]
  <2> DEFINE moved == {id \in RecordsIn(s) : Home(id) = n}
  <2>1. /\ pc[p] = "splitmove" /\ UNCHANGED <<modulus, modValue>>
        /\ data' = [data EXCEPT
             ![s] = [id \in Id |-> IF id \in moved THEN None ELSE data[s][id]],
             ![n] = [id \in Id |-> IF id \in moved THEN data[s][id] ELSE None]]
    BY <1>12 DEF SplitMove, params
  <2>2. s \in Group /\ n \in Group /\ s # n
    BY <2>1 DEF ResizeOK, Splitting, Group
  <2>3. \A q \in Proc : \A g, h : Moving(q, g, h) => q = p /\ g = s /\ h = n
    BY <2>1 DEF OneResizer, Resizer, Splitting, Moving
  <2>4. \A id \in Id : Home(id)' = Home(id)
    BY <2>1 DEF Home
  <2>5. \A g \in Group : RecordsIn(g)' \subseteq
               IF g = n THEN moved ELSE IF g = s THEN RecordsIn(s) \ moved ELSE RecordsIn(g)
    BY <2>1, <2>2 DEF RecordsIn
  <2>6. \A g \in Group : \A id \in RecordsIn(g) : g = Home(id) \/ (g = s /\ Home(id) = n)
    BY <2>3 DEF RecordsAtHome
  <2>7. ASSUME NEW g \in Group, NEW id \in Id, id \in RecordsIn(g)' PROVE g = Home(id)
    <3> HIDE DEF s, n
    <3>1. CASE g = n
      BY <2>5, <2>7, <3>1
    <3>2. CASE g = s /\ g # n
      BY <2>5, <2>6, <2>7, <3>2
    <3>3. CASE g # s /\ g # n
      BY <2>5, <2>6, <2>7, <3>3
    <3> QED
      BY <3>1, <3>2, <3>3
  <2> QED
    BY <2>4, <2>7 DEF RecordsAtHome, RecordsIn
<1>13. CASE FreeOther(p)
  BY <1>13, AtHomeFrame DEF FreeOther, Moving, params, locks, local
<1>14. CASE ResizeEnd(p)
  BY <1>14, AtHomeFrame DEF ResizeEnd, Moving, params, locks, local
<1>15. CASE NoMerge(p)
  BY <1>15, AtHomeFrame DEF NoMerge, Moving, params, locks, local
<1>16. CASE MergeBegin(p)
  BY <1>16, AtHomeFrame DEF MergeBegin, Moving, params, locks, local
<1>17. CASE MergeLockTarget(p)
  BY <1>17, AtHomeFrame DEF MergeLockTarget, Moving, params, locks, local
<1>18. CASE MergeLockSource(p)
  <2>1. /\ modulus' = modulus - 1 /\ modValue' = MergeModValue(modulus, modValue)
        /\ pc[p] = "mergesrc" /\ pc' = [pc EXCEPT ![p] = "mergemove"]
        /\ UNCHANGED <<grp, other, data>>
    BY <1>18 DEF MergeLockSource, local
  <2>2. /\ grp[p] = modulus /\ other[p] = MergeTarget(modulus, modValue)
        /\ modulus > 1
    BY <2>1 DEF ResizeOK
  <2>3. \A q \in Proc : \A g, h : ~Moving(q, g, h)
    BY <2>1 DEF OneResizer, Resizer, Splitting, Moving
  <2>4. ASSUME NEW id \in Id
        PROVE  \/ Home(id) = Home(id)'
               \/ Home(id) = modulus /\ Home(id)' = MergeTarget(modulus, modValue)
    <3>1. HashOf[id] \in Nat
      OBVIOUS
    <3> QED
      BY <2>1, <2>2, <3>1, MergeMoves DEF ModulusOK, Home
  <2>5. ASSUME NEW g \in Group, NEW id \in RecordsIn(g)
        PROVE  g = Home(id)' \/ Moving(p, g, Home(id))'
    <3>1. g = Home(id) /\ id \in Id
      BY <2>3 DEF RecordsAtHome, RecordsIn
    <3>2. CASE Home(id) = Home(id)'
      BY <3>1, <3>2
    <3>3. CASE Home(id) = modulus /\ Home(id)' = MergeTarget(modulus, modValue)
      BY <2>1, <2>2, <3>1, <3>3 DEF Moving
    <3> QED
      BY <2>4, <3>1, <3>2, <3>3
  <2>6. \A g \in Group : RecordsIn(g)' = RecordsIn(g)
    BY <2>1 DEF RecordsIn
  <2> QED
    BY <2>5, <2>6 DEF RecordsAtHome
<1>19. CASE MergeMove(p)
  <2> DEFINE s == grp[p]
  <2> DEFINE n == other[p]
  <2>1. /\ pc[p] = "mergemove" /\ UNCHANGED <<modulus, modValue>>
        /\ data' = [data EXCEPT
             ![s] = Empty,
             ![n] = [id \in Id |-> IF id \in RecordsIn(s) THEN data[s][id] ELSE data[n][id]]]
    BY <1>19 DEF MergeMove, params, ResizeOK, Group
  <2>2. s \in Group /\ n \in Group /\ s = modulus + 1 /\ n \in 1..modulus
    BY <2>1 DEF ResizeOK, Group
  <2>3. \A q \in Proc : \A g, h : Moving(q, g, h) => q = p /\ g = s /\ h = n
    BY <2>1 DEF OneResizer, Resizer, Splitting, Moving
  <2>4. \A id \in Id : Home(id)' = Home(id) /\ Home(id) # s
    BY <2>1, <2>2, HomeInFile DEF Home, Group
  <2>5. \A g \in Group : RecordsIn(g)' \subseteq
               IF g = n THEN RecordsIn(s) \cup RecordsIn(n) ELSE IF g = s THEN {} ELSE RecordsIn(g)
    BY <2>1, <2>2 DEF RecordsIn, Empty
  <2>6. \A g \in Group : \A id \in RecordsIn(g) : g = Home(id) \/ (g = s /\ Home(id) = n)
    BY <2>3 DEF RecordsAtHome
  <2>7. ASSUME NEW g \in Group, NEW id \in Id, id \in RecordsIn(g)' PROVE g = Home(id)
    <3> HIDE DEF s, n
    <3>1. CASE g = n
      <4>1. id \in RecordsIn(s) \cup RecordsIn(n)
        BY <2>5, <2>7, <3>1
      <4> QED
        BY <2>2, <2>4, <2>6, <3>1, <4>1
    <3>2. g # s
      BY <2>2, <2>5, <2>7
    <3>3. CASE g # s /\ g # n
      BY <2>5, <2>6, <2>7, <3>3
    <3> QED
      BY <3>1, <3>2, <3>3
  <2> QED
    BY <2>4, <2>7 DEF RecordsAtHome, RecordsIn
<1>20. CASE SelectBegin(p)
  BY <1>20, AtHomeFrame DEF SelectBegin, Moving, params, locks, local
<1>21. CASE SelectGroup(p)
  BY <1>21, AtHomeFrame DEF SelectGroup, Moving, params, locks, local
<1>22. CASE SelectLock(p)
  BY <1>22, AtHomeFrame DEF SelectLock, Moving, params, locks, local
<1>23. CASE SelectRead(p)
  BY <1>23, AtHomeFrame DEF SelectRead, Moving, params, locks, local
<1>24. CASE SelectEnd(p)
  BY <1>24, AtHomeFrame DEF SelectEnd, Moving, params, locks, local
<1>25. CASE SelectCheck(p)
  BY <1>25, AtHomeFrame DEF SelectCheck, Moving, params, locks, local
<1>26. CASE SelectSave(p)
  BY <1>26, AtHomeFrame DEF SelectSave, Moving, params, locks, local
<1>27. CASE SelectDone(p)
  BY <1>27, AtHomeFrame DEF SelectDone, Moving, params, locks, local
<1>28. CASE Select(p)
  BY <1>28, AtHomeFrame DEF Select, Moving, params, locks, local
<1>29. CASE SelectMore(p)
  BY <1>29, AtHomeFrame DEF SelectMore, Moving, params, locks, local
<1>30. CASE SelectAll(p)
  BY <1>30, AtHomeFrame DEF SelectAll, Moving, params, locks, local
<1>31. CASE EndSelect(p)
  BY <1>31, AtHomeFrame DEF EndSelect, Moving, params, locks, local
<1>32. ASSUME NEW r \in Request, Call(p, r) PROVE RecordsAtHome'
  BY <1>32, AtHomeFrame DEF Call, Moving, params, locks, local
<1> QED
  BY <1>1, <1>2, <1>3, <1>4, <1>5, <1>6, <1>7, <1>8, <1>9, <1>10, <1>11, <1>12,
     <1>13, <1>14, <1>15, <1>16, <1>17, <1>18, <1>19, <1>20, <1>21, <1>22,
     <1>23, <1>24, <1>25, <1>26, <1>27, <1>28, <1>29, <1>30, <1>31, <1>32 DEF Step, Program

LEMMA OnceKept ==
  ASSUME TypeOK, ModulusOK, WorkOK, OneResizer, ResizeOK, LocksOK, AccessOK,
         NewGroupFree, RecordsAtHome, RecordsOnce, [Next]_vars
  PROVE  RecordsOnce'
<1> SUFFICES ASSUME NEW p \in Proc, Step(p) \/ Program(p) PROVE RecordsOnce'
  BY DEF Next, vars, params, locks, local, RecordsOnce, RecordsIn
<1> USE DHFileAssumption DEF TypeOK, At, Goto
<1>1. CASE WriteRecord(p)
  <2>1. /\ pc[p] = "access" /\ op[p].kind # "read"
        /\ \A g \in Group, id \in Id :
             (g # grp[p] \/ id # op[p].id) => data'[g][id] = data[g][id]
    BY <1>1 DEF WriteRecord
  <2> DEFINE i == op[p].id
  <2>2. i \in Id
    BY <2>1 DEF WorkOK, Request
  <2>3. ASSUME NEW h \in Group, h # grp[p], i \in RecordsIn(h) PROVE FALSE
    <3>1. PICK q \in Proc : Moving(q, h, Home(i)) \/ Moving(q, grp[p], Home(i))
      BY <2>1, <2>3 DEF RecordsAtHome, AccessOK, Moving
    <3>2. other[q] = Home(i) /\ pc[q] \in Splitting \cup {"mergemove"} /\ q # p
      BY <2>1, <3>1 DEF Moving, Splitting
    <3>3. Home(i) \in Group
      BY <2>2, HomeInFile DEF Group
    <3>4. \A r \in Proc, g \in Group : Moving(r, g, Home(i)) => r = q
      BY <3>2 DEF Moving, OneResizer, Resizer, Splitting
    <3>5. grp[p] # Home(i)
      <4>1. CASE pc[q] = "newlock"
        BY <2>1, <3>2, <4>1 DEF NewGroupFree
      <4>2. CASE pc[q] # "newlock" /\ grp[p] = Home(i)
        <5>1. Writes(q, Home(i)) /\ Writes(p, Home(i))
          BY <2>1, <3>2, <4>2 DEF Writes, Splitting
        <5> QED
          BY <5>1, <3>2, <3>3 DEF LocksOK
      <4> QED
        BY <4>1, <4>2
    <3>6. pc[q] \in {"newlock", "splitsrc"} /\ grp[q] = grp[p]
      <4>1. PICK r \in Proc : /\ pc[r] \in {"newlock", "splitsrc"}
                              /\ grp[r] = grp[p] /\ other[r] = Home(i)
        BY <2>1, <3>5 DEF AccessOK
      <4>2. r = q
        BY <3>2, <4>1 DEF OneResizer, Resizer, Splitting
      <4> QED
        BY <4>1, <4>2
    <3>7. data[Home(i)] = Empty
      BY <3>2, <3>6 DEF ResizeOK, Splitting
    <3>8. h # Home(i)
      BY <2>2, <2>3, <3>7 DEF RecordsIn, Empty
    <3>9. PICK r \in Proc : Moving(r, h, Home(i))
      BY <2>3, <3>8 DEF RecordsAtHome
    <3>10. r = q /\ grp[r] = h
      BY <3>4, <3>9 DEF Moving
    <3> QED
      BY <2>3, <3>6, <3>10
  <2>4. ASSUME NEW g \in Group, NEW h \in Group, g # h, NEW id \in RecordsIn(g)', id \in RecordsIn(h)'
        PROVE  FALSE
    <3>0. id \in Id
      BY <2>4 DEF RecordsIn
    <3>1. CASE id # i
      BY <2>1, <2>4, <3>0, <3>1 DEF RecordsIn, RecordsOnce
    <3>2. CASE id = i
      <4>1. g = grp[p] \/ id \in RecordsIn(g)
        BY <2>1, <2>4, <3>0 DEF RecordsIn
      <4>2. h = grp[p] \/ id \in RecordsIn(h)
        BY <2>1, <2>4, <3>0 DEF RecordsIn
      <4> QED
        BY <2>3, <2>4, <3>2, <4>1, <4>2
    <3> QED
      BY <3>1, <3>2
  <2> QED
    BY <2>4 DEF RecordsOnce
<1>2. CASE SplitMove(p)
  <2> DEFINE s == grp[p]
  <2> DEFINE n == other[p]
  <2> DEFINE moved == {id \in RecordsIn(s) : Home(id) = n}
  <2>1. /\ pc[p] = "splitmove"
        /\ data' = [data EXCEPT
             ![s] = [id \in Id |-> IF id \in moved THEN None ELSE data[s][id]],
             ![n] = [id \in Id |-> IF id \in moved THEN data[s][id] ELSE None]]
    BY <1>2 DEF SplitMove
  <2>2. s \in Group /\ n \in Group /\ s # n
    BY <2>1 DEF ResizeOK, Splitting, Group
  <2>3. \A g \in Group : RecordsIn(g)' \subseteq
               IF g = n THEN moved ELSE IF g = s THEN RecordsIn(s) \ moved ELSE RecordsIn(g)
    BY <2>1, <2>2 DEF RecordsIn
  <2>4. moved \subseteq RecordsIn(s)
    OBVIOUS
  <2> HIDE DEF s, n, moved
  <2>5. ASSUME NEW g \in Group, NEW h \in Group, g # h,
               NEW id, id \in RecordsIn(g)', id \in RecordsIn(h)'
        PROVE  FALSE
    <3>1. id \in RecordsIn(g) \/ (g = n /\ id \in moved)
      BY <2>3, <2>5
    <3>2. id \in RecordsIn(h) \/ (h = n /\ id \in moved)
      BY <2>3, <2>5
    <3>3. CASE g = n
      <4>1. id \in moved /\ h # n
        BY <2>3, <2>5, <3>3
      <4>2. h # s /\ id \in RecordsIn(h)
        BY <2>3, <2>5, <4>1
      <4> QED
        BY <2>2, <2>4, <4>1, <4>2 DEF RecordsOnce
    <3>4. CASE h = n
      <4>1. id \in moved /\ g # n
        BY <2>3, <2>5, <3>4
      <4>2. g # s /\ id \in RecordsIn(g)
        BY <2>3, <2>5, <4>1
      <4> QED
        BY <2>2, <2>4, <4>1, <4>2 DEF RecordsOnce
    <3> QED
      BY <2>5, <3>1, <3>2, <3>3, <3>4 DEF RecordsOnce
  <2> QED
    BY <2>5 DEF RecordsOnce
<1>3. CASE MergeMove(p)
  <2> DEFINE s == grp[p]
  <2> DEFINE n == other[p]
  <2>1. /\ pc[p] = "mergemove"
        /\ data' = [data EXCEPT
             ![s] = Empty,
             ![n] = [id \in Id |-> IF id \in RecordsIn(s) THEN data[s][id] ELSE data[n][id]]]
    BY <1>3 DEF MergeMove, ResizeOK, Group
  <2>2. s \in Group /\ n \in Group /\ s # n
    BY <2>1 DEF ResizeOK, Group
  <2>3. \A g \in Group : RecordsIn(g)' \subseteq
               IF g = n THEN RecordsIn(s) \cup RecordsIn(n) ELSE IF g = s THEN {} ELSE RecordsIn(g)
    BY <2>1, <2>2 DEF RecordsIn, Empty
  <2> HIDE DEF s, n
  <2>4. ASSUME NEW g \in Group, NEW h \in Group, g # h,
               NEW id, id \in RecordsIn(g)', id \in RecordsIn(h)'
        PROVE  FALSE
    <3>1. g # s /\ h # s
      BY <2>2, <2>3, <2>4
    <3>2. id \in RecordsIn(g) \/ (g = n /\ id \in RecordsIn(s))
      BY <2>3, <2>4, <3>1
    <3>3. id \in RecordsIn(h) \/ (h = n /\ id \in RecordsIn(s))
      BY <2>3, <2>4, <3>1
    <3> QED
      BY <2>2, <2>4, <3>1, <3>2, <3>3 DEF RecordsOnce
  <2> QED
    BY <2>4 DEF RecordsOnce
<1>4. ASSUME NEW r \in Request, Call(p, r) PROVE RecordsOnce'
  BY <1>4 DEF Call, RecordsOnce, RecordsIn, params, locks, local
<1>5. CASE HashId(p) \/ LockGroup(p) \/ ReadRecord(p) \/ Account(p) \/
           CheckLoad(p) \/ Return(p)
  BY <1>5 DEF HashId, LockGroup, ReadRecord, Account, CheckLoad, Return,
     RecordsOnce, RecordsIn, params, locks, local
<1>6. CASE NoSplit(p) \/ SplitBegin(p) \/ SplitLockNew(p) \/
           SplitLockSource(p) \/ FreeOther(p) \/ ResizeEnd(p)
  BY <1>6 DEF NoSplit, SplitBegin, SplitLockNew, SplitLockSource, FreeOther,
     ResizeEnd, RecordsOnce, RecordsIn, params, locks, local
<1>7. CASE NoMerge(p) \/ MergeBegin(p) \/ MergeLockTarget(p) \/
           MergeLockSource(p)
  BY <1>7 DEF NoMerge, MergeBegin, MergeLockTarget, MergeLockSource,
     RecordsOnce, RecordsIn, params, locks, local
<1>8. CASE SelectBegin(p) \/ SelectGroup(p) \/ SelectLock(p) \/
           SelectRead(p) \/ SelectEnd(p) \/ SelectCheck(p) \/ SelectSave(p) \/
           SelectDone(p) \/ Select(p) \/ SelectMore(p) \/ SelectAll(p) \/
           EndSelect(p)
  BY <1>8 DEF SelectBegin, SelectGroup, SelectLock, SelectRead, SelectEnd,
     SelectCheck, SelectSave, SelectDone, Select, SelectMore, SelectAll,
     EndSelect, RecordsOnce, RecordsIn, params, locks, local
<1> QED
  BY <1>1, <1>2, <1>3, <1>4, <1>5, <1>6, <1>7, <1>8 DEF Step, Program

-----------------------------------------------------------------------------
(* The invariant *)

LEMMA InitIInv ==
  ASSUME Init
  PROVE  IInv
<1> USE DHFileAssumption
<1>1. NoSelect \in SelectList /\ NoSelect.next = 0
  BY SelectStarts DEF NoSelect
<1>2. ModulusOK
  BY DEF Init, ModulusOK, ParamsOK, PowerOfTwo
<1>3. TypeOK
  BY <1>1, <1>2 DEF Init, TypeOK, Group, PC, ModulusOK, ParamsOK, PowerOfTwo
<1>4. \A g \in Group : RecordsIn(g) = {}
  BY DEF Init, RecordsIn
<1>5. InhibitExact
  <2>1. {p \in Proc : Resizing(p)} = {} /\ {p \in Proc : sel[p].next # 0} = {}
    BY <1>1 DEF Init, Resizing
  <2>2. Cardinality({p \in Proc : Resizing(p)}) = 0
        /\ Cardinality({p \in Proc : sel[p].next # 0}) = 0
    BY <2>1, FS_EmptySet, Zenon
  <2>3. inhibit = 0
    BY DEF Init
  <2> QED
    BY <2>2, <2>3 DEF InhibitExact
<1>6. TableOK /\ WorkOK /\ OneResizer /\ ResizeOK /\ NewGroupFree
  BY DEF Init, TableOK, WorkOK, OneResizer, ResizeOK, NewGroupFree,
         Holding, Selecting, Resizer, Splitting
<1>7. LocksOK /\ AccessOK
  BY DEF Init, LocksOK, Writes, Reads, AccessOK
<1>8. RecordsAtHome /\ RecordsOnce
  BY <1>4 DEF RecordsAtHome, RecordsOnce
<1> QED
  BY <1>2, <1>3, <1>5, <1>6, <1>7, <1>8 DEF IInv

LEMMA NextIInv ==
  ASSUME IInv, [Next]_vars
  PROVE  IInv'
<1> USE DEF IInv
<1>1. TypeOK' /\ ModulusOK'
  BY TypeKept, ModulusKept
<1>2. TableOK' /\ WorkOK' /\ InhibitExact'
  BY TableKept, WorkKept, InhibitKept
<1>3. OneResizer' /\ ResizeOK' /\ NewGroupFree'
  BY OneResizerKept, ResizeKept, NewGroupKept
<1>4. LocksOK' /\ AccessOK'
  BY LocksKept, AccessKept
<1>5. RecordsAtHome' /\ RecordsOnce'
  BY AtHomeKept, OnceKept
<1> QED
  BY <1>1, <1>2, <1>3, <1>4, <1>5

LEMMA Invariance == Spec => []IInv
  BY InitIInv, NextIInv, PTL DEF Spec

\* dh_read(), dh_write(), dh_del(), dh_split() and dh_selct() keep every
\* variable within its type.
THEOREM FileTypeCorrect == Spec => []TypeOK
<1>1. IInv => TypeOK
  BY DEF IInv
<1> QED
  BY <1>1, Invariance, PTL

\* A record is always in the group that dh_read() looks into, or in the one
\* that a split or merge is about to take it from.
THEOREM AtHome == Spec => []RecordsAtHome
<1>1. IInv => RecordsAtHome
  BY DEF IInv
<1> QED
  BY <1>1, Invariance, PTL

\* dh_write(), dh_split() and dh_merge() never leave two copies of a record.
THEOREM StoredOnce == Spec => []RecordsOnce
<1>1. IInv => RecordsOnce
  BY DEF IInv
<1> QED
  BY <1>1, Invariance, PTL

\* inhibit_count is the number of splits, merges and selects in progress, so
\* that a file is never held off for ever by an operation that has ended.
THEOREM ExactInhibit == Spec => []InhibitExact
<1>1. IInv => InhibitExact
  BY DEF IInv
<1> QED
  BY <1>1, Invariance, PTL
-----------------------------------------------------------------------------
(* The load of a file without selects *)

\* Those who have stored a new record, or taken one away, and have not yet
\* adjusted the load.
Storing == {p \in Proc : pc[p] = "account" /\ op[p].kind = "write" /\ old[p] = None}
Deleting == {p \in Proc : pc[p] = "account" /\ op[p].kind = "delete" /\ old[p] # None}

NoSelects == \A p \in Proc : sel[p].next = 0 /\ pc[p] \notin Selecting \cup {"select"}

\* With all adjustments made the load would cover the records; where it is
\* cut off at zero it only becomes greater.
LoadOK == load + Cardinality(Storing) >= Cardinality(Stored) + Cardinality(Deleting)

LEMMA SelectsKept ==
  ASSUME "select" \notin Ops, TypeOK, WorkOK, NoSelects, [Next]_vars
  PROVE  NoSelects'
<1> SUFFICES ASSUME NEW p \in Proc, Step(p) \/ Program(p) PROVE NoSelects'
  BY DEF Next, vars, params, locks, local, NoSelects
<1> USE DHFileAssumption DEF TypeOK, At, Goto, NoSelects, Selecting
<1>1. CASE LockGroup(p)
  <2>1. sel' = [q \in Proc |-> IF op[p].kind = "read" THEN sel[q]
                  ELSE [sel[q] EXCEPT !.updated = @ \/ sel[q].next # 0]]
    BY <1>1 DEF LockGroup
  <2>2. \A q \in Proc : sel'[q].next = sel[q].next
    BY <2>1 DEF SelectList
  <2> QED
    BY <1>1, <2>2 DEF LockGroup
<1>2. CASE WriteRecord(p)
  BY <1>2 DEF WriteRecord
<1>3. ASSUME NEW r \in Request, Call(p, r) PROVE NoSelects'
  BY <1>3 DEF Call
<1>4. CASE HashId(p) \/ ReadRecord(p) \/ Account(p) \/ CheckLoad(p) \/ Return(p)
  BY <1>4 DEF HashId, ReadRecord, Account, CheckLoad, Return
<1>5. CASE NoSplit(p) \/ SplitBegin(p) \/ SplitLockNew(p) \/
           SplitLockSource(p) \/ SplitMove(p) \/ FreeOther(p) \/ ResizeEnd(p)
  BY <1>5 DEF NoSplit, SplitBegin, SplitLockNew, SplitLockSource, SplitMove,
     FreeOther, ResizeEnd
<1>6. CASE NoMerge(p) \/ MergeBegin(p) \/ MergeLockTarget(p) \/
           MergeLockSource(p) \/ MergeMove(p)
  BY <1>6 DEF NoMerge, MergeBegin, MergeLockTarget, MergeLockSource, MergeMove
<1>7. ~(SelectBegin(p) \/ SelectGroup(p) \/ SelectLock(p) \/ SelectRead(p) \/
        SelectEnd(p) \/ SelectCheck(p) \/ SelectSave(p) \/ SelectDone(p) \/
        Select(p) \/ SelectMore(p) \/ SelectAll(p) \/ EndSelect(p))
  BY DEF SelectBegin, SelectGroup, SelectLock, SelectRead, SelectEnd,
     SelectCheck, SelectSave, SelectDone, Select, SelectMore, SelectAll, EndSelect
<1> QED
  BY <1>1, <1>2, <1>3, <1>4, <1>5, <1>6, <1>7 DEF Step, Program

\* No more records, the same adjustments to come.
LEMMA LoadFrame ==
  ASSUME LoadOK, load \in Nat, load' = load,
         Storing' = Storing, Deleting' = Deleting, Stored' \subseteq Stored
  PROVE  LoadOK'
<1>1. Cardinality(Stored') \in Nat /\ Cardinality(Stored) \in Nat
      /\ Cardinality(Stored') <= Cardinality(Stored)
  <2>1. Stored \in SUBSET Id /\ IsFiniteSet(Stored)
    BY IdsFinite DEF Stored, RecordsIn
  <2> QED
    BY <2>1, FS_Subset, FS_CardinalityType
<1>2. Cardinality(Storing) \in Nat /\ Cardinality(Deleting) \in Nat
  BY ProcsFinite DEF Storing, Deleting
<1>3. Cardinality(Storing') = Cardinality(Storing)
      /\ Cardinality(Deleting') = Cardinality(Deleting)
  OBVIOUS
<1> QED
  BY <1>1, <1>2, <1>3 DEF LoadOK

LEMMA StoredFrame ==
  ASSUME \A g \in Group : \A id \in RecordsIn(g)' : \E h \in Group : id \in RecordsIn(h)
  PROVE  Stored' \subseteq Stored
  BY DEF Stored

LEMMA WriteLoad ==
  ASSUME TypeOK, WorkOK, RecordsOnce, LoadOK, NEW p \in Proc, WriteRecord(p),
         grp[p] \in Group
  PROVE  LoadOK'
<1> DEFINE i == op[p].id
<1> DEFINE g == grp[p]
<1>1. op[p] \in Request /\ op[p].kind \in {"write", "delete"} /\ i \in Id
      /\ (op[p].kind = "write" => op[p].val \in Val)
  BY DEF WriteRecord, WorkOK, At, Request
<1>2. /\ pc[p] = "access" /\ pc' = [pc EXCEPT ![p] = "account"]
      /\ op' = op /\ load' = load /\ old' = [old EXCEPT ![p] = data[g][i]]
      /\ data' = [data EXCEPT ![g][i] = IF op[p].kind = "write" THEN op[p].val ELSE None]
  BY DEF WriteRecord, At, Goto
<1>3. \A h \in Group : RecordsIn(h)' \subseteq
        IF h = g THEN (IF op[p].kind = "write" THEN RecordsIn(g) \cup {i} ELSE RecordsIn(g) \ {i})
        ELSE RecordsIn(h)
  BY <1>1, <1>2 DEF TypeOK, RecordsIn
<1>4. i \in RecordsIn(g) <=> data[g][i] # None
  BY <1>1 DEF RecordsIn
<1>5. p \notin Storing /\ p \notin Deleting
  BY <1>2 DEF Storing, Deleting
<1>6. /\ Storing \in SUBSET Proc /\ Deleting \in SUBSET Proc
      /\ Cardinality(Storing) \in Nat /\ Cardinality(Deleting) \in Nat
  BY ProcsFinite DEF Storing, Deleting
<1>7. /\ Stored \in SUBSET Id /\ IsFiniteSet(Stored) /\ Cardinality(Stored) \in Nat
      /\ Stored' \in SUBSET Id /\ IsFiniteSet(Stored') /\ Cardinality(Stored') \in Nat
  BY IdsFinite DEF Stored, RecordsIn
<1>8. /\ Storing' = IF op[p].kind = "write" /\ data[g][i] = None
                    THEN Storing \cup {p} ELSE Storing
      /\ Deleting' = IF op[p].kind = "delete" /\ data[g][i] # None
                     THEN Deleting \cup {p} ELSE Deleting
  BY <1>2, <1>5 DEF TypeOK, Storing, Deleting
<1>9. load \in Nat
  BY DEF TypeOK
<1>10. CASE op[p].kind = "write" /\ data[g][i] = None
  <2>1. Stored' \subseteq Stored \cup {i}
    BY <1>3, <1>10 DEF Stored
  <2>2. IsFiniteSet(Stored \cup {i}) /\ Cardinality(Stored \cup {i}) <= Cardinality(Stored) + 1
    <3>1. /\ IsFiniteSet(Stored \cup {i})
          /\ Cardinality(Stored \cup {i}) =
               IF i \in Stored THEN Cardinality(Stored) ELSE Cardinality(Stored) + 1
      BY <1>7, FS_AddElement
    <3> HIDE DEF i
    <3> QED
      BY <1>7, <3>1
  <2>3. Cardinality(Stored') <= Cardinality(Stored \cup {i})
    BY <2>1, <2>2, FS_Subset
  <2>4. Cardinality(Stored \cup {i}) \in Nat
    BY <2>2, FS_CardinalityType
  <2>5. Cardinality(Storing') = Cardinality(Storing) + 1 /\ Deleting' = Deleting
    BY <1>5, <1>6, <1>8, <1>10, OneMore
  <2> QED
    BY <1>2, <1>6, <1>7, <1>9, <2>2, <2>3, <2>4, <2>5 DEF LoadOK
<1>11. CASE op[p].kind = "delete" /\ data[g][i] # None
  <2>1. Stored' \subseteq Stored \ {i} /\ i \in Stored
    <3>1. \A h \in Group : h # g => i \notin RecordsIn(h)
      BY <1>4, <1>11 DEF RecordsOnce
    <3>2. \A h \in Group : RecordsIn(h)' \subseteq RecordsIn(h) \ {i}
      BY <1>3, <1>11, <3>1
    <3> QED
      BY <3>2, <1>4, <1>11 DEF Stored
  <2>2. IsFiniteSet(Stored \ {i}) /\ Cardinality(Stored \ {i}) = Cardinality(Stored) - 1
    BY <1>7, <2>1, FS_RemoveElement
  <2>3. Cardinality(Stored') <= Cardinality(Stored \ {i})
    BY <2>1, <2>2, FS_Subset
  <2>4. Cardinality(Deleting') = Cardinality(Deleting) + 1 /\ Storing' = Storing
    BY <1>5, <1>6, <1>8, <1>11, OneMore
  <2> QED
    BY <1>2, <1>6, <1>7, <1>9, <2>2, <2>3, <2>4 DEF LoadOK
<1>12. CASE \/ op[p].kind = "write" /\ data[g][i] # None
            \/ op[p].kind = "delete" /\ data[g][i] = None
  <2>1. \A h \in Group : RecordsIn(h)' \subseteq RecordsIn(h)
    BY <1>3, <1>4, <1>12
  <2>2. Stored' \subseteq Stored
    BY <2>1 DEF Stored
  <2>3. Storing' = Storing /\ Deleting' = Deleting
    BY <1>8, <1>12
  <2> QED
    BY <1>2, <1>9, <2>2, <2>3, LoadFrame
<1> QED
  BY <1>1, <1>10, <1>11, <1>12

LEMMA AccountLoad ==
  ASSUME TypeOK, WorkOK, LoadOK, NEW p \in Proc, Account(p)
  PROVE  LoadOK'
<1>1. /\ pc[p] = "account" /\ pc' = [pc EXCEPT ![p] = "check"]
      /\ op' = op /\ old' = old /\ data' = data
  BY DEF Account, At, Goto, local
<1>2. Stored' = Stored
  BY <1>1 DEF Stored, RecordsIn
<1>3. /\ Storing \in SUBSET Proc /\ Deleting \in SUBSET Proc
      /\ Storing' \in SUBSET Proc /\ Deleting' \in SUBSET Proc
      /\ Cardinality(Storing) \in Nat /\ Cardinality(Deleting) \in Nat
      /\ Cardinality(Storing') \in Nat /\ Cardinality(Deleting') \in Nat
  BY ProcsFinite DEF Storing, Deleting
<1>4. Storing' = Storing \ {p} /\ Deleting' = Deleting \ {p}
  BY <1>1 DEF TypeOK, Storing, Deleting
<1>5. load \in Nat /\ Cardinality(Stored) \in Nat
  BY IdsFinite DEF TypeOK, Stored, RecordsIn
<1>6. CASE p \in Storing
  <2>1. load' = load + 1 /\ p \notin Deleting
    BY <1>6 DEF Storing, Deleting, Account
  <2>2. Storing = Storing' \cup {p} /\ p \notin Storing' /\ Deleting' = Deleting
    BY <1>4, <1>6, <2>1
  <2>3. Cardinality(Storing) = Cardinality(Storing') + 1
    BY <1>3, <2>2, OneMore
  <2> QED
    BY <1>2, <1>3, <1>5, <2>1, <2>2, <2>3 DEF LoadOK
<1>7. CASE p \in Deleting
  <2>1. load' >= load - 1 /\ load' \in Nat /\ p \notin Storing
    BY <1>5, <1>7 DEF Storing, Deleting, Account
  <2>2. Deleting = Deleting' \cup {p} /\ p \notin Deleting' /\ Storing' = Storing
    BY <1>4, <1>7, <2>1
  <2>3. Cardinality(Deleting) = Cardinality(Deleting') + 1
    BY <1>3, <2>2, OneMore
  <2> QED
    BY <1>2, <1>3, <1>5, <2>1, <2>2, <2>3 DEF LoadOK
<1>8. CASE p \notin Storing /\ p \notin Deleting
  <2>1. load' = load
    BY <1>1, <1>8 DEF Account, Storing, Deleting
  <2>2. Storing' = Storing /\ Deleting' = Deleting
    BY <1>4, <1>8
  <2> QED
    BY <1>2, <1>5, <2>1, <2>2, LoadFrame
<1> QED
  BY <1>6, <1>7, <1>8

LEMMA LoadKept ==
  ASSUME IInv, NoSelects, LoadOK, [Next]_vars
  PROVE  LoadOK'
<1> USE DEF IInv
<1>0. load \in Nat
  BY DEF TypeOK
<1>1. CASE UNCHANGED vars
  <2>1. Storing' = Storing /\ Deleting' = Deleting /\ Stored' = Stored /\ load' = load
    BY <1>1 DEF vars, local, Storing, Deleting, Stored, RecordsIn
  <2> QED
    BY <1>0, <2>1, LoadFrame
<1> SUFFICES ASSUME NEW p \in Proc, Step(p) \/ Program(p) PROVE LoadOK'
  BY <1>1 DEF Next
<1>2. CASE WriteRecord(p)
  <2>1. grp[p] \in Group
    BY <1>2, AccessGroup DEF WriteRecord, At, TypeOK, ParamTypes
  <2> QED
    BY <1>2, <2>1, WriteLoad
<1>3. CASE Account(p)
  BY <1>3, AccountLoad
<1>4. ASSUME pc[p] # "account", \A q \in Proc : q # p => pc'[q] = pc[q], pc'[p] # "account",
             \A q \in Proc : q # p => op'[q] = op[q] /\ old'[q] = old[q],
             load' = load, Stored' \subseteq Stored
      PROVE  LoadOK'
  <2>1. Storing' = Storing /\ Deleting' = Deleting
    BY <1>4 DEF Storing, Deleting
  <2> QED
    BY <1>0, <1>4, <2>1, LoadFrame
<1>5. data' = data => Stored' \subseteq Stored
  BY DEF Stored, RecordsIn
<1> USE DEF TypeOK, At, Goto
<1>6. CASE SplitMove(p)
  <2> DEFINE s == grp[p]
  <2> DEFINE n == other[p]
  <2> DEFINE moved == {id \in RecordsIn(s) : Home(id) = n}
  <2>1. /\ pc[p] = "splitmove"
        /\ data' = [data EXCEPT
             ![s] = [id \in Id |-> IF id \in moved THEN None ELSE data[s][id]],
             ![n] = [id \in Id |-> IF id \in moved THEN data[s][id] ELSE None]]
    BY <1>6 DEF SplitMove
  <2>2. s \in Group /\ n \in Group /\ s # n
    BY <2>1 DEF ResizeOK, Splitting, Group
  <2>3. \A g \in Group : RecordsIn(g)' \subseteq RecordsIn(g) \cup RecordsIn(s)
    BY <2>1, <2>2 DEF RecordsIn
  <2>4. Stored' \subseteq Stored
    BY <2>2, <2>3, StoredFrame
  <2> QED
    BY <1>4, <1>6, <2>4 DEF SplitMove, local
<1>7. CASE MergeMove(p)
  <2> DEFINE s == grp[p]
  <2> DEFINE n == other[p]
  <2>1. /\ pc[p] = "mergemove"
        /\ data' = [data EXCEPT
             ![s] = Empty,
             ![n] = [id \in Id |-> IF id \in RecordsIn(s) THEN data[s][id] ELSE data[n][id]]]
    BY <1>7 DEF MergeMove, ResizeOK, Group
  <2>2. s \in Group /\ n \in Group /\ s # n
    BY <2>1 DEF ResizeOK, Group
  <2>3. \A g \in Group : RecordsIn(g)' \subseteq RecordsIn(g) \cup RecordsIn(s)
    BY <2>1, <2>2 DEF RecordsIn, Empty
  <2>4. Stored' \subseteq Stored
    BY <2>2, <2>3, StoredFrame
  <2> QED
    BY <1>4, <1>7, <2>4 DEF MergeMove, local
<1>8. ASSUME NEW r \in Request, Call(p, r) PROVE LoadOK'
  BY <1>4, <1>5, <1>8 DEF Call
<1>9. CASE HashId(p) \/ LockGroup(p) \/ ReadRecord(p)
  BY <1>4, <1>5, <1>9 DEF HashId, LockGroup, ReadRecord, local
<1>10. CASE CheckLoad(p) \/ Return(p)
  BY <1>4, <1>5, <1>10 DEF CheckLoad, Return, local
<1>11. CASE NoSplit(p) \/ SplitBegin(p) \/ SplitLockNew(p) \/
           SplitLockSource(p) \/ FreeOther(p) \/ ResizeEnd(p)
  BY <1>4, <1>5, <1>11 DEF NoSplit, SplitBegin, SplitLockNew, SplitLockSource,
     FreeOther, ResizeEnd, local
<1>12. CASE NoMerge(p) \/ MergeBegin(p) \/ MergeLockTarget(p) \/ MergeLockSource(p)
  BY <1>4, <1>5, <1>12 DEF NoMerge, MergeBegin, MergeLockTarget, MergeLockSource, local
<1>13. CASE Select(p)
  BY <1>4, <1>5, <1>13 DEF Select, local
<1>14. ~(SelectBegin(p) \/ SelectGroup(p) \/ SelectLock(p) \/ SelectRead(p) \/
         SelectEnd(p) \/ SelectCheck(p) \/ SelectSave(p) \/ SelectDone(p) \/
         SelectMore(p) \/ SelectAll(p) \/ EndSelect(p))
  BY DEF NoSelects, Selecting, SelectBegin, SelectGroup, SelectLock, SelectRead, SelectEnd,
     SelectCheck, SelectSave, SelectDone, SelectMore, SelectAll, EndSelect
<1> QED
  BY <1>2, <1>3, <1>6, <1>7, <1>8, <1>9, <1>10, <1>11, <1>12, <1>13, <1>14 DEF Step, Program

LEMMA InitLoad ==
  ASSUME Init
  PROVE  NoSelects /\ LoadOK
<1>1. NoSelects
  BY DEF Init, NoSelects, NoSelect, Selecting
<1>2. Storing = {} /\ Deleting = {} /\ Stored = {}
  BY DEF Init, Storing, Deleting, Stored, RecordsIn
<1>3. Cardinality(Storing) = 0 /\ Cardinality(Deleting) = 0 /\ Cardinality(Stored) = 0
  BY <1>2, FS_EmptySet, Zenon
<1>4. load = 0
  BY DEF Init
<1> QED
  BY <1>1, <1>3, <1>4 DEF LoadOK

\* When no write or delete is under way the load is not less than the records
\* in the file, though Account comes late, in any order, and cuts off at zero:
\* a file that is too full is seen to be so.  A select would correct it.
THEOREM LoadCovered ==
  ASSUME "select" \notin Ops
  PROVE  Spec => []LoadCovers
<1>1. Init => NoSelects /\ LoadOK
  BY InitLoad
<1>2. IInv /\ NoSelects /\ LoadOK /\ [Next]_vars => NoSelects' /\ LoadOK'
  BY SelectsKept, LoadKept DEF IInv
<1>3. IInv /\ LoadOK => LoadCovers
  <2> SUFFICES ASSUME IInv, LoadOK, \A p \in Proc : At(p, "idle")
               PROVE  load >= Cardinality(Stored)
    BY DEF LoadCovers
  <2>1. Storing = {} /\ Deleting = {}
    BY DEF Storing, Deleting, At
  <2>2. Cardinality(Storing) = 0 /\ Cardinality(Deleting) = 0
    BY <2>1, FS_EmptySet, Zenon
  <2>3. load \in Nat /\ Cardinality(Stored) \in Nat
    BY IdsFinite DEF IInv, TypeOK, Stored, RecordsIn
  <2> QED
    BY <2>2, <2>3 DEF LoadOK
<1> QED
  BY <1>1, <1>2, <1>3, Invariance, PTL DEF Spec
-----------------------------------------------------------------------------
(* What a select lists *)

\* The select of s has been through group g.
Passed(s, g) ==
  g < sel[s].next /\ ~(pc[s] \in {"sellock", "selread"} /\ grp[s] = g)

\* No split or merge is begun during a select.
HeldOff == \A s, q \in Proc :
  sel[s].next # 0 => pc[q] \notin {"newlock", "mergetgt", "mergesrc"}

\* A select goes through the groups in order.
CursorOK == \A s \in Proc : sel[s].next # 0 =>
  /\ sel[s].next <= modulus + 1
  /\ pc[s] \in {"sellock", "selread"} => sel[s].next = grp[s] + 1 /\ grp[s] >= 1

\* What a split or merge is about to change has not been read yet, except that
\* a select may read the source of a split that was still to be locked.
UnreadOK == \A s, q \in Proc : sel[s].next # 0 =>
  /\ pc[q] \in {"splitsrc", "splitmove", "mergemove"} => ~Passed(s, other[q])
  /\ pc[q] = "splitsrc" => sel[s].splitting
  /\ pc[q] = "splitmove" /\ ~sel[s].splitting => ~Passed(s, grp[q])

\* Records that nobody has changed are listed where the select has passed.
ListOK == \A s \in Proc : sel[s].next # 0 =>
  \A id \in Id \ sel[s].touched :
    /\ id \notin Stored => sel[s].list[id] = 0
    /\ \A g \in Group : id \in RecordsIn(g) =>
         IF Passed(s, g)
         THEN sel[s].list[id] >= 1 /\ (~sel[s].splitting => sel[s].list[id] = 1)
         ELSE ~sel[s].splitting => sel[s].list[id] = 0

SelectInv == HeldOff /\ CursorOK /\ UnreadOK /\ ListOK

\* The operations of dh_selct.c and all others.
SelectStep(p) ==
  \/ Select(p) \/ SelectBegin(p) \/ SelectMore(p) \/ SelectAll(p)
  \/ SelectGroup(p) \/ SelectLock(p) \/ SelectRead(p) \/ SelectEnd(p)
  \/ SelectCheck(p) \/ SelectSave(p) \/ SelectDone(p) \/ EndSelect(p)
WorkStep(p) ==
  \/ \E r \in Request : Call(p, r)
  \/ HashId(p) \/ LockGroup(p) \/ ReadRecord(p) \/ WriteRecord(p)
  \/ Account(p) \/ CheckLoad(p) \/ Return(p)
  \/ NoSplit(p) \/ SplitBegin(p) \/ SplitLockNew(p) \/ SplitLockSource(p)
  \/ SplitMove(p) \/ FreeOther(p) \/ ResizeEnd(p)
  \/ NoMerge(p) \/ MergeBegin(p) \/ MergeLockTarget(p) \/ MergeLockSource(p)
  \/ MergeMove(p)

\* The select list of s stays as it is; further records may be touched.
SameList(s) ==
  /\ sel'[s].next = sel[s].next /\ sel'[s].list = sel[s].list
  /\ sel'[s].splitting = sel[s].splitting /\ sel[s].touched \subseteq sel'[s].touched

LEMMA WorkLists ==
  ASSUME TypeOK, NEW p \in Proc, WorkStep(p), NEW s \in Proc
  PROVE  SameList(s)
<1>1. CASE sel' = sel
  BY <1>1 DEF SameList
<1>2. CASE LockGroup(p) /\ sel' # sel
  <2>1. sel' = [q \in Proc |-> [sel[q] EXCEPT !.updated = @ \/ sel[q].next # 0]]
    BY <1>2 DEF LockGroup
  <2>2. sel[s] \in SelectList
    BY DEF TypeOK
  <2> QED
    BY <2>1, <2>2 DEF SelectList, SameList
<1>3. CASE WriteRecord(p)
  <2>1. sel' = [q \in Proc |-> IF sel[q].next = 0 THEN sel[q]
                  ELSE [sel[q] EXCEPT !.touched = @ \cup {op[p].id}]]
    BY <1>3 DEF WriteRecord
  <2>2. sel[s] \in SelectList
    BY DEF TypeOK
  <2> QED
    BY <2>1, <2>2 DEF SelectList, SameList
<1>4. WorkStep(p) /\ ~LockGroup(p) /\ ~WriteRecord(p) => sel' = sel
  BY DEF WorkStep, Call, HashId, ReadRecord, Account, CheckLoad, Return, NoSplit,
     SplitBegin, SplitLockNew, SplitLockSource, SplitMove, FreeOther, ResizeEnd,
     NoMerge, MergeBegin, MergeLockTarget, MergeLockSource, MergeMove
<1> QED
  BY <1>1, <1>2, <1>3, <1>4

LEMMA WorkPlaces ==
  ASSUME TypeOK, NEW p \in Proc, WorkStep(p)
  PROVE  /\ \A q \in Proc : q # p => pc'[q] = pc[q] /\ grp'[q] = grp[q] /\ other'[q] = other[q]
         /\ pc[p] \notin {"sellock", "selread"} /\ pc'[p] \notin {"sellock", "selread"}
<1> USE DEF TypeOK, At, Goto, local
<1>1. CASE \E r \in Request : Call(p, r)
  BY <1>1 DEF Call
<1>2. CASE HashId(p) \/ LockGroup(p) \/ ReadRecord(p) \/ WriteRecord(p) \/
           Account(p) \/ CheckLoad(p) \/ Return(p)
  BY <1>2 DEF HashId, LockGroup, ReadRecord, WriteRecord, Account, CheckLoad, Return
<1>3. CASE NoSplit(p) \/ SplitBegin(p) \/ SplitLockNew(p) \/ SplitLockSource(p) \/
           SplitMove(p) \/ FreeOther(p) \/ ResizeEnd(p)
  BY <1>3 DEF NoSplit, SplitBegin, SplitLockNew, SplitLockSource, SplitMove, FreeOther,
     ResizeEnd
<1>4. CASE NoMerge(p) \/ MergeBegin(p) \/ MergeLockTarget(p) \/ MergeLockSource(p) \/
           MergeMove(p)
  BY <1>4 DEF NoMerge, MergeBegin, MergeLockTarget, MergeLockSource, MergeMove
<1> QED
  BY <1>1, <1>2, <1>3, <1>4 DEF WorkStep

LEMMA WorkPassed ==
  ASSUME TypeOK, NEW p \in Proc, WorkStep(p), NEW s \in Proc, NEW g
  PROVE  Passed(s, g)' <=> Passed(s, g)
  BY WorkLists, WorkPlaces DEF Passed, SameList

\* With HeldOff the modulus does not change during a select.
LEMMA WorkModulus ==
  ASSUME IInv, HeldOff, NEW p \in Proc, WorkStep(p), NEW s \in Proc, sel[s].next # 0
  PROVE  /\ modulus' = modulus
         /\ ~(SplitBegin(p) \/ SplitLockNew(p) \/ MergeBegin(p) \/ MergeLockTarget(p)
              \/ MergeLockSource(p))
<1>1. ~(SplitBegin(p) \/ MergeBegin(p))
  BY NobodyBusy DEF IInv, SplitBegin, MergeBegin, TakeTable
<1>2. ~(SplitLockNew(p) \/ MergeLockTarget(p) \/ MergeLockSource(p))
  BY DEF HeldOff, SplitLockNew, MergeLockTarget, MergeLockSource, At
<1>3. CASE \E r \in Request : Call(p, r)
  BY <1>1, <1>2, <1>3 DEF Call, params
<1>4. CASE HashId(p) \/ LockGroup(p) \/ ReadRecord(p) \/ WriteRecord(p) \/
           Account(p) \/ CheckLoad(p) \/ Return(p) \/ NoSplit(p) \/
           SplitLockSource(p) \/ SplitMove(p) \/ FreeOther(p) \/ ResizeEnd(p) \/
           NoMerge(p) \/ MergeMove(p)
  BY <1>1, <1>2, <1>4 DEF HashId, LockGroup, ReadRecord, WriteRecord, Account, CheckLoad,
     Return, NoSplit, SplitLockSource, SplitMove, FreeOther, ResizeEnd, NoMerge, MergeMove,
     params
<1> QED
  BY <1>1, <1>2, <1>3, <1>4 DEF WorkStep

\* A step of a select leaves the file, and everybody else, alone.
LEMMA SelectFrame ==
  ASSUME TypeOK, NEW p \in Proc, SelectStep(p)
  PROVE  /\ UNCHANGED <<modulus, modValue, data, other>>
         /\ \A q \in Proc : q # p => pc'[q] = pc[q] /\ grp'[q] = grp[q] /\ sel'[q] = sel[q]
         /\ pc[p] \in Selecting \cup {"idle", "select"}
         /\ pc'[p] \in Selecting \cup {"idle", "select"}
<1> USE DEF TypeOK, At, Goto, local, params, Selecting
<1>1. CASE Select(p) \/ SelectBegin(p) \/ SelectMore(p) \/ SelectAll(p) \/ SelectGroup(p)
  BY <1>1 DEF Select, SelectBegin, SelectMore, SelectAll, SelectGroup
<1>2. CASE SelectLock(p) \/ SelectRead(p) \/ SelectEnd(p)
  BY <1>2 DEF SelectLock, SelectRead, SelectEnd
<1>3. CASE SelectCheck(p) \/ SelectSave(p) \/ SelectDone(p) \/ EndSelect(p)
  BY <1>3 DEF SelectCheck, SelectSave, SelectDone, EndSelect
<1> QED
  BY <1>1, <1>2, <1>3 DEF SelectStep

\* A process with a select: it begins, reads a group, or has been through the
\* same groups as before, with the same list.
LEMMA SelectOwn ==
  ASSUME IInv, CursorOK, NEW p \in Proc, SelectStep(p), sel'[p].next # 0
  PROVE  \/ SelectBegin(p)
         \/ SelectRead(p)
         \/ /\ sel[p].next # 0 /\ sel'[p].next <= modulus + 1
            /\ sel'[p].list = sel[p].list /\ sel'[p].splitting = sel[p].splitting
            /\ sel'[p].touched = sel[p].touched
            /\ \A g \in Nat : Passed(p, g)' <=> Passed(p, g)
            /\ pc'[p] \in {"sellock", "selread"} =>
                 sel'[p].next = grp'[p] + 1 /\ grp'[p] >= 1
<1> USE DEF TypeOK, At, Goto, local, params, IInv
<1>0. /\ sel[p] \in SelectList /\ modulus \in Nat /\ grp[p] \in Nat /\ sel[p].next \in Nat
      /\ sel[p].next # 0 => sel[p].next <= modulus + 1
      /\ sel[p].next # 0 /\ pc[p] \in {"sellock", "selread"} =>
           sel[p].next = grp[p] + 1 /\ grp[p] >= 1
  BY DHFileAssumption DEF Group, SelectList, CursorOK
<1>1. NoSelect.next = 0
  BY DEF NoSelect
<1>2. CASE Select(p) \/ SelectMore(p)
  BY <1>0, <1>2 DEF Select, SelectMore, Passed
<1>3. CASE SelectAll(p)
  <2>1. sel'[p] = [sel[p] EXCEPT !.all = TRUE] /\ grp' = grp /\ pc[p] = "idle" /\ pc'[p] = "selgroup"
    BY <1>3 DEF SelectAll
  <2>2. /\ sel'[p].next = sel[p].next /\ sel'[p].list = sel[p].list
        /\ sel'[p].splitting = sel[p].splitting /\ sel'[p].touched = sel[p].touched
    BY <1>0, <2>1 DEF SelectList
  <2> QED
    BY <1>0, <1>3, <2>1, <2>2 DEF SelectAll, Passed
<1>4. CASE SelectGroup(p)
  <2>1. /\ sel'[p] = [sel[p] EXCEPT !.next = @ + 1] /\ grp'[p] = sel[p].next
        /\ pc[p] = "selgroup" /\ pc'[p] = "sellock" /\ sel[p].next <= modulus
        /\ sel[p].next # 0
    BY <1>4 DEF SelectGroup, WorkOK, Selecting
  <2>2. /\ sel'[p].next = sel[p].next + 1 /\ sel'[p].list = sel[p].list
        /\ sel'[p].splitting = sel[p].splitting /\ sel'[p].touched = sel[p].touched
    BY <1>0, <2>1 DEF SelectList
  <2>3. ASSUME NEW g \in Nat PROVE Passed(p, g)' <=> Passed(p, g)
    <3>1. Passed(p, g) <=> g < sel[p].next
      BY <2>1 DEF Passed
    <3>2. Passed(p, g)' <=> g < sel[p].next + 1 /\ g # sel[p].next
      BY <2>1, <2>2 DEF Passed
    <3> QED
      BY <1>0, <3>1, <3>2
  <2>4. sel[p].next + 1 <= modulus + 1 /\ sel'[p].next = grp'[p] + 1 /\ grp'[p] >= 1
    BY <1>0, <2>1, <2>2
  <2> QED
    BY <2>1, <2>2, <2>3, <2>4
<1>5. CASE SelectLock(p)
  BY <1>0, <1>5 DEF SelectLock, Passed, WorkOK, Selecting
<1>6. CASE SelectCheck(p) \/ SelectSave(p)
  BY <1>0, <1>6 DEF SelectCheck, SelectSave, Passed, WorkOK, Selecting
<1>7. CASE SelectEnd(p) \/ SelectDone(p) \/ EndSelect(p)
  BY <1>1, <1>7 DEF SelectEnd, SelectDone, EndSelect
<1> QED
  BY <1>2, <1>3, <1>4, <1>5, <1>6, <1>7 DEF SelectStep
\* What a select begins with, and what reading a group adds.
LEMMA SelectNew ==
  ASSUME TypeOK, NEW p \in Proc, SelectBegin(p)
  PROVE  /\ sel'[p].next = 1 /\ sel'[p].list = [i \in Id |-> 0]
         /\ sel'[p].splitting = (\E q \in Proc : pc[q] = "splitsrc")
         /\ pc'[p] = "selgroup" /\ ftl = None
<1> DEFINE b == \E q \in Proc : At(q, "splitsrc")
<1>1. sel'[p] = [NoSelect EXCEPT !.next = 1, !.splitting = b]
  BY DEF SelectBegin, TypeOK
<1> HIDE DEF b
<1>2. /\ sel'[p].next = 1 /\ sel'[p].list = [i \in Id |-> 0] /\ sel'[p].splitting = b
  BY <1>1 DEF NoSelect
<1> QED
  BY <1>2 DEF b, SelectBegin, WithTable, TypeOK, At, Goto

LEMMA SelectAdds ==
  ASSUME IInv, CursorOK, NEW p \in Proc, SelectRead(p)
  PROVE  /\ sel[p].next # 0 /\ pc[p] = "selread" /\ pc'[p] \in {"selgroup", "idle"}
         /\ sel'[p].next = sel[p].next /\ sel'[p].splitting = sel[p].splitting
         /\ sel'[p].touched = sel[p].touched
         /\ sel'[p].list = [id \in Id |-> IF id \in RecordsIn(grp[p])
                              THEN sel[p].list[id] + 1 ELSE sel[p].list[id]]
         /\ grp[p] \in Nat /\ ~Passed(p, grp[p])
         /\ \A g \in Nat : Passed(p, g)' <=> Passed(p, g) \/ g = grp[p]
<1> DEFINE F == RecordsIn(grp[p])
<1>1. /\ pc[p] = "selread" /\ pc'[p] \in {"selgroup", "idle"}
      /\ sel'[p] = Listed(sel[p], F) /\ sel[p] \in SelectList
  BY DEF SelectRead, At, Goto, IInv, TypeOK
<1>2. sel[p].next # 0 /\ sel[p].next = grp[p] + 1
  BY <1>1 DEF IInv, WorkOK, Selecting, CursorOK
<1> HIDE DEF F
<1>3. /\ sel'[p].next = sel[p].next /\ sel'[p].splitting = sel[p].splitting
      /\ sel'[p].touched = sel[p].touched
      /\ sel'[p].list = [id \in Id |-> IF id \in F
                              THEN sel[p].list[id] + 1 ELSE sel[p].list[id]]
  BY <1>1 DEF Listed, SelectList
<1>4. grp[p] \in Nat /\ ~Passed(p, grp[p])
  BY <1>1 DEF IInv, TypeOK, Passed
<1>5. ASSUME NEW g \in Nat PROVE Passed(p, g)' <=> Passed(p, g) \/ g = grp[p]
  <2>1. Passed(p, g)' <=> g < sel[p].next
    BY <1>1, <1>3 DEF Passed
  <2>2. Passed(p, g) <=> g < sel[p].next /\ g # grp[p]
    BY <1>1 DEF Passed
  <2> QED
    BY <1>2, <1>4, <2>1, <2>2
<1> QED
  BY <1>1, <1>2, <1>3, <1>4, <1>5 DEF F

LEMMA StepKinds ==
  ASSUME [Next]_vars
  PROVE  (UNCHANGED vars) \/ (\E p \in Proc : WorkStep(p) \/ SelectStep(p))
  BY DEF Next, Step, Program, WorkStep, SelectStep

\* How a split or merge gets to its next step.
LEMMA ResizeComes ==
  ASSUME IInv, HeldOff, NEW p \in Proc, WorkStep(p), NEW s \in Proc, sel[s].next # 0,
         pc'[p] \in {"newlock", "splitsrc", "splitmove", "mergetgt", "mergesrc", "mergemove"}
  PROVE  /\ pc[p] = "splitsrc" /\ pc'[p] = "splitmove"
         /\ other' = other /\ grp' = grp
<1> USE DEF At, Goto, IInv, TypeOK, local
<1>1. CASE \E r \in Request : Call(p, r)
  BY <1>1 DEF Call
<1>2. CASE HashId(p) \/ LockGroup(p) \/ ReadRecord(p) \/ WriteRecord(p) \/
           Account(p) \/ CheckLoad(p) \/ Return(p)
  BY <1>2 DEF HashId, LockGroup, ReadRecord, WriteRecord, Account, CheckLoad, Return
<1>3. CASE NoSplit(p) \/ SplitMove(p) \/ FreeOther(p) \/ ResizeEnd(p) \/ NoMerge(p) \/
           MergeMove(p)
  BY <1>3 DEF NoSplit, SplitMove, FreeOther, ResizeEnd, NoMerge, MergeMove
<1>4. CASE SplitLockSource(p)
  BY <1>4 DEF SplitLockSource
<1> QED
  BY <1>1, <1>2, <1>3, <1>4, WorkModulus DEF WorkStep

LEMMA HeldOffKept ==
  ASSUME IInv, CursorOK, HeldOff, [Next]_vars
  PROVE  HeldOff'
<1> SUFFICES ASSUME NEW p \in Proc, WorkStep(p) \/ SelectStep(p),
                    NEW s \in Proc, NEW q \in Proc, sel'[s].next # 0
             PROVE  pc'[q] \notin {"newlock", "mergetgt", "mergesrc"}
  BY StepKinds DEF HeldOff, vars
<1> USE DEF IInv
<1>1. CASE WorkStep(p)
  <2>1. sel[s].next # 0
    BY <1>1, WorkLists DEF SameList
  <2>2. CASE q = p
    BY <1>1, <2>1, <2>2, ResizeComes
  <2>3. CASE q # p
    BY <1>1, <2>1, <2>3, WorkPlaces DEF HeldOff
  <2> QED
    BY <2>2, <2>3
<1>2. CASE SelectStep(p)
  <2>1. q = p => pc'[q] \notin {"newlock", "mergetgt", "mergesrc"}
    BY <1>2, SelectFrame DEF Selecting
  <2>2. CASE q # p /\ sel[s].next # 0
    BY <1>2, <2>2, SelectFrame DEF HeldOff
  <2>3. CASE q # p /\ sel[s].next = 0
    <3>1. s = p
      BY <1>2, <2>3, SelectFrame
    <3>2. SelectBegin(p)
      BY <1>2, <2>3, <3>1, SelectOwn, SelectAdds
    <3>3. pc[q] \notin Holding
      BY <3>2, SelectNew, DHFileAssumption DEF TableOK
    <3> QED
      BY <1>2, <2>3, <3>3, SelectFrame DEF Holding
  <2> QED
    BY <2>1, <2>2, <2>3
<1> QED
  BY <1>1, <1>2

LEMMA CursorKept ==
  ASSUME IInv, CursorOK, HeldOff, [Next]_vars
  PROVE  CursorOK'
<1> SUFFICES ASSUME NEW p \in Proc, WorkStep(p) \/ SelectStep(p),
                    NEW s \in Proc, sel'[s].next # 0
             PROVE  /\ sel'[s].next <= modulus' + 1
                    /\ pc'[s] \in {"sellock", "selread"} =>
                         sel'[s].next = grp'[s] + 1 /\ grp'[s] >= 1
  BY StepKinds DEF CursorOK, vars, params, local
<1> USE DEF IInv
<1>0. modulus \in Nat /\ modulus >= 1
  BY DEF TypeOK, Group
<1>1. CASE WorkStep(p)
  <2>1. sel[s].next # 0 /\ sel'[s].next = sel[s].next
    BY <1>1, WorkLists DEF SameList
  <2>2. modulus' = modulus
    BY <1>1, <2>1, WorkModulus
  <2>3. pc'[s] \in {"sellock", "selread"} => s # p
    BY <1>1, WorkPlaces
  <2> QED
    BY <1>1, <2>1, <2>2, <2>3, WorkPlaces DEF CursorOK
<1>2. CASE SelectStep(p)
  <2>1. modulus' = modulus
    BY <1>2, SelectFrame
  <2>2. CASE s # p
    <3>1. sel'[s] = sel[s] /\ pc'[s] = pc[s] /\ grp'[s] = grp[s]
      BY <1>2, <2>2, SelectFrame
    <3> QED
      BY <2>1, <3>1 DEF CursorOK
  <2>3. CASE s = p /\ SelectBegin(p)
    <3>1. sel'[s].next = 1 /\ pc'[s] = "selgroup"
      BY <2>3, SelectNew
    <3> QED
      BY <1>0, <2>1, <3>1
  <2>4. CASE s = p /\ SelectRead(p)
    <3>1. sel[s].next # 0 /\ sel'[s].next = sel[s].next /\ pc'[s] \in {"selgroup", "idle"}
      BY <2>4, SelectAdds
    <3> QED
      BY <2>1, <3>1 DEF CursorOK
  <2> QED
    BY <1>2, <2>1, <2>2, <2>3, <2>4, SelectOwn
<1> QED
  BY <1>1, <1>2

LEMMA UnreadKept ==
  ASSUME IInv, CursorOK, HeldOff, UnreadOK, [Next]_vars
  PROVE  UnreadOK'
<1> DEFINE Ok(s, q) ==
      /\ pc[q] \in {"splitsrc", "splitmove", "mergemove"} => ~Passed(s, other[q])
      /\ pc[q] = "splitsrc" => sel[s].splitting
      /\ pc[q] = "splitmove" /\ ~sel[s].splitting => ~Passed(s, grp[q])
<1> SUFFICES ASSUME NEW p \in Proc, WorkStep(p) \/ SelectStep(p),
                    NEW s \in Proc, NEW q \in Proc, sel'[s].next # 0
             PROVE  Ok(s, q)'
  BY StepKinds DEF UnreadOK, vars, local, Passed
<1> USE DEF IInv
<1>0. sel[s].next # 0 => Ok(s, q)
  BY DEF UnreadOK
<1>1. CASE WorkStep(p)
  <2>1. sel[s].next # 0 /\ sel'[s].splitting = sel[s].splitting
    BY <1>1, WorkLists DEF SameList
  <2>2. \A g : Passed(s, g)' <=> Passed(s, g)
    BY <1>1, WorkPassed
  <2>3. CASE q # p
    BY <1>0, <1>1, <2>1, <2>2, <2>3, WorkPlaces
  <2>4. CASE q = p /\ pc'[p] \in {"splitsrc", "splitmove", "mergemove"}
    BY <1>0, <1>1, <2>1, <2>2, <2>4, ResizeComes
  <2> QED
    BY <2>3, <2>4
<1>2. CASE SelectStep(p)
  <2>1. CASE pc'[q] \notin {"splitsrc", "splitmove", "mergemove"}
    BY <2>1
  <2>2. CASE pc'[q] \in {"splitsrc", "splitmove", "mergemove"}
    <3>1. q # p /\ pc'[q] = pc[q] /\ other'[q] = other[q] /\ grp'[q] = grp[q]
      BY <1>2, <2>2, SelectFrame DEF Selecting
    <3>2. /\ other[q] \in Group /\ other[q] \in Nat /\ other[q] >= 1
          /\ pc[q] = "splitmove" => grp[q] \in Group /\ grp[q] \in Nat /\ grp[q] >= 1
      BY <2>2, <3>1, DHFileAssumption DEF TypeOK, ResizeOK, Splitting, Group
    <3>3. CASE s # p
      <4>1. sel'[s] = sel[s] /\ pc'[s] = pc[s] /\ grp'[s] = grp[s]
        BY <1>2, <3>3, SelectFrame
      <4> QED
        BY <1>0, <3>1, <4>1 DEF Passed
    <3>4. CASE s = p /\ SelectBegin(p)
      <4>1. sel'[s].next = 1 /\ (pc[q] = "splitsrc" => sel'[s].splitting)
        BY <3>4, SelectNew
      <4>2. \A g \in Nat : g >= 1 => ~Passed(s, g)'
        BY <4>1 DEF Passed
      <4> QED
        BY <3>1, <3>2, <4>1, <4>2
    <3>5. CASE s = p /\ SelectRead(p)
      <4>1. pc[p] = "selread" /\ sel[p].next # 0 /\ sel'[p].splitting = sel[p].splitting
            /\ \A g \in Nat : Passed(p, g)' <=> Passed(p, g) \/ g = grp[p]
        BY <3>5, SelectAdds
      <4>2. ASSUME NEW g \in Group, Writes(q, g), g = grp[p] PROVE FALSE
        <5>1. Reads(p, g)
          BY <4>1, <4>2 DEF Reads
        <5>2. writer[g] = q /\ p \in readers[g]
          BY <4>2, <5>1 DEF LocksOK
        <5> QED
          BY <5>2, DHFileAssumption DEF LocksOK
      <4>3. pc[q] \in {"splitsrc", "splitmove", "mergemove"} => other[q] # grp[p]
        BY <3>2, <4>2 DEF Writes
      <4>4. pc[q] = "splitmove" => grp[q] # grp[p]
        BY <3>2, <4>2 DEF Writes
      <4> QED
        BY <1>0, <3>1, <3>2, <3>5, <4>1, <4>3, <4>4
    <3>6. CASE s = p /\ ~SelectBegin(p) /\ ~SelectRead(p)
      <4>1. /\ sel[s].next # 0 /\ sel'[s].splitting = sel[s].splitting
            /\ \A g \in Nat : Passed(s, g)' <=> Passed(s, g)
        BY <1>2, <3>6, SelectOwn
      <4> QED
        BY <1>0, <3>1, <3>2, <4>1
    <3> QED
      BY <3>3, <3>4, <3>5, <3>6
  <2> QED
    BY <2>1, <2>2
<1> QED
  BY <1>1, <1>2

\* The list after a step that keeps it: each record is where it was, or in a
\* group that has not been read, moved from one that, if need be, has not
\* been read either.
LEMMA ListFrame ==
  ASSUME ListOK, NEW s \in Proc, sel[s].next # 0, SameList(s),
         \A g \in Group : Passed(s, g)' <=> Passed(s, g),
         \A id \in Id \ sel'[s].touched :
           /\ id \in Stored => id \in Stored'
           /\ \A g \in Group : id \in RecordsIn(g)' =>
                \/ id \in RecordsIn(g)
                \/ /\ ~Passed(s, g)
                   /\ ~sel[s].splitting =>
                        \E h \in Group : id \in RecordsIn(h) /\ ~Passed(s, h)
  PROVE  \A id \in Id \ sel'[s].touched :
           /\ id \notin Stored' => sel'[s].list[id] = 0
           /\ \A g \in Group : id \in RecordsIn(g)' =>
                IF Passed(s, g)'
                THEN sel'[s].list[id] >= 1 /\ (~sel'[s].splitting => sel'[s].list[id] = 1)
                ELSE ~sel'[s].splitting => sel'[s].list[id] = 0
<1> SUFFICES ASSUME NEW id \in Id, id \notin sel'[s].touched
             PROVE  /\ id \notin Stored' => sel[s].list[id] = 0
                    /\ \A g \in Group : id \in RecordsIn(g)' =>
                         IF Passed(s, g)
                         THEN sel[s].list[id] >= 1 /\ (~sel[s].splitting => sel[s].list[id] = 1)
                         ELSE ~sel[s].splitting => sel[s].list[id] = 0
  BY DEF SameList
<1>1. /\ id \notin Stored => sel[s].list[id] = 0
      /\ \A g \in Group : id \in RecordsIn(g) =>
           IF Passed(s, g)
           THEN sel[s].list[id] >= 1 /\ (~sel[s].splitting => sel[s].list[id] = 1)
           ELSE ~sel[s].splitting => sel[s].list[id] = 0
  BY DEF ListOK, SameList
<1> QED
  BY <1>1

LEMMA WorkMoves ==
  ASSUME IInv, SelectInv, NEW p \in Proc, WorkStep(p), NEW s \in Proc, sel[s].next # 0,
         NEW id \in Id, id \notin sel'[s].touched
  PROVE  /\ id \in Stored => id \in Stored'
         /\ \A g \in Group : id \in RecordsIn(g)' =>
              \/ id \in RecordsIn(g)
              \/ /\ ~Passed(s, g)
                 /\ ~sel[s].splitting =>
                      \E h \in Group : id \in RecordsIn(h) /\ ~Passed(s, h)
<1> USE DEF IInv, SelectInv
<1>1. CASE data' = data
  BY <1>1 DEF Stored, RecordsIn
<1>2. CASE WriteRecord(p)
  <2>1. /\ pc[p] = "access"
        /\ data' = [data EXCEPT ![grp[p]][op[p].id] =
                      IF op[p].kind = "write" THEN op[p].val ELSE None]
        /\ sel'[s] = [sel[s] EXCEPT !.touched = @ \cup {op[p].id}]
    BY <1>2 DEF WriteRecord, At
  <2>2. id # op[p].id
    BY <2>1 DEF TypeOK, SelectList
  <2>3. \A g \in Group : data'[g][id] = data[g][id]
    BY <2>1, <2>2 DEF TypeOK
  <2> QED
    BY <2>3 DEF Stored, RecordsIn
<1>3. CASE SplitMove(p)
  <2> DEFINE a == grp[p]
  <2> DEFINE n == other[p]
  <2> DEFINE moved == {i \in RecordsIn(a) : Home(i) = n}
  <2>1. /\ pc[p] = "splitmove"
        /\ data' = [data EXCEPT
             ![a] = [i \in Id |-> IF i \in moved THEN None ELSE data[a][i]],
             ![n] = [i \in Id |-> IF i \in moved THEN data[a][i] ELSE None]]
    BY <1>3 DEF SplitMove, At, TypeOK, ResizeOK, Splitting, Group
  <2>2. a \in Group /\ n \in Group /\ a # n /\ data[n] = Empty
    BY <2>1, DHFileAssumption DEF TypeOK, ResizeOK, Splitting, Group
  <2>3. /\ \A g \in Group : id \in RecordsIn(g)' <=>
             IF g = n THEN id \in moved
             ELSE id \in RecordsIn(g) /\ (g = a => id \notin moved)
    <3> HIDE DEF moved
    <3>1. \A g \in Group : data'[g][id] =
            IF g = n THEN IF id \in moved THEN data[a][id] ELSE None
            ELSE IF g = a THEN IF id \in moved THEN None ELSE data[a][id]
            ELSE data[g][id]
      BY <2>1, <2>2 DEF TypeOK
    <3>2. id \in moved => data[a][id] # None
      BY DEF moved, RecordsIn
    <3> QED
      BY <3>1, <3>2 DEF RecordsIn
  <2>4. id \in moved => id \in RecordsIn(a)
    OBVIOUS
  <2>5. id \notin RecordsIn(n)
    BY <2>2 DEF RecordsIn, Empty
  <2>6. ~Passed(s, n) /\ (~sel[s].splitting => ~Passed(s, a))
    BY <2>1 DEF UnreadOK
  <2> HIDE DEF a, n, moved
  <2>7. id \in Stored => id \in Stored'
    BY <2>2, <2>3, <2>5 DEF Stored
  <2> QED
    BY <2>2, <2>3, <2>4, <2>6, <2>7
<1>4. CASE MergeMove(p)
  <2> DEFINE a == grp[p]
  <2> DEFINE n == other[p]
  <2>1. /\ pc[p] = "mergemove"
        /\ data' = [data EXCEPT
             ![a] = Empty,
             ![n] = [i \in Id |-> IF i \in RecordsIn(a) THEN data[a][i] ELSE data[n][i]]]
    BY <1>4 DEF MergeMove, At, TypeOK, ResizeOK, Group
  <2>2. a \in Group /\ n \in Group /\ a # n /\ a = modulus + 1
    BY <2>1, DHFileAssumption DEF TypeOK, ResizeOK, Group
  <2>3. \A g \in Group : id \in RecordsIn(g)' <=>
          IF g = n THEN id \in RecordsIn(a) \/ id \in RecordsIn(n)
          ELSE g # a /\ id \in RecordsIn(g)
    BY <2>1, <2>2 DEF TypeOK, RecordsIn, Empty
  <2>4. ~Passed(s, n)
    BY <2>1 DEF UnreadOK
  <2>5. ~Passed(s, a)
    BY <2>2 DEF CursorOK, Passed, TypeOK, SelectList, Group
  <2> HIDE DEF a, n
  <2>6. id \in Stored => id \in Stored'
    BY <2>2, <2>3 DEF Stored
  <2> QED
    BY <2>2, <2>3, <2>4, <2>5, <2>6
<1>5. WorkStep(p) /\ ~WriteRecord(p) /\ ~SplitMove(p) /\ ~MergeMove(p) => data' = data
  BY DEF WorkStep, Call, HashId, LockGroup, ReadRecord, Account, CheckLoad, Return, NoSplit,
     SplitBegin, SplitLockNew, SplitLockSource, FreeOther, ResizeEnd,
     NoMerge, MergeBegin, MergeLockTarget, MergeLockSource
<1> QED
  BY <1>1, <1>2, <1>3, <1>4, <1>5

LEMMA ListKept ==
  ASSUME IInv, SelectInv, [Next]_vars
  PROVE  ListOK'
<1> DEFINE Ok(s) == \A id \in Id \ sel[s].touched :
      /\ id \notin Stored => sel[s].list[id] = 0
      /\ \A g \in Group : id \in RecordsIn(g) =>
           IF Passed(s, g)
           THEN sel[s].list[id] >= 1 /\ (~sel[s].splitting => sel[s].list[id] = 1)
           ELSE ~sel[s].splitting => sel[s].list[id] = 0
<1>0. CASE UNCHANGED vars
  BY <1>0 DEF SelectInv, ListOK, vars, local, Passed, Stored, RecordsIn
<1> SUFFICES ASSUME NEW p \in Proc, WorkStep(p) \/ SelectStep(p),
                    NEW s \in Proc, sel'[s].next # 0
             PROVE  Ok(s)'
  BY <1>0, StepKinds DEF ListOK
<1> USE DEF IInv, SelectInv
<1>1. CASE WorkStep(p)
  <2>1. SameList(s) /\ sel[s].next # 0
    BY <1>1, WorkLists DEF SameList
  <2>2. \A g \in Group : Passed(s, g)' <=> Passed(s, g)
    BY <1>1, WorkPassed
  <2> QED
    BY <1>1, <2>1, <2>2, WorkMoves, ListFrame
<1>2. CASE SelectStep(p)
  <2>1. Stored' = Stored /\ \A g \in Group : RecordsIn(g)' = RecordsIn(g)
    BY <1>2, SelectFrame DEF Stored, RecordsIn
  <2>2. \A g \in Group : g \in Nat /\ g >= 1
    BY DHFileAssumption DEF Group
  <2>3. CASE s # p
    <3>1. SameList(s) /\ sel[s].next # 0 /\ \A g \in Group : Passed(s, g)' <=> Passed(s, g)
      BY <1>2, <2>3, SelectFrame DEF SameList, Passed
    <3> QED
      BY <2>1, <3>1, ListFrame
  <2>4. CASE s = p /\ SelectBegin(p)
    <3>1. sel'[s].next = 1 /\ sel'[s].list = [i \in Id |-> 0]
      BY <2>4, SelectNew
    <3>2. \A g \in Group : ~Passed(s, g)'
      BY <2>2, <3>1 DEF Passed
    <3> QED
      BY <3>1, <3>2
  <2>5. CASE s = p /\ SelectRead(p)
    <3>1. /\ sel[s].next # 0 /\ sel'[s].touched = sel[s].touched
          /\ sel'[s].splitting = sel[s].splitting
          /\ sel'[s].list = [id \in Id |-> IF id \in RecordsIn(grp[p])
                              THEN sel[s].list[id] + 1 ELSE sel[s].list[id]]
          /\ ~Passed(s, grp[p])
          /\ \A g \in Nat : Passed(s, g)' <=> Passed(s, g) \/ g = grp[p]
      BY <2>5, SelectAdds
    <3>2. grp[p] \in Group
      BY <2>5, <3>1, SelectAdds DEF CursorOK, TypeOK, Group
    <3> SUFFICES ASSUME NEW id \in Id, id \notin sel[s].touched
                 PROVE  /\ id \notin Stored => sel'[s].list[id] = 0
                        /\ \A g \in Group : id \in RecordsIn(g) =>
                             IF Passed(s, g)'
                             THEN /\ sel'[s].list[id] >= 1
                                  /\ ~sel[s].splitting => sel'[s].list[id] = 1
                             ELSE ~sel[s].splitting => sel'[s].list[id] = 0
      BY <2>1, <3>1
    <3>3. sel[s].list[id] \in Nat
      BY DEF TypeOK, SelectList
    <3>4. /\ id \notin Stored => sel[s].list[id] = 0
          /\ \A g \in Group : id \in RecordsIn(g) =>
               IF Passed(s, g)
               THEN sel[s].list[id] >= 1 /\ (~sel[s].splitting => sel[s].list[id] = 1)
               ELSE ~sel[s].splitting => sel[s].list[id] = 0
      BY <3>1 DEF ListOK
    <3>5. id \notin Stored => id \notin RecordsIn(grp[p])
      BY <3>2 DEF Stored
    <3>6. ASSUME NEW g \in Group, id \in RecordsIn(g), g # grp[p]
          PROVE  id \notin RecordsIn(grp[p])
      BY <3>2, <3>6 DEF RecordsOnce
    <3>7. ASSUME NEW g \in Group, id \in RecordsIn(g)
          PROVE  IF Passed(s, g)'
                 THEN sel'[s].list[id] >= 1 /\ (~sel[s].splitting => sel'[s].list[id] = 1)
                 ELSE ~sel[s].splitting => sel'[s].list[id] = 0
      <4>1. CASE g = grp[p]
        BY <2>2, <3>1, <3>3, <3>4, <3>7, <4>1
      <4>2. CASE g # grp[p]
        BY <2>2, <3>1, <3>3, <3>4, <3>6, <3>7, <4>2
      <4> QED
        BY <4>1, <4>2
    <3> QED
      BY <3>1, <3>4, <3>5, <3>7
  <2>6. CASE s = p /\ ~SelectBegin(p) /\ ~SelectRead(p)
    <3>1. /\ sel[s].next # 0 /\ sel'[s].list = sel[s].list
          /\ sel'[s].splitting = sel[s].splitting /\ sel'[s].touched = sel[s].touched
          /\ \A g \in Nat : Passed(s, g)' <=> Passed(s, g)
      BY <1>2, <2>6, SelectOwn
    <3>2. Ok(s)
      BY <3>1 DEF ListOK
    <3> QED
      BY <2>1, <2>2, <3>1, <3>2
  <2> QED
    BY <2>3, <2>4, <2>5, <2>6
<1> QED
  BY <1>1, <1>2

LEMMA SelectEnough ==
  ASSUME IInv, SelectInv
  PROVE  SelectExact
<1> USE DEF IInv, SelectInv
<1> SUFFICES ASSUME NEW p \in Proc, At(p, "selgroup"), sel[p].next > modulus,
                    NEW id \in Id, id \notin sel[p].touched
             PROVE  IF id \in Stored
                    THEN /\ sel[p].list[id] >= 1
                         /\ ~sel[p].splitting => sel[p].list[id] = 1
                    ELSE sel[p].list[id] = 0
  BY DEF SelectExact
<1>1. pc[p] = "selgroup" /\ sel[p].next # 0
  BY DEF At, WorkOK, Selecting
<1>2. ASSUME NEW g \in Group, id \in RecordsIn(g) PROVE Passed(p, g)
  <2>1. \A h \in 1..modulus : Passed(p, h)
    BY <1>1 DEF Passed, TypeOK, SelectList, Group
  <2>2. Home(id) \in 1..modulus
    BY HomeInFile
  <2>3. CASE g = Home(id)
    BY <2>1, <2>2, <2>3
  <2>4. ASSUME NEW q \in Proc, Moving(q, g, Home(id)) PROVE FALSE
    BY <1>1, <2>1, <2>2, <2>4 DEF Moving, UnreadOK, HeldOff
  <2> QED
    BY <1>2, <2>3, <2>4 DEF RecordsAtHome
<1>3. CASE id \in Stored
  <2>1. PICK g \in Group : id \in RecordsIn(g)
    BY <1>3 DEF Stored
  <2> QED
    BY <1>1, <1>2, <1>3, <2>1 DEF ListOK
<1>4. CASE id \notin Stored
  BY <1>1, <1>4 DEF ListOK
<1> QED
  BY <1>3, <1>4

\* A select that has been through all groups lists every record that nobody
\* has changed since, once, and no other such id, whatever is written, split
\* and merged meanwhile; only records of a split whose source was still to be
\* locked at the start may be listed twice.
THEOREM ExactSelects == Spec => []SelectExact
<1>1. Init => SelectInv
  BY DEF Init, NoSelect, SelectInv, HeldOff, CursorOK, UnreadOK, ListOK
<1>2. IInv /\ SelectInv /\ [Next]_vars => SelectInv'
  BY HeldOffKept, CursorKept, UnreadKept, ListKept DEF SelectInv
<1>3. IInv /\ SelectInv => SelectExact
  BY SelectEnough
<1> QED
  BY <1>1, <1>2, <1>3, Invariance, PTL DEF Spec

-----------------------------------------------------------------------------
(* DHFile implements KVStore                                                *)

\* Where a process is when it works on a request, and when it does not.
Waiting == {"hash", "lock", "access"}
Between == {"idle", "select"} \cup Selecting

\* A process has a request as long as it works on one.
RequestOK == \A p \in Proc :
  IF pc[p] \in Between THEN op[p] = None ELSE op[p] \in Request

RInv == IInv /\ RequestOK

-----------------------------------------------------------------------------
LEMMA RequestInit == Init => RequestOK
  BY DEF Init, RequestOK, Between

LEMMA RequestKept ==
  ASSUME TypeOK, RequestOK, [Next]_vars
  PROVE  RequestOK'
<1> SUFFICES ASSUME NEW p \in Proc, Step(p) \/ Program(p) PROVE RequestOK'
  BY DEF Next, vars, params, locks, local, RequestOK
<1> USE DEF RequestOK, Between, Selecting, TypeOK, At, Goto
<1>1. ASSUME NEW r \in Request, Call(p, r) PROVE RequestOK'
  BY <1>1 DEF Call
<1>2. CASE HashId(p) \/ LockGroup(p) \/ ReadRecord(p) \/ WriteRecord(p) \/
           Account(p) \/ CheckLoad(p)
  BY <1>2 DEF HashId, LockGroup, ReadRecord, WriteRecord, Account, CheckLoad, local
<1>3. CASE Return(p)
  BY <1>3 DEF Return
<1>4. CASE NoSplit(p) \/ SplitBegin(p) \/ SplitLockNew(p) \/
           SplitLockSource(p) \/ SplitMove(p) \/ FreeOther(p) \/ ResizeEnd(p)
  BY <1>4 DEF NoSplit, SplitBegin, SplitLockNew, SplitLockSource, SplitMove,
     FreeOther, ResizeEnd, local
<1>5. CASE NoMerge(p) \/ MergeBegin(p) \/ MergeLockTarget(p) \/
           MergeLockSource(p) \/ MergeMove(p)
  BY <1>5 DEF NoMerge, MergeBegin, MergeLockTarget, MergeLockSource, MergeMove, local
<1>6. CASE SelectBegin(p) \/ SelectGroup(p) \/ SelectLock(p) \/
           SelectRead(p) \/ SelectEnd(p) \/ SelectCheck(p)
  BY <1>6 DEF SelectBegin, SelectGroup, SelectLock, SelectRead, SelectEnd,
     SelectCheck, local
<1>7. CASE SelectSave(p) \/ SelectDone(p) \/ Select(p) \/ SelectMore(p) \/
           SelectAll(p) \/ EndSelect(p)
  BY <1>7 DEF SelectSave, SelectDone, Select, SelectMore, SelectAll, EndSelect, local
<1> QED
  BY <1>1, <1>2, <1>3, <1>4, <1>5, <1>6, <1>7 DEF Step, Program

-----------------------------------------------------------------------------
(* The store *)

LEMMA StoreIs ==
  ASSUME RecordsOnce, NEW id \in Id
  PROVE  /\ \A g \in Group : id \in RecordsIn(g) => Store[id] = data[g][id]
         /\ (\A g \in Group : id \notin RecordsIn(g)) => Store[id] = None
<1>1. ASSUME NEW g \in Group, id \in RecordsIn(g) PROVE Store[id] = data[g][id]
  <2>1. id \in Stored
    BY <1>1 DEF Stored
  <2>2. \A h \in Group : id \in RecordsIn(h) => h = g
    BY <1>1 DEF RecordsOnce
  <2>3. (CHOOSE h \in Group : id \in RecordsIn(h)) = g
    BY <1>1, <2>2
  <2> QED
    BY <2>1, <2>3 DEF Store
<1>2. ASSUME \A g \in Group : id \notin RecordsIn(g) PROVE Store[id] = None
  BY <1>2 DEF Stored, Store
<1> QED
  BY <1>1, <1>2

LEMMA StoreIsNext ==
  ASSUME RecordsOnce', NEW id \in Id
  PROVE  /\ \A g \in Group : id \in RecordsIn(g)' => Store'[id] = data'[g][id]
         /\ (\A g \in Group : id \notin RecordsIn(g)') => Store'[id] = None
<1>1. ASSUME NEW g \in Group, id \in RecordsIn(g)' PROVE Store'[id] = data'[g][id]
  <2>1. id \in Stored'
    BY <1>1 DEF Stored
  <2>2. \A h \in Group : id \in RecordsIn(h)' => h = g
    BY <1>1 DEF RecordsOnce
  <2>3. (CHOOSE h \in Group : id \in RecordsIn(h)') = g
    BY <1>1, <2>2
  <2> QED
    BY <2>1, <2>3 DEF Store
<1>2. ASSUME \A g \in Group : id \notin RecordsIn(g)' PROVE Store'[id] = None
  BY <1>2 DEF Stored, Store
<1> QED
  BY <1>1, <1>2

LEMMA StoreMap == Store = [id \in Id |-> Store[id]]
  BY DEF Store

\* Nothing changes the store but data.
LEMMA StoreFrame == ASSUME data' = data PROVE Store' = Store
  BY DEF Store, Stored, RecordsIn

\* A record is nowhere but in the group in which a process has locked it.
LEMMA Located ==
  ASSUME IInv, NEW p \in Proc, pc[p] = "access", op[p].id \in Id,
         NEW g \in Group, op[p].id \in RecordsIn(g)
  PROVE  g = grp[p]
<1> DEFINE id == op[p].id
<1> USE DEF IInv
<1>0. grp[p] \in Group
  BY AccessGroup, TypeParts
<1>1. Reads(p, grp[p]) \/ Writes(p, grp[p])
  BY DEF Reads, Writes
<1>2. CASE grp[p] = Home(id)
  <2>1. SUFFICES ASSUME NEW q \in Proc, Moving(q, g, Home(id)) PROVE FALSE
    BY <1>2 DEF RecordsAtHome
  <2>2. other[q] = grp[p]
    BY <1>2, <2>1 DEF Moving
  <2>3. pc[q] # "newlock"
    BY <2>2 DEF NewGroupFree
  <2>4. Writes(q, grp[p])
    BY <2>1, <2>2, <2>3 DEF Moving, Writes
  <2>5. writer[grp[p]] = q /\ readers[grp[p]] = {}
    BY <1>0, <2>4, DHFileAssumption DEF LocksOK
  <2>6. ~Reads(p, grp[p])
    BY <1>0, <2>5 DEF LocksOK
  <2>7. p = q
    BY <1>0, <1>1, <2>5, <2>6 DEF LocksOK
  <2> QED
    BY <2>1, <2>7 DEF Moving
<1>3. CASE grp[p] # Home(id)
  <2>1. PICK q \in Proc : /\ pc[q] \in {"newlock", "splitsrc"}
                          /\ grp[q] = grp[p] /\ other[q] = Home(id)
    BY <1>3 DEF AccessOK
  <2>2. data[Home(id)] = Empty
    BY <2>1 DEF ResizeOK, Splitting
  <2>3. g # Home(id)
    BY <2>2 DEF Empty, RecordsIn
  <2>4. PICK q2 \in Proc : Moving(q2, g, Home(id))
    BY <2>3 DEF RecordsAtHome
  <2>5. q2 = q
    BY <2>1, <2>4 DEF OneResizer, Moving, Resizer, Splitting
  <2> QED
    BY <2>1, <2>4, <2>5 DEF Moving
<1> QED
  BY <1>2, <1>3

\* So what is found there is what the store has.
LEMMA FoundIsStored ==
  ASSUME IInv, NEW p \in Proc, pc[p] = "access", op[p].id \in Id
  PROVE  /\ grp[p] \in Group
         /\ data[grp[p]][op[p].id] = Store[op[p].id]
<1> DEFINE id == op[p].id
<1> USE DEF IInv
<1>1. grp[p] \in Group
  BY AccessGroup, TypeParts
<1>2. CASE id \in RecordsIn(grp[p])
  BY <1>1, <1>2, StoreIs
<1>3. CASE id \notin RecordsIn(grp[p])
  <2>1. \A g \in Group : id \notin RecordsIn(g)
    BY <1>3, Located
  <2> QED
    BY <1>1, <1>3, <2>1, StoreIs DEF RecordsIn
<1> QED
  BY <1>1, <1>2, <1>3

\* A write or delete changes the store for its record.
LEMMA StoreWritten ==
  ASSUME IInv, IInv', NEW p \in Proc, WriteRecord(p)
  PROVE  Store' = [Store EXCEPT ![op[p].id] =
                     IF op[p].kind = "write" THEN op[p].val ELSE None]
<1> USE DEF IInv
<1>1. pc[p] = "access"
  BY DEF WriteRecord, At
<1>2. PICK k \in Group : k = grp[p]
  BY <1>1, AccessGroup, TypeParts
<1>3. PICK id \in Id, v \in Val \cup {None} :
        /\ id = op[p].id
        /\ v = IF op[p].kind = "write" THEN op[p].val ELSE None
  BY <1>1, AccessGroup, TypeParts
<1>4. data' = [data EXCEPT ![k][id] = v]
  BY <1>2, <1>3 DEF WriteRecord
<1>5. data \in [Group -> [Id -> Val \cup {None}]]
  BY DEF TypeOK
<1>6. ASSUME NEW i \in Id, NEW g \in Group
      PROVE  data'[g][i] = IF g = k /\ i = id THEN v ELSE data[g][i]
  BY <1>2, <1>4, <1>5
<1>7. Store'[id] = v
  <2>1. CASE v = None
    <3>1. \A g \in Group : data[g][id] # None => g = k
      BY <1>1, <1>2, <1>3, Located DEF RecordsIn
    <3>2. \A g \in Group : id \notin RecordsIn(g)'
      BY <1>2, <1>6, <2>1, <3>1 DEF RecordsIn
    <3> QED
      BY <1>2, <2>1, <3>2, StoreIsNext
  <2>2. CASE v # None
    <3>1. id \in RecordsIn(k)' /\ data'[k][id] = v
      BY <1>2, <1>6, <2>2 DEF RecordsIn
    <3>2. \A g \in Group : id \in RecordsIn(g)' => Store'[id] = data'[g][id]
      BY <1>2, StoreIsNext
    <3> QED
      BY <1>2, <3>1, <3>2
  <2> QED
    BY <2>1, <2>2
<1>8. ASSUME NEW i \in Id, i # id PROVE Store'[i] = Store[i]
  BY <1>6, <1>8, StoreIs, StoreIsNext DEF RecordsIn
<1>9. Store' = [i \in Id |-> Store'[i]]
  BY DEF Store
<1> QED
  BY <1>3, <1>7, <1>8, <1>9, StoreMap

\* A split or merge moves records, and leaves the store as it is.
LEMMA StoreMoved ==
  ASSUME IInv, IInv', DOMAIN data' = Group, NEW g \in Group, NEW h \in Group, g # h,
         \A k \in Group \ {g, h} : data'[k] = data[k],
         \A i \in Id : \/ data'[g][i] = data[g][i] /\ data'[h][i] = data[h][i]
                       \/ data'[g][i] = None /\ data'[h][i] = data[g][i] /\ data[h][i] = None
  PROVE  Store' = Store
<1> USE DEF IInv
<1>1. ASSUME NEW i \in Id PROVE Store'[i] = Store[i]
  <2>1. CASE \E k \in Group : i \in RecordsIn(k)
    <3>1. PICK k \in Group : i \in RecordsIn(k)
      BY <2>1
    <3>2. PICK k2 \in Group : data'[k2][i] = data[k][i]
      BY <3>1
    <3>3. i \in RecordsIn(k2)'
      BY <3>1, <3>2 DEF RecordsIn
    <3> QED
      BY <3>1, <3>2, <3>3, StoreIs, StoreIsNext
  <2>2. CASE \A k \in Group : i \notin RecordsIn(k)
    <3>1. \A k \in Group : i \notin RecordsIn(k)'
      BY <2>2 DEF RecordsIn
    <3> QED
      BY <2>2, <3>1, StoreIs, StoreIsNext
  <2> QED
    BY <2>1, <2>2
<1>2. Store' = [i \in Id |-> Store'[i]]
  BY DEF Store
<1> QED
  BY <1>1, <1>2, StoreMap

-----------------------------------------------------------------------------
(* Every step is one of the store, or changes nothing there *)

LEMMA SameReplies ==
  ASSUME TypeOK, NEW p \in Proc, NEW l, Goto(p, l), op' = op, old' = old,
         op[p] = None \/ (pc[p] \in Waiting <=> l \in Waiting)
  PROVE  Replies' = Replies
<1>1. pc \in [Proc -> PC]
  BY DEF TypeOK
<1>2. \A q \in Proc : op[q] = None \/ (pc[q] \in Waiting <=> pc'[q] \in Waiting)
  BY <1>1 DEF Goto
<1> QED
  BY <1>2 DEF Replies, Waiting

\* The steps of a request that do not touch its group, and those of a select.
LEMMA OtherSteps ==
  ASSUME RInv, NEW p \in Proc,
         \/ HashId(p) \/ LockGroup(p) \/ Account(p) \/ CheckLoad(p)
         \/ NoSplit(p) \/ SplitBegin(p) \/ SplitLockNew(p) \/ SplitLockSource(p)
         \/ FreeOther(p) \/ ResizeEnd(p)
         \/ NoMerge(p) \/ MergeBegin(p) \/ MergeLockTarget(p) \/ MergeLockSource(p)
         \/ SelectBegin(p) \/ SelectGroup(p) \/ SelectLock(p) \/ SelectRead(p)
         \/ SelectEnd(p) \/ SelectCheck(p) \/ SelectSave(p) \/ SelectDone(p)
         \/ Select(p) \/ SelectMore(p) \/ SelectAll(p) \/ EndSelect(p)
  PROVE  UNCHANGED <<Store, op, Replies>>
<1> USE DEF RInv, IInv, At
<1>1. TypeOK
  OBVIOUS
<1>2. pc[p] \in Between => op[p] = None
  BY DEF RequestOK
<1>3. CASE \/ HashId(p) \/ LockGroup(p) \/ Account(p) \/ CheckLoad(p)
           \/ NoSplit(p) \/ SplitBegin(p) \/ SplitLockNew(p) \/ SplitLockSource(p)
  <2>1. /\ data' = data /\ op' = op /\ old' = old
        /\ \E l \in PC : Goto(p, l) /\ (pc[p] \in Waiting <=> l \in Waiting)
    BY <1>3 DEF HashId, LockGroup, Account, CheckLoad, NoSplit, SplitBegin,
       SplitLockNew, SplitLockSource, local, PC, Waiting
  <2> QED
    BY <1>1, <2>1, SameReplies, StoreFrame
<1>4. CASE \/ FreeOther(p) \/ ResizeEnd(p)
           \/ NoMerge(p) \/ MergeBegin(p) \/ MergeLockTarget(p) \/ MergeLockSource(p)
  <2>1. /\ data' = data /\ op' = op /\ old' = old
        /\ \E l \in PC : Goto(p, l) /\ (pc[p] \in Waiting <=> l \in Waiting)
    BY <1>4 DEF FreeOther, ResizeEnd, NoMerge, MergeBegin, MergeLockTarget,
       MergeLockSource, local, PC, Waiting
  <2> QED
    BY <1>1, <2>1, SameReplies, StoreFrame
<1>5. CASE \/ SelectBegin(p) \/ SelectGroup(p) \/ SelectLock(p) \/ SelectRead(p)
           \/ SelectEnd(p) \/ SelectCheck(p) \/ SelectSave(p) \/ SelectDone(p)
           \/ Select(p) \/ SelectMore(p) \/ SelectAll(p)
  <2>1. /\ data' = data /\ op' = op /\ old' = old
        /\ pc[p] \in Between /\ \E l \in PC : Goto(p, l)
    BY <1>5 DEF SelectBegin, SelectGroup, SelectLock, SelectRead, SelectEnd,
       SelectCheck, SelectSave, SelectDone, Select, SelectMore, SelectAll,
       local, PC, Between, Selecting
  <2> QED
    BY <1>1, <1>2, <2>1, SameReplies, StoreFrame
<1>6. CASE EndSelect(p)
  BY <1>6, StoreFrame DEF EndSelect, local, Replies
<1> QED
  BY <1>3, <1>4, <1>5, <1>6

LEMMA CallSimulates ==
  ASSUME RInv, NEW p \in Proc, NEW r \in Request, Call(p, r)
  PROVE  KV!Call(p, r)
<1>1. op[p] = None /\ op' = [op EXCEPT ![p] = r]
  BY DEF RInv, RequestOK, Call, At, Between
<1>2. /\ pc \in [Proc -> PC] /\ pc' = [pc EXCEPT ![p] = "hash"]
      /\ op \in [Proc -> Request \cup {None}] /\ old' = old
  BY DEF RInv, IInv, TypeOK, Call, Goto
<1>3. Replies' = Replies
  BY <1>1, <1>2 DEF Replies
<1>4. Store' = Store
  BY StoreFrame DEF Call
<1> QED
  BY <1>1, <1>3, <1>4 DEF KV!Call

LEMMA ReturnSimulates ==
  ASSUME RInv, NEW p \in Proc, Return(p)
  PROVE  KV!Return(p)
<1>1. /\ pc \in [Proc -> PC] /\ pc[p] = "return" /\ pc' = [pc EXCEPT ![p] = "idle"]
      /\ op \in [Proc -> Request \cup {None}] /\ op' = [op EXCEPT ![p] = None]
      /\ old \in [Proc -> Val \cup {None}] /\ old' = [old EXCEPT ![p] = None]
  BY DEF RInv, IInv, TypeOK, Return, At, Goto
<1>2. op[p] # None
  BY <1>1, RequestAssumption DEF RInv, RequestOK, Between, Selecting
<1>3. Replies[p] # "wait"
  BY <1>1, <1>2, RequestAssumption DEF Replies
<1>4. Replies' = [Replies EXCEPT ![p] = "wait"]
  BY <1>1 DEF Replies
<1>5. Store' = Store
  BY StoreFrame DEF Return
<1> QED
  BY <1>1, <1>2, <1>3, <1>4, <1>5 DEF KV!Return

\* A request takes effect when it reads or writes its group.
LEMMA AccessSimulates ==
  ASSUME RInv, IInv', NEW p \in Proc, ReadRecord(p) \/ WriteRecord(p)
  PROVE  KV!TakeEffect(p)
<1>1. /\ pc \in [Proc -> PC] /\ pc[p] = "access"
      /\ pc'[p] \notin Waiting /\ \A q \in Proc \ {p} : pc'[q] = pc[q]
      /\ op' = op /\ op[p] \in Request
      /\ old' = [old EXCEPT ![p] = data[grp[p]][op[p].id]]
  BY DEF RInv, IInv, TypeOK, RequestOK, ReadRecord, WriteRecord, At, Goto, Waiting,
     Between, Selecting
<1>2. op[p] # None /\ Replies[p] = "wait"
  BY <1>1, RequestAssumption DEF Replies
<1>3. op[p].id \in Id /\ op[p].kind \in {"read", "write", "delete"}
  BY <1>1 DEF Request
<1>4. data[grp[p]][op[p].id] = Store[op[p].id]
  BY <1>1, <1>3, FoundIsStored DEF RInv
<1>5. Replies' = [Replies EXCEPT ![p] = Store[op[p].id]]
  BY <1>1, <1>2, <1>4 DEF Replies, RInv, IInv, TypeOK, Waiting
<1>6. CASE ReadRecord(p)
  <2>1. op[p].kind = "read" /\ Store' = Store
    BY <1>6, StoreFrame DEF ReadRecord
  <2> QED
    BY <1>1, <1>2, <1>5, <2>1 DEF KV!TakeEffect
<1>7. CASE WriteRecord(p)
  <2>1. op[p].kind # "read"
    BY <1>7 DEF WriteRecord
  <2>2. Store' = [Store EXCEPT ![op[p].id] =
                    IF op[p].kind = "write" THEN op[p].val ELSE None]
    BY <1>7, StoreWritten DEF RInv
  <2> QED
    BY <1>1, <1>2, <1>3, <1>5, <2>1, <2>2 DEF KV!TakeEffect
<1> QED
  BY <1>6, <1>7

LEMMA MoveSimulates ==
  ASSUME RInv, IInv', NEW p \in Proc, SplitMove(p) \/ MergeMove(p)
  PROVE  UNCHANGED <<Store, op, Replies>>
<1> USE DEF RInv, IInv
<1>1. op' = op /\ Replies' = Replies
  <2>1. op' = op /\ old' = old /\ Goto(p, "freeother") /\ pc[p] \notin Waiting
    BY DEF SplitMove, MergeMove, local, At, Waiting
  <2> QED
    BY <2>1, SameReplies DEF Waiting
<1>2. PICK g \in Group, h \in Group : g = grp[p] /\ h = other[p] /\ g # h
  BY DEF SplitMove, MergeMove, At, ResizeOK, Splitting, TypeOK, Group
<1>3. data \in [Group -> [Id -> Val \cup {None}]]
  BY DEF TypeOK
<1>4. DOMAIN data' = Group /\ \A k \in Group \ {g, h} : data'[k] = data[k]
  BY <1>2, <1>3 DEF SplitMove, MergeMove
<1>5. ASSUME NEW i \in Id
      PROVE  \/ data'[g][i] = data[g][i] /\ data'[h][i] = data[h][i]
             \/ data'[g][i] = None /\ data'[h][i] = data[g][i] /\ data[h][i] = None
  <2>1. CASE SplitMove(p)
    <3>1. data[h][i] = None
      BY <1>2, <2>1 DEF SplitMove, At, ResizeOK, Splitting, Empty
    <3>2. CASE i \in RecordsIn(g) /\ Home(i) = h
      BY <1>2, <1>3, <2>1, <3>1, <3>2 DEF SplitMove
    <3>3. CASE ~(i \in RecordsIn(g) /\ Home(i) = h)
      BY <1>2, <1>3, <2>1, <3>1, <3>3 DEF SplitMove
    <3> QED
      BY <3>2, <3>3
  <2>2. CASE MergeMove(p)
    <3>1. CASE i \in RecordsIn(g)
      <4>1. i \notin RecordsIn(h)
        BY <1>2, <3>1 DEF RecordsOnce
      <4> QED
        BY <1>2, <1>3, <2>2, <3>1, <4>1 DEF MergeMove, RecordsIn, Empty
    <3>2. CASE i \notin RecordsIn(g)
      BY <1>2, <1>3, <2>2, <3>2 DEF MergeMove, RecordsIn, Empty
    <3> QED
      BY <3>1, <3>2
  <2> QED
    BY <2>1, <2>2
<1> QED
  BY <1>1, <1>2, <1>4, <1>5, StoreMoved

LEMMA StepSimulates ==
  ASSUME RInv, IInv', [Next]_vars
  PROVE  [KV!StoreNext]_<<Store, op, Replies>>
<1>1. CASE UNCHANGED vars
  BY <1>1 DEF vars, params, locks, local, Store, Stored, RecordsIn, Replies
<1>2. ASSUME NEW p \in Proc, Step(p) \/ Program(p)
      PROVE  [KV!StoreNext]_<<Store, op, Replies>>
  <2>1. ASSUME NEW r \in Request, Call(p, r)
        PROVE  KV!StoreNext
    <3>1. r \in KV!Request
      BY DEF Request, KV!Request
    <3> QED
      BY <2>1, <3>1, CallSimulates DEF KV!StoreNext
  <2>2. CASE ReadRecord(p) \/ WriteRecord(p)
    BY <2>2, AccessSimulates DEF KV!StoreNext
  <2>3. CASE Return(p)
    BY <2>3, ReturnSimulates DEF KV!StoreNext
  <2>4. CASE SplitMove(p) \/ MergeMove(p)
    BY <2>4, MoveSimulates
  <2> QED
    BY <1>2, <2>1, <2>2, <2>3, <2>4, OtherSteps DEF Step, Program
<1> QED
  BY <1>1, <1>2 DEF Next

LEMMA InitSimulates == Init => KV!StoreInit
<1> SUFFICES ASSUME Init PROVE KV!StoreInit
  OBVIOUS
<1>1. Store = [i \in Id |-> None]
  BY DEF Init, Store, Stored, RecordsIn, Group
<1>2. op = [p \in Proc |-> None] /\ Replies = [p \in Proc |-> "wait"]
  BY DEF Init, Replies
<1> QED
  BY <1>1, <1>2 DEF KV!StoreInit

\* dh_read(), dh_exists(), dh_write() and dh_delete() are atomic: each takes
\* effect at one moment between its call and its return, whatever dh_split(),
\* dh_merge() and selects of other processes do to the groups meanwhile.
THEOREM Refinement == Spec => ImplementsKVStore
<1>1. Init => RequestOK /\ KV!StoreInit
  BY RequestInit, InitSimulates
<1>2. IInv /\ RequestOK /\ [Next]_vars => RequestOK'
  BY RequestKept DEF IInv
<1>3. IInv /\ IInv' /\ RequestOK /\ [Next]_vars => [KV!StoreNext]_<<Store, op, Replies>>
  BY StepSimulates DEF RInv
<1> QED
  BY <1>1, <1>2, <1>3, Invariance, PTL DEF Spec, ImplementsKVStore, KV!StoreSpec
=============================================================================
