------------------------- MODULE DHBlocks_invariant -------------------------
(***************************************************************************)
(* The inductive invariant of DHBlocks and what its proof needs: chains of *)
(* blocks and the records in them, what the actions do to them, and what a *)
(* process may do without disturbing the others.  DHBlocks_proofs shows    *)
(* that every action keeps the invariant.                                  *)
(***************************************************************************)
EXTENDS DHBlocks, FiniteSetTheorems, SequenceTheorems, WellFoundedInduction, TLAPS

-----------------------------------------------------------------------------
(* The arithmetic of LinearHash, as in DHFile_proofs *)

(* Remainders *)

LEMMA DivideInt ==
  ASSUME NEW h \in Int, NEW v \in Nat \ {0}
  PROVE  h % v \in 0..v - 1 /\ h \div v \in Int /\ h = v * (h \div v) + (h % v)
  OBVIOUS

\* A remainder is determined by what it is.
LEMMA RemainderIs ==
  ASSUME NEW v \in Nat \ {0}, NEW q \in Int, NEW r \in 0..v - 1
  PROVE  (v * q + r) % v = r
<1> DEFINE h == v * q + r
<1> DEFINE s == h % v
<1> DEFINE k == h \div v
<1>1. h \in Int /\ s \in 0..v - 1 /\ k \in Int /\ h = v * k + s
  BY DivideInt
<1>2. v * (q - k) = s - r
  BY <1>1
<1>3. q - k = 0
  <2> HIDE DEF h, s, k
  <2> DEFINE e == q - k
  <2>1. e \in Int /\ v * e = s - r
    BY <1>1, <1>2
  <2> HIDE DEF e
  <2>2. ~(e >= 1)
    <3>1. SUFFICES ASSUME e >= 1 PROVE FALSE
      OBVIOUS
    <3>2. v * e >= v
      BY <2>1, <3>1
    <3> QED
      BY <2>1, <3>2, <1>1
  <2>3. ~(e <= -1)
    <3>1. SUFFICES ASSUME e <= -1 PROVE FALSE
      OBVIOUS
    <3>2. v * e <= -v
      BY <2>1, <3>1
    <3> QED
      BY <2>1, <3>2, <1>1
  <2>4. e = 0
    BY <2>1, <2>2, <2>3
  <2> QED
    BY <2>4 DEF e
<1> QED
  BY <1>1, <1>2, <1>3

\* The remainder for w is the remainder for 2 * w, less w if it is that large.
LEMMA HalfRemainder ==
  ASSUME NEW h \in Nat, NEW w \in Nat \ {0}, NEW v \in Nat, v = 2 * w
  PROVE  /\ h % v \in 0..v - 1
         /\ h % w = IF h % v < w THEN h % v ELSE (h % v) - w
<1>0. v \in Nat \ {0} /\ h \in Int
  OBVIOUS
<1> DEFINE r == h % v
<1> DEFINE q == h \div v
<1>1. r \in 0..v - 1 /\ q \in Int /\ h = v * q + r
  BY <1>0, DivideInt
<1>2. h = w * (2 * q) + r /\ h = w * (2 * q + 1) + (r - w)
  BY <1>1
<1>3. ASSUME r < w PROVE h % w = r
  <2> HIDE DEF r, q
  <2>1. r \in 0..w - 1 /\ 2 * q \in Int
    BY <1>1, <1>3
  <2>2. (w * (2 * q) + r) % w = r
    BY <2>1, RemainderIs
  <2> QED
    BY <1>2, <2>2
<1>4. ASSUME r >= w PROVE h % w = r - w
  <2> HIDE DEF r, q
  <2>1. r - w \in 0..w - 1 /\ 2 * q + 1 \in Int
    BY <1>1, <1>4
  <2>2. (w * (2 * q + 1) + (r - w)) % w = r - w
    BY <2>1, RemainderIs
  <2> QED
    BY <1>2, <2>2
<1> QED
  BY <1>1, <1>3, <1>4

-----------------------------------------------------------------------------
(* Powers of two *)

LEMMA PowerOfTwoEven ==
  ASSUME NEW v, PowerOfTwo(v), v # 1
  PROVE  v \div 2 \in Nat \ {0} /\ v = 2 * (v \div 2)
<1>1. v \in Nat \ {0} /\ v = v * 1
  BY DEF PowerOfTwo
<1>2. v % 2 = 0
  BY <1>1 DEF PowerOfTwo
<1> QED
  BY <1>1, <1>2

LEMMA PowerOfTwoHalf ==
  ASSUME NEW w \in Nat \ {0}, PowerOfTwo(2 * w)
  PROVE  PowerOfTwo(w)
<1>1. ASSUME NEW d \in 1..w, NEW q \in 1..w, w = d * q
      PROVE  d = 1 \/ d % 2 = 0
  <2>1. 2 * w = d * (2 * q) /\ d \in 1..2 * w /\ 2 * q \in 1..2 * w
    BY <1>1
  <2> QED
    BY <2>1 DEF PowerOfTwo
<1> QED
  BY <1>1 DEF PowerOfTwo

LEMMA PowerOfTwoDouble ==
  ASSUME NEW v, PowerOfTwo(v)
  PROVE  PowerOfTwo(2 * v)
<1>0. v \in Nat \ {0}
  BY DEF PowerOfTwo
<1>1. ASSUME NEW d \in 1..2 * v, NEW q \in 1..2 * v, 2 * v = d * q, d % 2 # 0
      PROVE  d = 1
  <2>1. PICK a \in Nat : d = 2 * a + 1
    <3>1. d = 2 * (d \div 2) + 1 /\ d \div 2 \in Nat
      BY <1>1, <1>0
    <3> QED
      BY <3>1
  <2>2. q = 2 * (v - a * q)
    BY <1>0, <1>1, <2>1
  <2> DEFINE k == v - a * q
  <2>3. k \in Int /\ q = 2 * k
    BY <1>0, <2>1, <2>2
  <2> HIDE DEF k
  <2>4. k \in 1..v
    BY <1>0, <2>3
  <2>5. v = d * k
    BY <1>0, <1>1, <2>3
  <2>6. d <= d * k
    BY <1>0, <2>4
  <2>7. d \in 1..v
    BY <1>0, <2>5, <2>6
  <2> QED
    BY <2>4, <2>5, <2>7, <1>1 DEF PowerOfTwo
<1> QED
  BY <1>0, <1>1 DEF PowerOfTwo

-----------------------------------------------------------------------------
(* Hashing, splits and merges *)

\* A record hashes to a group of the file.
THEOREM HashInFile ==
  ASSUME NEW h \in Nat, NEW m, NEW v, ParamsOK(m, v)
  PROVE  GroupOf(h, m, v) \in 1..m
<1>1. CASE v = 1
  BY <1>1 DEF GroupOf, ParamsOK
<1>2. CASE v # 1
  <2> DEFINE w == v \div 2
  <2>1. w \in Nat \ {0} /\ v \in Nat /\ v = 2 * w
    BY <1>2, PowerOfTwoEven DEF ParamsOK, PowerOfTwo
  <2>2. h \in Int /\ v \in Nat \ {0}
    BY <2>1
  <2>3. h % v \in 0..v - 1
    BY <2>2, DivideInt
  <2> HIDE DEF w
  <2>4. h % w \in 0..w - 1
    BY <2>1, <2>2, DivideInt
  <2> QED
    BY <2>1, <2>3, <2>4 DEF GroupOf, ParamsOK, w
<1> QED
  BY <1>1, <1>2

\* A split keeps the parameters sound, its source is a group of the file, and
\* each record stays where it was unless it was in the source and belongs to
\* the new group.
THEOREM SplitMoves ==
  ASSUME NEW m, NEW v, ParamsOK(m, v)
  PROVE  /\ ParamsOK(m + 1, SplitModValue(m, v))
         /\ SplitSource(m, v) \in 1..m
         /\ \A h \in Nat :
              LET g == GroupOf(h, m + 1, SplitModValue(m, v)) IN
              g = GroupOf(h, m, v) \/ (g = m + 1 /\ GroupOf(h, m, v) = SplitSource(m, v))
<1>0. m \in Nat \ {0} /\ v \in Nat \ {0} /\ v \div 2 < m /\ m <= v
  BY DEF ParamsOK, PowerOfTwo
<1>1. CASE m + 1 > v
  <2>1. m = v /\ SplitModValue(m, v) = 2 * v /\ SplitSource(m, v) = 1
    BY <1>0, <1>1 DEF SplitModValue, SplitSource
  <2>2. ParamsOK(m + 1, 2 * v)
    BY <1>0, <2>1, PowerOfTwoDouble DEF ParamsOK
  <2>3. ASSUME NEW h \in Nat
        PROVE  LET g == GroupOf(h, m + 1, 2 * v) IN
               g = GroupOf(h, m, v) \/ (g = m + 1 /\ GroupOf(h, m, v) = 1)
    <3>1. /\ h % (2 * v) \in 0..2 * v - 1
          /\ h % v = IF h % (2 * v) < v THEN h % (2 * v) ELSE (h % (2 * v)) - v
      <4> DEFINE x == 2 * v
      <4>1. x \in Nat /\ x = 2 * v
        BY <1>0
      <4> HIDE DEF x
      <4> QED
        BY <1>0, <4>1, HalfRemainder
    <3>2. GroupOf(h, m, v) = (h % v) + 1
      BY <1>0, <2>1, <3>1 DEF GroupOf
    <3>3. (2 * v) \div 2 = v
      BY <1>0
    <3> QED
      BY <1>0, <2>1, <3>1, <3>2, <3>3 DEF GroupOf
  <2> QED
    BY <1>0, <2>1, <2>2, <2>3
<1>2. CASE m + 1 <= v
  <2> DEFINE w == v \div 2
  <2>1. w \in Nat \ {0} /\ v = 2 * w
    BY <1>0, <1>2, PowerOfTwoEven DEF ParamsOK
  <2>2. SplitModValue(m, v) = v /\ SplitSource(m, v) = m + 1 - w
    BY <1>0, <1>2 DEF SplitModValue, SplitSource
  <2>3. ParamsOK(m + 1, v)
    BY <1>0, <1>2 DEF ParamsOK
  <2>4. ASSUME NEW h \in Nat
        PROVE  LET g == GroupOf(h, m + 1, v) IN
               g = GroupOf(h, m, v) \/ (g = m + 1 /\ GroupOf(h, m, v) = m + 1 - w)
    <3>1. /\ h % v \in 0..v - 1
          /\ h % w = IF h % v < w THEN h % v ELSE (h % v) - w
      BY <1>0, <2>1, HalfRemainder
    <3> QED
      BY <1>0, <1>2, <2>1, <3>1 DEF GroupOf
  <2> QED
    BY <1>0, <2>1, <2>2, <2>3, <2>4
<1> QED
  BY <1>0, <1>1, <1>2

\* A merge is a split the other way round.
LEMMA MergeUndoesSplit ==
  ASSUME NEW m, NEW v, ParamsOK(m, v), m > 1
  PROVE  /\ ParamsOK(m - 1, MergeModValue(m, v))
         /\ SplitModValue(m - 1, MergeModValue(m, v)) = v
         /\ SplitSource(m - 1, MergeModValue(m, v)) = MergeTarget(m, v)
<1>0. m \in Nat \ {0} /\ v \in Nat \ {0} /\ v \div 2 < m /\ m <= v /\ v # 1
  BY DEF ParamsOK, PowerOfTwo
<1> DEFINE w == v \div 2
<1>1. w \in Nat \ {0} /\ v = 2 * w
  BY <1>0, PowerOfTwoEven DEF ParamsOK
<1>2. CASE m - 1 = w
  <2>1. PowerOfTwo(w)
    BY <1>1, PowerOfTwoHalf DEF ParamsOK
  <2>2. MergeModValue(m, v) = w /\ SplitModValue(m - 1, w) = v
    BY <1>0, <1>1, <1>2 DEF MergeModValue, SplitModValue
  <2>3. ParamsOK(m - 1, w)
    BY <1>0, <1>1, <1>2, <2>1 DEF ParamsOK
  <2> QED
    BY <1>0, <1>1, <2>2, <2>3 DEF SplitSource, MergeTarget
<1>3. CASE m - 1 # w
  <2>1. MergeModValue(m, v) = v /\ SplitModValue(m - 1, v) = v
    BY <1>0, <1>1, <1>3 DEF MergeModValue, SplitModValue
  <2>2. ParamsOK(m - 1, v)
    BY <1>0, <1>1, <1>3 DEF ParamsOK
  <2> QED
    BY <1>0, <1>1, <2>1, <2>2 DEF SplitSource, MergeTarget
<1> QED
  BY <1>2, <1>3

\* A merge keeps the parameters sound, its target is another group of the
\* file, and each record stays where it was unless it was in the last group:
\* then it belongs to the target.
THEOREM MergeMoves ==
  ASSUME NEW m, NEW v, ParamsOK(m, v), m > 1
  PROVE  /\ ParamsOK(m - 1, MergeModValue(m, v))
         /\ MergeTarget(m, v) \in 1..m - 1
         /\ \A h \in Nat :
              LET g == GroupOf(h, m - 1, MergeModValue(m, v)) IN
              \/ GroupOf(h, m, v) = g
              \/ GroupOf(h, m, v) = m /\ g = MergeTarget(m, v)
<1> DEFINE n == m - 1
<1> DEFINE u == MergeModValue(m, v)
<1>1. /\ ParamsOK(n, u) /\ SplitModValue(n, u) = v
      /\ SplitSource(n, u) = MergeTarget(m, v)
  BY MergeUndoesSplit
<1>2. m \in Nat /\ n + 1 = m
  BY DEF ParamsOK
<1> HIDE DEF n, u
<1>3. /\ SplitSource(n, u) \in 1..n
      /\ \A h \in Nat :
           LET g == GroupOf(h, n + 1, SplitModValue(n, u)) IN
           g = GroupOf(h, n, u) \/ (g = n + 1 /\ GroupOf(h, n, u) = SplitSource(n, u))
  BY <1>1, SplitMoves
<1> QED
  BY <1>1, <1>2, <1>3 DEF n, u

-----------------------------------------------------------------------------
(* Numbers *)

\* A set of numbers that is not empty has a least one.
LEMMA LeastNat ==
  ASSUME NEW I \in SUBSET Nat, I # {}
  PROVE  \E i \in I : \A j \in I : i <= j
  <1>1. PICK i \in I : \A j \in I : <<j, i>> \notin OpToRel(<, Nat)
    BY NatLessThanWellFounded, WFMin
  <1>2. \A j \in I : i <= j
    <2> SUFFICES ASSUME NEW j \in I, j < i PROVE FALSE
      OBVIOUS
    <2>1. <<j, i>> \in Nat \X Nat /\ <<j, i>>[1] = j /\ <<j, i>>[2] = i
      OBVIOUS
    <2>2. <<j, i>> \in OpToRel(<, Nat)
      BY <2>1 DEF OpToRel
    <2> QED BY <1>1, <2>2
  <1> QED BY <1>2

\* What holds of zero and passes on from each number to the next holds of all.
LEMMA NatSteps ==
  ASSUME NEW I \in SUBSET Nat, 0 \in I, \A n \in Nat : n \in I => n + 1 \in I
  PROVE  I = Nat
  <1> SUFFICES ASSUME Nat \ I # {} PROVE FALSE
    OBVIOUS
  <1>1. PICK i \in Nat \ I : \A j \in Nat \ I : i <= j
    BY LeastNat
  <1>2. i # 0 /\ i - 1 \in Nat /\ ~(i <= i - 1)
    BY <1>1
  <1>3. i - 1 \in I /\ (i - 1) + 1 = i
    BY <1>1, <1>2
  <1> QED BY <1>1, <1>2, <1>3

-----------------------------------------------------------------------------
(* Chains: what each overflow block is for                                  *)

\* The chains: free blocks, those of a group, the source of a split or merge and
\* the block of it that is being read, the data of a record in the file, not yet
\* or no longer in it, and a block on its way from one chain to another.
Free == <<"free">>
Spare == <<"spare">>
GroupChain(g) == <<"group", g>>
SourceChain(p) == <<"source", p>>
SourceBlock(p) == <<"block", p>>
DataChain(k) == <<"data", k>>
NewChain(p) == <<"new", p>>
OldChain(p) == <<"old", p>>
\* For blocks that have not been made.
NoOne == <<"none">>
Owner == {Free, Spare} \cup ({"group"} \X Group) \cup ({"data"} \X Key)
         \cup ({"source", "block", "new", "old"} \X Proc)

\* own is the chain of each block, pos its position there, nx the block after it;
\* len and hd are the length and the first block of each chain.
Positions(own, len, hd, nx, pos) ==
  /\ \A b \in Block : own[b] # NoOne => pos[b] \in 1..len[own[b]]
  /\ \A b, c \in Block : own[b] # NoOne /\ own[c] = own[b] /\ pos[c] = pos[b] => b = c
  /\ \A o \in Owner :
       IF len[o] = 0 THEN hd[o] = 0 ELSE hd[o] \in Block /\ own[hd[o]] = o /\ pos[hd[o]] = 1
  /\ \A b \in Block : own[b] # NoOne =>
       IF pos[b] = len[own[b]] THEN nx[b] = 0
       ELSE nx[b] \in Block /\ own[nx[b]] = own[b] /\ pos[nx[b]] = pos[b] + 1
Chained(own, len, hd, nx) ==
  /\ own \in [Block -> Owner \cup {NoOne}]
  /\ len \in [Owner -> Nat] /\ hd \in [Owner -> Nat] /\ nx \in [Block -> Nat]
  /\ \E pos \in [Block -> Nat] : Positions(own, len, hd, nx, pos)

-----------------------------------------------------------------------------
(* Contents: where the records are                                          *)

\* The block that a split or merge reads is a place of records, too.
BufferOf(p) == <<"b", p>>
Spot == Loc \cup ({"b"} \X Proc)
Nowhere == <<>>

\* ct is the records at each spot; spot and rec the place of each key's record,
\* and the record.
Placed(ct, spot, rec) ==
  /\ ct \in [Spot -> Seq(Record)]
  /\ spot \in [Key -> Spot \cup {Nowhere}] /\ rec \in [Key -> Record]
  /\ \A l \in Spot : \A i \in 1..Len(ct[l]) :
       spot[ct[l][i].key] = l /\ rec[ct[l][i].key] = ct[l][i]
  /\ \A l \in Spot : \A i, j \in 1..Len(ct[l]) : ct[l][i].key = ct[l][j].key => i = j
  /\ \A k \in Key : spot[k] # Nowhere => \E i \in 1..Len(ct[spot[k]]) : ct[spot[k]][i].key = k

-----------------------------------------------------------------------------
(* The inductive invariant: the file as the jobs will leave it              *)

\* The jobs are a parameter: in some proofs a process is "ready" to go on with
\* its buffer, see Onward, and not yet in the state that it goes to.
Working == {"unchain", "ready", "compact", "add", "last"}
Moving(jb, p) == jb[p].at = "move"

NextOf(hd, nx, l) == IF l[1] = "p" THEN hd[GroupChain(l[2])] ELSE nx[l[2]]
InGroup(own, l, g) ==
  \/ l = <<"p", g>>
  \/ l[1] = "o" /\ l = <<"o", l[2]>> /\ l[2] \in Block /\ own[l[2]] = GroupChain(g)

\* The blocks that a process has in a buffer, to be written.
Held(j) ==
  IF j.at \in Working THEN {j.loc}
  ELSE IF j.at = "move"
       THEN {j.tgt[i].loc : i \in 1..Len(j.tgt)} \cup (IF j.op = "merge" THEN {<<"p", j.new>>} ELSE {})
       ELSE {}
Written(jb, l) == \A p \in Proc : l \notin Held(jb[p])

\* The blocks on the disk that are in no buffer.
GroupOnDisk(jb, g, hd, ct) ==
  Written(jb, <<"p", g>>) => primary[g] = GroupBlock(ct[<<"p", g>>], hd[GroupChain(g)])
BlockOnDisk(jb, b, own, nx, ct) ==
  /\ Written(jb, <<"o", b>>) /\ own[b][1] \in {"group", "source"} =>
       overflow[b] = GroupBlock(ct[<<"o", b>>], nx[b])
  /\ own[b][1] \in {"free", "old"} => overflow[b].next = nx[b]
  /\ \A k \in Key : own[b] = DataChain(k) => overflow[b] = DataBlock(k, nx[b])
  /\ \A p \in Proc : own[b] = NewChain(p) => overflow[b] = DataBlock(jb[p].key, nx[b])

\* The groups that records of the source of a move belong to.
Goals(jb, p, base) == IF jb[p].op = "split" THEN {base[p], jb[p].new} ELSE {base[p]}

\* A record is in the group of its key, or in the source of a move there.
HomeOK(jb, k, own, spot, base) ==
  \/ spot[k] = Nowhere
  \/ InGroup(own, spot[k], Home(k))
  \/ \E p \in Proc :
       /\ Moving(jb, p) /\ Home(k) \in Goals(jb, p, base)
       /\ \/ spot[k] = BufferOf(p)
          \/ \E b \in Block : spot[k] = <<"o", b>> /\ own[b] = SourceChain(p)

Busy(jb, k) == \E p \in Proc : jb[p].at \in Working /\ jb[p].key = k
\* The records and their data are those that were written.
StoreOK(jb, k, len, hd, spot, rec) ==
  /\ IF spot[k] = Nowhere THEN len[DataChain(k)] = 0 ELSE hd[DataChain(k)] = rec[k].head
  /\ ~Busy(jb, k) => store[k] = IF spot[k] = Nowhere THEN Absent
                                ELSE [size |-> rec[k].size, data |-> len[DataChain(k)]]

BlockType == [recs : Seq(Record), next : Nat]
WriteJob == [at : Working, op : {"write"}, key : Key, size : Size, data : Nat, rec : Record,
             loc : Loc, buff : BlockType, old : Nat, found : BOOLEAN]
DeleteJob == [at : Working, op : {"delete"}, key : Key, loc : Loc, buff : BlockType,
              prev : Loc, old : Nat]
DataJob == [at : {"flush", "place"}, key : Key, size : Size, data : Nat, head : 0..MaxBlock]
MoveJob == [at : {"move"}, op : {"split", "merge"}, new : Group, src : Loc, buff : BlockType,
            tgt : Seq([loc : Loc, buff : BlockType])]
Job == {Idle} \cup WriteJob \cup DeleteJob \cup DataJob \cup MoveJob
       \cup [at : {"freedata"}, old : Nat \ {0}] \cup [at : {"leave"}]

\* The chains of data that only the process knows of.
NewOK(jb, p, len, hd) ==
  IF jb[p].at \in {"flush", "place"}
  THEN jb[p].head = hd[NewChain(p)] /\ jb[p].data = len[NewChain(p)]
  ELSE IF jb[p].at \in {"ready", "compact", "add"} /\ jb[p].op = "write"
  THEN jb[p].rec.head = hd[NewChain(p)] /\ jb[p].data = len[NewChain(p)]
  ELSE len[NewChain(p)] = 0
OldOK(jb, p, len, hd) ==
  IF jb[p].at \in Working \cup {"freedata"} THEN jb[p].old = hd[OldChain(p)]
  ELSE len[OldChain(p)] = 0

\* A process that writes or deletes a record.
WorkOK(jb, p, own, len, hd, nx, ct, spot, rec) ==
  jb[p].at \in Working =>
    LET j == jb[p] IN
    /\ InGroup(own, j.loc, Home(j.key))
    /\ j.buff = GroupBlock(ct[j.loc], NextOf(hd, nx, j.loc))
    /\ j.op = "write" => j.rec.key = j.key /\ j.rec.size = j.size
    /\ IF j.at = "last" /\ j.op = "write"
       THEN spot[j.key] # Nowhere /\ rec[j.key] = j.rec /\ len[DataChain(j.key)] = j.data
       ELSE spot[j.key] = Nowhere
    /\ j.at \in {"ready", "compact", "add"} /\ j.op = "write" /\ ~j.found =>
         j.buff.next = 0 /\ j.buff = BlockAt(j.loc) /\ store[j.key] = Absent /\ j.old = 0
    /\ j.at = "compact" => j.buff.next # 0
    /\ j.at = "add" => j.op = "write" /\ j.buff.next = 0
    /\ j.at = "unchain" =>
         /\ j.op = "delete" /\ j.loc[1] = "o" /\ ct[j.loc] = <<>>
         /\ InGroup(own, j.prev, Home(j.key)) /\ NextOf(hd, nx, j.prev) = j.loc[2]

\* A process that splits or merges.
MoveOK(jb, p, own, len, hd, nx, ct, base) ==
  IF ~Moving(jb, p)
  THEN len[SourceChain(p)] = 0 /\ len[SourceBlock(p)] = 0
  ELSE LET j == jb[p] IN
    /\ base[p] \in 1..modulus /\ base[p] # j.new
    /\ j.buff = GroupBlock(ct[BufferOf(p)], hd[SourceChain(p)])
    /\ IF j.src[1] = "o" THEN hd[SourceBlock(p)] = j.src[2] /\ len[SourceBlock(p)] = 1
       ELSE len[SourceBlock(p)] = 0
    /\ Len(j.tgt) = IF j.op = "split" THEN 2 ELSE 1
    /\ j.new = IF j.op = "split" THEN modulus ELSE modulus + 1
    /\ \A i \in 1..Len(j.tgt) :
         /\ InGroup(own, j.tgt[i].loc, IF i = 1 THEN base[p] ELSE j.new)
         /\ j.tgt[i].buff = GroupBlock(ct[j.tgt[i].loc], 0)
         /\ NextOf(hd, nx, j.tgt[i].loc) = 0

\* Which groups a process has locked.
LocksOK(jb, p, base) ==
  \A g \in Group :
    locked[g] = p <=> \/ jb[p].at \in Working /\ g = Home(jb[p].key)
                      \/ Moving(jb, p) /\ g \in {base[p], jb[p].new}
OneMover(jb) == \A p, q \in Proc : Moving(jb, p) /\ Moving(jb, q) => p = q

\* What the header on the disk names is free, unless a process is still to flush
\* it; so is what each copy of the header names.  But for copies from before
\* another process took a block.
NamesFree(b, own) == b = 0 \/ (b \in Block /\ own[b] = Free)
HeaderOK(jb, own) ==
  /\ NamesFree(onDisk, own) \/ stale \/ \E p \in Proc : jb[p].at = "flush"
  /\ DOMAIN image = Proc
  /\ \A p \in Proc : image[p] = NoImage \/ p \in late \/ NamesFree(image[p], own)

SpaceOK(jb, own, len, hd) ==
  /\ extent \in 0..MaxBlock /\ freeChain = hd[Free] /\ len[Spare] = 0
  /\ \A b \in Block : own[b] = NoOne <=> b > extent
  /\ \A g \in Group : g > modulus => len[GroupChain(g)] = 0
  /\ HeaderOK(jb, own)

FixedOK(jb) ==
  /\ ParamsOK(modulus, modValue) /\ modulus \in MinMod..MaxMod
  /\ header = None /\ locked \in [Group -> Proc \cup {None}]
  /\ jb \in [Proc -> Job] /\ store \in [Key -> [size : Nat, data : Nat]]
  /\ DOMAIN primary = Group /\ DOMAIN overflow = Block

\* All that concerns one process.
JobOK(jb, p, own, len, hd, nx, ct, spot, rec, base) ==
  /\ LocksOK(jb, p, base)
  /\ NewOK(jb, p, len, hd) /\ OldOK(jb, p, len, hd)
  /\ WorkOK(jb, p, own, len, hd, nx, ct, spot, rec)
  /\ MoveOK(jb, p, own, len, hd, nx, ct, base)

Good(jb, own, len, hd, nx, ct, spot, rec, base) ==
  /\ Chained(own, len, hd, nx)
  /\ Placed(ct, spot, rec)
  /\ FixedOK(jb) /\ OneMover(jb) /\ SpaceOK(jb, own, len, hd)
  /\ \A g \in 1..modulus : GroupOnDisk(jb, g, hd, ct)
  /\ \A b \in Block : BlockOnDisk(jb, b, own, nx, ct)
  /\ \A k \in Key : HomeOK(jb, k, own, spot, base) /\ StoreOK(jb, k, len, hd, spot, rec)
  /\ \A p \in Proc : JobOK(jb, p, own, len, hd, nx, ct, spot, rec, base)

-----------------------------------------------------------------------------
(* What can be done to chains *)

LEMMA OwnersApart ==
  /\ NoOne \notin Owner /\ Free \in Owner /\ Spare \in Owner /\ Free # Spare
  /\ \A g \in Group : GroupChain(g) \in Owner /\ GroupChain(g) # Free /\ GroupChain(g) # Spare
  BY DEF NoOne, Owner, Free, Spare, GroupChain

LEMMA BlockNat == 0 \notin Block /\ Block \subseteq Nat
  BY DHBlocksAssumption DEF Block

\* The first block of chain A goes to the front of chain B.
LEMMA ToFront ==
  ASSUME NEW own, NEW len, NEW hd, NEW nx, Chained(own, len, hd, nx),
         NEW A \in Owner, NEW B \in Owner, A # B, hd[A] # 0
  PROVE  /\ hd[A] \in Block /\ own[hd[A]] = A /\ len[A] # 0
         /\ Chained([own EXCEPT ![hd[A]] = B],
                    [len EXCEPT ![A] = len[A] - 1, ![B] = len[B] + 1],
                    [hd EXCEPT ![A] = nx[hd[A]], ![B] = hd[A]],
                    [nx EXCEPT ![hd[A]] = hd[B]])
  <1>1. PICK pos \in [Block -> Nat] : Positions(own, len, hd, nx, pos)
    BY DEF Chained
  <1>2. PICK b : b = hd[A]
    OBVIOUS
  <1>3. /\ own \in [Block -> Owner \cup {NoOne}] /\ A # NoOne /\ B # NoOne
        /\ len \in [Owner -> Nat] /\ hd \in [Owner -> Nat] /\ nx \in [Block -> Nat]
    BY OwnersApart DEF Chained
  <1>4. b \in Block /\ own[b] = A /\ len[A] # 0 /\ pos[b] = 1 /\ b # 0 /\ len[A] \in Nat /\ len[B] \in Nat
    BY <1>1, <1>2, <1>3, BlockNat DEF Positions
  <1>5. PICK own2 : own2 = [own EXCEPT ![b] = B]
    OBVIOUS
  <1>6. PICK len2 : len2 = [len EXCEPT ![A] = len[A] - 1, ![B] = len[B] + 1]
    OBVIOUS
  <1>7. PICK hd2 : hd2 = [hd EXCEPT ![A] = nx[b], ![B] = b]
    OBVIOUS
  <1>8. PICK nx2 : nx2 = [nx EXCEPT ![b] = hd[B]]
    OBVIOUS
  <1>9. PICK pos2 : pos2 = [c \in Block |-> IF c = b THEN 1 ELSE IF own[c] = A THEN pos[c] - 1
                                    ELSE IF own[c] = B THEN pos[c] + 1 ELSE pos[c]]
    OBVIOUS
  <1>10. /\ own2 \in [Block -> Owner \cup {NoOne}] /\ own2[b] = B
         /\ \A c \in Block : c # b => own2[c] = own[c]
    BY <1>3, <1>4, <1>5
  <1>11. /\ len2 \in [Owner -> Nat] /\ len2[A] = len[A] - 1 /\ len2[B] = len[B] + 1
         /\ \A o \in Owner : o # A /\ o # B => len2[o] = len[o]
    BY <1>3, <1>4, <1>6
  <1>12. /\ hd2 \in [Owner -> Nat] /\ hd2[A] = nx[b] /\ hd2[B] = b
         /\ \A o \in Owner : o # A /\ o # B => hd2[o] = hd[o]
    BY <1>3, <1>4, <1>7, BlockNat
  <1>13. /\ nx2 \in [Block -> Nat] /\ nx2[b] = hd[B]
         /\ \A c \in Block : c # b => nx2[c] = nx[c]
    BY <1>3, <1>4, <1>8
  <1>14. \A c \in Block : c # b /\ own[c] = A => pos[c] # 1 /\ pos[c] - 1 \in Nat
    BY <1>1, <1>3, <1>4 DEF Positions
  <1>15. pos2 \in [Block -> Nat] /\ pos2[b] = 1
         /\ \A c \in Block : c # b => pos2[c] = IF own[c] = A THEN pos[c] - 1
                                    ELSE IF own[c] = B THEN pos[c] + 1 ELSE pos[c]
    BY <1>4, <1>9, <1>14
  <1>16. \A c \in Block : own2[c] # NoOne => pos2[c] \in 1..len2[own2[c]]
    BY <1>1, <1>3, <1>4, <1>10, <1>11, <1>14, <1>15 DEF Positions
  <1>17. \A c, d \in Block : own2[c] # NoOne /\ own2[d] = own2[c] /\ pos2[d] = pos2[c] => c = d
    BY <1>1, <1>3, <1>4, <1>10, <1>14, <1>15 DEF Positions
  <1>18. \A o \in Owner : IF len2[o] = 0 THEN hd2[o] = 0
           ELSE hd2[o] \in Block /\ own2[hd2[o]] = o /\ pos2[hd2[o]] = 1
    BY <1>1, <1>3, <1>4, <1>10, <1>11, <1>12, <1>14, <1>15 DEF Positions
  <1>19. \A c \in Block : own2[c] # NoOne =>
           IF pos2[c] = len2[own2[c]] THEN nx2[c] = 0
           ELSE nx2[c] \in Block /\ own2[nx2[c]] = own2[c] /\ pos2[nx2[c]] = pos2[c] + 1
    BY <1>1, <1>3, <1>4, <1>10, <1>11, <1>13, <1>14, <1>15 DEF Positions
  <1>20. Positions(own2, len2, hd2, nx2, pos2)
    BY <1>16, <1>17, <1>18, <1>19 DEF Positions
  <1>21. Chained(own2, len2, hd2, nx2)
    BY <1>10, <1>11, <1>12, <1>13, <1>15, <1>20 DEF Chained
  <1> QED BY <1>2, <1>4, <1>5, <1>6, <1>7, <1>8, <1>21

\* A chain of one block goes to the end of chain B, after its block l.
LEMMA ToBack ==
  ASSUME NEW own, NEW len, NEW hd, NEW nx, Chained(own, len, hd, nx),
         NEW A \in Owner, NEW B \in Owner, A # B, len[A] = 1,
         NEW l \in Block, own[l] = B, nx[l] = 0
  PROVE  /\ hd[A] \in Block /\ own[hd[A]] = A /\ nx[hd[A]] = 0
         /\ Chained([own EXCEPT ![hd[A]] = B],
                    [len EXCEPT ![A] = 0, ![B] = len[B] + 1],
                    [hd EXCEPT ![A] = 0],
                    [nx EXCEPT ![l] = hd[A]])
  <1>1. PICK pos \in [Block -> Nat] : Positions(own, len, hd, nx, pos)
    BY DEF Chained
  <1>2. PICK b : b = hd[A]
    OBVIOUS
  <1>3. /\ own \in [Block -> Owner \cup {NoOne}] /\ A # NoOne /\ B # NoOne
        /\ len \in [Owner -> Nat] /\ hd \in [Owner -> Nat] /\ nx \in [Block -> Nat]
    BY OwnersApart DEF Chained
  <1>4. b \in Block /\ own[b] = A /\ pos[b] = 1 /\ b # 0 /\ len[B] \in Nat /\ nx[b] = 0 /\ b # l
    BY <1>1, <1>2, <1>3, BlockNat DEF Positions
  <1>4a. pos[l] = len[B]
    BY <1>1, <1>3, BlockNat DEF Positions
  <1>5. PICK own2 : own2 = [own EXCEPT ![b] = B]
    OBVIOUS
  <1>6. PICK len2 : len2 = [len EXCEPT ![A] = 0, ![B] = len[B] + 1]
    OBVIOUS
  <1>7. PICK hd2 : hd2 = [hd EXCEPT ![A] = 0]
    OBVIOUS
  <1>8. PICK nx2 : nx2 = [nx EXCEPT ![l] = b]
    OBVIOUS
  <1>9. PICK pos2 : pos2 = [pos EXCEPT ![b] = len[B] + 1]
    OBVIOUS
  <1>10. /\ own2 \in [Block -> Owner \cup {NoOne}] /\ own2[b] = B
         /\ \A c \in Block : c # b => own2[c] = own[c]
    BY <1>3, <1>4, <1>5
  <1>11. /\ len2 \in [Owner -> Nat] /\ len2[A] = 0 /\ len2[B] = len[B] + 1
         /\ \A o \in Owner : o # A /\ o # B => len2[o] = len[o]
    BY <1>3, <1>4, <1>6
  <1>12. /\ hd2 \in [Owner -> Nat] /\ hd2[A] = 0
         /\ \A o \in Owner : o # A => hd2[o] = hd[o]
    BY <1>3, <1>4, <1>7, BlockNat
  <1>13. /\ nx2 \in [Block -> Nat] /\ nx2[l] = b
         /\ \A c \in Block : c # l => nx2[c] = nx[c]
    BY <1>3, <1>4, <1>8, BlockNat
  <1>14. \A c \in Block : own[c] = A => c = b
    BY <1>1, <1>3, <1>4 DEF Positions
  <1>15. pos2 \in [Block -> Nat] /\ pos2[b] = len[B] + 1
         /\ \A c \in Block : c # b => pos2[c] = pos[c]
    BY <1>4, <1>9
  <1>16. \A c \in Block : own2[c] # NoOne => pos2[c] \in 1..len2[own2[c]]
    BY <1>1, <1>3, <1>4, <1>10, <1>11, <1>14, <1>15 DEF Positions
  <1>17. \A c, d \in Block : own2[c] # NoOne /\ own2[d] = own2[c] /\ pos2[d] = pos2[c] => c = d
    BY <1>1, <1>3, <1>4, <1>10, <1>14, <1>15 DEF Positions
  <1>18. \A o \in Owner : IF len2[o] = 0 THEN hd2[o] = 0
           ELSE hd2[o] \in Block /\ own2[hd2[o]] = o /\ pos2[hd2[o]] = 1
    BY <1>1, <1>3, <1>4, <1>4a, <1>10, <1>11, <1>12, <1>14, <1>15 DEF Positions
  <1>19. \A c \in Block : own2[c] # NoOne =>
           IF pos2[c] = len2[own2[c]] THEN nx2[c] = 0
           ELSE nx2[c] \in Block /\ own2[nx2[c]] = own2[c] /\ pos2[nx2[c]] = pos2[c] + 1
    BY <1>1, <1>3, <1>4, <1>4a, <1>10, <1>11, <1>13, <1>14, <1>15 DEF Positions
  <1>20. Positions(own2, len2, hd2, nx2, pos2)
    BY <1>16, <1>17, <1>18, <1>19 DEF Positions
  <1>21. Chained(own2, len2, hd2, nx2)
    BY <1>10, <1>11, <1>12, <1>13, <1>15, <1>20 DEF Chained
  <1> QED BY <1>2, <1>4, <1>5, <1>6, <1>7, <1>8, <1>21

\* The block after a block a goes to the front of another chain.
LEMMA NextToFront ==
  ASSUME NEW own, NEW len, NEW hd, NEW nx, Chained(own, len, hd, nx),
         NEW A \in Owner, NEW B \in Owner, A # B, NEW a \in Block, own[a] = A, nx[a] # 0
  PROVE  /\ nx[a] \in Block /\ own[nx[a]] = A /\ nx[a] # a /\ len[A] # 0
         /\ Chained([own EXCEPT ![nx[a]] = B],
                    [len EXCEPT ![A] = len[A] - 1, ![B] = len[B] + 1],
                    [hd EXCEPT ![B] = nx[a]],
                    [nx EXCEPT ![a] = nx[nx[a]], ![nx[a]] = hd[B]])
  <1>1. PICK pos \in [Block -> Nat] : Positions(own, len, hd, nx, pos)
    BY DEF Chained
  <1>2. PICK b : b = nx[a]
    OBVIOUS
  <1>3. /\ own \in [Block -> Owner \cup {NoOne}] /\ A # NoOne /\ B # NoOne
        /\ len \in [Owner -> Nat] /\ hd \in [Owner -> Nat] /\ nx \in [Block -> Nat]
    BY OwnersApart DEF Chained
  <1>4. /\ b \in Block /\ own[b] = A /\ pos[b] = pos[a] + 1 /\ b # 0 /\ b # a
        /\ len[A] \in Nat /\ len[B] \in Nat /\ pos[a] \in 1..len[A] - 1 /\ pos[b] \in 2..len[A]
    BY <1>1, <1>2, <1>3, BlockNat DEF Positions
  <1>5. PICK own2 : own2 = [own EXCEPT ![b] = B]
    OBVIOUS
  <1>6. PICK len2 : len2 = [len EXCEPT ![A] = len[A] - 1, ![B] = len[B] + 1]
    OBVIOUS
  <1>7. PICK hd2 : hd2 = [hd EXCEPT ![B] = b]
    OBVIOUS
  <1>8. PICK nx2 : nx2 = [nx EXCEPT ![a] = nx[b], ![b] = hd[B]]
    OBVIOUS
  <1>9. PICK pos2 : pos2 = [c \in Block |-> IF c = b THEN 1
                                    ELSE IF own[c] = A /\ pos[c] > pos[b] THEN pos[c] - 1
                                    ELSE IF own[c] = B THEN pos[c] + 1 ELSE pos[c]]
    OBVIOUS
  <1>10. /\ own2 \in [Block -> Owner \cup {NoOne}] /\ own2[b] = B
         /\ \A c \in Block : c # b => own2[c] = own[c]
    BY <1>3, <1>4, <1>5
  <1>11. /\ len2 \in [Owner -> Nat] /\ len2[A] = len[A] - 1 /\ len2[B] = len[B] + 1
         /\ \A o \in Owner : o # A /\ o # B => len2[o] = len[o]
    BY <1>3, <1>4, <1>6
  <1>12. /\ hd2 \in [Owner -> Nat] /\ hd2[B] = b
         /\ \A o \in Owner : o # B => hd2[o] = hd[o]
    BY <1>3, <1>4, <1>7, BlockNat
  <1>13. /\ nx2 \in [Block -> Nat] /\ nx2[b] = hd[B] /\ nx2[a] = nx[b]
         /\ \A c \in Block : c # b /\ c # a => nx2[c] = nx[c]
    BY <1>3, <1>4, <1>8
  <1>14. \A c \in Block : c # b /\ own[c] = A =>
           pos[c] # pos[b] /\ pos[c] \in 1..len[A] /\ pos[c] \in Nat
    BY <1>1, <1>3, <1>4 DEF Positions
  <1>15. pos2 \in [Block -> Nat] /\ pos2[b] = 1
         /\ \A c \in Block : c # b => pos2[c] = IF own[c] = A /\ pos[c] > pos[b] THEN pos[c] - 1
                                    ELSE IF own[c] = B THEN pos[c] + 1 ELSE pos[c]
    BY <1>4, <1>9, <1>14
  <1>16. \A c \in Block : own2[c] # NoOne => pos2[c] \in 1..len2[own2[c]]
    BY <1>1, <1>3, <1>4, <1>10, <1>11, <1>14, <1>15 DEF Positions
  <1>17. \A c, d \in Block : own2[c] # NoOne /\ own2[d] = own2[c] /\ pos2[d] = pos2[c] => c = d
    BY <1>1, <1>3, <1>4, <1>10, <1>14, <1>15 DEF Positions
  <1>18. \A o \in Owner : IF len2[o] = 0 THEN hd2[o] = 0
           ELSE hd2[o] \in Block /\ own2[hd2[o]] = o /\ pos2[hd2[o]] = 1
    <2>1. SUFFICES ASSUME NEW o \in Owner
                   PROVE  IF len2[o] = 0 THEN hd2[o] = 0
                          ELSE hd2[o] \in Block /\ own2[hd2[o]] = o /\ pos2[hd2[o]] = 1
      OBVIOUS
    <2>2. CASE o = B
      BY <1>4, <1>10, <1>11, <1>12, <1>15, <2>2
    <2>3. CASE o = A
      BY <1>1, <1>3, <1>4, <1>10, <1>11, <1>12, <1>14, <1>15, <2>3 DEF Positions
    <2>4. CASE o # A /\ o # B
      BY <1>1, <1>3, <1>4, <1>10, <1>11, <1>12, <1>15, <2>4 DEF Positions
    <2> QED BY <2>2, <2>3, <2>4
  <1>19. ASSUME NEW c \in Block, own2[c] # NoOne
         PROVE  IF pos2[c] = len2[own2[c]] THEN nx2[c] = 0
           ELSE nx2[c] \in Block /\ own2[nx2[c]] = own2[c] /\ pos2[nx2[c]] = pos2[c] + 1
    <2>1. CASE c = b
      BY <1>1, <1>3, <1>4, <1>10, <1>11, <1>13, <1>14, <1>15, <2>1 DEF Positions
    <2>2. CASE c = a
      BY <1>1, <1>3, <1>4, <1>10, <1>11, <1>13, <1>14, <1>15, <2>2 DEF Positions
    <2>3. CASE c # a /\ c # b
      BY <1>1, <1>3, <1>4, <1>10, <1>11, <1>13, <1>14, <1>15, <1>19, <2>3 DEF Positions
    <2> QED BY <2>1, <2>2, <2>3
  <1>20. Positions(own2, len2, hd2, nx2, pos2)
    BY <1>16, <1>17, <1>18, <1>19 DEF Positions
  <1>21. Chained(own2, len2, hd2, nx2)
    BY <1>10, <1>11, <1>12, <1>13, <1>15, <1>20 DEF Chained
  <1> QED BY <1>2, <1>4, <1>5, <1>6, <1>7, <1>8, <1>21

\* The whole of chain A, which ends with block z, goes in front of chain B.
LEMMA Joined ==
  ASSUME NEW own, NEW len, NEW hd, NEW nx, Chained(own, len, hd, nx),
         NEW A \in Owner, NEW B \in Owner, A # B, NEW z \in Block, own[z] = A, nx[z] = 0
  PROVE  Chained([c \in Block |-> IF own[c] = A THEN B ELSE own[c]],
                 [len EXCEPT ![A] = 0, ![B] = len[A] + len[B]],
                 [hd EXCEPT ![A] = 0, ![B] = hd[A]],
                 [nx EXCEPT ![z] = hd[B]])
  <1>1. PICK pos \in [Block -> Nat] : Positions(own, len, hd, nx, pos)
    BY DEF Chained
  <1>3. /\ own \in [Block -> Owner \cup {NoOne}] /\ A # NoOne /\ B # NoOne
        /\ len \in [Owner -> Nat] /\ hd \in [Owner -> Nat] /\ nx \in [Block -> Nat]
    BY OwnersApart DEF Chained
  <1>4. /\ len[A] \in Nat \ {0} /\ len[B] \in Nat /\ pos[z] = len[A]
        /\ hd[A] \in Block /\ own[hd[A]] = A /\ pos[hd[A]] = 1
    BY <1>1, <1>3, BlockNat DEF Positions
  <1>5. PICK own2 : own2 = [c \in Block |-> IF own[c] = A THEN B ELSE own[c]]
    OBVIOUS
  <1>6. PICK len2 : len2 = [len EXCEPT ![A] = 0, ![B] = len[A] + len[B]]
    OBVIOUS
  <1>7. PICK hd2 : hd2 = [hd EXCEPT ![A] = 0, ![B] = hd[A]]
    OBVIOUS
  <1>8. PICK nx2 : nx2 = [nx EXCEPT ![z] = hd[B]]
    OBVIOUS
  <1>9. PICK pos2 : pos2 = [c \in Block |-> IF own[c] = B THEN pos[c] + len[A] ELSE pos[c]]
    OBVIOUS
  <1>10. /\ own2 \in [Block -> Owner \cup {NoOne}]
         /\ \A c \in Block : own2[c] = IF own[c] = A THEN B ELSE own[c]
    BY <1>3, <1>5
  <1>11. /\ len2 \in [Owner -> Nat] /\ len2[A] = 0 /\ len2[B] = len[A] + len[B]
         /\ \A o \in Owner : o # A /\ o # B => len2[o] = len[o]
    BY <1>3, <1>4, <1>6
  <1>12. /\ hd2 \in [Owner -> Nat] /\ hd2[A] = 0 /\ hd2[B] = hd[A]
         /\ \A o \in Owner : o # A /\ o # B => hd2[o] = hd[o]
    BY <1>3, <1>4, <1>7, BlockNat
  <1>13. /\ nx2 \in [Block -> Nat] /\ nx2[z] = hd[B]
         /\ \A c \in Block : c # z => nx2[c] = nx[c]
    BY <1>3, <1>8
  <1>15. pos2 \in [Block -> Nat]
         /\ \A c \in Block : pos2[c] = IF own[c] = B THEN pos[c] + len[A] ELSE pos[c]
    BY <1>4, <1>9
  <1>16. \A c \in Block : own2[c] # NoOne => pos2[c] \in 1..len2[own2[c]]
    BY <1>1, <1>3, <1>4, <1>10, <1>11, <1>15 DEF Positions
  <1>17. ASSUME NEW c \in Block, NEW d \in Block, own2[c] # NoOne, own2[d] = own2[c], pos2[d] = pos2[c]
         PROVE  c = d
    <2>1. \A b \in Block : own[b] \in {A, B} => pos[b] \in 1..len[own[b]]
      BY <1>1, <1>3 DEF Positions
    <2>2. own[c] = own[d] => pos[c] = pos[d]
      BY <1>4, <1>15, <1>17, <2>1
    <2>3. own[c] # NoOne
      BY <1>3, <1>10, <1>17
    <2>4. own[c] = own[d] => c = d
      BY <1>1, <2>2, <2>3 DEF Positions
    <2>5. own[c] # own[d] => (own[c] = A /\ own[d] = B) \/ (own[c] = B /\ own[d] = A)
      BY <1>10, <1>17
    <2>6. own[c] = A /\ own[d] = B => FALSE
      BY <1>4, <1>15, <1>17, <2>1
    <2>7. own[c] = B /\ own[d] = A => FALSE
      BY <1>4, <1>15, <1>17, <2>1
    <2> QED BY <2>4, <2>5, <2>6, <2>7
  <1>18. \A o \in Owner : IF len2[o] = 0 THEN hd2[o] = 0
           ELSE hd2[o] \in Block /\ own2[hd2[o]] = o /\ pos2[hd2[o]] = 1
    BY <1>1, <1>3, <1>4, <1>10, <1>11, <1>12, <1>15 DEF Positions
  <1>19. ASSUME NEW c \in Block, own2[c] # NoOne
         PROVE  IF pos2[c] = len2[own2[c]] THEN nx2[c] = 0
           ELSE nx2[c] \in Block /\ own2[nx2[c]] = own2[c] /\ pos2[nx2[c]] = pos2[c] + 1
    <2>0. /\ own[c] # NoOne /\ pos[c] \in 1..len[own[c]] /\ own[c] \in Owner /\ len[own[c]] \in Nat
          /\ IF pos[c] = len[own[c]] THEN nx[c] = 0
             ELSE nx[c] \in Block /\ own[nx[c]] = own[c] /\ pos[nx[c]] = pos[c] + 1
      BY <1>1, <1>3, <1>10, <1>19 DEF Positions
    <2>1. CASE c = z
      <3>1. pos2[c] = len[A] /\ own2[c] = B /\ len2[own2[c]] = len[A] + len[B] /\ nx2[c] = hd[B]
        BY <1>4, <1>10, <1>11, <1>13, <1>15, <2>1
      <3>2. CASE len[B] = 0
        BY <1>1, <1>4, <3>1, <3>2 DEF Positions
      <3>3. CASE len[B] # 0
        <4>1. hd[B] \in Block /\ own[hd[B]] = B /\ pos[hd[B]] = 1
          BY <1>1, <3>3 DEF Positions
        <4> QED BY <1>4, <1>10, <1>15, <3>1, <3>3, <4>1
      <3> QED BY <3>2, <3>3
    <2>2. CASE c # z /\ own[c] = A
      <3>1. pos[c] # len[A]
        BY <1>1, <1>3, <1>4, <2>2 DEF Positions
      <3> QED BY <1>3, <1>4, <1>10, <1>11, <1>13, <1>15, <2>0, <2>2, <3>1
    <2>3. CASE c # z /\ own[c] # A
      BY <1>3, <1>4, <1>10, <1>11, <1>13, <1>15, <2>0, <2>3
    <2> QED BY <2>1, <2>2, <2>3
  <1>20. Positions(own2, len2, hd2, nx2, pos2)
    BY <1>16, <1>17, <1>18, <1>19 DEF Positions
  <1>21. Chained(own2, len2, hd2, nx2)
    BY <1>10, <1>11, <1>12, <1>13, <1>15, <1>20 DEF Chained
  <1> QED BY <1>5, <1>6, <1>7, <1>8, <1>21

\* A chain is given another name.
LEMMA Renamed ==
  ASSUME NEW own, NEW len, NEW hd, NEW nx, Chained(own, len, hd, nx),
         NEW A \in Owner, NEW B \in Owner, A # B, len[B] = 0
  PROVE  Chained([c \in Block |-> IF own[c] = A THEN B ELSE own[c]],
                 [len EXCEPT ![A] = 0, ![B] = len[A]],
                 [hd EXCEPT ![A] = 0, ![B] = hd[A]], nx)
  <1>1. PICK pos \in [Block -> Nat] : Positions(own, len, hd, nx, pos)
    BY DEF Chained
  <1>3. /\ own \in [Block -> Owner \cup {NoOne}] /\ A # NoOne /\ B # NoOne
        /\ len \in [Owner -> Nat] /\ hd \in [Owner -> Nat] /\ nx \in [Block -> Nat]
    BY OwnersApart DEF Chained
  <1>4. len[A] \in Nat /\ \A c \in Block : own[c] # B
    BY <1>1, <1>3 DEF Positions
  <1>5. PICK own2 : own2 = [c \in Block |-> IF own[c] = A THEN B ELSE own[c]]
    OBVIOUS
  <1>6. PICK len2 : len2 = [len EXCEPT ![A] = 0, ![B] = len[A]]
    OBVIOUS
  <1>7. PICK hd2 : hd2 = [hd EXCEPT ![A] = 0, ![B] = hd[A]]
    OBVIOUS
  <1>10. /\ own2 \in [Block -> Owner \cup {NoOne}]
         /\ \A c \in Block : own2[c] = IF own[c] = A THEN B ELSE own[c]
    BY <1>3, <1>5
  <1>11. /\ len2 \in [Owner -> Nat] /\ len2[A] = 0 /\ len2[B] = len[A]
         /\ \A o \in Owner : o # A /\ o # B => len2[o] = len[o]
    BY <1>3, <1>4, <1>6
  <1>12. /\ hd2 \in [Owner -> Nat] /\ hd2[A] = 0 /\ hd2[B] = hd[A]
         /\ \A o \in Owner : o # A /\ o # B => hd2[o] = hd[o]
    BY <1>3, <1>4, <1>7, BlockNat
  <1>16. \A c \in Block : own2[c] # NoOne => pos[c] \in 1..len2[own2[c]]
    BY <1>1, <1>3, <1>4, <1>10, <1>11 DEF Positions
  <1>17. \A c, d \in Block : own2[c] # NoOne /\ own2[d] = own2[c] /\ pos[d] = pos[c] => c = d
    BY <1>1, <1>3, <1>4, <1>10 DEF Positions
  <1>18. \A o \in Owner : IF len2[o] = 0 THEN hd2[o] = 0
           ELSE hd2[o] \in Block /\ own2[hd2[o]] = o /\ pos[hd2[o]] = 1
    BY <1>1, <1>3, <1>4, <1>10, <1>11, <1>12 DEF Positions
  <1>19. \A c \in Block : own2[c] # NoOne =>
           IF pos[c] = len2[own2[c]] THEN nx[c] = 0
           ELSE nx[c] \in Block /\ own2[nx[c]] = own2[c] /\ pos[nx[c]] = pos[c] + 1
    BY <1>1, <1>3, <1>4, <1>10, <1>11 DEF Positions
  <1>20. Positions(own2, len2, hd2, nx, pos)
    BY <1>16, <1>17, <1>18, <1>19 DEF Positions
  <1>21. Chained(own2, len2, hd2, nx)
    BY <1>3, <1>10, <1>11, <1>12, <1>20 DEF Chained
  <1> QED BY <1>5, <1>6, <1>7, <1>21

\* A new block is a chain of its own.
LEMMA Fresh ==
  ASSUME NEW own, NEW len, NEW hd, NEW nx, Chained(own, len, hd, nx),
         NEW A \in Owner, len[A] = 0, NEW b \in Block, own[b] = NoOne
  PROVE  Chained([own EXCEPT ![b] = A], [len EXCEPT ![A] = 1], [hd EXCEPT ![A] = b],
                 [nx EXCEPT ![b] = 0])
  <1>1. PICK pos \in [Block -> Nat] : Positions(own, len, hd, nx, pos)
    BY DEF Chained
  <1>3. /\ own \in [Block -> Owner \cup {NoOne}] /\ A # NoOne
        /\ len \in [Owner -> Nat] /\ hd \in [Owner -> Nat] /\ nx \in [Block -> Nat]
    BY OwnersApart DEF Chained
  <1>4. b \in Nat /\ b # 0 /\ \A c \in Block : own[c] # A
    BY <1>1, <1>3, BlockNat DEF Positions
  <1>5. PICK own2 : own2 = [own EXCEPT ![b] = A]
    OBVIOUS
  <1>6. PICK len2 : len2 = [len EXCEPT ![A] = 1]
    OBVIOUS
  <1>7. PICK hd2 : hd2 = [hd EXCEPT ![A] = b]
    OBVIOUS
  <1>8. PICK nx2 : nx2 = [nx EXCEPT ![b] = 0]
    OBVIOUS
  <1>9. PICK pos2 : pos2 = [pos EXCEPT ![b] = 1]
    OBVIOUS
  <1>10. /\ own2 \in [Block -> Owner \cup {NoOne}] /\ own2[b] = A
         /\ \A c \in Block : c # b => own2[c] = own[c]
    BY <1>3, <1>5
  <1>11. /\ len2 \in [Owner -> Nat] /\ len2[A] = 1
         /\ \A o \in Owner : o # A => len2[o] = len[o]
    BY <1>3, <1>6
  <1>12. /\ hd2 \in [Owner -> Nat] /\ hd2[A] = b
         /\ \A o \in Owner : o # A => hd2[o] = hd[o]
    BY <1>3, <1>4, <1>7
  <1>13. /\ nx2 \in [Block -> Nat] /\ nx2[b] = 0
         /\ \A c \in Block : c # b => nx2[c] = nx[c]
    BY <1>3, <1>8
  <1>15. pos2 \in [Block -> Nat] /\ pos2[b] = 1 /\ \A c \in Block : c # b => pos2[c] = pos[c]
    BY <1>9
  <1>16. \A c \in Block : own2[c] # NoOne => pos2[c] \in 1..len2[own2[c]]
    BY <1>1, <1>3, <1>4, <1>10, <1>11, <1>15 DEF Positions
  <1>17. \A c, d \in Block : own2[c] # NoOne /\ own2[d] = own2[c] /\ pos2[d] = pos2[c] => c = d
    BY <1>1, <1>3, <1>4, <1>10, <1>15 DEF Positions
  <1>18. \A o \in Owner : IF len2[o] = 0 THEN hd2[o] = 0
           ELSE hd2[o] \in Block /\ own2[hd2[o]] = o /\ pos2[hd2[o]] = 1
    BY <1>1, <1>3, <1>4, <1>10, <1>11, <1>12, <1>15, OwnersApart DEF Positions
  <1>19. \A c \in Block : own2[c] # NoOne =>
           IF pos2[c] = len2[own2[c]] THEN nx2[c] = 0
           ELSE nx2[c] \in Block /\ own2[nx2[c]] = own2[c] /\ pos2[nx2[c]] = pos2[c] + 1
    BY <1>1, <1>3, <1>4, <1>10, <1>11, <1>13, <1>15 DEF Positions
  <1>20. Positions(own2, len2, hd2, nx2, pos2)
    BY <1>16, <1>17, <1>18, <1>19 DEF Positions
  <1>21. Chained(own2, len2, hd2, nx2)
    BY <1>10, <1>11, <1>12, <1>13, <1>15, <1>20 DEF Chained
  <1> QED BY <1>5, <1>6, <1>7, <1>8, <1>21

LEMMA ChainFacts ==
  ASSUME NEW own, NEW len, NEW hd, NEW nx, Chained(own, len, hd, nx)
  PROVE  /\ own \in [Block -> Owner \cup {NoOne}]
         /\ len \in [Owner -> Nat] /\ hd \in [Owner -> Nat] /\ nx \in [Block -> Nat]
         /\ \A o \in Owner : hd[o] = 0 <=> len[o] = 0
         /\ \A o \in Owner : hd[o] # 0 => hd[o] \in Block /\ own[hd[o]] = o
         /\ \A b \in Block : own[b] # NoOne => own[b] \in Owner /\ len[own[b]] # 0 /\ hd[own[b]] # 0
         /\ \A b \in Block : own[b] # NoOne /\ nx[b] # 0 =>
              nx[b] \in Block /\ own[nx[b]] = own[b] /\ nx[b] # b
         /\ \A b, c \in Block : own[b] # NoOne /\ len[own[b]] = 1 /\ own[c] = own[b] =>
              b = c /\ nx[b] = 0
  <1>1. PICK pos \in [Block -> Nat] : Positions(own, len, hd, nx, pos)
    BY DEF Chained
  <1>2. /\ own \in [Block -> Owner \cup {NoOne}]
        /\ len \in [Owner -> Nat] /\ hd \in [Owner -> Nat] /\ nx \in [Block -> Nat]
    BY DEF Chained
  <1>3. \A o \in Owner : hd[o] = 0 <=> len[o] = 0
    BY <1>1, <1>2, BlockNat DEF Positions
  <1>4. \A o \in Owner : hd[o] # 0 => hd[o] \in Block /\ own[hd[o]] = o
    BY <1>1, <1>2 DEF Positions
  <1>5. \A b \in Block : own[b] # NoOne => own[b] \in Owner /\ len[own[b]] # 0 /\ hd[own[b]] # 0
    BY <1>1, <1>2, <1>3 DEF Positions
  <1>6. \A b \in Block : own[b] # NoOne /\ nx[b] # 0 =>
          nx[b] \in Block /\ own[nx[b]] = own[b] /\ nx[b] # b
    BY <1>1, <1>2 DEF Positions
  <1>7. \A b, c \in Block : own[b] # NoOne /\ len[own[b]] = 1 /\ own[c] = own[b] =>
          b = c /\ nx[b] = 0
    BY <1>1, <1>2 DEF Positions
  <1> QED BY <1>2, <1>3, <1>4, <1>5, <1>6, <1>7

-----------------------------------------------------------------------------
(* Chain() finds the blocks of a chain, in their order *)

\* The recursive function of Walk() exists.
LEMMA WalkIs ==
  ASSUME NEW b
  PROVE  Walk(b) = [n \in 0..MaxBlock |-> IF n = 0 THEN b ELSE After(Walk(b)[n - 1])]
  <1> DEFINE Steps(m, f) == f = [i \in 0..m |-> IF i = 0 THEN b ELSE After(f[i - 1])]
             I == {m \in Nat : \E f : Steps(m, f)}
  <1>1. 0 \in I
    <2>1. Steps(0, [i \in 0..0 |-> b])
      OBVIOUS
    <2> QED BY <2>1
  <1>2. ASSUME NEW m \in Nat, m \in I PROVE m + 1 \in I
    <2>1. PICK f : Steps(m, f)
      BY <1>2
    <2>2. PICK g : g = [i \in 0..m + 1 |-> IF i = m + 1 THEN After(f[m]) ELSE f[i]]
      OBVIOUS
    <2>3. \A i \in 0..m : g[i] = f[i]
      BY <2>2
    <2>4. \A i \in 0..m + 1 : g[i] = IF i = 0 THEN b ELSE After(g[i - 1])
      <3>1. SUFFICES ASSUME NEW i \in 0..m + 1 PROVE g[i] = IF i = 0 THEN b ELSE After(g[i - 1])
        OBVIOUS
      <3>2. CASE i = m + 1
        <4>1. g[i] = After(f[m]) /\ i # 0 /\ i - 1 = m /\ g[m] = f[m]
          BY <2>2, <2>3, <3>2
        <4> QED BY <4>1
      <3>3. CASE i # m + 1 /\ i # 0
        <4>1. i \in 0..m /\ i - 1 \in 0..m
          BY <3>3
        <4>2. g[i] = f[i] /\ g[i - 1] = f[i - 1] /\ f[i] = After(f[i - 1])
          BY <2>1, <2>3, <3>3, <4>1
        <4> QED BY <3>3, <4>2
      <3>4. CASE i = 0
        <4>1. g[0] = f[0] /\ f[0] = b
          BY <2>1, <2>3
        <4> QED BY <3>4, <4>1
      <3> QED BY <3>2, <3>3, <3>4
    <2>5. Steps(m + 1, g)
      BY <2>2, <2>4
    <2> QED BY <2>5
  <1>3. I = Nat
    <2> HIDE DEF I
    <2>1. I \in SUBSET Nat
      BY DEF I
    <2> QED BY <1>1, <1>2, <2>1, NatSteps
  <1>4. MaxBlock \in I
    BY <1>3, DHBlocksAssumption
  <1>5. PICK f : f = [i \in 0..MaxBlock |-> IF i = 0 THEN b ELSE After(f[i - 1])]
    BY <1>4
  <1>6. Walk(b) = CHOOSE at : at = [n \in 0..MaxBlock |-> IF n = 0 THEN b ELSE After(at[n - 1])]
    BY DEF Walk
  <1> HIDE DEF I
  <1> QED BY <1>5, <1>6

\* Chain(h) is those blocks of a chain in their order.
Enumerates(c, o, own, len, hd, nx) ==
  /\ c \in Seq(Block) /\ Len(c) = len[o] /\ Len(c) <= MaxBlock
  /\ \A i \in 1..Len(c) : c[i] \in Block /\ own[c[i]] = o
  /\ \A b \in Block : own[b] = o => \E i \in 1..Len(c) : c[i] = b
  /\ \A i, j \in 1..Len(c) : c[i] = c[j] => i = j
  /\ Len(c) # 0 => c[1] = hd[o] /\ nx[c[Len(c)]] = 0
  /\ \A i \in 1..Len(c) - 1 : nx[c[i]] = c[i + 1]

LEMMA ChainSeq ==
  ASSUME NEW own, NEW len, NEW hd, NEW nx, Chained(own, len, hd, nx),
         NEW o \in Owner, \A b \in Block : own[b] = o => overflow[b].next = nx[b]
  PROVE  Enumerates(Chain(hd[o]), o, own, len, hd, nx)
  <1>1. PICK pos \in [Block -> Nat] : Positions(own, len, hd, nx, pos)
    BY DEF Chained
  <1>2. PICK L \in Nat : L = len[o]
    BY DEF Chained
  <1>2a. PICK w : w = Walk(hd[o])
    OBVIOUS
  <1>3. MaxBlock \in Nat /\ o # NoOne /\ 0 \notin Block
    BY DHBlocksAssumption, OwnersApart, BlockNat
  <1>4. w = [n \in 0..MaxBlock |-> IF n = 0 THEN hd[o] ELSE After(w[n - 1])]
    BY <1>2a, WalkIs
  <1> DEFINE At1(n) == IF n < L THEN w[n] \in Block /\ own[w[n]] = o /\ pos[w[n]] = n + 1
                       ELSE w[n] = 0
             I == {n \in Nat : n <= MaxBlock => At1(n)}
  <1>5. 0 \in I
    BY <1>1, <1>2, <1>3, <1>4 DEF Positions
  <1>6. ASSUME NEW n \in Nat, n \in I PROVE n + 1 \in I
    <2>1. SUFFICES ASSUME n + 1 <= MaxBlock PROVE At1(n + 1)
      OBVIOUS
    <2>2. At1(n) /\ w[n + 1] = After(w[n])
      BY <1>3, <1>4, <1>6, <2>1
    <2>3. CASE n >= L
      BY <1>2, <2>2, <2>3 DEF After
    <2>4. CASE n < L
      <3>1. w[n] \in Block /\ own[w[n]] = o /\ pos[w[n]] = n + 1 /\ w[n + 1] = nx[w[n]]
        BY <1>3, <2>2, <2>4 DEF After
      <3> QED BY <1>1, <1>2, <1>3, <2>4, <3>1 DEF Positions
    <2> QED BY <1>2, <2>3, <2>4
  <1>7. \A n \in 0..MaxBlock : At1(n)
    <2> HIDE DEF At1
    <2>1. I \in SUBSET Nat
      OBVIOUS
    <2>2. I = Nat
      <3> HIDE DEF I
      <3> QED BY <1>5, <1>6, <2>1, NatSteps
    <2> QED BY <1>3, <2>2
  <1>8. L <= MaxBlock
    <2>1. SUFFICES ASSUME L > MaxBlock PROVE FALSE
      BY <1>2, <1>3
    <2>2. \A x \in 0..MaxBlock : w[x] \in Block /\ pos[w[x]] = x + 1
      BY <1>2, <1>3, <1>7, <2>1
    <2>3. \A x, y \in 0..MaxBlock : w[x] = w[y] => x = y
      <3>1. SUFFICES ASSUME NEW x \in 0..MaxBlock, NEW y \in 0..MaxBlock, w[x] = w[y] PROVE x = y
        OBVIOUS
      <3>2. x + 1 = y + 1
        BY <2>2, <3>1
      <3> QED BY <3>2
    <2>4. w \in Injection(0..MaxBlock, Block)
      BY <1>4, <2>2, <2>3 DEF Injection, IsInjective
    <2>5. /\ IsFiniteSet(0..MaxBlock) /\ Cardinality(0..MaxBlock) = MaxBlock + 1
          /\ IsFiniteSet(Block) /\ Cardinality(Block) = MaxBlock
      BY <1>3, FS_Interval DEF Block
    <2>6. Cardinality(0..MaxBlock) <= Cardinality(Block)
      BY <2>4, <2>5, FS_Injection
    <2> QED BY <1>3, <2>5, <2>6
  <1>9. \A i \in 0..MaxBlock : w[i] # 0 <=> i < L
    BY <1>2, <1>3, <1>7
  <1>10. PICK N : N = CHOOSE n \in 0..MaxBlock + 1 : \A i \in 0..MaxBlock : w[i] # 0 <=> i < n
    OBVIOUS
  <1>11. N \in 0..MaxBlock + 1 /\ \A i \in 0..MaxBlock : w[i] # 0 <=> i < N
    <2>1. L \in 0..MaxBlock + 1
      BY <1>2, <1>3, <1>8
    <2> QED BY <1>9, <1>10, <2>1
  <1>12. N = L
    <2>1. CASE N < L
      <3>1. N \in 0..MaxBlock
        BY <1>3, <1>8, <1>11, <2>1
      <3> QED BY <1>2, <1>9, <1>11, <2>1, <3>1
    <2>2. CASE L < N
      <3>1. L \in 0..MaxBlock
        BY <1>2, <1>8
      <3> QED BY <1>2, <1>9, <1>11, <2>2, <3>1
    <2> QED BY <1>2, <1>11, <2>1, <2>2
  <1>13. PICK c : c = [i \in 1..L |-> w[i - 1]]
    OBVIOUS
  <1>14. Chain(hd[o]) = c
    BY <1>2a, <1>10, <1>12, <1>13 DEF Chain
  <1>15. \A i \in 1..L : c[i] \in Block /\ own[c[i]] = o /\ pos[c[i]] = i
    <2>1. SUFFICES ASSUME NEW i \in 1..L PROVE c[i] \in Block /\ own[c[i]] = o /\ pos[c[i]] = i
      OBVIOUS
    <2>2. i - 1 \in 0..MaxBlock /\ i - 1 < L /\ c[i] = w[i - 1] /\ (i - 1) + 1 = i
      BY <1>2, <1>3, <1>8, <1>13
    <2>3. At1(i - 1)
      BY <1>7, <2>2
    <2> QED BY <2>2, <2>3
  <1> HIDE DEF At1, I
  <1>16. c \in Seq(Block) /\ Len(c) = L
    <2>1. c \in [1..L -> Block]
      BY <1>13, <1>15
    <2> QED BY <2>1
  <1>17. \A b \in Block : own[b] = o => \E i \in 1..L : c[i] = b
    <2>1. SUFFICES ASSUME NEW b \in Block, own[b] = o PROVE \E i \in 1..L : c[i] = b
      OBVIOUS
    <2>2. pos[b] \in 1..L
      BY <1>1, <1>2, <1>3, <2>1 DEF Positions
    <2>3. c[pos[b]] = b
      BY <1>1, <1>3, <1>15, <2>1, <2>2 DEF Positions
    <2> QED BY <2>2, <2>3
  <1>18. \A i, j \in 1..L : c[i] = c[j] => i = j
    <2>1. SUFFICES ASSUME NEW i \in 1..L, NEW j \in 1..L, c[i] = c[j] PROVE i = j
      OBVIOUS
    <2>2. pos[c[i]] = i /\ pos[c[j]] = j
      BY <1>15
    <2> QED BY <2>1, <2>2
  <1>19. L # 0 => c[1] = hd[o] /\ nx[c[L]] = 0
    <2>1. SUFFICES ASSUME L # 0 PROVE c[1] = hd[o] /\ nx[c[L]] = 0
      OBVIOUS
    <2>2. 1 \in 1..L /\ L \in 1..L /\ 0 \in 0..MaxBlock
      BY <1>2, <1>3, <2>1
    <2>3. c[1] = w[0] /\ w[0] = hd[o]
      BY <1>4, <1>13, <2>2
    <2>4. c[L] \in Block /\ own[c[L]] = o /\ pos[c[L]] = len[own[c[L]]]
      BY <1>2, <1>15, <2>2
    <2> QED BY <1>1, <1>3, <2>3, <2>4 DEF Positions
  <1>20. \A i \in 1..L - 1 : nx[c[i]] = c[i + 1]
    <2>1. SUFFICES ASSUME NEW i \in 1..L - 1 PROVE nx[c[i]] = c[i + 1]
      OBVIOUS
    <2>2. i \in 1..L /\ i + 1 \in 1..L /\ i # L
      BY <1>2
    <2>3. nx[c[i]] \in Block /\ own[nx[c[i]]] = o /\ pos[nx[c[i]]] = i + 1
      BY <1>1, <1>2, <1>3, <1>15, <2>2 DEF Positions
    <2> QED BY <1>1, <1>3, <1>15, <2>2, <2>3 DEF Positions
  <1> QED BY <1>2, <1>8, <1>14, <1>15, <1>16, <1>17, <1>18, <1>19, <1>20 DEF Enumerates


-----------------------------------------------------------------------------
(* Chains: what the actions do to them, block by block                      *)

\* A chain becomes another, which had no blocks.
LEMMA Handover ==
  ASSUME NEW own, NEW len, NEW hd, NEW nx, Chained(own, len, hd, nx),
         NEW A \in Owner, NEW B \in Owner, A # B, len[B] = 0
  PROVE  \E own2, len2, hd2 :
           /\ Chained(own2, len2, hd2, nx)
           /\ \A b \in Block : own2[b] = IF own[b] = A THEN B ELSE own[b]
           /\ len2[A] = 0 /\ hd2[A] = 0 /\ len2[B] = len[A] /\ hd2[B] = hd[A]
           /\ \A o \in Owner : o # A /\ o # B => len2[o] = len[o] /\ hd2[o] = hd[o]
  <1>1. PICK own2 : own2 = [c \in Block |-> IF own[c] = A THEN B ELSE own[c]]
    OBVIOUS
  <1>2. PICK len2 : len2 = [len EXCEPT ![A] = 0, ![B] = len[A]]
    OBVIOUS
  <1>3. PICK hd2 : hd2 = [hd EXCEPT ![A] = 0, ![B] = hd[A]]
    OBVIOUS
  <1>4. Chained(own2, len2, hd2, nx)
    <2>1. Chained([c \in Block |-> IF own[c] = A THEN B ELSE own[c]],
                  [len EXCEPT ![A] = 0, ![B] = len[A]],
                  [hd EXCEPT ![A] = 0, ![B] = hd[A]], nx)
      BY Renamed
    <2> QED BY <1>1, <1>2, <1>3, <2>1
  <1>5. len \in [Owner -> Nat] /\ hd \in [Owner -> Nat]
    BY DEF Chained
  <1>6. \A b \in Block : own2[b] = IF own[b] = A THEN B ELSE own[b]
    BY <1>1
  <1>7. /\ len2[A] = 0 /\ len2[B] = len[A]
        /\ \A o \in Owner : o # A /\ o # B => len2[o] = len[o]
    BY <1>2, <1>5
  <1>8. /\ hd2[A] = 0 /\ hd2[B] = hd[A]
        /\ \A o \in Owner : o # A /\ o # B => hd2[o] = hd[o]
    BY <1>3, <1>5
  <1> QED BY <1>4, <1>6, <1>7, <1>8

\* A chain of some blocks goes in front of another.
LEMMA GiveBack ==
  ASSUME NEW own, NEW len, NEW hd, NEW nx, Chained(own, len, hd, nx),
         NEW A \in Owner, NEW B \in Owner, A # B, NEW z \in Block, own[z] = A, nx[z] = 0
  PROVE  \E own2, len2, hd2, nx2 :
           /\ Chained(own2, len2, hd2, nx2)
           /\ \A b \in Block : own2[b] = IF own[b] = A THEN B ELSE own[b]
           /\ \A b \in Block : nx2[b] = IF b = z THEN hd[B] ELSE nx[b]
           /\ len2[A] = 0 /\ hd2[A] = 0 /\ hd2[B] = hd[A]
           /\ \A o \in Owner : o # A /\ o # B => len2[o] = len[o] /\ hd2[o] = hd[o]
  <1>1. PICK own2 : own2 = [c \in Block |-> IF own[c] = A THEN B ELSE own[c]]
    OBVIOUS
  <1>2. PICK len2 : len2 = [len EXCEPT ![A] = 0, ![B] = len[A] + len[B]]
    OBVIOUS
  <1>3. PICK hd2 : hd2 = [hd EXCEPT ![A] = 0, ![B] = hd[A]]
    OBVIOUS
  <1>3a. PICK nx2 : nx2 = [nx EXCEPT ![z] = hd[B]]
    OBVIOUS
  <1>4. Chained(own2, len2, hd2, nx2)
    BY <1>1, <1>2, <1>3, <1>3a, Joined
  <1>5. len \in [Owner -> Nat] /\ hd \in [Owner -> Nat] /\ nx \in [Block -> Nat]
    BY DEF Chained
  <1>6. \A b \in Block : own2[b] = IF own[b] = A THEN B ELSE own[b]
    BY <1>1
  <1>7. /\ len2[A] = 0 /\ \A o \in Owner : o # A /\ o # B => len2[o] = len[o]
    BY <1>2, <1>5
  <1>8. /\ hd2[A] = 0 /\ hd2[B] = hd[A]
        /\ \A o \in Owner : o # A /\ o # B => hd2[o] = hd[o]
    BY <1>3, <1>5
  <1>9. \A b \in Block : nx2[b] = IF b = z THEN hd[B] ELSE nx[b]
    BY <1>3a, <1>5
  <1> QED BY <1>4, <1>6, <1>7, <1>8, <1>9

\* The first block of A goes to the front of B.
LEMMA PassFirst ==
  ASSUME NEW own, NEW len, NEW hd, NEW nx, Chained(own, len, hd, nx),
         NEW A \in Owner, NEW B \in Owner, A # B, hd[A] # 0
  PROVE  /\ hd[A] \in Block /\ own[hd[A]] = A
         /\ \E own2, len2, hd2, nx2 :
              /\ Chained(own2, len2, hd2, nx2)
              /\ \A b \in Block : own2[b] = IF b = hd[A] THEN B ELSE own[b]
              /\ \A b \in Block : nx2[b] = IF b = hd[A] THEN hd[B] ELSE nx[b]
              /\ len2[A] = len[A] - 1 /\ len2[B] = len[B] + 1
              /\ hd2[A] = nx[hd[A]] /\ hd2[B] = hd[A]
              /\ \A o \in Owner : o # A /\ o # B => len2[o] = len[o] /\ hd2[o] = hd[o]
  <1>0. hd[A] \in Block /\ own[hd[A]] = A
    BY ChainFacts
  <1>1. PICK own2 : own2 = [own EXCEPT ![hd[A]] = B]
    OBVIOUS
  <1>2. PICK len2 : len2 = [len EXCEPT ![A] = len[A] - 1, ![B] = len[B] + 1]
    OBVIOUS
  <1>3. PICK hd2 : hd2 = [hd EXCEPT ![A] = nx[hd[A]], ![B] = hd[A]]
    OBVIOUS
  <1>3a. PICK nx2 : nx2 = [nx EXCEPT ![hd[A]] = hd[B]]
    OBVIOUS
  <1>4. Chained(own2, len2, hd2, nx2)
    BY <1>1, <1>2, <1>3, <1>3a, ToFront
  <1>5. /\ len \in [Owner -> Nat] /\ hd \in [Owner -> Nat] /\ nx \in [Block -> Nat]
        /\ own \in [Block -> Owner \cup {NoOne}]
    BY DEF Chained
  <1>6. \A b \in Block : own2[b] = IF b = hd[A] THEN B ELSE own[b]
    BY <1>0, <1>1, <1>5
  <1>7. /\ len2[A] = len[A] - 1 /\ len2[B] = len[B] + 1
        /\ \A o \in Owner : o # A /\ o # B => len2[o] = len[o]
    BY <1>2, <1>5
  <1>8. /\ hd2[A] = nx[hd[A]] /\ hd2[B] = hd[A]
        /\ \A o \in Owner : o # A /\ o # B => hd2[o] = hd[o]
    BY <1>3, <1>5
  <1>9. \A b \in Block : nx2[b] = IF b = hd[A] THEN hd[B] ELSE nx[b]
    BY <1>0, <1>3a, <1>5
  <1> QED BY <1>0, <1>4, <1>6, <1>7, <1>8, <1>9

\* Where a group has its blocks.
LEMMA GroupNext ==
  ASSUME NEW own, NEW len, NEW hd, NEW nx, Chained(own, len, hd, nx),
         NEW g \in Group, NEW l \in Loc, InGroup(own, l, g), NextOf(hd, nx, l) # 0
  PROVE  /\ NextOf(hd, nx, l) \in Block /\ own[NextOf(hd, nx, l)] = GroupChain(g)
         /\ l # <<"o", NextOf(hd, nx, l)>>
  <1>1. GroupChain(g) \in Owner /\ GroupChain(g) # NoOne
    BY OwnersApart
  <1>2. CASE l = <<"p", g>>
    BY <1>1, <1>2, ChainFacts DEF NextOf
  <1>3. CASE l[1] = "o" /\ l = <<"o", l[2]>> /\ l[2] \in Block /\ own[l[2]] = GroupChain(g)
    <2>1. PICK a \in Block : a = l[2]
      BY <1>3
    <2>2. l = <<"o", a>> /\ own[a] = GroupChain(g) /\ NextOf(hd, nx, l) = nx[a] /\ nx[a] # 0
      BY <1>3, <2>1 DEF NextOf
    <2>3. nx[a] \in Block /\ own[nx[a]] = own[a] /\ nx[a] # a
      BY <1>1, <2>1, <2>2, ChainFacts
    <2> QED BY <2>2, <2>3
  <1> QED BY <1>2, <1>3 DEF InGroup

\* The block after l in the chain of a group goes to the free chain.
NextIs(hd, nx, l, n) == NextOf(hd, nx, l) = n
Freed(own, len, hd, nx, own2, len2, hd2, nx2, g, l, n) ==
  /\ Chained(own2, len2, hd2, nx2)
  /\ \A b \in Block : own2[b] = IF b = n THEN Free ELSE own[b]
  /\ \A b \in Block : nx2[b] = IF b = n THEN hd[Free]
                               ELSE IF l = <<"o", b>> THEN nx[n] ELSE nx[b]
  /\ hd2[Free] = n
  /\ hd2[GroupChain(g)] = IF l[1] = "p" THEN nx[n] ELSE hd[GroupChain(g)]
  /\ \A o \in Owner : o # Free /\ o # GroupChain(g) => len2[o] = len[o] /\ hd2[o] = hd[o]
LEMMA DropNext ==
  ASSUME NEW own, NEW len, NEW hd, NEW nx, Chained(own, len, hd, nx),
         NEW g \in Group, NEW l \in Loc, InGroup(own, l, g), NEW n, NextIs(hd, nx, l, n), n # 0
  PROVE  \E own2, len2, hd2, nx2 : Freed(own, len, hd, nx, own2, len2, hd2, nx2, g, l, n)
  <1>0. SUFFICES ASSUME n = NextOf(hd, nx, l)
                 PROVE  \E own2, len2, hd2, nx2 :
           /\ Chained(own2, len2, hd2, nx2)
           /\ \A b \in Block : own2[b] = IF b = n THEN Free ELSE own[b]
           /\ \A b \in Block : nx2[b] = IF b = n THEN hd[Free]
                                        ELSE IF l = <<"o", b>> THEN nx[n] ELSE nx[b]
           /\ hd2[Free] = n
           /\ hd2[GroupChain(g)] = IF l[1] = "p" THEN nx[n] ELSE hd[GroupChain(g)]
           /\ \A o \in Owner : o # Free /\ o # GroupChain(g) => len2[o] = len[o] /\ hd2[o] = hd[o]
    BY DEF NextIs, Freed
  <1>1. GroupChain(g) \in Owner /\ GroupChain(g) # NoOne /\ GroupChain(g) # Free /\ Free \in Owner
    BY OwnersApart
  <1>2. CASE l = <<"p", g>>
    <2>1. n = hd[GroupChain(g)] /\ l[1] = "p" /\ \A b : l # <<"o", b>>
      BY <1>0, <1>2 DEF NextOf
    <2>2. PICK own2, len2, hd2, nx2 :
              /\ Chained(own2, len2, hd2, nx2)
              /\ \A b \in Block : own2[b] = IF b = n THEN Free ELSE own[b]
              /\ \A b \in Block : nx2[b] = IF b = n THEN hd[Free] ELSE nx[b]
              /\ hd2[GroupChain(g)] = nx[n] /\ hd2[Free] = n
              /\ \A o \in Owner : o # GroupChain(g) /\ o # Free => len2[o] = len[o] /\ hd2[o] = hd[o]
      BY <1>1, <2>1, PassFirst
    <2> QED BY <2>1, <2>2
  <1>3. CASE l[1] = "o" /\ l = <<"o", l[2]>> /\ l[2] \in Block /\ own[l[2]] = GroupChain(g)
    <2>1. PICK a \in Block : a = l[2]
      BY <1>3
    <2>2. l = <<"o", a>> /\ own[a] = GroupChain(g) /\ n = nx[a] /\ nx[a] # 0 /\ l[1] # "p"
      BY <1>0, <1>3, <2>1 DEF NextOf
    <2>3. PICK own2 : own2 = [own EXCEPT ![nx[a]] = Free]
      OBVIOUS
    <2>4. PICK len2 : len2 = [len EXCEPT ![GroupChain(g)] = len[GroupChain(g)] - 1,
                                         ![Free] = len[Free] + 1]
      OBVIOUS
    <2>5. PICK hd2 : hd2 = [hd EXCEPT ![Free] = nx[a]]
      OBVIOUS
    <2>6. PICK nx2 : nx2 = [nx EXCEPT ![a] = nx[nx[a]], ![nx[a]] = hd[Free]]
      OBVIOUS
    <2>7. /\ nx[a] \in Block /\ nx[a] # a /\ Chained(own2, len2, hd2, nx2)
      <3>1. nx[a] \in Block /\ nx[a] # a
        BY <1>1, <2>2, ChainFacts
      <3>2. Chained([own EXCEPT ![nx[a]] = Free],
                    [len EXCEPT ![GroupChain(g)] = len[GroupChain(g)] - 1, ![Free] = len[Free] + 1],
                    [hd EXCEPT ![Free] = nx[a]],
                    [nx EXCEPT ![a] = nx[nx[a]], ![nx[a]] = hd[Free]])
        BY <1>1, <2>2, NextToFront
      <3> QED BY <2>3, <2>4, <2>5, <2>6, <3>1, <3>2
    <2>8. /\ len \in [Owner -> Nat] /\ hd \in [Owner -> Nat] /\ nx \in [Block -> Nat]
          /\ own \in [Block -> Owner \cup {NoOne}]
      BY DEF Chained
    <2>9. \A b \in Block : own2[b] = IF b = n THEN Free ELSE own[b]
      BY <2>2, <2>3, <2>7, <2>8
    <2>10. \A b \in Block : nx2[b] = IF b = n THEN hd[Free] ELSE IF b = a THEN nx[n] ELSE nx[b]
      BY <2>2, <2>6, <2>7, <2>8
    <2>11. \A b \in Block : b = a <=> l = <<"o", b>>
      BY <2>2
    <2>12. \A o \in Owner : o # Free /\ o # GroupChain(g) => len2[o] = len[o]
      BY <1>1, <2>4, <2>8
    <2>13. hd2[Free] = n /\ \A o \in Owner : o # Free => hd2[o] = hd[o]
      BY <1>1, <2>2, <2>5, <2>8
    <2>14. \A b \in Block : nx2[b] = IF b = n THEN hd[Free] ELSE IF l = <<"o", b>> THEN nx[n] ELSE nx[b]
      BY <2>10, <2>11
    <2> QED BY <1>1, <2>2, <2>7, <2>9, <2>14, <2>12, <2>13
  <1> QED BY <1>2, <1>3 DEF InGroup

\* A block that is free or new becomes the last one of a group.
FromFree(own, hd, o) == IF hd[Free] # 0 THEN o = hd[Free] ELSE own[o] = NoOne
Added(own, len, hd, nx, own2, len2, hd2, nx2, g, l, o) ==
  /\ Chained(own2, len2, hd2, nx2)
  /\ \A b \in Block : own2[b] = IF b = o THEN GroupChain(g) ELSE own[b]
  /\ \A b \in Block : nx2[b] = IF b = o THEN 0 ELSE IF l = <<"o", b>> THEN o ELSE nx[b]
  /\ hd2[Free] = IF hd[Free] # 0 THEN nx[o] ELSE 0
  /\ hd2[GroupChain(g)] = IF l[1] = "p" THEN o ELSE hd[GroupChain(g)]
  /\ \A w \in Owner : w # Free /\ w # GroupChain(g) => len2[w] = len[w] /\ hd2[w] = hd[w]
LEMMA AddBlock ==
  ASSUME NEW own, NEW len, NEW hd, NEW nx, Chained(own, len, hd, nx), len[Spare] = 0,
         NEW g \in Group, NEW l \in Loc, InGroup(own, l, g), NextIs(hd, nx, l, 0),
         NEW o \in Block, FromFree(own, hd, o)
  PROVE  /\ own[o] \in {Free, NoOne}
         /\ \E own2, len2, hd2, nx2 : Added(own, len, hd, nx, own2, len2, hd2, nx2, g, l, o)
  <1>0. SUFFICES ASSUME NextOf(hd, nx, l) = 0, IF hd[Free] # 0 THEN o = hd[Free] ELSE own[o] = NoOne
                 PROVE
         /\ own[o] \in {Free, NoOne}
         /\ \E own2, len2, hd2, nx2 :
              /\ Chained(own2, len2, hd2, nx2)
              /\ \A b \in Block : own2[b] = IF b = o THEN GroupChain(g) ELSE own[b]
              /\ \A b \in Block : nx2[b] = IF b = o THEN 0 ELSE IF l = <<"o", b>> THEN o ELSE nx[b]
              /\ hd2[Free] = IF hd[Free] # 0 THEN nx[o] ELSE 0
              /\ hd2[GroupChain(g)] = IF l[1] = "p" THEN o ELSE hd[GroupChain(g)]
              /\ \A w \in Owner : w # Free /\ w # GroupChain(g) => len2[w] = len[w] /\ hd2[w] = hd[w]
    BY DEF NextIs, FromFree, Added
  <1>1. /\ GroupChain(g) \in Owner /\ GroupChain(g) # NoOne /\ GroupChain(g) # Free /\ Free \in Owner
        /\ Spare \in Owner /\ Spare # Free /\ Spare # GroupChain(g) /\ Free # NoOne
    BY OwnersApart
  <1>2. own[o] \in {Free, NoOne}
    BY <1>0, <1>1, ChainFacts
  <1>3. hd[Spare] = 0
    BY <1>1, ChainFacts
  <1>4. PICK own1, len1, hd1, nx1 :
           /\ Chained(own1, len1, hd1, nx1)
           /\ \A b \in Block : own1[b] = IF b = o THEN Spare ELSE own[b]
           /\ \A b \in Block : nx1[b] = IF b = o THEN 0 ELSE nx[b]
           /\ hd1[Free] = IF hd[Free] # 0 THEN nx[o] ELSE 0
           /\ len1[Spare] = 1 /\ hd1[Spare] = o
           /\ \A w \in Owner : w # Free /\ w # Spare => len1[w] = len[w] /\ hd1[w] = hd[w]
    <2>1. CASE hd[Free] # 0
      <3>1. o = hd[Free] /\ len[Spare] + 1 = 1
        BY <1>0, <2>1
      <3>2. PICK own1, len1, hd1, nx1 :
              /\ Chained(own1, len1, hd1, nx1)
              /\ \A b \in Block : own1[b] = IF b = hd[Free] THEN Spare ELSE own[b]
              /\ \A b \in Block : nx1[b] = IF b = hd[Free] THEN hd[Spare] ELSE nx[b]
              /\ len1[Free] = len[Free] - 1 /\ len1[Spare] = len[Spare] + 1
              /\ hd1[Free] = nx[hd[Free]] /\ hd1[Spare] = hd[Free]
              /\ \A w \in Owner : w # Free /\ w # Spare => len1[w] = len[w] /\ hd1[w] = hd[w]
        BY <1>1, <2>1, PassFirst
      <3> QED BY <1>3, <2>1, <3>1, <3>2
    <2>2. CASE hd[Free] = 0
      <3>1. own[o] = NoOne
        BY <1>0, <2>2
      <3>2. PICK own1 : own1 = [own EXCEPT ![o] = Spare]
        OBVIOUS
      <3>3. PICK len1 : len1 = [len EXCEPT ![Spare] = 1]
        OBVIOUS
      <3>4. PICK hd1 : hd1 = [hd EXCEPT ![Spare] = o]
        OBVIOUS
      <3>5. PICK nx1 : nx1 = [nx EXCEPT ![o] = 0]
        OBVIOUS
      <3>6. Chained(own1, len1, hd1, nx1)
        BY <1>1, <3>1, <3>2, <3>3, <3>4, <3>5, Fresh
      <3>7. /\ len \in [Owner -> Nat] /\ hd \in [Owner -> Nat] /\ nx \in [Block -> Nat]
            /\ own \in [Block -> Owner \cup {NoOne}]
        BY DEF Chained
      <3>8. \A b \in Block : own1[b] = IF b = o THEN Spare ELSE own[b]
        BY <3>2, <3>7
      <3>9. \A b \in Block : nx1[b] = IF b = o THEN 0 ELSE nx[b]
        BY <3>5, <3>7
      <3>10. len1[Spare] = 1 /\ \A w \in Owner : w # Spare => len1[w] = len[w]
        BY <1>1, <3>3, <3>7
      <3>11. hd1[Spare] = o /\ \A w \in Owner : w # Spare => hd1[w] = hd[w]
        BY <1>1, <3>4, <3>7
      <3> QED BY <1>1, <2>2, <3>6, <3>8, <3>9, <3>10, <3>11
    <2> QED BY <2>1, <2>2
  <1>5. CASE l = <<"p", g>>
    <2>1. hd[GroupChain(g)] = 0 /\ l[1] = "p" /\ \A b : l # <<"o", b>>
      BY <1>0, <1>5 DEF NextOf
    <2>2. hd1[GroupChain(g)] = 0 /\ hd1[Spare] = o /\ o # 0 /\ nx1[o] = 0
      BY <1>1, <1>4, <2>1, BlockNat
    <2>3. PICK own2, len2, hd2, nx2 :
              /\ Chained(own2, len2, hd2, nx2)
              /\ \A b \in Block : own2[b] = IF b = o THEN GroupChain(g) ELSE own1[b]
              /\ \A b \in Block : nx2[b] = IF b = o THEN 0 ELSE nx1[b]
              /\ len2[Spare] = len1[Spare] - 1
              /\ hd2[Spare] = 0 /\ hd2[GroupChain(g)] = o
              /\ \A w \in Owner : w # Spare /\ w # GroupChain(g) => len2[w] = len1[w] /\ hd2[w] = hd1[w]
      <3> DEFINE A == Spare
                 B == GroupChain(g)
      <3>1. \E own2, len2, hd2, nx2 :
              /\ Chained(own2, len2, hd2, nx2)
              /\ \A b \in Block : own2[b] = IF b = hd1[A] THEN B ELSE own1[b]
              /\ \A b \in Block : nx2[b] = IF b = hd1[A] THEN hd1[B] ELSE nx1[b]
              /\ len2[A] = len1[A] - 1 /\ len2[B] = len1[B] + 1
              /\ hd2[A] = nx1[hd1[A]] /\ hd2[B] = hd1[A]
              /\ \A w \in Owner : w # A /\ w # B => len2[w] = len1[w] /\ hd2[w] = hd1[w]
        <4>1. A \in Owner /\ B \in Owner /\ A # B /\ hd1[A] # 0
          BY <1>1, <2>2
        <4> HIDE DEF A, B
        <4> QED BY <1>4, <4>1, PassFirst
      <3> QED BY <2>2, <3>1
    <2>4. len2[Spare] = 0
      BY <1>4, <2>3
    <2>5. \A w \in Owner : w # Free /\ w # GroupChain(g) => len2[w] = len[w] /\ hd2[w] = hd[w]
      BY <1>3, <1>4, <2>3, <2>4
    <2>6. \A b \in Block : own2[b] = IF b = o THEN GroupChain(g) ELSE own[b]
      BY <1>4, <2>3
    <2>7. \A b \in Block : nx2[b] = IF b = o THEN 0 ELSE IF l = <<"o", b>> THEN o ELSE nx[b]
      BY <1>4, <2>1, <2>3
    <2> QED BY <1>1, <1>2, <1>4, <2>1, <2>3, <2>5, <2>6, <2>7
  <1>6. CASE l[1] = "o" /\ l = <<"o", l[2]>> /\ l[2] \in Block /\ own[l[2]] = GroupChain(g)
    <2>1. PICK a \in Block : a = l[2]
      BY <1>6
    <2>2. l = <<"o", a>> /\ own[a] = GroupChain(g) /\ nx[a] = 0 /\ l[1] # "p" /\ a # o
      BY <1>0, <1>1, <1>2, <1>6, <2>1 DEF NextOf
    <2>3. own1[a] = GroupChain(g) /\ nx1[a] = 0
      BY <1>4, <2>2
    <2>4. PICK own2 : own2 = [own1 EXCEPT ![o] = GroupChain(g)]
      OBVIOUS
    <2>5. PICK len2 : len2 = [len1 EXCEPT ![Spare] = 0, ![GroupChain(g)] = len1[GroupChain(g)] + 1]
      OBVIOUS
    <2>6. PICK hd2 : hd2 = [hd1 EXCEPT ![Spare] = 0]
      OBVIOUS
    <2>7. PICK nx2 : nx2 = [nx1 EXCEPT ![a] = o]
      OBVIOUS
    <2>8. Chained(own2, len2, hd2, nx2)
      BY <1>1, <1>4, <2>3, <2>4, <2>5, <2>6, <2>7, ToBack
    <2>9. /\ len1 \in [Owner -> Nat] /\ hd1 \in [Owner -> Nat] /\ nx1 \in [Block -> Nat]
          /\ own1 \in [Block -> Owner \cup {NoOne}]
      BY <1>4 DEF Chained
    <2>10. \A b \in Block : own2[b] = IF b = o THEN GroupChain(g) ELSE own[b]
      BY <1>4, <2>4, <2>9
    <2>11. \A b \in Block : b = a <=> l = <<"o", b>>
      BY <2>2
    <2>12. \A b \in Block : nx2[b] = IF b = o THEN 0 ELSE IF b = a THEN o ELSE nx[b]
      BY <1>4, <2>2, <2>7, <2>9
    <2>13. \A w \in Owner : w # Free /\ w # GroupChain(g) => len2[w] = len[w]
      BY <1>1, <1>4, <2>5, <2>9
    <2>14. hd2[Spare] = 0 /\ \A w \in Owner : w # Spare => hd2[w] = hd1[w]
      BY <1>1, <2>6, <2>9
    <2>15. \A w \in Owner : w # Free /\ w # GroupChain(g) => hd2[w] = hd[w]
      BY <1>1, <1>3, <1>4, <2>14
    <2>16. \A b \in Block : nx2[b] = IF b = o THEN 0 ELSE IF l = <<"o", b>> THEN o ELSE nx[b]
      BY <2>11, <2>12
    <2> QED BY <1>1, <1>2, <1>4, <2>2, <2>8, <2>10, <2>13, <2>14, <2>15, <2>16
  <1> QED BY <1>5, <1>6 DEF InGroup

-----------------------------------------------------------------------------
(* Contents: what the actions do to them                                    *)

\* A sequence without one of its elements.
LEMMA RemoveAtIs ==
  ASSUME NEW S, NEW s \in Seq(S), NEW i \in 1..Len(s)
  PROVE  /\ RemoveAt(s, i) \in Seq(S) /\ Len(RemoveAt(s, i)) = Len(s) - 1
         /\ \A j \in 1..Len(s) - 1 : RemoveAt(s, i)[j] = IF j < i THEN s[j] ELSE s[j + 1]
  <1>0. PICK n \in Nat : n = Len(s)
    OBVIOUS
  <1>0a. i \in 1..n /\ \A j \in 1..n : s[j] \in S
    <2>1. \A j \in 1..Len(s) : s[j] \in S
      OBVIOUS
    <2> QED BY <1>0, <2>1
  <1>1. PICK a : a = SubSeq(s, 1, i - 1)
    OBVIOUS
  <1>2. PICK b : b = SubSeq(s, i + 1, n)
    OBVIOUS
  <1>3. a \in Seq(S) /\ Len(a) = i - 1 /\ \A j \in 1..i - 1 : a[j] = s[j]
    <2>1. \A j \in 1..i - 1 : s[j] \in S
      BY <1>0a
    <2>2. 1 \in Int /\ i - 1 \in Int
      OBVIOUS
    <2> QED BY <1>1, <2>1, <2>2, SubSeqProperties
  <1>4. b \in Seq(S) /\ Len(b) = n - i /\ \A j \in 1..n - i : b[j] = s[j + i]
    <2>1. \A j \in i + 1..n : s[j] \in S
      BY <1>0a
    <2>2. i + 1 \in Int /\ n \in Int
      BY <1>0a
    <2>3. /\ b \in Seq(S) /\ Len(b) = IF i + 1 <= n THEN n - (i + 1) + 1 ELSE 0
          /\ \A j \in 1..n - (i + 1) + 1 : b[j] = s[(i + 1) + j - 1]
      BY <1>2, <2>1, <2>2, SubSeqProperties
    <2> QED BY <1>0a, <2>3
  <1>5. RemoveAt(s, i) = a \o b
    BY <1>0, <1>1, <1>2 DEF RemoveAt
  <1>6. PICK c : c = a \o b
    OBVIOUS
  <1>7. /\ c \in Seq(S) /\ Len(c) = Len(a) + Len(b)
        /\ \A j \in 1..Len(a) + Len(b) : c[j] = IF j <= Len(a) THEN a[j] ELSE b[j - Len(a)]
    BY <1>3, <1>4, <1>6, ConcatProperties
  <1>8. ASSUME NEW j \in 1..n - 1 PROVE c[j] = IF j < i THEN s[j] ELSE s[j + 1]
    <2>1. j \in 1..Len(a) + Len(b) /\ Len(a) = i - 1
      BY <1>0, <1>0a, <1>3, <1>4
    <2>2. CASE j < i
      <3>1. c[j] = a[j] /\ j \in 1..i - 1
        BY <1>0a, <1>7, <2>1, <2>2
      <3> QED BY <1>3, <2>2, <3>1
    <2>3. CASE ~(j < i)
      <3>1. c[j] = b[j - (i - 1)] /\ j - (i - 1) \in 1..n - i /\ (j - (i - 1)) + i = j + 1
        BY <1>0a, <1>7, <2>1, <2>3
      <3> QED BY <1>4, <2>3, <3>1
    <2> QED BY <2>2, <2>3
  <1> QED BY <1>0, <1>0a, <1>3, <1>4, <1>5, <1>6, <1>7, <1>8

LEMMA PlacedFacts ==
  ASSUME NEW ct, NEW spot, NEW rec, Placed(ct, spot, rec)
  PROVE  /\ ct \in [Spot -> Seq(Record)] /\ spot \in [Key -> Spot \cup {Nowhere}]
         /\ rec \in [Key -> Record] /\ Nowhere \notin Spot
         /\ \A l \in Spot : \A i \in 1..Len(ct[l]) :
              ct[l][i] \in Record /\ ct[l][i].key \in Key /\ spot[ct[l][i].key] = l
  <1>1. \A l \in Spot : ct[l] \in Seq(Record)
    BY DEF Placed
  <1>2. \A l \in Spot : \A i \in 1..Len(ct[l]) : ct[l][i] \in Record /\ ct[l][i].key \in Key
    <2>1. SUFFICES ASSUME NEW l \in Spot, NEW i \in 1..Len(ct[l])
                   PROVE  ct[l][i] \in Record /\ ct[l][i].key \in Key
      OBVIOUS
    <2>2. PICK s \in Seq(Record) : s = ct[l]
      BY <1>1
    <2>3. PICK r \in Record : r = s[i]
      BY <2>2
    <2> QED BY <2>2, <2>3 DEF Record
  <1>3. Nowhere \notin Spot
    BY DEF Nowhere, Spot, Loc
  <1> QED BY <1>2, <1>3 DEF Placed

\* A record is taken out.
Dropped(ct, spot, rec, ct2, spot2, l, i) ==
  /\ Placed(ct2, spot2, rec)
  /\ ct2[l] = RemoveAt(ct[l], i)
  /\ \A m \in Spot : m # l => ct2[m] = ct[m]
  /\ spot2[ct[l][i].key] = Nowhere
  /\ \A k \in Key : k # ct[l][i].key => spot2[k] = spot[k]
LEMMA DropRecord ==
  ASSUME NEW ct, NEW spot, NEW rec, Placed(ct, spot, rec),
         NEW l \in Spot, NEW i \in 1..Len(ct[l])
  PROVE  \E ct2, spot2 : Dropped(ct, spot, rec, ct2, spot2, l, i)
  <1>0. SUFFICES \E ct2, spot2 :
           /\ Placed(ct2, spot2, rec)
           /\ ct2[l] = RemoveAt(ct[l], i)
           /\ \A m \in Spot : m # l => ct2[m] = ct[m]
           /\ spot2[ct[l][i].key] = Nowhere
           /\ \A k \in Key : k # ct[l][i].key => spot2[k] = spot[k]
    BY DEF Dropped
  <1>1. PICK key : key = ct[l][i].key
    OBVIOUS
  <1>2. /\ ct \in [Spot -> Seq(Record)] /\ spot \in [Key -> Spot \cup {Nowhere}]
        /\ rec \in [Key -> Record] /\ Nowhere \notin Spot
        /\ \A m \in Spot : \A j \in 1..Len(ct[m]) :
              ct[m][j] \in Record /\ ct[m][j].key \in Key /\ spot[ct[m][j].key] = m
    BY PlacedFacts
  <1>3. PICK rs : rs = RemoveAt(ct[l], i)
    OBVIOUS
  <1>4. PICK n \in Nat : n = Len(ct[l])
    BY <1>2
  <1>5. /\ rs \in Seq(Record) /\ Len(rs) = n - 1
        /\ \A j \in 1..n - 1 : rs[j] = IF j < i THEN ct[l][j] ELSE ct[l][j + 1]
    <2>1. PICK s \in Seq(Record) : s = ct[l]
      BY <1>2
    <2>2. i \in 1..Len(s) /\ n = Len(s) /\ rs = RemoveAt(s, i)
      BY <1>3, <1>4, <2>1
    <2> QED BY <2>1, <2>2, RemoveAtIs
  <1>6. PICK ct2 : ct2 = [ct EXCEPT ![l] = rs]
    OBVIOUS
  <1>7. PICK spot2 : spot2 = [spot EXCEPT ![key] = Nowhere]
    OBVIOUS
  <1>8. ct2 \in [Spot -> Seq(Record)] /\ ct2[l] = rs /\ \A m \in Spot : m # l => ct2[m] = ct[m]
    BY <1>2, <1>5, <1>6
  <1>9. /\ key \in Key /\ spot2 \in [Key -> Spot \cup {Nowhere}] /\ spot2[key] = Nowhere
        /\ \A k \in Key : k # key => spot2[k] = spot[k]
    BY <1>1, <1>2, <1>7
  <1>10. \A j, h \in 1..n : ct[l][j].key = ct[l][h].key => j = h
    BY <1>4 DEF Placed
  <1>11. \A j \in 1..n : j # i => ct[l][j].key # key
    BY <1>1, <1>4, <1>10
  <1>12. \A j \in 1..Len(rs) : \E h \in 1..n : h # i /\ rs[j] = ct[l][h] /\ h = IF j < i THEN j ELSE j + 1
    BY <1>4, <1>5
  <1>13. \A m \in Spot : \A j \in 1..Len(ct2[m]) :
           spot2[ct2[m][j].key] = m /\ rec[ct2[m][j].key] = ct2[m][j]
    <2>1. SUFFICES ASSUME NEW m \in Spot, NEW j \in 1..Len(ct2[m])
                   PROVE  spot2[ct2[m][j].key] = m /\ rec[ct2[m][j].key] = ct2[m][j]
      OBVIOUS
    <2>2. CASE m = l
      <3>1. PICK h \in 1..n : h # i /\ rs[j] = ct[l][h]
        BY <1>8, <1>12, <2>2
      <3>2. ct[l][h].key # key /\ ct[l][h].key \in Key /\ spot[ct[l][h].key] = l
        BY <1>2, <1>4, <1>11, <3>1
      <3>3. rec[ct[l][h].key] = ct[l][h]
        BY <1>4, <3>1 DEF Placed
      <3> QED BY <1>8, <1>9, <2>2, <3>1, <3>2, <3>3
    <2>3. CASE m # l
      <3>1. ct2[m] = ct[m] /\ j \in 1..Len(ct[m])
        BY <1>8, <2>3
      <3>2. spot[ct[m][j].key] = m /\ spot[key] = l /\ ct[m][j].key \in Key
        BY <1>1, <1>2, <3>1
      <3>3. rec[ct[m][j].key] = ct[m][j]
        BY <3>1 DEF Placed
      <3> QED BY <1>9, <2>3, <3>1, <3>2, <3>3
    <2> QED BY <2>2, <2>3
  <1>14. \A m \in Spot : \A j, h \in 1..Len(ct2[m]) : ct2[m][j].key = ct2[m][h].key => j = h
    <2>1. ASSUME NEW j \in 1..Len(rs), NEW h \in 1..Len(rs), rs[j].key = rs[h].key PROVE j = h
      <3>1. PICK a \in 1..n : rs[j] = ct[l][a] /\ a = IF j < i THEN j ELSE j + 1
        BY <1>12
      <3>2. PICK b \in 1..n : rs[h] = ct[l][b] /\ b = IF h < i THEN h ELSE h + 1
        BY <1>12
      <3>3. a = b
        BY <1>10, <2>1, <3>1, <3>2
      <3> QED BY <1>5, <3>1, <3>2, <3>3
    <2>2. ASSUME NEW m \in Spot, m # l
          PROVE  \A j, h \in 1..Len(ct2[m]) : ct2[m][j].key = ct2[m][h].key => j = h
      BY <1>8, <2>2 DEF Placed
    <2> QED BY <1>8, <2>1, <2>2
  <1>15. \A k \in Key : spot2[k] # Nowhere => \E j \in 1..Len(ct2[spot2[k]]) : ct2[spot2[k]][j].key = k
    <2>1. SUFFICES ASSUME NEW k \in Key, spot2[k] # Nowhere
                   PROVE  \E j \in 1..Len(ct2[spot2[k]]) : ct2[spot2[k]][j].key = k
      OBVIOUS
    <2>2. k # key /\ spot2[k] = spot[k] /\ spot[k] \in Spot
      BY <1>2, <1>9, <2>1
    <2>3. PICK h \in 1..Len(ct[spot[k]]) : ct[spot[k]][h].key = k
      BY <2>1, <2>2 DEF Placed
    <2>4. CASE spot[k] = l
      <3>1. h \in 1..n /\ h # i /\ ct[l][h].key = k
        BY <1>1, <1>4, <2>2, <2>3, <2>4
      <3>2. PICK j \in 1..n - 1 : h = IF j < i THEN j ELSE j + 1
        <4>1. (IF h < i THEN h ELSE h - 1) \in 1..n - 1
          BY <1>4, <3>1
        <4> QED BY <1>4, <3>1, <4>1
      <3>3. rs[j].key = k /\ j \in 1..Len(rs)
        BY <1>4, <1>5, <3>1, <3>2
      <3> QED BY <1>8, <2>2, <2>4, <3>3
    <2> QED BY <1>8, <2>2, <2>3, <2>4
  <1>16. Placed(ct2, spot2, rec)
    BY <1>2, <1>8, <1>9, <1>13, <1>14, <1>15 DEF Placed
  <1> QED BY <1>1, <1>3, <1>8, <1>9, <1>16

IsAt(spot, r, l) == spot[r.key] = l
\* A record is put at the end.
Put(ct, spot, rec, ct2, spot2, rec2, l, r) ==
  /\ Placed(ct2, spot2, rec2)
  /\ ct2[l] = Append(ct[l], r)
  /\ \A m \in Spot : m # l => ct2[m] = ct[m]
  /\ spot2[r.key] = l /\ rec2[r.key] = r
  /\ \A k \in Key : k # r.key => spot2[k] = spot[k] /\ rec2[k] = rec[k]
LEMMA PutRecord ==
  ASSUME NEW ct, NEW spot, NEW rec, Placed(ct, spot, rec),
         NEW l \in Spot, NEW r \in Record, IsAt(spot, r, Nowhere)
  PROVE  \E ct2, spot2, rec2 : Put(ct, spot, rec, ct2, spot2, rec2, l, r)
  <1>0. SUFFICES ASSUME spot[r.key] = Nowhere
                 PROVE  \E ct2, spot2, rec2 :
           /\ Placed(ct2, spot2, rec2)
           /\ ct2[l] = Append(ct[l], r)
           /\ \A m \in Spot : m # l => ct2[m] = ct[m]
           /\ spot2[r.key] = l /\ rec2[r.key] = r
           /\ \A k \in Key : k # r.key => spot2[k] = spot[k] /\ rec2[k] = rec[k]
    BY DEF Put, IsAt
  <1>1. PICK key \in Key : key = r.key
    BY DEF Record
  <1>2. /\ ct \in [Spot -> Seq(Record)] /\ spot \in [Key -> Spot \cup {Nowhere}]
        /\ rec \in [Key -> Record] /\ Nowhere \notin Spot
        /\ \A m \in Spot : \A j \in 1..Len(ct[m]) :
              ct[m][j] \in Record /\ ct[m][j].key \in Key /\ spot[ct[m][j].key] = m
    BY PlacedFacts
  <1>3. PICK rs : rs = Append(ct[l], r)
    OBVIOUS
  <1>4. PICK n \in Nat : n = Len(ct[l])
    BY <1>2
  <1>5. rs \in Seq(Record) /\ Len(rs) = n + 1 /\ rs[n + 1] = r /\ \A j \in 1..n : rs[j] = ct[l][j]
    BY <1>2, <1>3, <1>4
  <1>6. PICK ct2 : ct2 = [ct EXCEPT ![l] = rs]
    OBVIOUS
  <1>7. PICK spot2 : spot2 = [spot EXCEPT ![key] = l]
    OBVIOUS
  <1>7a. PICK rec2 : rec2 = [rec EXCEPT ![key] = r]
    OBVIOUS
  <1>8. ct2 \in [Spot -> Seq(Record)] /\ ct2[l] = rs /\ \A m \in Spot : m # l => ct2[m] = ct[m]
    BY <1>2, <1>5, <1>6
  <1>9. /\ spot2 \in [Key -> Spot \cup {Nowhere}] /\ spot2[key] = l
        /\ \A k \in Key : k # key => spot2[k] = spot[k]
    BY <1>2, <1>7
  <1>9a. /\ rec2 \in [Key -> Record] /\ rec2[key] = r
         /\ \A k \in Key : k # key => rec2[k] = rec[k]
    BY <1>2, <1>7a
  <1>11. \A m \in Spot : \A j \in 1..Len(ct[m]) : ct[m][j].key # key
    BY <1>0, <1>1, <1>2
  <1>13. \A m \in Spot : \A j \in 1..Len(ct2[m]) :
           spot2[ct2[m][j].key] = m /\ rec2[ct2[m][j].key] = ct2[m][j]
    <2>1. SUFFICES ASSUME NEW m \in Spot, NEW j \in 1..Len(ct2[m])
                   PROVE  spot2[ct2[m][j].key] = m /\ rec2[ct2[m][j].key] = ct2[m][j]
      OBVIOUS
    <2>2. CASE m = l /\ j = n + 1
      BY <1>1, <1>5, <1>8, <1>9, <1>9a, <2>2
    <2>3. CASE ~(m = l /\ j = n + 1)
      <3>1. j \in 1..Len(ct[m]) /\ ct2[m][j] = ct[m][j]
        BY <1>4, <1>5, <1>8, <2>3
      <3>2. spot[ct[m][j].key] = m /\ ct[m][j].key # key /\ ct[m][j].key \in Key
        BY <1>2, <1>11, <3>1
      <3>3. rec[ct[m][j].key] = ct[m][j]
        BY <3>1 DEF Placed
      <3> QED BY <1>9, <1>9a, <3>1, <3>2, <3>3
    <2> QED BY <2>2, <2>3
  <1>14. \A m \in Spot : \A j, h \in 1..Len(ct2[m]) : ct2[m][j].key = ct2[m][h].key => j = h
    <2>1. \A j, h \in 1..n : ct[l][j].key = ct[l][h].key => j = h
      BY <1>4 DEF Placed
    <2>2. \A j, h \in 1..Len(rs) : rs[j].key = rs[h].key => j = h
      BY <1>1, <1>4, <1>5, <1>11, <2>1
    <2>3. ASSUME NEW m \in Spot, m # l
          PROVE  \A j, h \in 1..Len(ct2[m]) : ct2[m][j].key = ct2[m][h].key => j = h
      BY <1>8, <2>3 DEF Placed
    <2> QED BY <1>8, <2>2, <2>3
  <1>15. \A k \in Key : spot2[k] # Nowhere => \E j \in 1..Len(ct2[spot2[k]]) : ct2[spot2[k]][j].key = k
    <2>1. SUFFICES ASSUME NEW k \in Key, spot2[k] # Nowhere
                   PROVE  \E j \in 1..Len(ct2[spot2[k]]) : ct2[spot2[k]][j].key = k
      OBVIOUS
    <2>2. CASE k = key
      <3>1. n + 1 \in 1..Len(ct2[l]) /\ ct2[l][n + 1].key = key
        BY <1>1, <1>5, <1>8
      <3> QED BY <1>9, <2>2, <3>1
    <2>3. CASE k # key
      <3>1. spot2[k] = spot[k] /\ spot[k] \in Spot
        BY <1>2, <1>9, <2>1, <2>3
      <3>2. PICK h \in 1..Len(ct[spot[k]]) : ct[spot[k]][h].key = k
        BY <2>1, <3>1 DEF Placed
      <3>3. h \in 1..Len(ct2[spot[k]]) /\ ct2[spot[k]][h] = ct[spot[k]][h]
        <4>1. CASE spot[k] = l
          <5>1. h \in 1..n
            BY <1>4, <3>2, <4>1
          <5> QED BY <1>5, <1>8, <4>1, <5>1
        <4>2. CASE spot[k] # l
          BY <1>8, <3>1, <3>2, <4>2
        <4> QED BY <4>1, <4>2
      <3> QED BY <3>1, <3>2, <3>3
    <2> QED BY <2>2, <2>3
  <1>16. Placed(ct2, spot2, rec2)
    BY <1>2, <1>8, <1>9, <1>9a, <1>13, <1>14, <1>15 DEF Placed
  <1> QED BY <1>1, <1>3, <1>8, <1>9, <1>9a, <1>16

\* A record takes the place of one of its key.
Replaced(ct, spot, rec, ct2, rec2, l, r) ==
  /\ Placed(ct2, spot, rec2)
  /\ ct2[l] = [j \in DOMAIN ct[l] |-> IF ct[l][j].key = r.key THEN r ELSE ct[l][j]]
  /\ \A m \in Spot : m # l => ct2[m] = ct[m]
  /\ rec2[r.key] = r
  /\ \A k \in Key : k # r.key => rec2[k] = rec[k]
LEMMA ReplaceRecord ==
  ASSUME NEW ct, NEW spot, NEW rec, Placed(ct, spot, rec),
         NEW l \in Spot, NEW r \in Record, IsAt(spot, r, l)
  PROVE  \E ct2, rec2 : Replaced(ct, spot, rec, ct2, rec2, l, r)
  <1>0. SUFFICES ASSUME spot[r.key] = l
                 PROVE  \E ct2, rec2 :
           /\ Placed(ct2, spot, rec2)
           /\ ct2[l] = [j \in DOMAIN ct[l] |-> IF ct[l][j].key = r.key THEN r ELSE ct[l][j]]
           /\ \A m \in Spot : m # l => ct2[m] = ct[m]
           /\ rec2[r.key] = r
           /\ \A k \in Key : k # r.key => rec2[k] = rec[k]
    BY DEF Replaced, IsAt
  <1>1. PICK key \in Key : key = r.key
    BY DEF Record
  <1>2. /\ ct \in [Spot -> Seq(Record)] /\ spot \in [Key -> Spot \cup {Nowhere}]
        /\ rec \in [Key -> Record] /\ Nowhere \notin Spot
        /\ \A m \in Spot : \A j \in 1..Len(ct[m]) :
              ct[m][j] \in Record /\ ct[m][j].key \in Key /\ spot[ct[m][j].key] = m
    BY PlacedFacts
  <1>3. PICK rs : rs = [j \in DOMAIN ct[l] |-> IF ct[l][j].key = r.key THEN r ELSE ct[l][j]]
    OBVIOUS
  <1>4. PICK n \in Nat : n = Len(ct[l])
    BY <1>2
  <1>5. /\ rs \in Seq(Record) /\ Len(rs) = n
        /\ \A j \in 1..n : rs[j] = IF ct[l][j].key = key THEN r ELSE ct[l][j]
    <2>1. DOMAIN ct[l] = 1..n /\ \A j \in 1..n : ct[l][j] \in Record
      BY <1>2, <1>4
    <2>2. rs = [j \in 1..n |-> IF ct[l][j].key = key THEN r ELSE ct[l][j]]
      BY <1>1, <1>3, <2>1
    <2>3. rs \in [1..n -> Record]
      BY <2>1, <2>2
    <2> QED BY <2>2, <2>3
  <1>6. PICK ct2 : ct2 = [ct EXCEPT ![l] = rs]
    OBVIOUS
  <1>7a. PICK rec2 : rec2 = [rec EXCEPT ![key] = r]
    OBVIOUS
  <1>8. ct2 \in [Spot -> Seq(Record)] /\ ct2[l] = rs /\ \A m \in Spot : m # l => ct2[m] = ct[m]
    BY <1>2, <1>5, <1>6
  <1>9a. /\ rec2 \in [Key -> Record] /\ rec2[key] = r
         /\ \A k \in Key : k # key => rec2[k] = rec[k]
    BY <1>2, <1>7a
  <1>10. \A m \in Spot : Len(ct2[m]) = Len(ct[m]) /\ \A j \in 1..Len(ct[m]) : ct2[m][j].key = ct[m][j].key
    BY <1>1, <1>4, <1>5, <1>8
  <1>13. \A m \in Spot : \A j \in 1..Len(ct2[m]) :
           spot[ct2[m][j].key] = m /\ rec2[ct2[m][j].key] = ct2[m][j]
    <2>1. SUFFICES ASSUME NEW m \in Spot, NEW j \in 1..Len(ct2[m])
                   PROVE  spot[ct2[m][j].key] = m /\ rec2[ct2[m][j].key] = ct2[m][j]
      OBVIOUS
    <2>2. j \in 1..Len(ct[m]) /\ ct2[m][j].key = ct[m][j].key /\ ct[m][j].key \in Key /\ spot[ct[m][j].key] = m
      BY <1>2, <1>10
    <2>3. rec[ct[m][j].key] = ct[m][j]
      BY <2>2 DEF Placed
    <2>4. CASE ct[m][j].key = key
      <3>1. m = l
        BY <1>0, <1>1, <2>2, <2>4
      <3> QED BY <1>1, <1>4, <1>5, <1>8, <1>9a, <2>2, <2>4, <3>1
    <2>5. CASE ct[m][j].key # key
      <3>1. ct2[m][j] = ct[m][j]
        BY <1>4, <1>5, <1>8, <2>2, <2>5
      <3> QED BY <1>9a, <2>2, <2>3, <2>5, <3>1
    <2> QED BY <2>4, <2>5
  <1>14. \A m \in Spot : \A j, h \in 1..Len(ct2[m]) : ct2[m][j].key = ct2[m][h].key => j = h
    <2>1. SUFFICES ASSUME NEW m \in Spot, NEW j \in 1..Len(ct2[m]), NEW h \in 1..Len(ct2[m]),
                          ct2[m][j].key = ct2[m][h].key
                   PROVE  j = h
      OBVIOUS
    <2>2. j \in 1..Len(ct[m]) /\ h \in 1..Len(ct[m]) /\ ct[m][j].key = ct[m][h].key
      BY <1>10, <2>1
    <2> QED BY <2>2 DEF Placed
  <1>15. \A k \in Key : spot[k] # Nowhere => \E j \in 1..Len(ct2[spot[k]]) : ct2[spot[k]][j].key = k
    <2>1. SUFFICES ASSUME NEW k \in Key, spot[k] # Nowhere
                   PROVE  \E j \in 1..Len(ct2[spot[k]]) : ct2[spot[k]][j].key = k
      OBVIOUS
    <2>2. spot[k] \in Spot
      BY <1>2, <2>1
    <2>3. PICK h \in 1..Len(ct[spot[k]]) : ct[spot[k]][h].key = k
      BY <2>1 DEF Placed
    <2> QED BY <1>10, <2>2, <2>3
  <1>16. Placed(ct2, spot, rec2)
    BY <1>2, <1>8, <1>9a, <1>13, <1>14, <1>15 DEF Placed
  <1> QED BY <1>1, <1>3, <1>8, <1>9a, <1>16

PourIs(ct, x, y, m, e, f) ==
  e = ct[x] \o SubSeq(ct[y], 1, m) /\ f = SubSeq(ct[y], m + 1, Len(ct[y]))
\* The first records of one place go to the end of another.
Pours(ct, spot, rec, ct2, spot2, x, y, m, e, f) ==
  /\ Placed(ct2, spot2, rec)
  /\ ct2[x] = e /\ ct2[y] = f
  /\ \A l \in Spot : l # x /\ l # y => ct2[l] = ct[l]
  /\ \A k \in Key : spot2[k] = spot[k] \/ (spot[k] = y /\ spot2[k] = x)
  /\ m = Len(ct[y]) => \A k \in Key : spot2[k] # y
LEMMA PourRecords ==
  ASSUME NEW ct, NEW spot, NEW rec, Placed(ct, spot, rec),
         NEW x \in Spot, NEW y \in Spot, x # y, NEW m \in 0..Len(ct[y]),
         NEW e, NEW f, PourIs(ct, x, y, m, e, f)
  PROVE  \E ct2, spot2 : Pours(ct, spot, rec, ct2, spot2, x, y, m, e, f)
  <1>0. SUFFICES ASSUME e = ct[x] \o SubSeq(ct[y], 1, m), f = SubSeq(ct[y], m + 1, Len(ct[y]))
                 PROVE  \E ct2, spot2 :
           /\ Placed(ct2, spot2, rec)
           /\ ct2[x] = e /\ ct2[y] = f
           /\ \A l \in Spot : l # x /\ l # y => ct2[l] = ct[l]
           /\ \A k \in Key : spot2[k] = spot[k] \/ (spot[k] = y /\ spot2[k] = x)
           /\ m = Len(ct[y]) => \A k \in Key : spot2[k] # y
    BY DEF Pours, PourIs
  <1>2. /\ ct \in [Spot -> Seq(Record)] /\ spot \in [Key -> Spot \cup {Nowhere}]
        /\ rec \in [Key -> Record] /\ Nowhere \notin Spot
        /\ \A l \in Spot : \A j \in 1..Len(ct[l]) :
              ct[l][j] \in Record /\ ct[l][j].key \in Key /\ spot[ct[l][j].key] = l
    BY PlacedFacts
  <1>3. PICK X \in Seq(Record) : X = ct[x]
    BY <1>2
  <1>4. PICK Y \in Seq(Record) : Y = ct[y]
    BY <1>2
  <1>5. PICK n \in Nat : n = Len(Y)
    OBVIOUS
  <1>6. PICK h \in Nat : h = Len(X)
    OBVIOUS
  <1>6a. m \in 0..n /\ \A j \in 1..n : Y[j] \in Record
    <2>1. \A j \in 1..Len(Y) : Y[j] \in Record
      OBVIOUS
    <2> QED BY <1>4, <1>5, <2>1
  <1>7. PICK a : a = SubSeq(Y, 1, m)
    OBVIOUS
  <1>8. PICK b : b = SubSeq(Y, m + 1, n)
    OBVIOUS
  <1>9. a \in Seq(Record) /\ Len(a) = m /\ \A j \in 1..m : a[j] = Y[j]
    <2>1. \A j \in 1..m : Y[j] \in Record
      BY <1>6a
    <2>2. 1 \in Int /\ m \in Int
      BY <1>6a
    <2>3. /\ a \in Seq(Record) /\ Len(a) = IF 1 <= m THEN m - 1 + 1 ELSE 0
          /\ \A j \in 1..m - 1 + 1 : a[j] = Y[1 + j - 1]
      BY <1>7, <2>1, <2>2, SubSeqProperties
    <2> QED BY <1>6a, <2>3
  <1>10. b \in Seq(Record) /\ Len(b) = n - m /\ \A j \in 1..n - m : b[j] = Y[j + m]
    <2>1. \A j \in m + 1..n : Y[j] \in Record
      BY <1>6a
    <2>2. m + 1 \in Int /\ n \in Int
      BY <1>6a
    <2>3. /\ b \in Seq(Record) /\ Len(b) = IF m + 1 <= n THEN n - (m + 1) + 1 ELSE 0
          /\ \A j \in 1..n - (m + 1) + 1 : b[j] = Y[(m + 1) + j - 1]
      BY <1>8, <2>1, <2>2, SubSeqProperties
    <2> QED BY <1>6a, <2>3
  <1>11. PICK c : c = X \o a
    OBVIOUS
  <1>12. /\ c \in Seq(Record) /\ Len(c) = h + m
         /\ \A j \in 1..h + m : c[j] = IF j <= h THEN X[j] ELSE a[j - h]
    BY <1>6, <1>9, <1>11, ConcatProperties
  <1>13. \A j \in 1..h + m : c[j] = IF j <= h THEN X[j] ELSE Y[j - h]
    <2>1. SUFFICES ASSUME NEW j \in 1..h + m PROVE c[j] = IF j <= h THEN X[j] ELSE Y[j - h]
      OBVIOUS
    <2>2. ~(j <= h) => j - h \in 1..m
      BY <1>6a
    <2> QED BY <1>9, <1>12, <2>1, <2>2
  <1> DEFINE Poured(k) == \E i \in 1..m : Y[i].key = k
  <1>14. PICK ct2 : ct2 = [l \in Spot |-> IF l = x THEN c ELSE IF l = y THEN b ELSE ct[l]]
    OBVIOUS
  <1>15. PICK spot2 : spot2 = [k \in Key |-> IF Poured(k) THEN x ELSE spot[k]]
    OBVIOUS
  <1>16. /\ ct2 \in [Spot -> Seq(Record)] /\ ct2[x] = c /\ ct2[y] = b
         /\ \A l \in Spot : l # x /\ l # y => ct2[l] = ct[l]
    BY <1>2, <1>10, <1>12, <1>14
  <1>17. /\ spot2 \in [Key -> Spot \cup {Nowhere}]
         /\ \A k \in Key : spot2[k] = IF Poured(k) THEN x ELSE spot[k]
    BY <1>2, <1>15
  <1>18. \A i, j \in 1..n : Y[i].key = Y[j].key => i = j
    BY <1>4, <1>5 DEF Placed
  <1>19. \A i \in 1..n : Y[i].key \in Key /\ spot[Y[i].key] = y /\ rec[Y[i].key] = Y[i]
    <2>1. ASSUME NEW i \in 1..n PROVE rec[Y[i].key] = Y[i]
      <3>1. i \in 1..Len(ct[y])
        BY <1>4, <1>5
      <3>2. \A l \in Spot : \A k \in 1..Len(ct[l]) : rec[ct[l][k].key] = ct[l][k]
        BY ONLY Placed(ct, spot, rec) DEF Placed
      <3> QED BY ONLY y \in Spot, <3>1, <3>2, <1>4
    <2> QED BY <1>2, <1>4, <1>5, <2>1
  <1>20. \A i \in 1..h : X[i].key \in Key /\ spot[X[i].key] = x /\ rec[X[i].key] = X[i]
    <2>1. ASSUME NEW i \in 1..h PROVE rec[X[i].key] = X[i]
      <3>1. i \in 1..Len(ct[x])
        BY <1>3, <1>6
      <3>2. \A l \in Spot : \A k \in 1..Len(ct[l]) : rec[ct[l][k].key] = ct[l][k]
        BY ONLY Placed(ct, spot, rec) DEF Placed
      <3> QED BY ONLY x \in Spot, <3>1, <3>2, <1>3
    <2> QED BY <1>2, <1>3, <1>6, <2>1
  <1>20a. \A k \in Key : Poured(k) => spot[k] = y
    BY <1>6a, <1>19
  <1>20b. \A i \in m + 1..n : ~Poured(Y[i].key)
    <2>1. SUFFICES ASSUME NEW i \in m + 1..n, NEW j \in 1..m, Y[j].key = Y[i].key PROVE FALSE
      OBVIOUS
    <2>2. i \in 1..n /\ j \in 1..n /\ i # j
      BY <1>6a
    <2> QED BY <1>18, <2>1, <2>2
  <1>21. \A k \in Key : spot2[k] = spot[k] \/ (spot[k] = y /\ spot2[k] = x)
    BY <1>17, <1>20a
  <1> HIDE DEF Poured
  <1>22. ASSUME NEW l \in Spot, NEW j \in 1..Len(ct2[l])
         PROVE  spot2[ct2[l][j].key] = l /\ rec[ct2[l][j].key] = ct2[l][j]
    <2>2. CASE l = x
      <3>1. j \in 1..h + m /\ ct2[l][j] = c[j]
        BY <1>12, <1>16, <1>22, <2>2
      <3>2. CASE j <= h
        <4>1. j \in 1..h /\ c[j] = X[j]
          BY <1>13, <3>1, <3>2
        <4>2. spot[X[j].key] = x /\ X[j].key \in Key /\ rec[X[j].key] = X[j]
          BY <1>20, <4>1
        <4>3. spot2[X[j].key] = x
          BY <1>21, <4>2
        <4> QED BY <2>2, <3>1, <4>1, <4>2, <4>3
      <3>3. CASE ~(j <= h)
        <4>1. PICK i \in 1..m : i = j - h /\ c[j] = Y[i]
          BY <1>6a, <1>13, <3>1, <3>3
        <4>2. i \in 1..n
          BY <1>6a
        <4>3. Y[i].key \in Key /\ Poured(Y[i].key) /\ rec[Y[i].key] = Y[i]
          BY <1>19, <4>2 DEF Poured
        <4> QED BY <1>17, <2>2, <3>1, <4>1, <4>3
      <3> QED BY <3>2, <3>3
    <2>3. CASE l = y
      <3>1. j \in 1..n - m /\ ct2[l][j] = Y[j + m]
        BY <1>10, <1>16, <1>22, <2>3
      <3>2. j + m \in m + 1..n /\ j + m \in 1..n
        BY <1>6a, <3>1
      <3>3. Y[j + m].key \in Key /\ spot[Y[j + m].key] = y /\ rec[Y[j + m].key] = Y[j + m]
        BY <1>19, <3>2
      <3>4. ~Poured(Y[j + m].key)
        BY <1>20b, <3>2
      <3> QED BY <1>17, <2>3, <3>1, <3>3, <3>4
    <2>4. CASE l # x /\ l # y
      <3>1. ct2[l] = ct[l]
        BY <1>16, <2>4
      <3>2. /\ spot[ct[l][j].key] = l /\ ct[l][j].key \in Key
        BY <1>2, <1>22, <3>1
      <3>3. rec[ct[l][j].key] = ct[l][j]
        BY <1>22, <3>1 DEF Placed
      <3>4. spot2[ct[l][j].key] = l
        BY <1>21, <2>4, <3>2
      <3> QED BY <3>1, <3>3, <3>4
    <2> QED BY <2>2, <2>3, <2>4
  <1>23. ASSUME NEW l \in Spot, NEW j \in 1..Len(ct2[l]), NEW i \in 1..Len(ct2[l]),
                ct2[l][j].key = ct2[l][i].key
         PROVE  j = i
    <2>2. CASE l = x
      <3>1. j \in 1..h + m /\ ct2[l][j] = c[j] /\ i \in 1..h + m /\ ct2[l][i] = c[i]
        BY <1>12, <1>16, <1>23, <2>2
      <3>2. \A d \in 1..h + m : ~(d <= h) => c[d].key \in Key /\ spot[c[d].key] = y /\ c[d] = Y[d - h] /\ d - h \in 1..n
        <4>1. SUFFICES ASSUME NEW d \in 1..h + m, ~(d <= h)
                       PROVE c[d].key \in Key /\ spot[c[d].key] = y /\ c[d] = Y[d - h] /\ d - h \in 1..n
          OBVIOUS
        <4>2. d - h \in 1..n /\ c[d] = Y[d - h]
          BY <1>6a, <1>13, <4>1
        <4> QED BY <1>19, <4>2
      <3>3. \A d \in 1..h + m : d <= h => spot[c[d].key] = x /\ c[d] = X[d] /\ d \in 1..h
        BY <1>13, <1>20
      <3>4. CASE j <= h
        <4>1. i <= h
          BY <1>23, <3>1, <3>2, <3>3, <3>4
        <4>2. X[j].key = X[i].key /\ j \in 1..Len(ct[x]) /\ i \in 1..Len(ct[x])
          BY <1>3, <1>6, <1>23, <3>1, <3>3, <3>4, <4>1
        <4> QED BY <1>3, <4>2 DEF Placed
      <3>5. CASE ~(j <= h)
        <4>1. ~(i <= h)
          BY <1>23, <3>1, <3>2, <3>3, <3>5
        <4>2. Y[j - h].key = Y[i - h].key /\ j - h \in 1..n /\ i - h \in 1..n
          BY <1>23, <3>1, <3>2, <3>5, <4>1
        <4>3. j - h = i - h
          BY <1>18, <4>2
        <4> QED BY <3>1, <4>3
      <3> QED BY <3>4, <3>5
    <2>3. CASE l = y
      <3>1. j \in 1..n - m /\ ct2[l][j] = Y[j + m] /\ i \in 1..n - m /\ ct2[l][i] = Y[i + m]
        BY <1>10, <1>16, <1>23, <2>3
      <3>2. j + m \in 1..n /\ i + m \in 1..n
        BY <1>6a, <3>1
      <3>3. j + m = i + m
        BY <1>18, <1>23, <3>1, <3>2
      <3> QED BY <1>6a, <3>1, <3>3
    <2>4. CASE l # x /\ l # y
      <3>1. ct2[l] = ct[l]
        BY <1>16, <2>4
      <3> QED BY <1>23, <3>1 DEF Placed
    <2> QED BY <2>2, <2>3, <2>4
  <1>24. ASSUME NEW k \in Key, spot2[k] # Nowhere
         PROVE  \E j \in 1..Len(ct2[spot2[k]]) : ct2[spot2[k]][j].key = k
    <2>2. CASE Poured(k)
      <3>1. PICK i \in 1..m : Y[i].key = k
        BY <2>2 DEF Poured
      <3>2. h + i \in 1..h + m /\ ~(h + i <= h) /\ (h + i) - h = i
        BY <1>6a
      <3>3. c[h + i] = Y[i]
        BY <1>13, <3>2
      <3> QED BY <1>12, <1>16, <1>17, <2>2, <3>1, <3>2, <3>3
    <2>3. CASE ~Poured(k)
      <3>0. spot2[k] = spot[k] /\ spot[k] \in Spot
        BY <1>2, <1>17, <1>24, <2>3
      <3>1. PICK i \in 1..Len(ct[spot[k]]) : ct[spot[k]][i].key = k
        BY <1>24, <3>0 DEF Placed
      <3>2. CASE spot[k] = x
        <4>1. i \in 1..h /\ X[i].key = k
          BY <1>3, <1>6, <3>1, <3>2
        <4>2. i \in 1..h + m /\ c[i] = X[i]
          BY <1>6a, <1>13, <4>1
        <4> QED BY <1>12, <1>16, <3>0, <3>2, <4>1, <4>2
      <3>3. CASE spot[k] = y
        <4>1. i \in 1..n /\ Y[i].key = k
          BY <1>4, <1>5, <3>1, <3>3
        <4>2. i \notin 1..m
          BY <2>3, <4>1 DEF Poured
        <4>3. i - m \in 1..n - m /\ (i - m) + m = i
          BY <1>6a, <4>1, <4>2
        <4>4. b[i - m].key = k
          BY <1>10, <4>1, <4>3
        <4> QED BY <1>10, <1>16, <3>0, <3>3, <4>3, <4>4
      <3>4. CASE spot[k] # x /\ spot[k] # y
        BY <1>16, <3>0, <3>1, <3>4
      <3> QED BY <3>2, <3>3, <3>4
    <2> QED BY <2>2, <2>3
  <1>25. Placed(ct2, spot2, rec)
    BY <1>2, <1>16, <1>17, <1>22, <1>23, <1>24 DEF Placed
  <1>26. ASSUME m = n, NEW k \in Key PROVE spot2[k] # y
    <2>1. SUFFICES ASSUME spot2[k] = y PROVE FALSE
      OBVIOUS
    <2>2. spot2[k] # Nowhere
      BY <1>2, <2>1
    <2>3. PICK j \in 1..Len(b) : TRUE
      BY <1>16, <1>24, <2>1, <2>2
    <2> QED BY <1>10, <1>26, <2>3
  <1>27. ct2[x] = e /\ ct2[y] = f
    BY <1>0, <1>3, <1>4, <1>5, <1>7, <1>8, <1>11, <1>16
  <1>28. m = Len(ct[y]) => \A k \in Key : spot2[k] # y
    BY <1>4, <1>5, <1>26
  <1> DEFINE Conclusion(c2, s2) ==
           /\ Placed(c2, s2, rec)
           /\ c2[x] = e /\ c2[y] = f
           /\ \A l \in Spot : l # x /\ l # y => c2[l] = ct[l]
           /\ \A k \in Key : s2[k] = spot[k] \/ (spot[k] = y /\ s2[k] = x)
           /\ m = Len(ct[y]) => \A k \in Key : s2[k] # y
  <1>29. Conclusion(ct2, spot2)
    BY <1>16, <1>21, <1>25, <1>27, <1>28
  <1>30. \E c2, s2 : Conclusion(c2, s2)
    <2> HIDE DEF Conclusion
    <2> QED BY <1>29
  <1> QED BY <1>30, Zenon

\* Blocks for the data of a large record: free ones first, then new ones.
Drawn(got, n, c, e) == \A i \in 1..n : got[i] = IF i <= Len(c) THEN c[i] ELSE e + i - Len(c)
DataTaken(own, len, hd, nx, B, e, c, n, got) ==
  /\ \A i \in 1..n : got[i] \in Block /\ own[got[i]] \in {Free, NoOne}
  /\ \A i, j \in 1..n : got[i] = got[j] => i = j
  /\ \A b \in Block : b <= e /\ own[b] # Free => \A i \in 1..n : got[i] # b
  /\ \A b \in Block : b > (IF n > Len(c) THEN e + n - Len(c) ELSE e) <=>
       own[b] = NoOne /\ \A i \in 1..n : got[i] # b
  /\ \E own2, len2, hd2, nx2 :
       /\ Chained(own2, len2, hd2, nx2)
       /\ \A b \in Block : own2[b] = IF \E i \in 1..n : got[i] = b THEN B ELSE own[b]
       /\ \A i \in 1..n : nx2[got[i]] = IF i < n THEN got[i + 1] ELSE 0
       /\ \A b \in Block : (\A i \in 1..n : got[i] # b) => nx2[b] = nx[b]
       /\ len2[B] = n /\ hd2[B] = got[1]
       /\ hd2[Free] = IF n < Len(c) THEN c[n + 1] ELSE 0
       /\ \A o \in Owner : o # Free /\ o # B => len2[o] = len[o] /\ hd2[o] = hd[o]
LEMMA TakeMany ==
  ASSUME NEW own, NEW len, NEW hd, NEW nx, Chained(own, len, hd, nx),
         NEW B \in Owner, B # Free, len[B] = 0,
         NEW e \in 0..MaxBlock, \A b \in Block : own[b] = NoOne <=> b > e,
         NEW c, Enumerates(c, Free, own, len, hd, nx),
         NEW n \in Nat \ {0}, n <= Len(c) + (MaxBlock - e),
         NEW got, Drawn(got, n, c, e)
  PROVE  DataTaken(own, len, hd, nx, B, e, c, n, got)
  <1>0. \A i \in 1..n : got[i] = IF i <= Len(c) THEN c[i] ELSE e + i - Len(c)
    BY DEF Drawn
  <1> USE <1>0
  <1>1. PICK pos \in [Block -> Nat] : Positions(own, len, hd, nx, pos)
    BY DEF Chained
  <1>2. /\ Free # NoOne /\ B # NoOne /\ Free \in Owner /\ Block \subseteq Nat /\ 0 \notin Block
        /\ MaxBlock \in Nat
    BY OwnersApart, BlockNat, DHBlocksAssumption
  <1>3. /\ own \in [Block -> Owner \cup {NoOne}]
        /\ len \in [Owner -> Nat] /\ hd \in [Owner -> Nat] /\ nx \in [Block -> Nat]
    BY DEF Chained
  <1>4. PICK L \in Nat : L = Len(c)
    BY DEF Enumerates
  <1>5. /\ \A i \in 1..L : c[i] \in Block /\ own[c[i]] = Free
        /\ \A b \in Block : own[b] = Free => \E i \in 1..L : c[i] = b
        /\ \A i, j \in 1..L : c[i] = c[j] => i = j
        /\ L # 0 => c[1] = hd[Free] /\ nx[c[L]] = 0
        /\ \A i \in 1..L - 1 : nx[c[i]] = c[i + 1]
        /\ L = len[Free]
    BY <1>4 DEF Enumerates
  <1>6. \A i \in 1..n : got[i] = IF i <= L THEN c[i] ELSE e + i - L
    BY <1>4
  <1>7. \A i \in 1..n : i > L => e + i - L \in Block /\ e + i - L > e /\ own[e + i - L] = NoOne
    <2>1. SUFFICES ASSUME NEW i \in 1..n, i > L
                   PROVE  e + i - L \in Block /\ e + i - L > e /\ own[e + i - L] = NoOne
      OBVIOUS
    <2>2. e + i - L \in Int /\ e + i - L > e /\ e + i - L <= MaxBlock /\ e + i - L >= 1
      BY <1>2, <1>4, <2>1
    <2>3. e + i - L \in Block
      BY <1>2, <2>2 DEF Block
    <2> QED BY <2>2, <2>3
  <1>8. \A i \in 1..n : i <= L => got[i] = c[i] /\ got[i] \in Block /\ own[got[i]] = Free
    BY <1>5, <1>6
  <1>9. \A i \in 1..n : i > L => got[i] = e + i - L /\ got[i] \in Block /\ own[got[i]] = NoOne
    BY <1>6, <1>7
  <1>10. \A i \in 1..n : got[i] \in Block /\ own[got[i]] \in {Free, NoOne}
    BY <1>4, <1>8, <1>9
  <1>11. ASSUME NEW i \in 1..n, NEW j \in 1..n, got[i] = got[j] PROVE i = j
    <2>1. CASE i <= L
      <3>1. j <= L
        <4>1. own[got[i]] = Free /\ own[got[j]] = Free
          BY <1>8, <1>11, <2>1
        <4>2. j > L => own[got[j]] = NoOne
          BY <1>9
        <4>3. j \in Nat
          OBVIOUS
        <4> QED BY <1>2, <4>1, <4>2, <4>3
      <3> QED BY <1>5, <1>8, <1>11, <2>1, <3>1
    <2>2. CASE i > L
      <3>1. j > L
        <4>1. own[got[i]] = NoOne /\ own[got[j]] = NoOne
          BY <1>9, <1>11, <2>2
        <4>2. j <= L => own[got[j]] = Free
          BY <1>8
        <4>3. j \in Nat
          OBVIOUS
        <4> QED BY <1>2, <4>1, <4>2, <4>3
      <3>2. e + i - L = e + j - L
        BY <1>9, <1>11, <2>2, <3>1
      <3> QED BY <1>4, <3>2
    <2> QED BY <1>4, <2>1, <2>2
  <1> DEFINE Got(b) == \E i \in 1..n : got[i] = b
  <1>12. \A b \in Block : Got(b) => own[b] \in {Free, NoOne}
    BY <1>10
  <1>13. \A i \in 1..L : Got(c[i]) <=> i <= n
    <2>1. SUFFICES ASSUME NEW i \in 1..L PROVE Got(c[i]) <=> i <= n
      OBVIOUS
    <2>2. i <= n => i \in 1..n /\ got[i] = c[i]
      BY <1>8, <2>1
    <2>3. ASSUME NEW j \in 1..n, got[j] = c[i] PROVE i <= n
      <3>1. own[c[i]] = Free
        BY <1>5, <2>1
      <3>2. j <= L
        <4>1. own[got[j]] = Free
          BY <2>3, <3>1
        <4>2. j > L => own[got[j]] = NoOne
          BY <1>9
        <4>3. j \in Nat
          OBVIOUS
        <4> QED BY <1>2, <4>1, <4>2, <4>3
      <3>3. j = i
        BY <1>5, <1>8, <2>1, <2>3, <3>2
      <3> QED BY <3>3
    <2> QED BY <2>2, <2>3
  <1>14. \A b \in Block : own[b] = NoOne => (Got(b) <=> b <= e + n - L /\ n > L)
    <2>1. SUFFICES ASSUME NEW b \in Block, own[b] = NoOne PROVE Got(b) <=> b <= e + n - L /\ n > L
      OBVIOUS
    <2>2. b > e /\ b \in Nat
      BY <1>2, <2>1
    <2>3. ASSUME NEW i \in 1..n, got[i] = b PROVE b <= e + n - L /\ n > L
      <3>1. i > L
        BY <1>2, <1>4, <1>8, <2>1, <2>3
      <3> QED BY <1>4, <1>9, <2>3, <3>1
    <2>4. ASSUME b <= e + n - L, n > L PROVE Got(b)
      <3>1. b - e + L \in 1..n /\ b - e + L > L /\ e + (b - e + L) - L = b
        BY <1>4, <2>2, <2>4
      <3> QED BY <1>9, <3>1
    <2> QED BY <2>3, <2>4
  <1>15. \A b \in Block : b > (IF n > Len(c) THEN e + n - Len(c) ELSE e) <=> own[b] = NoOne /\ ~Got(b)
    <2>1. SUFFICES ASSUME NEW b \in Block
                   PROVE  b > (IF n > L THEN e + n - L ELSE e) <=> own[b] = NoOne /\ ~Got(b)
      BY <1>4
    <2>2. own[b] = NoOne <=> b > e
      OBVIOUS
    <2>3. b \in Nat /\ e \in Nat
      BY <1>2
    <2>4. CASE n > L
      <3>1. e + n - L > e
        BY <1>4, <2>3, <2>4
      <3> HIDE DEF Got
      <3> QED BY <1>4, <1>14, <2>2, <2>3, <2>4, <3>1
    <2>5. CASE ~(n > L)
      <3> HIDE DEF Got
      <3> QED BY <1>14, <2>2, <2>5
    <2> QED BY <2>4, <2>5
  <1>16. PICK own2 : own2 = [b \in Block |-> IF Got(b) THEN B ELSE own[b]]
    OBVIOUS
  <1>17. PICK len2 : len2 = [len EXCEPT ![Free] = IF n < L THEN L - n ELSE 0, ![B] = n]
    OBVIOUS
  <1>18. PICK hd2 : hd2 = [hd EXCEPT ![Free] = IF n < L THEN c[n + 1] ELSE 0, ![B] = got[1]]
    OBVIOUS
  <1>19. PICK gi : gi = [b \in Block |-> CHOOSE i \in 1..n : got[i] = b]
    OBVIOUS
  <1>20. PICK ci : ci = [b \in Block |-> CHOOSE i \in 1..L : c[i] = b]
    OBVIOUS
  <1>21. \A b \in Block : Got(b) => gi[b] \in 1..n /\ got[gi[b]] = b
    BY <1>19
  <1>22. \A b \in Block : own[b] = Free => ci[b] \in 1..L /\ c[ci[b]] = b
    BY <1>5, <1>20
  <1>23. \A i \in 1..n : Got(got[i]) /\ gi[got[i]] = i
    BY <1>10, <1>11, <1>21
  <1>24. ASSUME NEW i \in 1..L PROVE ci[c[i]] = i
    <2>1. c[i] \in Block /\ own[c[i]] = Free
      BY <1>5
    <2>2. ci[c[i]] \in 1..L /\ c[ci[c[i]]] = c[i]
      BY <1>22, <2>1
    <2> QED BY <1>5, <2>2
  <1>25. PICK nx2 : nx2 = [b \in Block |-> IF Got(b) THEN (IF gi[b] < n THEN got[gi[b] + 1] ELSE 0) ELSE nx[b]]
    OBVIOUS
  <1>26. PICK pos2 : pos2 = [b \in Block |-> IF Got(b) THEN gi[b]
                                             ELSE IF own[b] = Free THEN ci[b] - n ELSE pos[b]]
    OBVIOUS
  <1> HIDE DEF Got
  <1>27. /\ own2 \in [Block -> Owner \cup {NoOne}]
         /\ \A b \in Block : own2[b] = IF Got(b) THEN B ELSE own[b]
    BY <1>3, <1>16
  <1>28. /\ len2 \in [Owner -> Nat] /\ len2[B] = n /\ len2[Free] = IF n < L THEN L - n ELSE 0
         /\ \A o \in Owner : o # Free /\ o # B => len2[o] = len[o]
    <2>1. (IF n < L THEN L - n ELSE 0) \in Nat
      OBVIOUS
    <2> QED BY <1>2, <1>3, <1>17, <2>1
  <1>29. /\ hd2 \in [Owner -> Nat] /\ hd2[B] = got[1] /\ hd2[Free] = IF n < L THEN c[n + 1] ELSE 0
         /\ \A o \in Owner : o # Free /\ o # B => hd2[o] = hd[o]
    <2>1. (IF n < L THEN c[n + 1] ELSE 0) \in Nat
      <3>1. n < L => n + 1 \in 1..L
        OBVIOUS
      <3> QED BY <1>2, <1>5, <3>1
    <2>2. got[1] \in Nat
      <3>1. 1 \in 1..n
        OBVIOUS
      <3> QED BY <1>2, <1>10, <3>1
    <2> QED BY <1>2, <1>3, <1>18, <2>1, <2>2
  <1>30. nx2 \in [Block -> Nat]
    <2>1. \A b \in Block : Got(b) /\ gi[b] < n => got[gi[b] + 1] \in Nat
      <3>1. SUFFICES ASSUME NEW b \in Block, Got(b), gi[b] < n PROVE got[gi[b] + 1] \in Nat
        OBVIOUS
      <3>2. gi[b] + 1 \in 1..n
        BY <1>21, <3>1
      <3> QED BY <1>2, <1>10, <3>2
    <2> QED BY <1>3, <1>25, <2>1
  <1>31. \A b \in Block : nx2[b] = IF Got(b) THEN (IF gi[b] < n THEN got[gi[b] + 1] ELSE 0) ELSE nx[b]
    BY <1>25
  <1>32. \A b \in Block : ~Got(b) /\ own[b] = Free => ci[b] - n \in Nat /\ ci[b] > n /\ n < L
    <2>1. SUFFICES ASSUME NEW b \in Block, ~Got(b), own[b] = Free
                   PROVE ci[b] - n \in Nat /\ ci[b] > n /\ n < L
      OBVIOUS
    <2>2. ci[b] \in 1..L /\ c[ci[b]] = b
      BY <1>22, <2>1
    <2>3. ~(ci[b] <= n)
      BY <1>13, <2>1, <2>2
    <2> QED BY <2>2, <2>3
  <1>33. /\ pos2 \in [Block -> Nat]
         /\ \A b \in Block : pos2[b] = IF Got(b) THEN gi[b] ELSE IF own[b] = Free THEN ci[b] - n ELSE pos[b]
    BY <1>1, <1>21, <1>26, <1>32
  <1>34. \A b \in Block : own[b] # B
    BY <1>1, <1>2 DEF Positions
  <1>35. \A b \in Block : own2[b] # NoOne => pos2[b] \in 1..len2[own2[b]]
    <2>1. SUFFICES ASSUME NEW b \in Block, own2[b] # NoOne PROVE pos2[b] \in 1..len2[own2[b]]
      OBVIOUS
    <2>2. CASE Got(b)
      BY <1>21, <1>27, <1>28, <1>33, <2>2
    <2>3. CASE ~Got(b) /\ own[b] = Free
      BY <1>22, <1>27, <1>28, <1>32, <1>33, <2>3
    <2>4. CASE ~Got(b) /\ own[b] # Free
      <3>1. own2[b] = own[b] /\ own[b] # B /\ own[b] \in Owner /\ pos2[b] = pos[b] /\ len2[own[b]] = len[own[b]]
        BY <1>3, <1>27, <1>28, <1>33, <1>34, <2>1, <2>4
      <3> QED BY <1>1, <2>1, <3>1 DEF Positions
    <2> QED BY <2>2, <2>3, <2>4
  <1>36. ASSUME NEW b \in Block, NEW d \in Block, own2[b] # NoOne, own2[d] = own2[b], pos2[d] = pos2[b]
         PROVE  b = d
    <2>2. CASE Got(b)
      <3>1. Got(d)
        BY <1>27, <1>34, <1>36, <2>2
      <3> QED BY <1>21, <1>33, <1>36, <2>2, <3>1
    <2>3. CASE ~Got(b) /\ own[b] = Free
      <3>1. ~Got(d) /\ own[d] = Free
        BY <1>27, <1>34, <1>36, <2>3
      <3>2. ci[b] - n = ci[d] - n /\ ci[b] \in Int /\ ci[d] \in Int
        BY <1>22, <1>33, <1>36, <2>3, <3>1
      <3>3. ci[b] = ci[d]
        BY <3>2
      <3> QED BY <1>22, <2>3, <3>1, <3>3
    <2>4. CASE ~Got(b) /\ own[b] # Free
      <3>1. ~Got(d) /\ own[d] = own[b] /\ own[b] # NoOne /\ pos[b] = pos[d]
        BY <1>27, <1>33, <1>34, <1>36, <2>4
      <3> QED BY <1>1, <3>1 DEF Positions
    <2> QED BY <2>2, <2>3, <2>4
  <1>37. ASSUME NEW o \in Owner
         PROVE  IF len2[o] = 0 THEN hd2[o] = 0
                ELSE hd2[o] \in Block /\ own2[hd2[o]] = o /\ pos2[hd2[o]] = 1
    <2>1. CASE o = B
      <3>1. 1 \in 1..n
        OBVIOUS
      <3> QED BY <1>10, <1>23, <1>27, <1>28, <1>29, <1>33, <2>1, <3>1
    <2>2. CASE o = Free /\ n < L
      <3>1. n + 1 \in 1..L /\ ~(n + 1 <= n)
        BY <2>2
      <3>2. ~Got(c[n + 1]) /\ c[n + 1] \in Block /\ own[c[n + 1]] = Free /\ ci[c[n + 1]] = n + 1
        BY <1>5, <1>13, <1>24, <3>1
      <3> QED BY <1>27, <1>28, <1>29, <1>33, <2>2, <3>2
    <2>3. CASE o = Free /\ ~(n < L)
      BY <1>28, <1>29, <2>3
    <2>4. CASE o # Free /\ o # B
      <3>1. len2[o] = len[o] /\ hd2[o] = hd[o]
        BY <1>28, <1>29, <2>4
      <3>2. IF len[o] = 0 THEN hd[o] = 0 ELSE hd[o] \in Block /\ own[hd[o]] = o /\ pos[hd[o]] = 1
        BY <1>1 DEF Positions
      <3>3. o # NoOne
        BY OwnersApart
      <3> QED BY <1>12, <1>27, <1>33, <2>4, <3>1, <3>2, <3>3
    <2> QED BY <2>1, <2>2, <2>3, <2>4
  <1>38. ASSUME NEW b \in Block, own2[b] # NoOne
         PROVE  IF pos2[b] = len2[own2[b]] THEN nx2[b] = 0
                ELSE nx2[b] \in Block /\ own2[nx2[b]] = own2[b] /\ pos2[nx2[b]] = pos2[b] + 1
    <2>1. CASE Got(b)
      <3>1. pos2[b] = gi[b] /\ own2[b] = B /\ len2[B] = n /\ gi[b] \in 1..n
        BY <1>21, <1>27, <1>28, <1>33, <2>1
      <3>2. CASE gi[b] = n
        BY <1>31, <2>1, <3>1, <3>2
      <3>3. CASE gi[b] # n
        <4>1. gi[b] < n /\ gi[b] + 1 \in 1..n
          BY <3>1, <3>3
        <4>2. nx2[b] = got[gi[b] + 1]
          BY <1>31, <2>1, <4>1
        <4>3. nx2[b] \in Block /\ Got(nx2[b]) /\ gi[nx2[b]] = gi[b] + 1
          BY <1>10, <1>23, <4>1, <4>2
        <4>4. own2[nx2[b]] = B /\ pos2[nx2[b]] = gi[b] + 1
          BY <1>27, <1>33, <4>3
        <4> QED BY <3>1, <3>3, <4>3, <4>4
      <3> QED BY <3>2, <3>3
    <2>2. CASE ~Got(b) /\ own[b] = Free
      <3>1. /\ pos2[b] = ci[b] - n /\ own2[b] = Free /\ n < L /\ len2[Free] = L - n
            /\ ci[b] \in 1..L /\ c[ci[b]] = b /\ nx2[b] = nx[b] /\ ci[b] > n
        BY <1>22, <1>27, <1>28, <1>31, <1>32, <1>33, <2>2
      <3>2. CASE ci[b] = L
        BY <1>5, <3>1, <3>2
      <3>3. CASE ci[b] # L
        <4>1. ci[b] \in 1..L - 1 /\ ci[b] + 1 \in 1..L /\ ~(ci[b] + 1 <= n) /\ ci[b] - n # L - n
          BY <3>1, <3>3
        <4>1a. nx[c[ci[b]]] = c[ci[b] + 1]
          BY <1>5, <4>1
        <4>1b. c[ci[b] + 1] \in Block /\ own[c[ci[b] + 1]] = Free /\ ci[c[ci[b] + 1]] = ci[b] + 1
          BY <1>5, <1>24, <4>1
        <4>2. nx[b] = c[ci[b] + 1] /\ nx[b] \in Block /\ own[nx[b]] = Free /\ ci[nx[b]] = ci[b] + 1
          BY <3>1, <4>1a, <4>1b
        <4>3. ~Got(nx[b])
          BY <1>13, <4>1, <4>2
        <4>3a. pos2[nx[b]] = ci[nx[b]] - n
          BY <1>33, <4>2, <4>3
        <4>4. pos2[nx[b]] = ci[b] + 1 - n /\ ci[b] + 1 - n = (ci[b] - n) + 1
          BY <3>1, <4>2, <4>3a
        <4> QED BY <1>27, <3>1, <4>1, <4>2, <4>3, <4>4
      <3> QED BY <3>2, <3>3
    <2>3. CASE ~Got(b) /\ own[b] # Free
      <3>1. /\ own2[b] = own[b] /\ own[b] # B /\ own[b] \in Owner /\ pos2[b] = pos[b]
            /\ len2[own[b]] = len[own[b]] /\ nx2[b] = nx[b] /\ own[b] # NoOne
        BY <1>3, <1>27, <1>28, <1>31, <1>33, <1>34, <1>38, <2>3
      <3>2. IF pos[b] = len[own[b]] THEN nx[b] = 0
            ELSE nx[b] \in Block /\ own[nx[b]] = own[b] /\ pos[nx[b]] = pos[b] + 1
        BY <1>1, <3>1 DEF Positions
      <3> QED BY <1>12, <1>27, <1>33, <2>3, <3>1, <3>2
    <2> QED BY <2>1, <2>2, <2>3
  <1>39. Positions(own2, len2, hd2, nx2, pos2)
    BY <1>35, <1>36, <1>37, <1>38 DEF Positions
  <1>40. Chained(own2, len2, hd2, nx2)
    BY <1>27, <1>28, <1>29, <1>30, <1>33, <1>39 DEF Chained
  <1>41. \A i \in 1..n : nx2[got[i]] = IF i < n THEN got[i + 1] ELSE 0
    BY <1>10, <1>23, <1>31
  <1>42. hd2[Free] = IF n < Len(c) THEN c[n + 1] ELSE 0
    BY <1>4, <1>29
  <1>44. \A b \in Block : b <= e /\ own[b] # Free => ~Got(b)
    <2>1. \A b \in Block : b <= e => own[b] # NoOne
      BY <1>2
    <2> QED BY <1>12, <2>1
  <1>45. \A b \in Block : (\A i \in 1..n : got[i] # b) <=> ~Got(b)
    BY DEF Got
  <1>46. /\ \A b \in Block : own2[b] = IF \E i \in 1..n : got[i] = b THEN B ELSE own[b]
         /\ \A b \in Block : (\A i \in 1..n : got[i] # b) => nx2[b] = nx[b]
    BY <1>27, <1>31 DEF Got
  <1>47. /\ \A b \in Block : b <= e /\ own[b] # Free => \A i \in 1..n : got[i] # b
         /\ \A b \in Block : b > (IF n > Len(c) THEN e + n - Len(c) ELSE e) <=>
              own[b] = NoOne /\ \A i \in 1..n : got[i] # b
    BY <1>15, <1>44, <1>45
  <1>48. \E own3, len3, hd3, nx3 :
              /\ Chained(own3, len3, hd3, nx3)
              /\ \A b \in Block : own3[b] = IF \E i \in 1..n : got[i] = b THEN B ELSE own[b]
              /\ \A i \in 1..n : nx3[got[i]] = IF i < n THEN got[i + 1] ELSE 0
              /\ \A b \in Block : (\A i \in 1..n : got[i] # b) => nx3[b] = nx[b]
              /\ len3[B] = n /\ hd3[B] = got[1]
              /\ hd3[Free] = IF n < Len(c) THEN c[n + 1] ELSE 0
              /\ \A o \in Owner : o # Free /\ o # B => len3[o] = len[o] /\ hd3[o] = hd[o]
    <2>1. /\ len2[B] = n /\ hd2[B] = got[1]
          /\ \A o \in Owner : o # Free /\ o # B => len2[o] = len[o] /\ hd2[o] = hd[o]
      BY <1>28, <1>29
    <2> DEFINE Conclusion(own3, len3, hd3, nx3) ==
              /\ Chained(own3, len3, hd3, nx3)
              /\ \A b \in Block : own3[b] = IF \E i \in 1..n : got[i] = b THEN B ELSE own[b]
              /\ \A i \in 1..n : nx3[got[i]] = IF i < n THEN got[i + 1] ELSE 0
              /\ \A b \in Block : (\A i \in 1..n : got[i] # b) => nx3[b] = nx[b]
              /\ len3[B] = n /\ hd3[B] = got[1]
              /\ hd3[Free] = IF n < Len(c) THEN c[n + 1] ELSE 0
              /\ \A o \in Owner : o # Free /\ o # B => len3[o] = len[o] /\ hd3[o] = hd[o]
    <2>2. Conclusion(own2, len2, hd2, nx2)
      BY <1>40, <1>41, <1>42, <1>46, <2>1
    <2>3. \E own3, len3, hd3, nx3 : Conclusion(own3, len3, hd3, nx3)
      <3> HIDE DEF Conclusion
      <3> QED BY <2>2
    <2> QED BY <2>3, Zenon
  <1> QED BY <1>10, <1>11, <1>47, <1>48 DEF DataTaken

-----------------------------------------------------------------------------
(* The invariant: what it says of one job, and what others leave alone      *)

LEMMA Kinds ==
  /\ NoOne[1] = "none" /\ Free[1] = "free" /\ Spare[1] = "spare"
  /\ \A x : GroupChain(x)[1] = "group" /\ DataChain(x)[1] = "data"
  /\ \A x : SourceChain(x)[1] = "source" /\ SourceBlock(x)[1] = "block"
  /\ \A x : NewChain(x)[1] = "new" /\ OldChain(x)[1] = "old"
  /\ \A x : GroupChain(x)[2] = x /\ DataChain(x)[2] = x
  /\ \A x : SourceChain(x)[2] = x /\ SourceBlock(x)[2] = x
  /\ \A x : NewChain(x)[2] = x /\ OldChain(x)[2] = x
  BY DEF NoOne, Free, Spare, GroupChain, DataChain, SourceChain, SourceBlock, NewChain, OldChain

LEMMA AllOwners ==
  /\ Free \in Owner /\ Spare \in Owner /\ NoOne \notin Owner
  /\ \A g \in Group : GroupChain(g) \in Owner
  /\ \A k \in Key : DataChain(k) \in Owner
  /\ \A p \in Proc : /\ SourceChain(p) \in Owner /\ SourceBlock(p) \in Owner
                     /\ NewChain(p) \in Owner /\ OldChain(p) \in Owner
  BY DEF Owner, NoOne, Free, Spare, GroupChain, DataChain, SourceChain, SourceBlock, NewChain, OldChain

\* Every chain is one of these.
LEMMA OwnerIs ==
  ASSUME NEW o \in Owner \cup {NoOne}
  PROVE  \/ o \in {NoOne, Free, Spare}
         \/ \E g \in Group : o = GroupChain(g)
         \/ \E k \in Key : o = DataChain(k)
         \/ \E p \in Proc : o \in {SourceChain(p), SourceBlock(p), NewChain(p), OldChain(p)}
  BY DEF Owner, NoOne, Free, Spare, GroupChain, DataChain, SourceChain, SourceBlock, NewChain, OldChain

LEMMA JobTypes ==
  ASSUME NEW j \in Job
  PROVE  /\ j.at \in Working => j \in WriteJob \cup DeleteJob
         /\ j.at \in {"flush", "place"} => j \in DataJob
         /\ j.at = "move" => j \in MoveJob
         /\ j.at = "freedata" => j \in [at : {"freedata"}, old : Nat \ {0}]
         /\ j.at = "idle" => j = Idle
         /\ j.at = "leave" => j = [at |-> "leave"]
         /\ j.at \in Working => j.at # "move" /\ j.at \notin {"flush", "place", "freedata", "idle", "leave"}
  BY DEF Job, WriteJob, DeleteJob, DataJob, MoveJob, Idle, Working

LEMMA WorkTypes ==
  ASSUME NEW j \in WriteJob \cup DeleteJob
  PROVE  /\ j.at \in Working /\ j.key \in Key /\ j.loc \in Loc /\ j.buff \in BlockType /\ j.old \in Nat
         /\ j.op \in {"write", "delete"}
         /\ j.op = "write" => j \in WriteJob /\ j.size \in Size /\ j.data \in Nat /\ j.rec \in Record /\ j.found \in BOOLEAN
         /\ j.op = "delete" => j \in DeleteJob /\ j.prev \in Loc
  BY DEF WriteJob, DeleteJob

LEMMA HomeIs ==
  ASSUME ParamsOK(modulus, modValue), modulus \in MinMod..MaxMod
  PROVE  \A k \in Key : Home(k) \in 1..modulus /\ Home(k) \in Group
  <1>1. \A k \in Key : HashOf[k] \in Nat
    BY DHBlocksAssumption
  <1>2. \A k \in Key : Home(k) \in 1..modulus
    BY <1>1, HashInFile DEF Home
  <1> QED BY <1>2, DHBlocksAssumption DEF Group

\* Actions: the groups that a process locks or unlocks, or has locked, with their
\* records, and the chains that it may change.
Touched(p, g) == locked[g] = p \/ locked'[g] = p
MineKey(p, k) == Touched(p, Home(k))
MineChain(p, o) ==
  \/ o \in {NoOne, Free, Spare, NewChain(p), OldChain(p), SourceChain(p), SourceBlock(p)}
  \/ \E g \in Group : o = GroupChain(g) /\ Touched(p, g)
  \/ \E k \in Key : o = DataChain(k) /\ MineKey(p, k)

\* A step of p leaves everything else alone.
Apart(p, jb2, own, len, hd, nx, ct, spot, rec, base,
      own2, len2, hd2, nx2, ct2, spot2, rec2, base2) ==
  /\ \A o \in Owner : ~MineChain(p, o) => len2[o] = len[o] /\ hd2[o] = hd[o]
  /\ \A b \in Block :
       IF MineChain(p, own[b]) THEN MineChain(p, own2[b])
       ELSE /\ own2[b] = own[b] /\ nx2[b] = nx[b] /\ ct2[<<"o", b>>] = ct[<<"o", b>>]
            /\ overflow'[b] = overflow[b]
  /\ \A g \in Group :
       IF Touched(p, g) THEN locked[g] \in {p, None} /\ locked'[g] \in {p, None}
       ELSE /\ ct2[<<"p", g>>] = ct[<<"p", g>>] /\ primary'[g] = primary[g]
            /\ locked'[g] = locked[g] /\ (g \in 1..modulus' <=> g \in 1..modulus)
  /\ \A q \in Proc \ {p} :
       /\ jb2[q] = job[q] /\ base2[q] = base[q] /\ ct2[BufferOf(q)] = ct[BufferOf(q)]
       /\ Moving(job, q) => modulus' = modulus
  /\ \A k \in Key : ~MineKey(p, k) =>
       spot2[k] = spot[k] /\ rec2[k] = rec[k] /\ store'[k] = store[k] /\ Home(k)' = Home(k)

LEMMA Frame ==
  ASSUME NEW own, NEW len, NEW hd, NEW nx, NEW ct, NEW spot, NEW rec, NEW base,
         NEW own2, NEW len2, NEW hd2, NEW nx2, NEW ct2, NEW spot2, NEW rec2, NEW base2,
         NEW jb2, NEW p \in Proc,
         Good(job, own, len, hd, nx, ct, spot, rec, base),
         Apart(p, jb2, own, len, hd, nx, ct, spot, rec, base,
               own2, len2, hd2, nx2, ct2, spot2, rec2, base2),
         Chained(own2, len2, hd2, nx2), Placed(ct2, spot2, rec2),
         FixedOK(jb2)', OneMover(jb2), SpaceOK(jb2, own2, len2, hd2)',
         \A g \in Group : Touched(p, g) /\ g \in 1..modulus' => GroupOnDisk(jb2, g, hd2, ct2)',
         \A b \in Block : MineChain(p, own2[b]) => BlockOnDisk(jb2, b, own2, nx2, ct2)',
         \A k \in Key : MineKey(p, k) =>
            HomeOK(jb2, k, own2, spot2, base2)' /\ StoreOK(jb2, k, len2, hd2, spot2, rec2)',
         JobOK(jb2, p, own2, len2, hd2, nx2, ct2, spot2, rec2, base2)'
  PROVE  Good(jb2, own2, len2, hd2, nx2, ct2, spot2, rec2, base2)'
  <1>1. /\ own \in [Block -> Owner \cup {NoOne}] /\ own2 \in [Block -> Owner \cup {NoOne}]
    BY DEF Good, Chained
  <1>2. /\ ParamsOK(modulus, modValue) /\ modulus \in MinMod..MaxMod /\ job \in [Proc -> Job]
        /\ None \notin Proc /\ MinMod \in Nat \ {0} /\ MaxMod \in Nat
    BY DHBlocksAssumption DEF Good, FixedOK
  <1>3. \A k \in Key : Home(k) \in 1..modulus /\ Home(k) \in Group
    BY <1>2, HomeIs
  <1>4. \A g \in Group : IF Touched(p, g) THEN locked[g] \in {p, None} /\ locked'[g] \in {p, None}
       ELSE /\ ct2[<<"p", g>>] = ct[<<"p", g>>] /\ primary'[g] = primary[g]
            /\ locked'[g] = locked[g] /\ (g \in 1..modulus' <=> g \in 1..modulus)
    BY DEF Apart
  <1>5. \A b \in Block :
       IF MineChain(p, own[b]) THEN MineChain(p, own2[b])
       ELSE /\ own2[b] = own[b] /\ nx2[b] = nx[b] /\ ct2[<<"o", b>>] = ct[<<"o", b>>]
            /\ overflow'[b] = overflow[b]
    BY DEF Apart
  <1>6. \A o \in Owner : ~MineChain(p, o) => len2[o] = len[o] /\ hd2[o] = hd[o]
    BY DEF Apart
  <1>7. \A k \in Key : ~MineKey(p, k) =>
       spot2[k] = spot[k] /\ rec2[k] = rec[k] /\ store'[k] = store[k] /\ Home(k)' = Home(k)
    BY DEF Apart
  <1>8. \A q \in Proc : q # p =>
       /\ jb2[q] = job[q] /\ base2[q] = base[q] /\ ct2[BufferOf(q)] = ct[BufferOf(q)]
       /\ Moving(job, q) => modulus' = modulus
    BY DEF Apart
  <1>9. \A q \in Proc : JobOK(job, q, own, len, hd, nx, ct, spot, rec, base)
    BY DEF Good
  <1>10. \A q \in Proc, g \in Group : q # p /\ locked[g] = q => ~Touched(p, g)
    BY <1>2, <1>4
  <1>11. \A g \in Group : ~Touched(p, g) => ~MineChain(p, GroupChain(g))
    BY Kinds DEF MineChain
  <1>12. \A k \in Key : ~MineKey(p, k) => ~MineChain(p, DataChain(k))
    BY Kinds DEF MineChain
  <1>13. \A q \in Proc : q # p => /\ ~MineChain(p, NewChain(q)) /\ ~MineChain(p, OldChain(q))
                                 /\ ~MineChain(p, SourceChain(q)) /\ ~MineChain(p, SourceBlock(q))
    BY Kinds DEF MineChain
  \* What is in a group that another process, or nobody, has locked.
  <1>14. ASSUME NEW g \in Group, ~Touched(p, g), NEW l, InGroup(own, l, g)
         PROVE  /\ InGroup(own2, l, g) /\ ct2[l] = ct[l] /\ NextOf(hd2, nx2, l) = NextOf(hd, nx, l)
                /\ BlockAt(l)' = BlockAt(l)
    <2>1. CASE l = <<"p", g>>
      <3>1. l[1] = "p" /\ l[2] = g /\ hd2[GroupChain(g)] = hd[GroupChain(g)]
        BY <1>6, <1>11, <1>14, <2>1, AllOwners
      <3> QED BY <1>4, <1>14, <2>1, <3>1 DEF InGroup, NextOf, BlockAt
    <2>2. CASE l[1] = "o" /\ l = <<"o", l[2]>> /\ l[2] \in Block /\ own[l[2]] = GroupChain(g)
      <3>1. PICK b \in Block : b = l[2]
        BY <2>2
      <3>2. ~MineChain(p, own[b])
        BY <1>11, <1>14, <2>2, <3>1
      <3>3. /\ own2[b] = own[b] /\ nx2[b] = nx[b] /\ ct2[<<"o", b>>] = ct[<<"o", b>>]
            /\ overflow'[b] = overflow[b]
        BY <1>5, <3>2
      <3>4. InGroup(own2, l, g)
        BY <2>2, <3>1, <3>3 DEF InGroup
      <3>5. NextOf(hd2, nx2, l) = NextOf(hd, nx, l)
        BY <2>2, <3>1, <3>3 DEF NextOf
      <3>6. BlockAt(l)' = BlockAt(l)
        BY <2>2, <3>1, <3>3 DEF BlockAt
      <3> QED BY <2>2, <3>1, <3>3, <3>4, <3>5, <3>6
    <2> QED BY <1>14, <2>1, <2>2 DEF InGroup
  \* What others work on.
  <1>15. ASSUME NEW q \in Proc, q # p, job[q].at \in Working
         PROVE  \E k \in Key : /\ k = job[q].key /\ locked[Home(k)] = q /\ ~MineKey(p, k)
                               /\ Home(k)' = Home(k) /\ Home(k) \in Group
    <2>1. job[q] \in Job
      BY <1>2
    <2>2. PICK k \in Key : k = job[q].key
      BY <1>15, <2>1, JobTypes, WorkTypes
    <2>3. locked[Home(k)] = q
      BY <1>3, <1>9, <1>15, <2>2 DEF JobOK, LocksOK
    <2> QED BY <1>3, <1>7, <1>10, <1>15, <2>2, <2>3 DEF MineKey
  <1>16. ASSUME NEW q \in Proc, q # p, Moving(job, q)
         PROVE  /\ base[q] \in Group /\ job[q].new \in Group /\ base[q] \in 1..modulus
                /\ ~Touched(p, base[q]) /\ ~Touched(p, job[q].new)
    <2>1. job[q] \in MoveJob
      BY <1>2, <1>16, JobTypes DEF Moving
    <2>2. job[q].new \in Group
      BY <2>1 DEF MoveJob
    <2>3. base[q] \in 1..modulus
      BY <1>9, <1>16 DEF JobOK, MoveOK
    <2>4. base[q] \in Group
      BY <1>2, <2>3 DEF Group
    <2>5. locked[base[q]] = q /\ locked[job[q].new] = q
      BY <1>9, <1>16, <2>2, <2>4 DEF JobOK, LocksOK
    <2> QED BY <1>10, <1>16, <2>2, <2>3, <2>4, <2>5
  <1>17. ASSUME NEW q \in Proc, q # p
         PROVE  JobOK(jb2, q, own2, len2, hd2, nx2, ct2, spot2, rec2, base2)'
    <2>0. /\ jb2[q] = job[q] /\ base2[q] = base[q] /\ ct2[BufferOf(q)] = ct[BufferOf(q)]
          /\ Moving(jb2, q) <=> Moving(job, q)
      BY <1>8, <1>17 DEF Moving
    <2>1. LocksOK(jb2, q, base2)'
      <3>1. SUFFICES ASSUME NEW g \in Group
                     PROVE  locked'[g] = q <=> \/ jb2[q].at \in Working /\ g = Home(jb2[q].key)'
                                               \/ Moving(jb2, q) /\ g \in {base2[q], jb2[q].new}
        BY DEF LocksOK
      <3>2. locked'[g] = q <=> locked[g] = q
        BY <1>2, <1>4, <1>17
      <3>3. locked[g] = q <=> \/ job[q].at \in Working /\ g = Home(job[q].key)
                              \/ Moving(job, q) /\ g \in {base[q], job[q].new}
        BY <1>9 DEF JobOK, LocksOK
      <3>4. CASE job[q].at \in Working
        <4>1. PICK k \in Key : k = job[q].key /\ Home(k)' = Home(k)
          BY <1>15, <1>17, <3>4
        <4>2. k = jb2[q].key
          BY <2>0, <4>1
        <4>3. Home(jb2[q].key)' = Home(job[q].key)
          BY <4>1, <4>2
        <4> QED BY <2>0, <3>2, <3>3, <4>3
      <3>5. CASE job[q].at \notin Working
        BY <2>0, <3>2, <3>3, <3>5
      <3> QED BY <3>4, <3>5
    <2>2. NewOK(jb2, q, len2, hd2)' /\ OldOK(jb2, q, len2, hd2)'
      <3>1. /\ len2[NewChain(q)] = len[NewChain(q)] /\ hd2[NewChain(q)] = hd[NewChain(q)]
            /\ len2[OldChain(q)] = len[OldChain(q)] /\ hd2[OldChain(q)] = hd[OldChain(q)]
        BY <1>6, <1>13, <1>17, AllOwners
      <3>2. NewOK(job, q, len, hd) /\ OldOK(job, q, len, hd)
        BY <1>9 DEF JobOK
      <3> QED BY <2>0, <3>1, <3>2 DEF NewOK, OldOK
    <2>3. WorkOK(jb2, q, own2, len2, hd2, nx2, ct2, spot2, rec2)'
      <3>1. SUFFICES ASSUME job[q].at \in Working
                     PROVE  WorkOK(jb2, q, own2, len2, hd2, nx2, ct2, spot2, rec2)'
        BY <2>0 DEF WorkOK
      <3>2. WorkOK(job, q, own, len, hd, nx, ct, spot, rec)
        BY <1>9 DEF JobOK
      <3>3. PICK j : j = job[q] /\ j = jb2[q]
        BY <2>0
      <3>4. PICK g \in Group : g = Home(j.key) /\ g = Home(j.key)' /\ ~Touched(p, g)
        <4>1. PICK k \in Key : k = job[q].key /\ ~MineKey(p, k) /\ Home(k)' = Home(k) /\ Home(k) \in Group
          BY <1>15, <1>17, <3>1
        <4>2. k = j.key
          BY <3>3, <4>1
        <4> QED BY <4>1, <4>2 DEF MineKey
      <3>5. /\ j.key \in Key /\ spot2[j.key] = spot[j.key] /\ rec2[j.key] = rec[j.key]
            /\ store'[j.key] = store[j.key] /\ len2[DataChain(j.key)] = len[DataChain(j.key)]
        <4>1. PICK k \in Key : k = job[q].key /\ ~MineKey(p, k)
          BY <1>15, <1>17, <3>1
        <4>2. k = j.key
          BY <3>3, <4>1
        <4>3. len2[DataChain(k)] = len[DataChain(k)]
          BY <1>6, <1>12, <4>1, AllOwners
        <4> QED BY <1>7, <4>1, <4>2, <4>3
      <3>6. InGroup(own, j.loc, g)
        BY <3>1, <3>2, <3>3, <3>4 DEF WorkOK
      <3>7. /\ InGroup(own2, j.loc, g) /\ ct2[j.loc] = ct[j.loc]
            /\ NextOf(hd2, nx2, j.loc) = NextOf(hd, nx, j.loc) /\ BlockAt(j.loc)' = BlockAt(j.loc)
        BY <1>14, <3>4, <3>6
      <3>8. j.at = "unchain" => InGroup(own, j.prev, g)
        BY <3>1, <3>2, <3>3, <3>4 DEF WorkOK
      <3>9. j.at = "unchain" => InGroup(own2, j.prev, g) /\ NextOf(hd2, nx2, j.prev) = NextOf(hd, nx, j.prev)
        BY <1>14, <3>4, <3>8
      <3> QED BY <3>1, <3>2, <3>3, <3>4, <3>5, <3>7, <3>9 DEF WorkOK
    <2>4. MoveOK(jb2, q, own2, len2, hd2, nx2, ct2, base2)'
      <3>1. MoveOK(job, q, own, len, hd, nx, ct, base)
        BY <1>9 DEF JobOK
      <3>2. /\ len2[SourceChain(q)] = len[SourceChain(q)] /\ hd2[SourceChain(q)] = hd[SourceChain(q)]
            /\ len2[SourceBlock(q)] = len[SourceBlock(q)] /\ hd2[SourceBlock(q)] = hd[SourceBlock(q)]
        BY <1>6, <1>13, <1>17, AllOwners
      <3>3. CASE ~Moving(job, q)
        BY <2>0, <3>1, <3>2, <3>3 DEF MoveOK
      <3>4. CASE Moving(job, q)
        <4>1. PICK j : j = job[q] /\ j = jb2[q]
          BY <2>0
        <4>2. modulus' = modulus
          BY <1>8, <1>17, <3>4
        <4>3. ASSUME NEW i \in 1..Len(j.tgt)
              PROVE  /\ InGroup(own2, j.tgt[i].loc, IF i = 1 THEN base2[q] ELSE j.new)
                     /\ j.tgt[i].buff = GroupBlock(ct2[j.tgt[i].loc], 0)
                     /\ NextOf(hd2, nx2, j.tgt[i].loc) = 0
          <5>1. PICK g \in Group : g = (IF i = 1 THEN base[q] ELSE j.new) /\ ~Touched(p, g)
            BY <1>16, <1>17, <3>4, <4>1
          <5>2. /\ InGroup(own, j.tgt[i].loc, g)
                /\ j.tgt[i].buff = GroupBlock(ct[j.tgt[i].loc], 0)
                /\ NextOf(hd, nx, j.tgt[i].loc) = 0
            BY <3>1, <3>4, <4>1, <5>1 DEF MoveOK
          <5> QED BY <1>14, <2>0, <5>1, <5>2
        <4> QED BY <2>0, <3>1, <3>2, <3>4, <4>1, <4>2, <4>3 DEF MoveOK
      <3> QED BY <3>3, <3>4
    <2> QED BY <2>1, <2>2, <2>3, <2>4 DEF JobOK
  <1>18. \A q \in Proc : JobOK(jb2, q, own2, len2, hd2, nx2, ct2, spot2, rec2, base2)'
    BY <1>17
  \* What is held in buffers is in locked groups.
  <1>19. ASSUME NEW l, l \in Held(job[p]) PROVE \E g \in Group : locked[g] = p /\ InGroup(own, l, g)
    <2>1. CASE job[p].at \in Working
      <3>1. l = job[p].loc
        BY <1>19, <2>1 DEF Held
      <3>2. job[p].key \in Key
        BY <1>2, <2>1, JobTypes, WorkTypes
      <3>3. InGroup(own, job[p].loc, Home(job[p].key))
        BY <1>9, <2>1 DEF JobOK, WorkOK
      <3>4. locked[Home(job[p].key)] = p
        BY <1>3, <1>9, <2>1, <3>2 DEF JobOK, LocksOK
      <3> QED BY <1>3, <3>1, <3>2, <3>3, <3>4
    <2>2. CASE job[p].at \notin Working
      <3>1. Moving(job, p)
        BY <1>19, <2>2 DEF Held, Moving
      <3>2. job[p] \in MoveJob
        BY <1>2, <3>1, JobTypes DEF Moving
      <3>3. job[p].new \in Group /\ base[p] \in Group
        <4>1. base[p] \in 1..modulus
          BY <1>9, <3>1 DEF JobOK, MoveOK
        <4> QED BY <1>2, <3>2, <4>1 DEF MoveJob, Group
      <3>4. locked[base[p]] = p /\ locked[job[p].new] = p
        BY <1>9, <3>1, <3>3 DEF JobOK, LocksOK
      <3>5. CASE l = <<"p", job[p].new>>
        BY <3>3, <3>4, <3>5 DEF InGroup
      <3>6. CASE l # <<"p", job[p].new>>
        <4>1. PICK i \in 1..Len(job[p].tgt) : l = job[p].tgt[i].loc
          BY <1>19, <2>2, <3>1, <3>6 DEF Held
        <4>2. InGroup(own, l, IF i = 1 THEN base[p] ELSE job[p].new)
          BY <1>9, <3>1, <4>1 DEF JobOK, MoveOK
        <4> QED BY <3>3, <3>4, <4>2
      <3> QED BY <3>5, <3>6
    <2> QED BY <2>1, <2>2
  <1>20. ASSUME NEW g \in Group, ~Touched(p, g), Written(jb2, <<"p", g>>) PROVE Written(job, <<"p", g>>)
    <2>1. <<"p", g>> \notin Held(job[p])
      <3>1. SUFFICES ASSUME NEW h \in Group, locked[h] = p, InGroup(own, <<"p", g>>, h) PROVE FALSE
        BY <1>19
      <3>2. g = h
        BY <3>1 DEF InGroup
      <3> QED BY <1>20, <3>1, <3>2 DEF Touched
    <2>2. \A q \in Proc : q # p => Held(jb2[q]) = Held(job[q])
      BY <1>8
    <2> QED BY <1>20, <2>1, <2>2 DEF Written
  <1>21. ASSUME NEW b \in Block, ~MineChain(p, own[b]), Written(jb2, <<"o", b>>) PROVE Written(job, <<"o", b>>)
    <2>1. <<"o", b>> \notin Held(job[p])
      <3>1. SUFFICES ASSUME NEW h \in Group, locked[h] = p, InGroup(own, <<"o", b>>, h) PROVE FALSE
        BY <1>19
      <3>2. own[b] = GroupChain(h)
        BY <3>1 DEF InGroup
      <3> QED BY <1>21, <3>1, <3>2 DEF MineChain, Touched
    <2>2. \A q \in Proc : q # p => Held(jb2[q]) = Held(job[q])
      BY <1>8
    <2> QED BY <1>21, <2>1, <2>2 DEF Written
  <1>22. ASSUME NEW g \in 1..modulus' PROVE GroupOnDisk(jb2, g, hd2, ct2)'
    <2>1. g \in Group
      BY <1>2, DHBlocksAssumption DEF FixedOK, Group
    <2>2. CASE Touched(p, g)
      BY <2>1, <2>2
    <2>3. CASE ~Touched(p, g)
      <3>1. /\ ct2[<<"p", g>>] = ct[<<"p", g>>] /\ primary'[g] = primary[g] /\ g \in 1..modulus
        BY <1>4, <1>22, <2>1, <2>3
      <3>2. hd2[GroupChain(g)] = hd[GroupChain(g)]
        BY <1>6, <1>11, <2>1, <2>3, AllOwners
      <3>3. GroupOnDisk(job, g, hd, ct)
        BY <3>1 DEF Good
      <3> QED BY <1>20, <2>1, <2>3, <3>1, <3>2, <3>3 DEF GroupOnDisk, Written
    <2> QED BY <2>2, <2>3
  <1>23. ASSUME NEW b \in Block PROVE BlockOnDisk(jb2, b, own2, nx2, ct2)'
    <2>1. CASE MineChain(p, own2[b])
      BY <2>1
    <2>2. CASE ~MineChain(p, own2[b])
      <3>1. /\ own2[b] = own[b] /\ nx2[b] = nx[b] /\ ct2[<<"o", b>>] = ct[<<"o", b>>]
            /\ overflow'[b] = overflow[b] /\ ~MineChain(p, own[b])
        BY <1>5, <2>2
      <3>2. BlockOnDisk(job, b, own, nx, ct)
        BY DEF Good
      <3>3. \A q \in Proc : own2[b] = NewChain(q) => jb2[q] = job[q]
        BY <1>8, <2>2 DEF MineChain
      <3>4. Written(jb2, <<"o", b>>)' => Written(job, <<"o", b>>)
        BY <1>21, <3>1 DEF Written
      <3> QED BY <3>1, <3>2, <3>3, <3>4 DEF BlockOnDisk
    <2> QED BY <2>1, <2>2
  <1>24. ASSUME NEW k \in Key PROVE HomeOK(jb2, k, own2, spot2, base2)'
    <2>1. CASE MineKey(p, k)
      BY <2>1
    <2>2. CASE ~MineKey(p, k)
      <3>1. spot2[k] = spot[k] /\ Home(k)' = Home(k)
        BY <1>7, <2>2
      <3>2. PICK g \in Group : g = Home(k) /\ g = Home(k)' /\ ~Touched(p, g)
        BY <1>3, <2>2, <3>1 DEF MineKey
      <3>3. HomeOK(job, k, own, spot, base)
        BY DEF Good
      <3>4. CASE InGroup(own, spot[k], g)
        BY <1>14, <3>1, <3>2, <3>4 DEF HomeOK
      <3>5. CASE spot[k] # Nowhere /\ ~InGroup(own, spot[k], g)
        <4>1. PICK q \in Proc : /\ Moving(job, q) /\ g \in Goals(job, q, base)
                                /\ \/ spot[k] = BufferOf(q)
                                   \/ \E b \in Block : spot[k] = <<"o", b>> /\ own[b] = SourceChain(q)
          BY <3>2, <3>3, <3>5 DEF HomeOK
        <4>2. locked[g] = q
          <5>1. g \in {base[q], job[q].new}
            BY <4>1 DEF Goals
          <5> QED BY <1>9, <4>1, <5>1 DEF JobOK, LocksOK
        <4>3. q # p
          BY <3>2, <4>2 DEF Touched
        <4>4. jb2[q] = job[q] /\ base2[q] = base[q]
          BY <1>8, <4>3
        <4>5. \A b \in Block : own[b] = SourceChain(q) => own2[b] = SourceChain(q)
          BY <1>5, <1>13, <4>3
        <4>6. Moving(jb2, q) /\ g \in Goals(jb2, q, base2)
          BY <4>1, <4>4 DEF Moving, Goals
        <4>7. spot2[k] = BufferOf(q) \/ \E b \in Block : spot2[k] = <<"o", b>> /\ own2[b] = SourceChain(q)
          BY <3>1, <4>1, <4>5
        <4>8. (Moving(jb2, q) /\ g \in Goals(jb2, q, base2))'
          BY <4>6 DEF Moving, Goals
        <4> QED BY <3>2, <4>7, <4>8 DEF HomeOK
      <3>6. CASE spot[k] = Nowhere
        BY <3>1, <3>6 DEF HomeOK
      <3> QED BY <3>4, <3>5, <3>6
    <2> QED BY <2>1, <2>2
  <1>25. ASSUME NEW k \in Key PROVE StoreOK(jb2, k, len2, hd2, spot2, rec2)'
    <2>1. CASE MineKey(p, k)
      BY <2>1
    <2>2. CASE ~MineKey(p, k)
      <3>1. spot2[k] = spot[k] /\ Home(k)' = Home(k) /\ rec2[k] = rec[k] /\ store'[k] = store[k]
        BY <1>7, <2>2
      <3>2. len2[DataChain(k)] = len[DataChain(k)] /\ hd2[DataChain(k)] = hd[DataChain(k)]
        BY <1>6, <1>12, <2>2, AllOwners
      <3>3. StoreOK(job, k, len, hd, spot, rec)
        BY DEF Good
      <3>4. ~Busy(jb2, k) => ~Busy(job, k)
        <4>1. SUFFICES ASSUME NEW q \in Proc, job[q].at \in Working, job[q].key = k PROVE Busy(jb2, k)
          BY DEF Busy
        <4>2. locked[Home(k)] = q
          BY <1>3, <1>9, <4>1 DEF JobOK, LocksOK
        <4>3. q # p
          BY <2>2, <4>2 DEF MineKey, Touched
        <4> QED BY <1>8, <4>1, <4>3 DEF Busy
      <3> QED BY <3>1, <3>2, <3>3, <3>4 DEF StoreOK, Busy
    <2> QED BY <2>1, <2>2
  <1> QED BY <1>18, <1>22, <1>23, <1>24, <1>25 DEF Good

-----------------------------------------------------------------------------
(* Going on with a buffer                                                   *)

\* A process about to go on with buffer b.
Ready(j, b) == [j EXCEPT !.at = "ready", !.buff = b]
WentOn(j, b, r, o) ==
  /\ r \in WriteJob \cup DeleteJob /\ o \in WriteJob \cup DeleteJob
  /\ r.at = "ready" /\ r.buff = b
  /\ \A x \in {r, o} :
       /\ x.op = j.op /\ x.key = j.key /\ x.loc = j.loc /\ x.old = j.old
       /\ j.op = "write" => x.size = j.size /\ x.data = j.data /\ x.rec = j.rec /\ x.found = j.found
  /\ \/ b.next # 0 /\ o.at = "compact" /\ o.buff = b
     \/ b.next = 0 /\ j.op = "delete" /\ o.at = "last" /\ o.buff = b
     \/ b.next = 0 /\ j.op = "write" /\ o.at = "add" /\ o.buff = b
     \/ /\ b.next = 0 /\ j.op = "write" /\ o.at = "last"
        /\ o.buff = GroupBlock(Append(b.recs, j.rec), 0)

\* What Onward makes of a job.
LEMMA OnwardIs ==
  ASSUME NEW j \in WriteJob \cup DeleteJob, NEW b \in BlockType
  PROVE  WentOn(j, b, Ready(j, b), Onward(j, b))
  <1>1. CASE j \in WriteJob
    <2>1. j.op = "write" /\ j.rec \in Record /\ j.buff \in BlockType
      BY <1>1 DEF WriteJob
    <2>2. b.recs \in Seq(Record)
      BY DEF BlockType
    <2>3. PICK r : r = Ready(j, b)
      OBVIOUS
    <2>4. PICK o : o = Onward(j, b)
      OBVIOUS
    <2>5. /\ r \in WriteJob /\ r.at = "ready" /\ r.buff = b
          /\ r.op = j.op /\ r.key = j.key /\ r.loc = j.loc /\ r.old = j.old
          /\ r.size = j.size /\ r.data = j.data /\ r.rec = j.rec /\ r.found = j.found
      BY <1>1, <2>3 DEF WriteJob, Working, Ready
    <2>6. PICK s \in Seq(Record) : s = Append(b.recs, j.rec)
      <3>1. PICK x \in Seq(Record) : x = b.recs
        BY <2>2
      <3>2. PICK y \in Record : y = j.rec
        BY <2>1
      <3> HIDE <2>1, <2>2
      <3>3. Append(x, y) \in Seq(Record)
        BY <3>1, <3>2, AppendProperties
      <3> QED BY <3>1, <3>2, <3>3
    <2>7. CASE b.next # 0
      <3>1. o = [j EXCEPT !.at = "compact", !.buff = b]
        BY <2>4, <2>7 DEF Onward
      <3>2. /\ o \in WriteJob /\ o.at = "compact" /\ o.buff = b
            /\ o.op = j.op /\ o.key = j.key /\ o.loc = j.loc /\ o.old = j.old
            /\ o.size = j.size /\ o.data = j.data /\ o.rec = j.rec /\ o.found = j.found
        BY <1>1, <3>1 DEF WriteJob, Working
      <3> QED BY <2>3, <2>4, <2>5, <2>7, <3>2 DEF WentOn
    <2>8. CASE b.next = 0 /\ Fits(j.rec, b)
      <3>1. o = [j EXCEPT !.at = "last", !.buff.recs = Append(b.recs, j.rec), !.buff.next = 0]
        BY <2>1, <2>4, <2>8 DEF Onward
      <3>2. PICK c : c = [[j.buff EXCEPT !.recs = s] EXCEPT !.next = 0]
        OBVIOUS
      <3>3. c = GroupBlock(s, 0) /\ c \in BlockType
        BY <2>1, <2>6, <3>2 DEF BlockType, GroupBlock
      <3>4. o = [j EXCEPT !.at = "last", !.buff = c]
        BY <1>1, <2>6, <3>1, <3>2 DEF WriteJob
      <3>5. /\ o \in WriteJob /\ o.at = "last" /\ o.buff = c
            /\ o.op = j.op /\ o.key = j.key /\ o.loc = j.loc /\ o.old = j.old
            /\ o.size = j.size /\ o.data = j.data /\ o.rec = j.rec /\ o.found = j.found
        BY <1>1, <3>3, <3>4 DEF WriteJob, Working
      <3> QED BY <2>1, <2>3, <2>4, <2>5, <2>6, <2>8, <3>3, <3>5 DEF WentOn
    <2>9. CASE b.next = 0 /\ ~Fits(j.rec, b)
      <3>1. o = [j EXCEPT !.at = "add", !.buff = b]
        BY <2>1, <2>4, <2>9 DEF Onward
      <3>2. /\ o \in WriteJob /\ o.at = "add" /\ o.buff = b
            /\ o.op = j.op /\ o.key = j.key /\ o.loc = j.loc /\ o.old = j.old
            /\ o.size = j.size /\ o.data = j.data /\ o.rec = j.rec /\ o.found = j.found
        BY <1>1, <3>1 DEF WriteJob, Working
      <3> QED BY <2>1, <2>3, <2>4, <2>5, <2>9, <3>2 DEF WentOn
    <2> QED BY <2>7, <2>8, <2>9
  <1>2. CASE j \in DeleteJob
    <2>1. j.op = "delete"
      BY <1>2 DEF DeleteJob
    <2>3. PICK r : r = Ready(j, b)
      OBVIOUS
    <2>4. PICK o : o = Onward(j, b)
      OBVIOUS
    <2>5. /\ r \in DeleteJob /\ r.at = "ready" /\ r.buff = b
          /\ r.op = j.op /\ r.key = j.key /\ r.loc = j.loc /\ r.old = j.old
      BY <1>2, <2>3 DEF DeleteJob, Working, Ready
    <2>6. CASE b.next # 0
      <3>1. o = [j EXCEPT !.at = "compact", !.buff = b]
        BY <2>4, <2>6 DEF Onward
      <3>2. /\ o \in DeleteJob /\ o.at = "compact" /\ o.buff = b
            /\ o.op = j.op /\ o.key = j.key /\ o.loc = j.loc /\ o.old = j.old
        BY <1>2, <3>1 DEF DeleteJob, Working
      <3> QED BY <2>1, <2>3, <2>4, <2>5, <2>6, <3>2 DEF WentOn
    <2>7. CASE b.next = 0
      <3>1. o = [j EXCEPT !.at = "last", !.buff = b]
        BY <2>1, <2>4, <2>7 DEF Onward
      <3>2. /\ o \in DeleteJob /\ o.at = "last" /\ o.buff = b
            /\ o.op = j.op /\ o.key = j.key /\ o.loc = j.loc /\ o.old = j.old
        BY <1>2, <3>1 DEF DeleteJob, Working
      <3> QED BY <2>1, <2>3, <2>4, <2>5, <2>7, <3>2 DEF WentOn
    <2> QED BY <2>6, <2>7
  <1> QED BY <1>1, <1>2

LEMMA InOneGroup ==
  ASSUME NEW own, NEW l, NEW g, NEW h, InGroup(own, l, g), InGroup(own, l, h)
  PROVE  g = h
  BY Kinds DEF InGroup

\* The jobs when that of p changes to o.
Becomes(jb1, jb2, p, o) == jb1 \in [Proc -> Job] /\ o \in Job /\ jb2 = [jb1 EXCEPT ![p] = o]

\* Jobs that hold the same buffers.
LEMMA AlikeJobs ==
  ASSUME NEW jb1, NEW jb2, NEW p \in Proc, NEW o, Becomes(jb1, jb2, p, o),
         jb1[p].at \in Working, o.at \in Working, o.key = jb1[p].key, o.loc = jb1[p].loc
  PROVE  /\ jb2 \in [Proc -> Job] /\ jb2[p] = o /\ \A q \in Proc : q # p => jb2[q] = jb1[q]
         /\ \A l : Written(jb2, l) <=> Written(jb1, l)
         /\ \A q \in Proc : 
              /\ (Moving(jb2, q) <=> Moving(jb1, q))
              /\ (jb2[q].at = "flush" <=> jb1[q].at = "flush")
              /\ (jb2[q].at \in Working <=> jb1[q].at \in Working)
              /\ Moving(jb2, q) => jb2[q] = jb1[q]
              /\ jb2[q].at \in Working => jb2[q].key = jb1[q].key
         /\ \A k : Busy(jb2, k) <=> Busy(jb1, k)
         /\ OneMover(jb1) => OneMover(jb2)
  <1>1. jb2 \in [Proc -> Job] /\ jb2[p] = o /\ \A q \in Proc : q # p => jb2[q] = jb1[q]
    BY DEF Becomes
  <1>2. \A q \in Proc : Held(jb2[q]) = Held(jb1[q])
    <2>1. Held(jb2[p]) = Held(jb1[p])
      BY <1>1 DEF Held
    <2> QED BY <1>1, <2>1
  <1>3. \A l : Written(jb2, l) <=> Written(jb1, l)
    BY <1>2 DEF Written
  <1>4. \A q \in Proc : 
       /\ (Moving(jb2, q) <=> Moving(jb1, q))
       /\ (jb2[q].at = "flush" <=> jb1[q].at = "flush")
       /\ (jb2[q].at \in Working <=> jb1[q].at \in Working)
       /\ Moving(jb2, q) => jb2[q] = jb1[q]
       /\ jb2[q].at \in Working => jb2[q].key = jb1[q].key
    <2>1. ~Moving(jb2, p) /\ ~Moving(jb1, p) /\ jb2[p].at # "flush" /\ jb1[p].at # "flush"
      BY <1>1 DEF Moving, Working
    <2> QED BY <1>1, <2>1 DEF Moving
  <1>5. \A k : Busy(jb2, k) <=> Busy(jb1, k)
    BY <1>4 DEF Busy
  <1>6. OneMover(jb1) => OneMover(jb2)
    BY <1>4 DEF OneMover
  <1> QED BY <1>1, <1>3, <1>4, <1>5, <1>6

\* A process goes on without a change to its group.
LEMMA GoOnSame ==
  ASSUME NEW own, NEW len, NEW hd, NEW nx, NEW ct, NEW spot, NEW rec, NEW base,
         NEW jb1, NEW jb2, NEW p \in Proc, NEW o, Becomes(jb1, jb2, p, o), o \in WriteJob \cup DeleteJob,
         Good(jb1, own, len, hd, nx, ct, spot, rec, base)',
         NEW r, r = jb1[p], r \in WriteJob \cup DeleteJob, r.at = "ready",
         o.op = r.op, o.key = r.key, o.loc = r.loc, o.old = r.old, o.buff = r.buff,
         r.op = "write" => o.size = r.size /\ o.data = r.data /\ o.rec = r.rec /\ o.found = r.found,
         \/ r.buff.next # 0 /\ o.at = "compact"
         \/ r.buff.next = 0 /\ r.op = "delete" /\ o.at = "last"
         \/ r.buff.next = 0 /\ r.op = "write" /\ o.at = "add"
  PROVE  Good(jb2, own, len, hd, nx, ct, spot, rec, base)'
  <1>1. jb1 \in [Proc -> Job] /\ o \in Job /\ OneMover(jb1)
    BY DEF Good, FixedOK, Job
  <1>2. /\ r.at \in Working /\ o.at \in Working /\ r.op \in {"write", "delete"}
        /\ jb1[p].at \in Working /\ o.key = jb1[p].key /\ o.loc = jb1[p].loc
    BY WorkTypes DEF Working
  <1>3. /\ jb2 \in [Proc -> Job] /\ jb2[p] = o /\ \A q \in Proc : q # p => jb2[q] = jb1[q]
        /\ \A l : Written(jb2, l) <=> Written(jb1, l)
        /\ \A q \in Proc : 
             /\ (Moving(jb2, q) <=> Moving(jb1, q))
             /\ (jb2[q].at = "flush" <=> jb1[q].at = "flush")
             /\ (jb2[q].at \in Working <=> jb1[q].at \in Working)
             /\ Moving(jb2, q) => jb2[q] = jb1[q]
             /\ jb2[q].at \in Working => jb2[q].key = jb1[q].key
        /\ \A k : Busy(jb2, k) <=> Busy(jb1, k)
        /\ OneMover(jb1) => OneMover(jb2)
    <2>1. Becomes(jb1, jb2, p, o)
      OBVIOUS
    <2>2. p \in Proc /\ jb1[p].at \in Working /\ o.at \in Working /\ o.key = jb1[p].key /\ o.loc = jb1[p].loc
      BY <1>2
    <2> HIDE DEF Becomes
    <2> QED BY ONLY <2>1, <2>2, AlikeJobs
  <1>4. FixedOK(jb2)' /\ OneMover(jb2)
    BY <1>1, <1>3 DEF Good, FixedOK
  <1>5. SpaceOK(jb2, own, len, hd)'
    <2>1. HeaderOK(jb2, own)'
      BY <1>3 DEF Good, SpaceOK, HeaderOK
    <2> QED BY <1>3, <2>1 DEF Good, SpaceOK
  <1>6. \A g \in 1..modulus' : GroupOnDisk(jb2, g, hd, ct)'
    BY <1>3 DEF Good, GroupOnDisk, Written
  <1>7. \A b \in Block : BlockOnDisk(jb2, b, own, nx, ct)'
    <2>1. SUFFICES ASSUME NEW b \in Block PROVE BlockOnDisk(jb2, b, own, nx, ct)'
      OBVIOUS
    <2>2. BlockOnDisk(jb1, b, own, nx, ct)'
      BY DEF Good
    <2>3. \A q \in Proc : own[b] = NewChain(q) => overflow'[b] = DataBlock(jb2[q].key, nx[b])
      BY <1>3, <2>2 DEF BlockOnDisk
    <2> QED BY <1>3, <2>2, <2>3 DEF BlockOnDisk, Written
  <1>8. \A k \in Key : HomeOK(jb2, k, own, spot, base)' /\ StoreOK(jb2, k, len, hd, spot, rec)'
    <2>1. SUFFICES ASSUME NEW k \in Key
                   PROVE  HomeOK(jb2, k, own, spot, base)' /\ StoreOK(jb2, k, len, hd, spot, rec)'
      OBVIOUS
    <2>2. HomeOK(jb1, k, own, spot, base)' /\ StoreOK(jb1, k, len, hd, spot, rec)'
      BY DEF Good
    <2>3. \A q \in Proc : Moving(jb1, q) => Goals(jb2, q, base) = Goals(jb1, q, base)
      BY <1>3 DEF Goals
    <2>4. HomeOK(jb2, k, own, spot, base)'
      BY <1>3, <2>2, <2>3 DEF HomeOK, Moving, Goals
    <2> QED BY <1>3, <2>2, <2>4 DEF StoreOK, Busy
  <1>9. ASSUME NEW q \in Proc PROVE JobOK(jb2, q, own, len, hd, nx, ct, spot, rec, base)'
    <2>1. JobOK(jb1, q, own, len, hd, nx, ct, spot, rec, base)'
      BY DEF Good
    <2>2. CASE q # p
      <3>1. jb2[q] = jb1[q]
        BY <1>3, <2>2
      <3> QED BY <2>1, <3>1 DEF JobOK, LocksOK, NewOK, OldOK, WorkOK, MoveOK, Moving
    <2>3. CASE q = p
      <3>1. jb2[q] = o /\ jb1[q] = r
        BY <1>3, <2>3
      <3>2. LocksOK(jb2, q, base)'
        BY <1>2, <1>3, <2>1, <3>1 DEF JobOK, LocksOK
      <3>3. NewOK(jb2, q, len, hd)' /\ OldOK(jb2, q, len, hd)'
        BY <1>2, <2>1, <3>1 DEF JobOK, NewOK, OldOK
      <3>4. WorkOK(jb2, q, own, len, hd, nx, ct, spot, rec)'
        BY <1>2, <2>1, <3>1 DEF JobOK, WorkOK
      <3>5. MoveOK(jb2, q, own, len, hd, nx, ct, base)'
        BY <1>2, <1>3, <2>1, <3>1 DEF JobOK, MoveOK, Working, Moving
      <3> QED BY <3>2, <3>3, <3>4, <3>5 DEF JobOK
    <2> QED BY <2>2, <2>3
  <1> QED BY <1>4, <1>5, <1>6, <1>7, <1>8, <1>9 DEF Good

LEMMA HomeIsNext ==
  ASSUME ParamsOK(modulus, modValue)', modulus' \in MinMod..MaxMod
  PROVE  \A k \in Key : Home(k)' \in 1..modulus' /\ Home(k)' \in Group
  <1>1. \A k \in Key : HashOf[k] \in Nat
    BY DHBlocksAssumption
  <1>2. ParamsOK(modulus', modValue')
    BY DEF ParamsOK
  <1>3. \A k \in Key : GroupOf(HashOf[k], modulus', modValue') \in 1..modulus'
    BY <1>1, <1>2, HashInFile
  <1>4. \A k \in Key : Home(k)' \in 1..modulus'
    BY <1>3 DEF Home
  <1> QED BY <1>4, DHBlocksAssumption DEF Group

LEMMA TgtTypes ==
  ASSUME NEW j \in MoveJob, NEW i \in 1..Len(j.tgt)
  PROVE  j.tgt[i].loc \in Loc /\ j.tgt[i].buff \in BlockType
  <1>1. j.tgt \in Seq([loc : Loc, buff : BlockType])
    BY DEF MoveJob
  <1>2. j.tgt[i] \in [loc : Loc, buff : BlockType]
    <2> HIDE DEF MoveJob
    <2> QED BY <1>1, ElementOfSeq
  <1> QED BY <1>2

\* What others hold is not in a group that p has locked.
LEMMA OthersApart ==
  ASSUME NEW own, NEW len, NEW hd, NEW nx, NEW ct, NEW spot, NEW rec, NEW base, NEW jb,
         Good(jb, own, len, hd, nx, ct, spot, rec, base)', NEW p \in Proc, NEW l, NEW g \in Group,
         locked'[g] = p, InGroup(own, l, g)
  PROVE  /\ \A q \in Proc : q # p /\ jb[q].at \in Working =>
              /\ jb[q].key \in Key /\ Home(jb[q].key)' # g /\ jb[q].loc # l
              /\ jb[q].at = "unchain" => jb[q].prev # l
         /\ \A q \in Proc : q # p /\ Moving(jb, q) =>
              /\ base[q] # g /\ jb[q].new # g
              /\ \A i \in 1..Len(jb[q].tgt) : jb[q].tgt[i].loc # l
  <1>1. /\ ParamsOK(modulus, modValue)' /\ modulus' \in MinMod..MaxMod /\ jb \in [Proc -> Job]
        /\ MinMod \in Nat \ {0} /\ MaxMod \in Nat
    BY DHBlocksAssumption DEF Good, FixedOK
  <1>2. \A x \in Key : Home(x)' \in 1..modulus' /\ Home(x)' \in Group
    BY <1>1, HomeIsNext
  <1>3. \A q \in Proc : JobOK(jb, q, own, len, hd, nx, ct, spot, rec, base)'
    BY DEF Good
  <1>5. ASSUME NEW q \in Proc, q # p, jb[q].at \in Working
        PROVE  /\ jb[q].key \in Key /\ Home(jb[q].key)' # g /\ jb[q].loc # l
               /\ jb[q].at = "unchain" => jb[q].prev # l
    <2>1. PICK k \in Key : k = jb[q].key
      BY <1>1, <1>5, JobTypes, WorkTypes
    <2>2. Home(jb[q].key)' = Home(k)'
      BY <2>1
    <2>3. locked'[Home(k)'] = q
      BY <1>2, <1>3, <1>5, <2>1, <2>2 DEF JobOK, LocksOK
    <2>4. InGroup(own, jb[q].loc, Home(jb[q].key)')
      BY <1>3, <1>5 DEF JobOK, WorkOK
    <2>5. jb[q].at = "unchain" => InGroup(own, jb[q].prev, Home(jb[q].key)')
      BY <1>3, <1>5 DEF JobOK, WorkOK
    <2>6. Home(jb[q].key)' # g
      BY <1>5, <2>2, <2>3
    <2> QED BY <2>1, <2>4, <2>5, <2>6, InOneGroup
  <1>6. ASSUME NEW q \in Proc, q # p, Moving(jb, q)
        PROVE  /\ base[q] # g /\ jb[q].new # g
               /\ \A i \in 1..Len(jb[q].tgt) : jb[q].tgt[i].loc # l
    <2>1. base[q] \in 1..modulus' /\ base[q] \in Group
      <3>1. base[q] \in 1..modulus'
        BY <1>3, <1>6 DEF JobOK, MoveOK
      <3> QED BY <1>1, <3>1 DEF Group
    <2>2. jb[q].new \in Group
      BY <1>1, <1>6, JobTypes DEF MoveJob, Moving
    <2>3. locked'[base[q]] = q /\ locked'[jb[q].new] = q
      BY <1>3, <1>6, <2>1, <2>2 DEF JobOK, LocksOK
    <2>4. base[q] # g /\ jb[q].new # g
      BY <1>6, <2>3
    <2>5. \A i \in 1..Len(jb[q].tgt) : InGroup(own, jb[q].tgt[i].loc, IF i = 1 THEN base[q] ELSE jb[q].new)
      BY <1>3, <1>6 DEF JobOK, MoveOK
    <2> QED BY <2>4, <2>5, InOneGroup
  <1> QED BY <1>5, <1>6

\* The new record is in the buffer: its data is that of a record of the file.
LEMMA GoOnLast ==
  ASSUME NEW own, NEW len, NEW hd, NEW nx, NEW ct, NEW spot, NEW rec, NEW base,
         NEW jb1, NEW jb2, NEW p \in Proc, NEW o, Becomes(jb1, jb2, p, o), o \in WriteJob \cup DeleteJob,
         Good(jb1, own, len, hd, nx, ct, spot, rec, base)',
         NEW r, r = jb1[p], r \in WriteJob \cup DeleteJob, r.at = "ready", r.op = "write",
         o.op = r.op, o.key = r.key, o.loc = r.loc, o.old = r.old,
         o.size = r.size, o.data = r.data, o.rec = r.rec, o.found = r.found,
         r.buff.next = 0, o.at = "last", o.buff = GroupBlock(Append(r.buff.recs, r.rec), 0)
  PROVE  \E own2, len2, hd2, ct2, spot2, rec2 :
           Good(jb2, own2, len2, hd2, nx, ct2, spot2, rec2, base)'
  <1>1. jb1 \in [Proc -> Job] /\ o \in Job /\ OneMover(jb1)
    BY DEF Good, FixedOK, Becomes
  <1>2. /\ r.at \in Working /\ o.at \in Working /\ r \in WriteJob /\ o \in WriteJob
        /\ jb1[p].at \in Working /\ o.key = jb1[p].key /\ o.loc = jb1[p].loc
    BY WorkTypes DEF Working
  <1>3. /\ jb2 \in [Proc -> Job] /\ jb2[p] = o /\ \A q \in Proc : q # p => jb2[q] = jb1[q]
        /\ \A l : Written(jb2, l) <=> Written(jb1, l)
        /\ \A q \in Proc : 
             /\ (Moving(jb2, q) <=> Moving(jb1, q))
             /\ (jb2[q].at = "flush" <=> jb1[q].at = "flush")
             /\ (jb2[q].at \in Working <=> jb1[q].at \in Working)
             /\ Moving(jb2, q) => jb2[q] = jb1[q]
             /\ jb2[q].at \in Working => jb2[q].key = jb1[q].key
        /\ \A k : Busy(jb2, k) <=> Busy(jb1, k)
        /\ OneMover(jb1) => OneMover(jb2)
    <2>1. p \in Proc /\ Becomes(jb1, jb2, p, o)
      OBVIOUS
    <2> HIDE DEF Becomes
    <2> QED BY ONLY <1>2, <2>1, AlikeJobs
  <1>4. PICK k \in Key : k = r.key
    BY <1>2, WorkTypes
  <1>5. PICK l \in Loc : l = r.loc
    BY <1>2, WorkTypes
  <1>6. PICK s \in Record : s = r.rec
    BY <1>2, WorkTypes
  <1>7. PICK g : g = Home(k)'
    OBVIOUS
  <1>8. WorkOK(jb1, p, own, len, hd, nx, ct, spot, rec)' /\ NewOK(jb1, p, len, hd)'
    BY DEF Good, JobOK
  <1>9. /\ InGroup(own, l, g) /\ r.buff = GroupBlock(ct[l], NextOf(hd, nx, l))
        /\ s.key = k /\ spot[k] = Nowhere
    <2>1. /\ InGroup(own, r.loc, Home(r.key)') /\ r.buff = GroupBlock(ct[r.loc], NextOf(hd, nx, r.loc))
          /\ r.rec.key = r.key /\ spot[r.key] = Nowhere
      BY <1>2, <1>8 DEF WorkOK
    <2>2. Home(r.key)' = g
      BY <1>4, <1>7
    <2> QED BY <1>4, <1>5, <1>6, <2>1, <2>2
  <1>10. s.head = hd[NewChain(p)] /\ r.data = len[NewChain(p)]
    BY <1>6, <1>8 DEF NewOK
  <1>11. r.buff.recs = ct[l] /\ NextOf(hd, nx, l) = 0
    BY <1>9 DEF GroupBlock
  <1>12. /\ Chained(own, len, hd, nx) /\ Placed(ct, spot, rec)
         /\ StoreOK(jb1, k, len, hd, spot, rec)'
    BY DEF Good
  <1>13. len[DataChain(k)] = 0
    BY <1>9, <1>12 DEF StoreOK
  <1>14. /\ NewChain(p) \in Owner /\ DataChain(k) \in Owner /\ NewChain(p) # DataChain(k)
         /\ \A q \in Proc : NewChain(q) = NewChain(p) => q = p
         /\ \A x \in Key : DataChain(x) = DataChain(k) => x = k
    BY AllOwners, Kinds
  <1>15. PICK own2, len2, hd2 :
           /\ Chained(own2, len2, hd2, nx)
           /\ \A b \in Block : own2[b] = IF own[b] = NewChain(p) THEN DataChain(k) ELSE own[b]
           /\ len2[NewChain(p)] = 0 /\ hd2[NewChain(p)] = 0
           /\ len2[DataChain(k)] = len[NewChain(p)] /\ hd2[DataChain(k)] = hd[NewChain(p)]
           /\ \A w \in Owner : w # NewChain(p) /\ w # DataChain(k) => len2[w] = len[w] /\ hd2[w] = hd[w]
    BY <1>12, <1>13, <1>14, Handover
  <1>16. l \in Spot /\ l[1] \in {"p", "o"}
    BY <1>5 DEF Spot, Loc
  <1>17. PICK ct2, spot2, rec2 :
           /\ Placed(ct2, spot2, rec2)
           /\ ct2[l] = Append(ct[l], s)
           /\ \A m \in Spot : m # l => ct2[m] = ct[m]
           /\ spot2[s.key] = l /\ rec2[s.key] = s
           /\ \A x \in Key : x # s.key => spot2[x] = spot[x] /\ rec2[x] = rec[x]
    <2>1. s \in Record /\ IsAt(spot, s, Nowhere)
      BY <1>6, <1>9 DEF IsAt
    <2>2. \E ct2, spot2, rec2 : Put(ct, spot, rec, ct2, spot2, rec2, l, s)
      BY ONLY <1>12, <1>16, <2>1, PutRecord
    <2> QED BY <2>2 DEF Put
  <1>18. l # Nowhere
    BY <1>12, <1>16, PlacedFacts
  <1>19. \A b \in Block : own2[b] # DataChain(k) => own2[b] = own[b]
    BY <1>15
  <1>20. \A m, h : InGroup(own2, m, h) <=> InGroup(own, m, h)
    BY <1>15, Kinds DEF InGroup
  <1>21. \A w \in Owner : w[1] \notin {"new", "data"} => len2[w] = len[w] /\ hd2[w] = hd[w]
    BY <1>14, <1>15, Kinds
  <1>22. \A h \in Group : len2[GroupChain(h)] = len[GroupChain(h)] /\ hd2[GroupChain(h)] = hd[GroupChain(h)]
    BY <1>21, AllOwners, Kinds
  <1>23. /\ g \in Group /\ locked'[g] = p
         /\ \A q \in Proc : q # p /\ jb1[q].at \in Working =>
              /\ jb1[q].key \in Key /\ jb1[q].key # k /\ jb1[q].loc # l
              /\ jb1[q].at = "unchain" => jb1[q].prev # l
         /\ \A q \in Proc : q # p /\ Moving(jb1, q) =>
              /\ base[q] # g /\ jb1[q].new # g
              /\ \A i \in 1..Len(jb1[q].tgt) : jb1[q].tgt[i].loc # l
    <2>1. Good(jb1, own, len, hd, nx, ct, spot, rec, base)' /\ p \in Proc /\ jb1 \in [Proc -> Job]
      BY <1>1
    <2>2. jb1[p].at \in Working /\ jb1[p].key = k
      BY <1>2, <1>4
    <2>3. InGroup(own, l, g) /\ Home(jb1[p].key)' = g
      BY <1>7, <1>9, <2>2
    <2>4. g \in Group
      <3>1. \A x \in Key : Home(x)' \in Group
        BY HomeIsNext DEF Good, FixedOK
      <3> QED BY <1>7, <3>1
    <2>5. locked'[g] = p
      <3>1. LocksOK(jb1, p, base)'
        BY DEF Good, JobOK
      <3> QED BY <2>2, <2>3, <2>4, <3>1 DEF LocksOK
    <2>6. /\ \A q \in Proc : q # p /\ jb1[q].at \in Working =>
               /\ jb1[q].key \in Key /\ Home(jb1[q].key)' # g /\ jb1[q].loc # l
               /\ jb1[q].at = "unchain" => jb1[q].prev # l
          /\ \A q \in Proc : q # p /\ Moving(jb1, q) =>
               /\ base[q] # g /\ jb1[q].new # g
               /\ \A i \in 1..Len(jb1[q].tgt) : jb1[q].tgt[i].loc # l
      BY ONLY <2>1, <2>3, <2>4, <2>5, OthersApart
    <2>7. ASSUME NEW q \in Proc, q # p, jb1[q].at \in Working PROVE jb1[q].key # k
      <3>1. jb1[q].key = k => Home(jb1[q].key)' = Home(k)'
        OBVIOUS
      <3> QED BY <1>7, <2>6, <2>7, <3>1
    <2> QED BY <2>4, <2>5, <2>6, <2>7
  <1>24. FixedOK(jb2)' /\ OneMover(jb2)
    BY <1>1, <1>3 DEF Good, FixedOK
  <1>25. SpaceOK(jb2, own2, len2, hd2)'
    <2>1. SpaceOK(jb1, own, len, hd)'
      BY DEF Good
    <2>2. \A b \in Block : (own2[b] = NoOne <=> own[b] = NoOne) /\ (own2[b] = Free <=> own[b] = Free)
      BY <1>15, Kinds
    <2>3. hd2[Free] = hd[Free] /\ len2[Spare] = len[Spare]
      BY <1>21, AllOwners, Kinds
    <2>4. HeaderOK(jb2, own2)'
      BY <1>3, <2>1, <2>2 DEF SpaceOK, HeaderOK, NamesFree
    <2> QED BY <1>3, <1>22, <2>1, <2>2, <2>3, <2>4 DEF SpaceOK
  <1>26. l \in Held(jb1[p])
    BY <1>2, <1>5 DEF Held
  <1>27. \A m : Written(jb1, m) => m # l
    BY <1>26 DEF Written
  <1>28. ASSUME NEW h \in 1..modulus' PROVE GroupOnDisk(jb2, h, hd2, ct2)'
    <2>1. GroupOnDisk(jb1, h, hd, ct)' /\ h \in Group
      BY <1>24, DHBlocksAssumption DEF Good, FixedOK, Group
    <2>2. hd2[GroupChain(h)] = hd[GroupChain(h)]
      BY <1>22, <2>1
    <2>3. <<"p", h>> \in Spot
      BY <2>1 DEF Spot, Loc
    <2>4. SUFFICES ASSUME Written(jb2, <<"p", h>>) PROVE primary'[h] = GroupBlock(ct2[<<"p", h>>], hd2[GroupChain(h)])
      BY DEF GroupOnDisk, Written
    <2>5. Written(jb1, <<"p", h>>) /\ <<"p", h>> # l
      BY <1>3, <1>27, <2>4
    <2>6. ct2[<<"p", h>>] = ct[<<"p", h>>]
      BY <1>17, <2>3, <2>5
    <2>7. primary'[h] = GroupBlock(ct[<<"p", h>>], hd[GroupChain(h)])
      BY <2>1, <2>5 DEF GroupOnDisk, Written
    <2> QED BY <2>2, <2>6, <2>7
  <1>29. ASSUME NEW b \in Block PROVE BlockOnDisk(jb2, b, own2, nx, ct2)'
    <2>1. BlockOnDisk(jb1, b, own, nx, ct)'
      BY DEF Good
    <2>2. <<"o", b>> \in Spot
      BY DEF Spot, Loc
    <2>3. CASE own[b] = NewChain(p)
      <3>1. own2[b] = DataChain(k)
        BY <1>15, <2>3
      <3>2. own2[b][1] = "data"
        BY <3>1, Kinds
      <3>3. overflow'[b] = DataBlock(k, nx[b])
        BY <1>4, <2>1, <2>3 DEF BlockOnDisk
      <3>4. \A x \in Key : own2[b] = DataChain(x) => x = k
        BY <1>14, <3>1
      <3>5. \A q \in Proc : own2[b] # NewChain(q)
        BY <3>2, Kinds
      <3> QED BY <3>2, <3>3, <3>4, <3>5 DEF BlockOnDisk
    <2>4. CASE own[b] # NewChain(p)
      <3>1. own2[b] = own[b]
        BY <1>15, <2>4
      <3>2. Written(jb2, <<"o", b>>) => Written(jb1, <<"o", b>>) /\ ct2[<<"o", b>>] = ct[<<"o", b>>]
        BY <1>3, <1>17, <1>27, <2>2
      <3>3. \A q \in Proc : own2[b] = NewChain(q) => jb2[q] = jb1[q]
        BY <1>3, <2>4, <3>1
      <3> QED BY <2>1, <3>1, <3>2, <3>3 DEF BlockOnDisk, Written
    <2> QED BY <2>3, <2>4
  <1>30. ASSUME NEW x \in Key PROVE HomeOK(jb2, x, own2, spot2, base)'
    <2>1. CASE x = k
      <3>1. InGroup(own2, spot2[x], Home(x)')
        BY <1>7, <1>9, <1>17, <1>20, <2>1
      <3> QED BY <3>1 DEF HomeOK
    <2>2. CASE x # k
      <3>1. spot2[x] = spot[x]
        BY <1>9, <1>17, <2>2
      <3>2. HomeOK(jb1, x, own, spot, base)'
        BY DEF Good
      <3>3. \A q \in Proc : Moving(jb1, q) => Moving(jb2, q) /\ Goals(jb2, q, base) = Goals(jb1, q, base)
        BY <1>3 DEF Goals
      <3>4. \A q \in Proc : \A b \in Block : own[b] = SourceChain(q) => own2[b] = SourceChain(q)
        BY <1>15, Kinds
      <3> QED BY <1>20, <3>1, <3>2, <3>3, <3>4 DEF HomeOK, Moving, Goals
    <2> QED BY <2>1, <2>2
  <1>31. ASSUME NEW x \in Key PROVE StoreOK(jb2, x, len2, hd2, spot2, rec2)'
    <2>1. CASE x = k
      <3>1. Busy(jb2, x)
        BY <1>2, <1>3, <1>4, <2>1 DEF Busy
      <3>2. spot2[x] # Nowhere /\ hd2[DataChain(x)] = rec2[x].head
        BY <1>9, <1>10, <1>15, <1>17, <1>18, <2>1
      <3> QED BY <3>1, <3>2 DEF StoreOK, Busy
    <2>2. CASE x # k
      <3>1. spot2[x] = spot[x] /\ rec2[x] = rec[x]
        BY <1>9, <1>17, <2>2
      <3>2. len2[DataChain(x)] = len[DataChain(x)] /\ hd2[DataChain(x)] = hd[DataChain(x)]
        <4>1. DataChain(x) \in Owner /\ DataChain(x) # NewChain(p) /\ DataChain(x) # DataChain(k)
          BY <1>14, <2>2, AllOwners, Kinds
        <4> QED BY <1>15, <4>1
      <3>3. StoreOK(jb1, x, len, hd, spot, rec)'
        BY DEF Good
      <3> QED BY <1>3, <3>1, <3>2, <3>3 DEF StoreOK, Busy
    <2> QED BY <2>1, <2>2
  <1>32. ASSUME NEW q \in Proc PROVE JobOK(jb2, q, own2, len2, hd2, nx, ct2, spot2, rec2, base)'
    <2>1. JobOK(jb1, q, own, len, hd, nx, ct, spot, rec, base)'
      BY DEF Good
    <2>2. /\ hd2[OldChain(q)] = hd[OldChain(q)] /\ len2[OldChain(q)] = len[OldChain(q)]
          /\ hd2[SourceChain(q)] = hd[SourceChain(q)] /\ len2[SourceChain(q)] = len[SourceChain(q)]
          /\ hd2[SourceBlock(q)] = hd[SourceBlock(q)] /\ len2[SourceBlock(q)] = len[SourceBlock(q)]
      BY <1>21, AllOwners, Kinds
    <2>3. CASE q = p
      <3>1. jb2[q] = o /\ jb1[q] = r
        BY <1>3, <2>3
      <3>2. LocksOK(jb2, q, base)'
        BY <1>2, <1>3, <2>1, <3>1 DEF JobOK, LocksOK
      <3>3. NewOK(jb2, q, len2, hd2)'
        BY <1>15, <2>3, <3>1 DEF NewOK
      <3>4. OldOK(jb2, q, len2, hd2)'
        BY <1>2, <2>1, <2>2, <3>1 DEF JobOK, OldOK
      <3>5. /\ InGroup(own2, o.loc, Home(o.key)')
            /\ o.rec.key = o.key /\ o.rec.size = o.size
            /\ spot2[o.key] # Nowhere /\ rec2[o.key] = o.rec /\ len2[DataChain(o.key)] = o.data
        <4>1. r.rec.size = r.size
          BY <1>2, <1>8 DEF WorkOK
        <4>2. Home(o.key)' = g
          BY <1>4, <1>7
        <4> QED BY <1>4, <1>5, <1>6, <1>9, <1>10, <1>15, <1>17, <1>18, <1>20, <4>1, <4>2
      <3>6. o.buff = GroupBlock(ct2[o.loc], NextOf(hd2, nx, o.loc))
        <4>1. NextOf(hd2, nx, l) = NextOf(hd, nx, l)
          BY <1>5, <1>22 DEF Loc, NextOf
        <4> QED BY <1>5, <1>6, <1>11, <1>17, <4>1
      <3>7. WorkOK(jb2, q, own2, len2, hd2, nx, ct2, spot2, rec2)'
        BY <3>1, <3>5, <3>6 DEF WorkOK
      <3>8. MoveOK(jb2, q, own2, len2, hd2, nx, ct2, base)'
        BY <1>2, <1>3, <2>1, <2>2, <3>1 DEF JobOK, MoveOK, Working, Moving
      <3> QED BY <3>2, <3>3, <3>4, <3>7, <3>8 DEF JobOK
    <2>4. CASE q # p
      <3>1. jb2[q] = jb1[q]
        BY <1>3, <2>4
      <3>2. hd2[NewChain(q)] = hd[NewChain(q)] /\ len2[NewChain(q)] = len[NewChain(q)]
        <4>1. NewChain(q) \in Owner /\ NewChain(q) # NewChain(p) /\ NewChain(q) # DataChain(k)
          BY <2>4, AllOwners, Kinds
        <4> QED BY <1>15, <4>1
      <3>3. LocksOK(jb2, q, base)' /\ NewOK(jb2, q, len2, hd2)' /\ OldOK(jb2, q, len2, hd2)'
        BY <2>1, <2>2, <3>1, <3>2 DEF JobOK, LocksOK, NewOK, OldOK, Moving
      <3>4. WorkOK(jb2, q, own2, len2, hd2, nx, ct2, spot2, rec2)'
        <4>1. SUFFICES ASSUME jb1[q].at \in Working
                       PROVE  WorkOK(jb2, q, own2, len2, hd2, nx, ct2, spot2, rec2)'
          BY <3>1 DEF WorkOK
        <4>2. PICK j : j = jb1[q]
          OBVIOUS
        <4>3. /\ j \in WriteJob \cup DeleteJob /\ j.at \in Working
              /\ j.key \in Key /\ j.key # k /\ j.loc # l /\ j.loc \in Loc
              /\ j.at = "unchain" => j.prev # l /\ j.prev \in Loc
          <5>1. j \in WriteJob \cup DeleteJob
            BY <1>1, <4>1, <4>2, JobTypes
          <5>2. j.loc \in Loc
            BY <5>1, WorkTypes
          <5>3. j.at = "unchain" => j.op = "delete"
            BY <2>1, <4>1, <4>2 DEF JobOK, WorkOK
          <5>4. j.at = "unchain" => j.prev \in Loc
            BY <5>1, <5>3, WorkTypes
          <5> QED BY <1>23, <2>4, <4>1, <4>2, <5>1, <5>2, <5>4
        <4>4. /\ ct2[j.loc] = ct[j.loc] /\ NextOf(hd2, nx, j.loc) = NextOf(hd, nx, j.loc)
              /\ j.at = "unchain" => NextOf(hd2, nx, j.prev) = NextOf(hd, nx, j.prev)
          <5>1. j.loc \in Spot
            BY <4>3 DEF Spot
          <5>2. \A m \in Loc : NextOf(hd2, nx, m) = NextOf(hd, nx, m)
            BY <1>22 DEF Loc, NextOf
          <5> QED BY <1>17, <4>3, <5>1, <5>2
        <4>5. spot2[j.key] = spot[j.key] /\ rec2[j.key] = rec[j.key] /\ len2[DataChain(j.key)] = len[DataChain(j.key)]
          <5>1. DataChain(j.key) \in Owner /\ DataChain(j.key) # NewChain(p) /\ DataChain(j.key) # DataChain(k)
            BY <1>14, <4>3, AllOwners, Kinds
          <5> QED BY <1>9, <1>15, <1>17, <4>3, <5>1
        <4>6. WorkOK(jb1, q, own, len, hd, nx, ct, spot, rec)'
          BY <2>1 DEF JobOK
        <4>7. jb2[q] = j /\ jb1[q] = j
          BY <3>1, <4>2
        <4> QED BY <1>20, <4>1, <4>4, <4>5, <4>6, <4>7 DEF WorkOK
      <3>5. MoveOK(jb2, q, own2, len2, hd2, nx, ct2, base)'
        <4>1. CASE ~Moving(jb1, q)
          BY <1>3, <2>1, <2>2, <4>1 DEF JobOK, MoveOK, Moving
        <4>2. CASE Moving(jb1, q)
          <5>1. PICK j : j = jb1[q]
            OBVIOUS
          <5>2. j \in MoveJob
            BY <1>1, <4>2, <5>1, JobTypes DEF Moving
          <5>3. MoveOK(jb1, q, own, len, hd, nx, ct, base)'
            BY <2>1 DEF JobOK
          <5>4. ct2[BufferOf(q)] = ct[BufferOf(q)]
            <6>1. BufferOf(q) \in Spot /\ BufferOf(q) # l
              BY <1>16 DEF BufferOf, Spot
            <6> QED BY <1>17, <6>1
          <5>5. \A m \in Loc : NextOf(hd2, nx, m) = NextOf(hd, nx, m)
            BY <1>22 DEF Loc, NextOf
          <5>6. ASSUME NEW i \in 1..Len(j.tgt)
                PROVE  /\ ct2[j.tgt[i].loc] = ct[j.tgt[i].loc]
                       /\ NextOf(hd2, nx, j.tgt[i].loc) = NextOf(hd, nx, j.tgt[i].loc)
            <6>1. j.tgt[i].loc \in Loc
              BY <5>2, TgtTypes
            <6>2. j.tgt[i].loc # l /\ j.tgt[i].loc \in Spot
              BY <1>23, <2>4, <4>2, <5>1, <6>1 DEF Spot
            <6> QED BY <1>17, <5>5, <6>1, <6>2
          <5>7. jb2[q] = j /\ jb1[q] = j
            BY <3>1, <5>1
          <5> QED BY <1>20, <2>2, <4>2, <5>3, <5>4, <5>6, <5>7 DEF MoveOK, Moving
        <4> QED BY <4>1, <4>2
      <3> QED BY <3>3, <3>4, <3>5 DEF JobOK
    <2> QED BY <2>3, <2>4
  <1>33. Good(jb2, own2, len2, hd2, nx, ct2, spot2, rec2, base)'
    BY <1>15, <1>17, <1>24, <1>25, <1>28, <1>29, <1>30, <1>31, <1>32 DEF Good
  <1> QED BY <1>33

\* The file is as it should be after the step, with the jobs jb.
GoodAfter(jb) ==
  \E own, len, hd, nx, ct, spot, rec, base : Good(jb, own, len, hd, nx, ct, spot, rec, base)'

\* If it is with p ready to go on with buffer b of j, it is when p has gone on.
LEMMA GoOn ==
  ASSUME NEW own, NEW len, NEW hd, NEW nx, NEW ct, NEW spot, NEW rec, NEW base,
         NEW jb0, NEW jb1, NEW jb2, NEW p \in Proc, NEW j \in WriteJob \cup DeleteJob, NEW b \in BlockType,
         NEW r, r = Ready(j, b), Becomes(jb0, jb1, p, r),
         NEW o, o = Onward(j, b), Becomes(jb0, jb2, p, o),
         Good(jb1, own, len, hd, nx, ct, spot, rec, base)'
  PROVE  GoodAfter(jb2)
  <1>1. WentOn(j, b, r, o)
    BY OnwardIs
  <1>2. /\ o.op = r.op /\ o.key = r.key /\ o.loc = r.loc /\ o.old = r.old
        /\ r.op = "write" => o.size = r.size /\ o.data = r.data /\ o.rec = r.rec /\ o.found = r.found
        /\ r.op = j.op /\ (j.op = "write" => r.rec = j.rec)
    BY <1>1 DEF WentOn
  <1>3. Becomes(jb1, jb2, p, o) /\ r = jb1[p]
    BY DEF Becomes
  <1>4. /\ p \in Proc /\ r \in WriteJob \cup DeleteJob /\ o \in WriteJob \cup DeleteJob /\ r.at = "ready"
        /\ Good(jb1, own, len, hd, nx, ct, spot, rec, base)'
    BY <1>1 DEF WentOn
  <1>5. CASE o.at # "last" \/ r.op = "delete"
    <2>1. /\ o.buff = r.buff
          /\ \/ r.buff.next # 0 /\ o.at = "compact"
             \/ r.buff.next = 0 /\ r.op = "delete" /\ o.at = "last"
             \/ r.buff.next = 0 /\ r.op = "write" /\ o.at = "add"
      BY <1>1, <1>2, <1>5 DEF WentOn
    <2>2. Good(jb2, own, len, hd, nx, ct, spot, rec, base)'
      BY ONLY <1>2, <1>3, <1>4, <2>1, GoOnSame
    <2> QED BY <2>2 DEF GoodAfter
  <1>6. CASE ~(o.at # "last" \/ r.op = "delete")
    <2>1. r.buff.next = 0 /\ r.op = "write" /\ o.at = "last" /\ o.buff = GroupBlock(Append(r.buff.recs, r.rec), 0)
      BY <1>1, <1>2, <1>6 DEF WentOn
    <2>2. \E own2, len2, hd2, ct2, spot2, rec2 :
           Good(jb2, own2, len2, hd2, nx, ct2, spot2, rec2, base)'
      BY ONLY <1>2, <1>3, <1>4, <2>1, GoOnLast
    <2> QED BY <2>2 DEF GoodAfter
  <1> QED BY <1>5, <1>6

IInv == \E own, len, hd, nx, ct, spot, rec, base : Good(job, own, len, hd, nx, ct, spot, rec, base)

LEMMA AfterIs ==
  ASSUME NEW jb, jb = job', GoodAfter(jb)
  PROVE  IInv'
  <1>1. PICK own, len, hd, nx, ct, spot, rec, base : Good(jb, own, len, hd, nx, ct, spot, rec, base)'
    BY DEF GoodAfter
  <1>2. Good(job, own, len, hd, nx, ct, spot, rec, base)'
    <2>1. Chained(own, len, hd, nx) /\ Placed(ct, spot, rec)
      BY <1>1 DEF Good
    <2>2. (FixedOK(job) /\ OneMover(job) /\ SpaceOK(job, own, len, hd))'
      BY <1>1 DEF Good, FixedOK, OneMover, SpaceOK, HeaderOK, Moving
    <2>3. (\A g \in 1..modulus : GroupOnDisk(job, g, hd, ct))'
      BY <1>1 DEF Good, GroupOnDisk, Written
    <2>4. (\A b \in Block : BlockOnDisk(job, b, own, nx, ct))'
      BY <1>1 DEF Good, BlockOnDisk, Written
    <2>5. (\A k \in Key : HomeOK(job, k, own, spot, base))'
      BY <1>1 DEF Good, HomeOK, Moving, Goals, Home
    <2>6. (\A k \in Key : StoreOK(job, k, len, hd, spot, rec))'
      BY <1>1 DEF Good, StoreOK, Busy
    <2>7. (\A p \in Proc : JobOK(job, p, own, len, hd, nx, ct, spot, rec, base))'
      BY <1>1 DEF Good, JobOK, LocksOK, NewOK, OldOK, WorkOK, MoveOK, Moving, Home, BlockAt
    <2> QED BY <2>1, <2>2, <2>3, <2>4, <2>5, <2>6, <2>7 DEF Good
  <1> QED BY <1>2 DEF IInv

-----------------------------------------------------------------------------
(* A group that nobody has locked                                           *)

\* What is held in buffers is in locked groups.
LEMMA HeldIsLocked ==
  ASSUME NEW own, NEW len, NEW hd, NEW nx, NEW ct, NEW spot, NEW rec, NEW base,
         Good(job, own, len, hd, nx, ct, spot, rec, base), NEW p \in Proc, NEW l, l \in Held(job[p])
  PROVE  \E g \in Group : locked[g] = p /\ InGroup(own, l, g)
  <1>1. /\ ParamsOK(modulus, modValue) /\ modulus \in MinMod..MaxMod /\ job \in [Proc -> Job]
        /\ MinMod \in Nat \ {0} /\ MaxMod \in Nat
    BY DHBlocksAssumption DEF Good, FixedOK
  <1>2. \A k \in Key : Home(k) \in 1..modulus /\ Home(k) \in Group
    BY <1>1, HomeIs
  <1>3. JobOK(job, p, own, len, hd, nx, ct, spot, rec, base)
    BY DEF Good
  <1>4. CASE job[p].at \in Working
    <2>1. l = job[p].loc
      BY <1>4 DEF Held
    <2>2. job[p].key \in Key
      BY <1>1, <1>4, JobTypes, WorkTypes
    <2>3. InGroup(own, job[p].loc, Home(job[p].key))
      BY <1>3, <1>4 DEF JobOK, WorkOK
    <2>4. locked[Home(job[p].key)] = p
      BY <1>2, <1>3, <1>4, <2>2 DEF JobOK, LocksOK
    <2> QED BY <1>2, <2>1, <2>2, <2>3, <2>4
  <1>5. CASE job[p].at \notin Working
    <2>1. Moving(job, p)
      BY <1>5 DEF Held, Moving
    <2>2. job[p] \in MoveJob
      BY <1>1, <2>1, JobTypes DEF Moving
    <2>3. job[p].new \in Group /\ base[p] \in Group
      <3>1. base[p] \in 1..modulus
        BY <1>3, <2>1 DEF JobOK, MoveOK
      <3> QED BY <1>1, <2>2, <3>1 DEF MoveJob, Group
    <2>4. locked[base[p]] = p /\ locked[job[p].new] = p
      BY <1>3, <2>1, <2>3 DEF JobOK, LocksOK
    <2>5. CASE l = <<"p", job[p].new>>
      BY <2>3, <2>4, <2>5 DEF InGroup
    <2>6. CASE l # <<"p", job[p].new>>
      <3>1. PICK i \in 1..Len(job[p].tgt) : l = job[p].tgt[i].loc
        BY <1>5, <2>1, <2>6 DEF Held
      <3>2. InGroup(own, l, IF i = 1 THEN base[p] ELSE job[p].new)
        BY <1>3, <2>1, <3>1 DEF JobOK, MoveOK
      <3> QED BY <2>3, <2>4, <3>2
    <2> QED BY <2>5, <2>6
  <1> QED BY <1>4, <1>5

\* ls are the places of the blocks of group g, in their order, as they are on the disk.
Along(ls, g, own, hd, nx, ct) ==
  /\ ls \in Seq(Loc) /\ Len(ls) \in 1..MaxBlock + 1 /\ ls[1] = <<"p", g>>
  /\ \A i \in 1..Len(ls) : ls[i] \in Loc /\ InGroup(own, ls[i], g)
  /\ \A i \in 1..Len(ls) : BlockAt(ls[i]) = GroupBlock(ct[ls[i]], NextOf(hd, nx, ls[i]))
  /\ \A i \in 1..Len(ls) - 1 : NextOf(hd, nx, ls[i]) # 0 /\ ls[i + 1] = <<"o", NextOf(hd, nx, ls[i])>>
  /\ NextOf(hd, nx, ls[Len(ls)]) = 0
  /\ \A l \in Loc : InGroup(own, l, g) => \E i \in 1..Len(ls) : ls[i] = l
  /\ \A i, j \in 1..Len(ls) : ls[i] = ls[j] => i = j

LEMMA GroupPlaces ==
  ASSUME NEW own, NEW len, NEW hd, NEW nx, NEW ct, NEW spot, NEW rec, NEW base,
         Good(job, own, len, hd, nx, ct, spot, rec, base), NEW g \in 1..modulus, locked[g] = None
  PROVE  Made(g) /\ Along(Places(g), g, own, hd, nx, ct)
  <1>1. /\ ParamsOK(modulus, modValue) /\ modulus \in MinMod..MaxMod /\ job \in [Proc -> Job]
        /\ MinMod \in Nat \ {0} /\ MaxMod \in Nat /\ MaxBlock \in Nat /\ None \notin Proc
    BY DHBlocksAssumption DEF Good, FixedOK
  <1>2. g \in Group
    BY <1>1 DEF Group
  <1>3. ASSUME NEW l, InGroup(own, l, g) PROVE Written(job, l)
    <2>1. SUFFICES ASSUME NEW p \in Proc, l \in Held(job[p]) PROVE FALSE
      BY DEF Written
    <2>2. PICK h \in Group : locked[h] = p /\ InGroup(own, l, h)
      BY <2>1, HeldIsLocked
    <2> QED BY <1>1, <1>3, <2>2, InOneGroup
  <1>4. primary[g] = GroupBlock(ct[<<"p", g>>], hd[GroupChain(g)])
    <2>1. Written(job, <<"p", g>>)
      BY <1>3 DEF InGroup
    <2> QED BY <2>1 DEF Good, GroupOnDisk
  <1>5. primary[g].next = hd[GroupChain(g)] /\ Made(g)
    BY <1>4 DEF GroupBlock, Made, Unmade
  <1>6. GroupChain(g) \in Owner /\ GroupChain(g)[1] = "group"
    BY <1>2, AllOwners, Kinds
  <1>7. ASSUME NEW b \in Block, own[b] = GroupChain(g)
        PROVE  overflow[b] = GroupBlock(ct[<<"o", b>>], nx[b])
    <2>1. <<"o", b>>[1] = "o" /\ <<"o", b>>[2] = b
      OBVIOUS
    <2>2. Written(job, <<"o", b>>)
      BY <1>3, <1>7, <2>1 DEF InGroup
    <2> QED BY <1>6, <1>7, <2>2 DEF Good, BlockOnDisk
  <1>8. \A b \in Block : own[b] = GroupChain(g) => overflow[b].next = nx[b]
    <2>1. SUFFICES ASSUME NEW b \in Block, own[b] = GroupChain(g) PROVE overflow[b].next = nx[b]
      OBVIOUS
    <2>2. overflow[b] = GroupBlock(ct[<<"o", b>>], nx[b])
      BY <1>7, <2>1
    <2> QED BY <2>2 DEF GroupBlock
  <1>9. Chained(own, len, hd, nx)
    BY DEF Good
  <1>10. PICK c : c = Chain(primary[g].next)
    OBVIOUS
  <1>11. Enumerates(c, GroupChain(g), own, len, hd, nx)
    BY <1>5, <1>6, <1>8, <1>9, <1>10, ChainSeq
  <1>12. PICK d : d = [i \in 1..Len(c) |-> <<"o", c[i]>>]
    OBVIOUS
  <1>13. c \in Seq(Block) /\ Len(c) \in Nat /\ Len(c) <= MaxBlock
    BY <1>11 DEF Enumerates
  <1>14. \A i \in 1..Len(c) : d[i] = <<"o", c[i]>> /\ d[i] \in Loc /\ c[i] \in Block
    BY <1>12, <1>13 DEF Loc
  <1>15. d \in Seq(Loc) /\ Len(d) = Len(c)
    <2>1. d \in [1..Len(c) -> Loc]
      BY <1>12, <1>14
    <2> QED BY <1>13, <2>1
  <1>16. PICK e \in Seq(Loc) : e = << <<"p", g>> >>
    <2>1. PICK l \in Loc : l = <<"p", g>>
      BY <1>2 DEF Loc
    <2>2. <<l>> \in Seq(Loc)
      OBVIOUS
    <2> QED BY <2>1, <2>2
  <1>17. Len(e) = 1 /\ e[1] = <<"p", g>>
    BY <1>16
  <1>18. PICK ls : ls = e \o d
    OBVIOUS
  <1>19. Places(g) = ls
    BY <1>10, <1>12, <1>16, <1>18 DEF Places
  <1>20. /\ ls \in Seq(Loc) /\ Len(ls) = 1 + Len(c) /\ ls[1] = <<"p", g>>
         /\ \A i \in 2..Len(ls) : ls[i] = <<"o", c[i - 1]>> /\ i - 1 \in 1..Len(c)
    <2>1. /\ ls \in Seq(Loc) /\ Len(ls) = Len(e) + Len(d)
          /\ \A i \in 1..Len(e) + Len(d) : ls[i] = IF i <= Len(e) THEN e[i] ELSE d[i - Len(e)]
      BY <1>15, <1>18, ConcatProperties
    <2>2. Len(ls) = 1 + Len(c)
      BY <1>15, <1>17, <2>1
    <2>3. \A i \in 1..1 + Len(c) : ls[i] = IF i <= 1 THEN e[i] ELSE d[i - 1]
      BY <1>15, <1>17, <2>1
    <2>4. ls[1] = <<"p", g>>
      BY <1>13, <1>17, <2>3
    <2>5. ASSUME NEW i \in 2..Len(ls) PROVE ls[i] = <<"o", c[i - 1]>> /\ i - 1 \in 1..Len(c)
      <3>1. i - 1 \in 1..Len(c) /\ i \in 1..1 + Len(c) /\ ~(i <= 1)
        BY <1>13, <2>2
      <3> QED BY <1>14, <2>3, <3>1
    <2> QED BY <2>1, <2>2, <2>4, <2>5
  <1>21. Len(ls) \in 1..MaxBlock + 1
    BY <1>1, <1>13, <1>20
  <1>22. ASSUME NEW i \in 1..Len(ls)
         PROVE  /\ ls[i] \in Loc /\ InGroup(own, ls[i], g)
                /\ BlockAt(ls[i]) = GroupBlock(ct[ls[i]], NextOf(hd, nx, ls[i]))
                /\ i # 1 => c[i - 1] \in Block /\ own[c[i - 1]] = GroupChain(g)
    <2>1. CASE i = 1
      <3>1. PICK l \in Loc : l = <<"p", g>> /\ l[1] = "p" /\ l[2] = g
        <4>1. <<"p", g>> \in Loc /\ <<"p", g>>[1] = "p" /\ <<"p", g>>[2] = g
          BY <1>2 DEF Loc
        <4> QED BY <4>1
      <3>2. ls[i] = l
        BY <1>20, <2>1, <3>1
      <3>3. InGroup(own, l, g)
        BY <3>1 DEF InGroup
      <3>4. BlockAt(l) = GroupBlock(ct[l], NextOf(hd, nx, l))
        BY <1>4, <3>1 DEF BlockAt, NextOf
      <3> QED BY <2>1, <3>2, <3>3, <3>4
    <2>2. CASE i # 1
      <3>1. i \in 2..Len(ls)
        BY <1>21, <2>2
      <3>2. PICK b \in Block : b = c[i - 1] /\ own[b] = GroupChain(g) /\ ls[i] = <<"o", b>>
        BY <1>11, <1>20, <3>1 DEF Enumerates
      <3>3. ls[i][1] = "o" /\ ls[i][2] = b
        BY <3>2
      <3> QED BY <1>7, <2>2, <3>2, <3>3 DEF Loc, InGroup, BlockAt, NextOf
    <2> QED BY <2>1, <2>2
  <1>23. ASSUME NEW i \in 1..Len(ls) - 1
         PROVE  NextOf(hd, nx, ls[i]) # 0 /\ ls[i + 1] = <<"o", NextOf(hd, nx, ls[i])>>
    <2>1. i + 1 \in 2..Len(ls) /\ (i + 1) - 1 = i /\ i \in 1..Len(c)
      BY <1>13, <1>20
    <2>2. ls[i + 1] = <<"o", c[i]>> /\ c[i] # 0
      <3>1. ls[i + 1] = <<"o", c[(i + 1) - 1]>>
        BY <1>20, <2>1
      <3>2. c[i] \in Block
        BY <1>11, <2>1 DEF Enumerates
      <3> QED BY <2>1, <3>1, <3>2, BlockNat
    <2>3. CASE i = 1
      <3>1. c[1] = hd[GroupChain(g)]
        BY <1>11, <1>13, <2>1 DEF Enumerates
      <3> QED BY <1>20, <2>2, <2>3, <3>1 DEF NextOf
    <2>4. CASE i # 1
      <3>1. i \in 2..Len(ls) /\ i - 1 \in 1..Len(c) - 1 /\ (i - 1) + 1 = i
        BY <1>13, <1>20, <2>1, <2>4
      <3>2. ls[i] = <<"o", c[i - 1]>> /\ nx[c[i - 1]] = c[i]
        BY <1>11, <1>20, <3>1 DEF Enumerates
      <3> QED BY <2>2, <3>2 DEF NextOf
    <2> QED BY <2>3, <2>4
  <1>24. NextOf(hd, nx, ls[Len(ls)]) = 0
    <2>1. CASE Len(c) = 0
      <3>1. hd[GroupChain(g)] = 0
        BY <1>6, <1>9, <1>11, <2>1, ChainFacts DEF Enumerates
      <3> QED BY <1>20, <2>1, <3>1 DEF NextOf
    <2>2. CASE Len(c) # 0
      <3>1. Len(ls) \in 2..Len(ls) /\ Len(ls) - 1 = Len(c)
        BY <1>13, <1>20, <2>2
      <3>2. ls[Len(ls)] = <<"o", c[Len(c)]>> /\ nx[c[Len(c)]] = 0
        BY <1>11, <1>20, <2>2, <3>1 DEF Enumerates
      <3> QED BY <3>2 DEF NextOf
    <2> QED BY <2>1, <2>2
  <1>25. ASSUME NEW l \in Loc, InGroup(own, l, g) PROVE \E i \in 1..Len(ls) : ls[i] = l
    <2>1. CASE l = <<"p", g>>
      BY <1>20, <1>21, <2>1
    <2>2. CASE l # <<"p", g>>
      <3>1. PICK b \in Block : l = <<"o", b>> /\ own[b] = GroupChain(g)
        BY <1>25, <2>2 DEF InGroup
      <3>2. PICK i \in 1..Len(c) : c[i] = b
        BY <1>11, <3>1 DEF Enumerates
      <3>3. i + 1 \in 2..Len(ls) /\ i + 1 \in 1..Len(ls) /\ (i + 1) - 1 = i
        BY <1>13, <1>20
      <3> QED BY <1>20, <3>1, <3>2, <3>3
    <2> QED BY <2>1, <2>2
  <1>26. ASSUME NEW i \in 1..Len(ls), NEW j \in 1..Len(ls), ls[i] = ls[j] PROVE i = j
    <2>1. CASE i = 1 \/ j = 1
      <3>1. \A x \in 2..Len(ls) : ls[x][1] = "o"
        BY <1>20
      <3>2. ls[1][1] = "p"
        BY <1>20
      <3> QED BY <1>21, <1>26, <2>1, <3>1, <3>2
    <2>2. CASE i # 1 /\ j # 1
      <3>1. i \in 2..Len(ls) /\ j \in 2..Len(ls)
        BY <1>21, <2>2
      <3>2. ls[i] = <<"o", c[i - 1]>> /\ ls[j] = <<"o", c[j - 1]>> /\ i - 1 \in 1..Len(c) /\ j - 1 \in 1..Len(c)
        BY <1>20, <3>1
      <3>3. c[i - 1] = c[j - 1]
        <4>1. PICK x, y : x = c[i - 1] /\ y = c[j - 1]
          OBVIOUS
        <4>2. <<"o", x>> = <<"o", y>>
          BY <1>26, <3>2, <4>1
        <4> QED BY <4>1, <4>2
      <3>4. i - 1 = j - 1
        BY <1>11, <3>2, <3>3 DEF Enumerates
      <3> QED BY <3>4
    <2> QED BY <2>1, <2>2
  <1>27. Along(ls, g, own, hd, nx, ct)
    BY <1>20, <1>21, <1>22, <1>23, <1>24, <1>25, <1>26 DEF Along
  <1> QED BY <1>5, <1>19, <1>27

\* A record in a block.
BlockIs(b, ct, l, n) == b = GroupBlock(ct[l], n)
LEMMA InBlock ==
  ASSUME NEW ct, NEW spot, NEW rec, Placed(ct, spot, rec), NEW l \in Spot, NEW n, NEW k \in Key,
         NEW b, BlockIs(b, ct, l, n)
  PROVE  /\ Holds(b, k) <=> spot[k] = l
         /\ spot[k] = l => \E i \in 1..Len(ct[l]) :
              /\ ct[l][i].key = k /\ SlotOf(b, k) = i /\ RecordOf(b, k) = rec[k] /\ ct[l][i] = rec[k]
              /\ Without(b, k) = GroupBlock(RemoveAt(ct[l], i), n)
  <1>0. b = GroupBlock(ct[l], n)
    BY DEF BlockIs
  <1>1. b.recs = ct[l] /\ l # Nowhere
    BY <1>0, PlacedFacts DEF GroupBlock
  <1>2. \A i \in 1..Len(ct[l]) : ct[l][i].key = k => spot[k] = l /\ rec[k] = ct[l][i]
    BY DEF Placed
  <1>3. ASSUME spot[k] = l PROVE \E i \in 1..Len(ct[l]) : ct[l][i].key = k
    BY <1>1, <1>3 DEF Placed
  <1>4. Holds(b, k) <=> spot[k] = l
    BY <1>1, <1>2, <1>3 DEF Holds
  <1>5. ASSUME spot[k] = l
        PROVE  \E i \in 1..Len(ct[l]) :
                 /\ ct[l][i].key = k /\ SlotOf(b, k) = i /\ RecordOf(b, k) = rec[k] /\ ct[l][i] = rec[k]
                 /\ Without(b, k) = GroupBlock(RemoveAt(ct[l], i), n)
    <2>1. PICK i \in 1..Len(ct[l]) : ct[l][i].key = k
      BY <1>3, <1>5
    <2>2. \A j \in 1..Len(ct[l]) : ct[l][j].key = k => j = i
      BY <2>1 DEF Placed
    <2>3. SlotOf(b, k) = i
      BY <1>1, <2>1, <2>2 DEF SlotOf
    <2>4. RecordOf(b, k) = ct[l][i] /\ ct[l][i] = rec[k]
      BY <1>1, <1>2, <2>1, <2>3 DEF RecordOf
    <2>5. Without(b, k) = GroupBlock(RemoveAt(ct[l], i), n)
      <3>1. PICK x, y : x = ct[l] /\ y = RemoveAt(ct[l], i)
        OBVIOUS
      <3>2. b = GroupBlock(x, n) /\ Without(b, k) = [b EXCEPT !.recs = y]
        BY <1>0, <1>1, <2>3, <3>1 DEF Without
      <3>3. [GroupBlock(x, n) EXCEPT !.recs = y] = GroupBlock(y, n)
        BY DEF GroupBlock
      <3> QED BY <3>1, <3>2, <3>3
    <2> QED BY <2>1, <2>3, <2>4, <2>5
  <1> QED BY <1>4, <1>5

\* A record whose group nobody has locked.
Unlocked(g) == locked[g] = None
FoundWhere(k, spot) ==
  /\ \A i : FoundAt(k, i) <=> i \in 1..Len(Places(Home(k))) /\ Places(Home(k))[i] = spot[k]
  /\ (\A i : ~FoundAt(k, i)) => spot[k] = Nowhere
DataIs(k, len, hd, spot, rec) ==
  IF spot[k] = Nowhere THEN len[DataChain(k)] = 0 ELSE hd[DataChain(k)] = rec[k].head
LEMMA HomeFree ==
  ASSUME NEW own, NEW len, NEW hd, NEW nx, NEW ct, NEW spot, NEW rec, NEW base,
         Good(job, own, len, hd, nx, ct, spot, rec, base), NEW k \in Key, Unlocked(Home(k))
  PROVE  /\ Home(k) \in 1..modulus /\ Home(k) \in Group
         /\ spot[k] = Nowhere \/ (spot[k] \in Loc /\ InGroup(own, spot[k], Home(k)))
         /\ ~Busy(job, k)
         /\ store[k] = IF spot[k] = Nowhere THEN Absent
                       ELSE [size |-> rec[k].size, data |-> len[DataChain(k)]]
         /\ DataIs(k, len, hd, spot, rec) /\ FoundWhere(k, spot)
  <1>0. locked[Home(k)] = None
    BY DEF Unlocked
  <1>1. /\ ParamsOK(modulus, modValue) /\ modulus \in MinMod..MaxMod /\ job \in [Proc -> Job]
        /\ MinMod \in Nat \ {0} /\ MaxMod \in Nat /\ None \notin Proc
    BY DHBlocksAssumption DEF Good, FixedOK
  <1>2. \A x \in Key : Home(x) \in 1..modulus /\ Home(x) \in Group
    BY <1>1, HomeIs
  <1>3. \A q \in Proc : JobOK(job, q, own, len, hd, nx, ct, spot, rec, base)
    BY DEF Good
  <1>4. HomeOK(job, k, own, spot, base) /\ StoreOK(job, k, len, hd, spot, rec) /\ Placed(ct, spot, rec)
    BY DEF Good
  <1>5. ~Busy(job, k)
    <2>1. SUFFICES ASSUME NEW q \in Proc, job[q].at \in Working, job[q].key = k PROVE FALSE
      BY DEF Busy
    <2>2. locked[Home(k)] = q
      BY <1>2, <1>3, <2>1 DEF JobOK, LocksOK
    <2> QED BY <1>0, <1>1, <2>2
  <1>6. spot[k] = Nowhere \/ InGroup(own, spot[k], Home(k))
    <2>1. SUFFICES ASSUME NEW q \in Proc, Moving(job, q), Home(k) \in Goals(job, q, base) PROVE FALSE
      BY <1>4 DEF HomeOK
    <2>2. Home(k) \in {base[q], job[q].new}
      BY <2>1 DEF Goals
    <2>3. locked[Home(k)] = q
      BY <1>2, <1>3, <2>1, <2>2 DEF JobOK, LocksOK
    <2> QED BY <1>0, <1>1, <2>3
  <1>7. spot[k] = Nowhere \/ (spot[k] \in Loc /\ InGroup(own, spot[k], Home(k)))
    BY <1>2, <1>6 DEF InGroup, Loc
  <1>8. PICK ls : ls = Places(Home(k))
    OBVIOUS
  <1>9. Along(ls, Home(k), own, hd, nx, ct)
    BY <1>0, <1>2, <1>8, GroupPlaces
  <1>10. ASSUME NEW i \in 1..Len(ls) PROVE Holds(BlockAt(ls[i]), k) <=> spot[k] = ls[i]
    <2>1. ls[i] \in Loc /\ BlockAt(ls[i]) = GroupBlock(ct[ls[i]], NextOf(hd, nx, ls[i]))
      BY <1>9 DEF Along
    <2>2. ls[i] \in Spot
      BY <2>1 DEF Spot
    <2>3. BlockIs(BlockAt(ls[i]), ct, ls[i], NextOf(hd, nx, ls[i]))
      BY <2>1 DEF BlockIs
    <2> QED BY ONLY <1>4, <2>2, <2>3, k \in Key, InBlock
  <1>11. \A i : FoundAt(k, i) <=> i \in 1..Len(ls) /\ ls[i] = spot[k]
    BY <1>8, <1>10 DEF FoundAt
  <1>12. ASSUME \A i : ~FoundAt(k, i) PROVE spot[k] = Nowhere
    <2>1. SUFFICES ASSUME spot[k] \in Loc, InGroup(own, spot[k], Home(k)) PROVE FALSE
      BY <1>7
    <2>2. PICK i \in 1..Len(ls) : ls[i] = spot[k]
      BY <1>9, <2>1 DEF Along
    <2> QED BY <1>11, <1>12, <2>2
  <1> QED BY <1>2, <1>4, <1>5, <1>7, <1>8, <1>11, <1>12 DEF StoreOK, DataIs, FoundWhere
=============================================================================
