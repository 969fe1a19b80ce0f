--------------------------- MODULE DHBlocks_proofs --------------------------
(***************************************************************************)
(* Proofs about DHBlocks: for every number of processes, records, groups   *)
(* and blocks, no record is lost or in two places, no block is lost or in  *)
(* two chains, and the free chain in the header on the disk is of free     *)
(* blocks unless the last copy of the header that was written is from      *)
(* before a block was taken, as long as the disk is not full in the middle *)
(* of an update that has begun to change the file.                         *)
(***************************************************************************)
EXTENDS DHBlocks_invariant, FiniteSetTheorems, SequenceTheorems, TLAPS

-----------------------------------------------------------------------------
(* The steps                                                                *)

\* What is true of every good state.
LEMMA GoodFacts ==
  ASSUME NEW own, NEW len, NEW hd, NEW nx, NEW ct, NEW spot, NEW rec, NEW base,
         Good(job, own, len, hd, nx, ct, spot, rec, base)
  PROVE  /\ Chained(own, len, hd, nx) /\ Placed(ct, spot, rec)
         /\ ParamsOK(modulus, modValue) /\ modulus \in MinMod..MaxMod /\ modulus \in Group
         /\ header = None /\ locked \in [Group -> Proc \cup {None}] /\ None \notin Proc
         /\ job \in [Proc -> Job] /\ store \in [Key -> [size : Nat, data : Nat]]
         /\ DOMAIN primary = Group /\ DOMAIN overflow = Block
         /\ MinMod \in Nat \ {0} /\ MaxMod \in Nat /\ MaxBlock \in Nat
         /\ OneMover(job) /\ SpaceOK(job, own, len, hd)
         /\ \A k \in Key : Home(k) \in 1..modulus /\ Home(k) \in Group
         /\ \A g \in Group : g \in 1..modulus => GroupOnDisk(job, g, hd, ct)
         /\ \A b \in Block : BlockOnDisk(job, b, own, nx, ct)
         /\ \A k \in Key : HomeOK(job, k, own, spot, base) /\ StoreOK(job, k, len, hd, spot, rec)
         /\ \A p \in Proc : JobOK(job, p, own, len, hd, nx, ct, spot, rec, base)
  <1>1. ParamsOK(modulus, modValue) /\ modulus \in MinMod..MaxMod
    BY DEF Good, FixedOK
  <1>2. MinMod \in Nat \ {0} /\ MaxMod \in Nat /\ MaxBlock \in Nat /\ None \notin Proc
    BY DHBlocksAssumption
  <1>3. modulus \in Group
    BY <1>1, <1>2 DEF Group
  <1>4. \A k \in Key : Home(k) \in 1..modulus /\ Home(k) \in Group
    BY <1>1, HomeIs
  <1> QED BY <1>1, <1>2, <1>3, <1>4 DEF Good, FixedOK


-----------------------------------------------------------------------------
(* Steps of a process in one group                                          *)

\* The chains that a process that works on group g may change.
WorkChain(p, g, w) ==
  \/ w \in {NoOne, Free, Spare, NewChain(p), OldChain(p), GroupChain(g)}
  \/ \E k \in Key : w = DataChain(k) /\ Home(k) = g

\* It has locked no other group, and has that one before the step or after it.
WorkLocks(p, g, o) ==
  /\ modulus' = modulus /\ modValue' = modValue /\ header' = header
  /\ g \in 1..modulus
  /\ locked[g] \in {p, None} /\ (locked[g] = p \/ locked'[g] = p)
  /\ locked' \in [Group -> Proc \cup {None}]
  /\ \A h \in Group : h # g => locked[h] # p /\ locked'[h] = locked[h]
  /\ IF o.at \in Working THEN Home(o.key) = g /\ locked'[g] = p ELSE locked'[g] = None

\* What the step leaves as it is.
WorkSame(p, g, own, len, hd, nx, ct, spot, rec, own2, len2, hd2, nx2, ct2, spot2, rec2) ==
  /\ DOMAIN primary' = Group /\ DOMAIN overflow' = Block
  /\ store' \in [Key -> [size : Nat, data : Nat]]
  /\ \A h \in Group : h # g => primary'[h] = primary[h] /\ ct2[<<"p", h>>] = ct[<<"p", h>>]
  /\ \A w \in Owner : ~WorkChain(p, g, w) => len2[w] = len[w] /\ hd2[w] = hd[w]
  /\ \A b \in Block :
       IF WorkChain(p, g, own[b]) THEN WorkChain(p, g, own2[b])
       ELSE /\ own2[b] = own[b] /\ nx2[b] = nx[b] /\ ct2[<<"o", b>>] = ct[<<"o", b>>]
            /\ overflow'[b] = overflow[b]
  /\ \A q \in Proc : ct2[BufferOf(q)] = ct[BufferOf(q)]
  /\ \A k \in Key : Home(k) # g =>
       spot2[k] = spot[k] /\ rec2[k] = rec[k] /\ store'[k] = store[k]

\* The blocks on the disk, and the records of the group, after the step.
WorkBlocks(p, g, o, own2, hd2, nx2, ct2) ==
  /\ \A l \in Loc : InGroup(own2, l, g) /\ l \notin Held(o) =>
       BlockAt(l)' = GroupBlock(ct2[l], NextOf(hd2, nx2, l))
  /\ \A b \in Block :
       /\ own2[b] \in {Free, OldChain(p)} => overflow'[b].next = nx2[b]
       /\ own2[b] = NewChain(p) => overflow'[b] = DataBlock(o.key, nx2[b])
       /\ \A k \in Key : own2[b] = DataChain(k) /\ Home(k) = g => overflow'[b] = DataBlock(k, nx2[b])
WorkKeys(g, o, own2, len2, hd2, spot2, rec2) ==
  \A k \in Key : Home(k) = g =>
    /\ spot2[k] = Nowhere \/ InGroup(own2, spot2[k], g)
    /\ IF spot2[k] = Nowhere THEN len2[DataChain(k)] = 0 ELSE hd2[DataChain(k)] = rec2[k].head
    /\ \/ o.at \in Working /\ o.key = k
       \/ store'[k] = IF spot2[k] = Nowhere THEN Absent
                      ELSE [size |-> rec2[k].size, data |-> len2[DataChain(k)]]

LEMMA WorkFrame ==
  ASSUME NEW own, NEW len, NEW hd, NEW nx, NEW ct, NEW spot, NEW rec, NEW base,
         NEW own2, NEW len2, NEW hd2, NEW nx2, NEW ct2, NEW spot2, NEW rec2,
         NEW jb2, NEW o, NEW p \in Proc, NEW g \in Group,
         Good(job, own, len, hd, nx, ct, spot, rec, base),
         ~Moving(job, p), Becomes(job, jb2, p, o), o.at # "move", WorkLocks(p, g, o),
         WorkSame(p, g, own, len, hd, nx, ct, spot, rec, own2, len2, hd2, nx2, ct2, spot2, rec2),
         Chained(own2, len2, hd2, nx2), Placed(ct2, spot2, rec2), SpaceOK(jb2, own2, len2, hd2)',
         WorkBlocks(p, g, o, own2, hd2, nx2, ct2), WorkKeys(g, o, own2, len2, hd2, spot2, rec2),
         NewOK(jb2, p, len2, hd2), OldOK(jb2, p, len2, hd2),
         WorkOK(jb2, p, own2, len2, hd2, nx2, ct2, spot2, rec2)'
  PROVE  Good(jb2, own2, len2, hd2, nx2, ct2, spot2, rec2, base)'
  <1>g. /\ Chained(own, len, hd, nx) /\ Placed(ct, spot, rec)
        /\ ParamsOK(modulus, modValue) /\ modulus \in MinMod..MaxMod /\ modulus \in Group
        /\ header = None /\ locked \in [Group -> Proc \cup {None}] /\ None \notin Proc
        /\ job \in [Proc -> Job]
        /\ OneMover(job)
        /\ \A k \in Key : Home(k) \in 1..modulus /\ Home(k) \in Group
        /\ \A q \in Proc : JobOK(job, q, own, len, hd, nx, ct, spot, rec, base)
    BY GoodFacts
  <1>1. jb2 \in [Proc -> Job] /\ jb2[p] = o /\ \A q \in Proc : q # p => jb2[q] = job[q]
    BY DEF Becomes
  <1>2. \A h \in Group : Touched(p, h) <=> h = g
    BY <1>g DEF Touched, WorkLocks
  <1>3. \A k \in Key : Home(k)' = Home(k)
    BY DEF Home, WorkLocks
  <1>4. \A k \in Key : MineKey(p, k) <=> Home(k) = g
    BY <1>g, <1>2 DEF MineKey
  <1>5. \A w : WorkChain(p, g, w) => MineChain(p, w)
    BY <1>2, <1>4 DEF WorkChain, MineChain
  <1>6. \A w : MineChain(p, w) => WorkChain(p, g, w) \/ w \in {SourceChain(p), SourceBlock(p)}
    BY <1>2, <1>4 DEF WorkChain, MineChain
  <1>7. len[SourceChain(p)] = 0 /\ len[SourceBlock(p)] = 0
    BY <1>g DEF JobOK, MoveOK
  <1>8. \A b \in Block : own[b] # SourceChain(p) /\ own[b] # SourceBlock(p)
    <2>1. \A b \in Block : own[b] # NoOne => len[own[b]] # 0
      BY <1>g, ChainFacts
    <2>2. SourceChain(p) # NoOne /\ SourceBlock(p) # NoOne
      BY AllOwners
    <2> QED BY <1>7, <2>1, <2>2
  <1>9. \A b \in Block : MineChain(p, own[b]) <=> WorkChain(p, g, own[b])
    BY <1>5, <1>6, <1>8
  <1>10. ~Moving(jb2, p)
    BY <1>1 DEF Moving
  <1>11. \A q \in Proc : Moving(jb2, q) <=> Moving(job, q)
    BY <1>1, <1>10 DEF Moving
  <1>12. /\ ~WorkChain(p, g, SourceChain(p)) /\ ~WorkChain(p, g, SourceBlock(p))
         /\ len2[SourceChain(p)] = 0 /\ len2[SourceBlock(p)] = 0
    <2>1. ~WorkChain(p, g, SourceChain(p)) /\ ~WorkChain(p, g, SourceBlock(p))
      BY Kinds DEF WorkChain
    <2> QED BY <1>7, <2>1, AllOwners DEF WorkSame
  <1>13. \A b \in Block : own2[b] # SourceChain(p) /\ own2[b] # SourceBlock(p)
    <2>1. \A b \in Block : own2[b] # NoOne => len2[own2[b]] # 0
      BY ChainFacts
    <2>2. SourceChain(p) # NoOne /\ SourceBlock(p) # NoOne
      BY AllOwners
    <2> QED BY <1>12, <2>1, <2>2
  <1>14. \A h \in Group : h \in 1..modulus' <=> h \in 1..modulus
    BY DEF WorkLocks
  <1>15. Apart(p, jb2, own, len, hd, nx, ct, spot, rec, base, own2, len2, hd2, nx2, ct2, spot2, rec2, base)
    <2>1. \A w \in Owner : ~MineChain(p, w) => len2[w] = len[w] /\ hd2[w] = hd[w]
      BY <1>5 DEF WorkSame
    <2>2. \A b \in Block :
       IF MineChain(p, own[b]) THEN MineChain(p, own2[b])
       ELSE /\ own2[b] = own[b] /\ nx2[b] = nx[b] /\ ct2[<<"o", b>>] = ct[<<"o", b>>]
            /\ overflow'[b] = overflow[b]
      BY <1>5, <1>9 DEF WorkSame
    <2>3. \A h \in Group :
       IF Touched(p, h) THEN locked[h] \in {p, None} /\ locked'[h] \in {p, None}
       ELSE /\ ct2[<<"p", h>>] = ct[<<"p", h>>] /\ primary'[h] = primary[h]
            /\ locked'[h] = locked[h] /\ (h \in 1..modulus' <=> h \in 1..modulus)
      <3>1. locked[g] \in {p, None} /\ locked'[g] \in {p, None}
        BY DEF WorkLocks
      <3>2. \A h \in Group : h # g => /\ ct2[<<"p", h>>] = ct[<<"p", h>>] /\ primary'[h] = primary[h]
                                      /\ locked'[h] = locked[h]
        BY DEF WorkSame, WorkLocks
      <3> QED BY <1>2, <1>14, <3>1, <3>2
    <2>4. \A q \in Proc \ {p} :
       /\ jb2[q] = job[q] /\ base[q] = base[q] /\ ct2[BufferOf(q)] = ct[BufferOf(q)]
       /\ Moving(job, q) => modulus' = modulus
      BY <1>1 DEF WorkSame, WorkLocks
    <2>5. \A k \in Key : ~MineKey(p, k) =>
       spot2[k] = spot[k] /\ rec2[k] = rec[k] /\ store'[k] = store[k] /\ Home(k)' = Home(k)
      BY <1>3, <1>4 DEF WorkSame
    <2> QED BY <2>1, <2>2, <2>3, <2>4, <2>5 DEF Apart
  <1>16. FixedOK(jb2)'
    BY <1>g, <1>1 DEF FixedOK, ParamsOK, WorkSame, WorkLocks
  <1>17. OneMover(jb2)
    BY <1>g, <1>11 DEF OneMover
  <1>18. Held(jb2[p]) = Held(o)
    BY <1>1
  <1>19. ASSUME NEW h \in Group, Touched(p, h), h \in 1..modulus'
         PROVE  GroupOnDisk(jb2, h, hd2, ct2)'
    <2>1. h = g
      BY <1>2, <1>19
    <2>2. SUFFICES ASSUME Written(jb2, <<"p", g>>)
                   PROVE  primary'[g] = GroupBlock(ct2[<<"p", g>>], hd2[GroupChain(g)])
      BY <2>1 DEF GroupOnDisk, Written
    <2>3. <<"p", g>> \notin Held(o)
      BY <1>18, <2>2 DEF Written
    <2>4. <<"p", g>> \in Loc /\ InGroup(own2, <<"p", g>>, g)
      BY DEF Loc, InGroup
    <2>5. BlockAt(<<"p", g>>)' = GroupBlock(ct2[<<"p", g>>], NextOf(hd2, nx2, <<"p", g>>))
      BY <2>3, <2>4 DEF WorkBlocks
    <2> QED BY <2>5 DEF BlockAt, NextOf
  <1>20. ASSUME NEW b \in Block, MineChain(p, own2[b]) PROVE BlockOnDisk(jb2, b, own2, nx2, ct2)'
    <2>1. WorkChain(p, g, own2[b])
      BY <1>6, <1>13, <1>20
    <2>2. ASSUME Written(jb2, <<"o", b>>), own2[b][1] \in {"group", "source"}
          PROVE  overflow'[b] = GroupBlock(ct2[<<"o", b>>], nx2[b])
      <3>1. own2[b] = GroupChain(g)
        BY <2>1, <2>2, Kinds DEF WorkChain
      <3>2. <<"o", b>> \notin Held(o)
        BY <1>18, <2>2 DEF Written
      <3>3. <<"o", b>> \in Loc /\ InGroup(own2, <<"o", b>>, g)
        BY <3>1 DEF Loc, InGroup
      <3>4. BlockAt(<<"o", b>>)' = GroupBlock(ct2[<<"o", b>>], NextOf(hd2, nx2, <<"o", b>>))
        BY <3>2, <3>3 DEF WorkBlocks
      <3> QED BY <3>4 DEF BlockAt, NextOf
    <2>3. own2[b][1] \in {"free", "old"} => overflow'[b].next = nx2[b]
      <3>1. own2[b][1] \in {"free", "old"} => own2[b] \in {Free, OldChain(p)}
        BY <2>1, Kinds DEF WorkChain
      <3> QED BY <3>1 DEF WorkBlocks
    <2>4. ASSUME NEW k \in Key, own2[b] = DataChain(k)
          PROVE  overflow'[b] = DataBlock(k, nx2[b])
      <3>1. Home(k) = g
        <4>1. PICK k2 \in Key : own2[b] = DataChain(k2) /\ Home(k2) = g
          BY <2>1, <2>4, Kinds DEF WorkChain
        <4>2. DataChain(k)[2] = k /\ DataChain(k2)[2] = k2 /\ DataChain(k) = DataChain(k2)
          BY <2>4, <4>1 DEF DataChain
        <4>3. k2 = k
          BY <4>2
        <4> QED BY <4>1, <4>3
      <3> QED BY <2>4, <3>1 DEF WorkBlocks
    <2>5. ASSUME NEW q \in Proc, own2[b] = NewChain(q)
          PROVE  overflow'[b] = DataBlock(jb2[q].key, nx2[b])
      <3>1. q = p
        BY <2>1, <2>5, Kinds DEF WorkChain
      <3> QED BY <1>1, <2>5, <3>1 DEF WorkBlocks
    <2>6. Written(jb2, <<"o", b>>)' <=> Written(jb2, <<"o", b>>)
      BY DEF Written
    <2> QED BY <2>2, <2>3, <2>4, <2>5, <2>6 DEF BlockOnDisk
  <1>21. ASSUME NEW k \in Key, MineKey(p, k)
         PROVE  HomeOK(jb2, k, own2, spot2, base)' /\ StoreOK(jb2, k, len2, hd2, spot2, rec2)'
    <2>1. Home(k) = g /\ Home(k)' = g
      BY <1>3, <1>4, <1>21
    <2>2. HomeOK(jb2, k, own2, spot2, base)'
      BY <2>1 DEF HomeOK, WorkKeys
    <2>3. ~Busy(jb2, k) => ~(o.at \in Working /\ o.key = k)
      BY <1>1 DEF Busy
    <2>4. StoreOK(jb2, k, len2, hd2, spot2, rec2)'
      <3>1. IF spot2[k] = Nowhere THEN len2[DataChain(k)] = 0 ELSE hd2[DataChain(k)] = rec2[k].head
        BY <2>1 DEF WorkKeys
      <3>2. ~Busy(jb2, k) => store'[k] = IF spot2[k] = Nowhere THEN Absent
                                         ELSE [size |-> rec2[k].size, data |-> len2[DataChain(k)]]
        BY <2>1, <2>3 DEF WorkKeys
      <3> QED BY <3>1, <3>2 DEF StoreOK, Busy
    <2> QED BY <2>2, <2>4
  <1>22. JobOK(jb2, p, own2, len2, hd2, nx2, ct2, spot2, rec2, base)'
    <2>1. LocksOK(jb2, p, base)'
      <3>1. SUFFICES ASSUME NEW h \in Group
                     PROVE  locked'[h] = p <=> jb2[p].at \in Working /\ h = Home(jb2[p].key)'
        BY <1>10 DEF LocksOK, Moving
      <3>2. CASE o.at \in Working
        <4>1. o.key \in Key
          BY <3>2, JobTypes, WorkTypes DEF Becomes
        <4>2. Home(o.key)' = g /\ locked'[g] = p
          BY <1>3, <3>2, <4>1 DEF WorkLocks
        <4>3. Home(jb2[p].key)' = g
          BY <1>1, <4>2
        <4>4. h # g => locked'[h] # p
          BY DEF WorkLocks
        <4> QED BY <1>1, <3>2, <4>2, <4>3, <4>4
      <3>3. CASE o.at \notin Working
        <4>1. locked'[h] # p
          BY <1>g, <3>3 DEF WorkLocks
        <4> QED BY <1>1, <3>3, <4>1
      <3> QED BY <3>2, <3>3
    <2>2. NewOK(jb2, p, len2, hd2)' /\ OldOK(jb2, p, len2, hd2)'
      BY DEF NewOK, OldOK
    <2>3. MoveOK(jb2, p, own2, len2, hd2, nx2, ct2, base)'
      BY <1>10, <1>12 DEF MoveOK, Moving
    <2> QED BY <2>1, <2>2, <2>3 DEF JobOK
  <1> QED BY <1>15, <1>16, <1>17, <1>19, <1>20, <1>21, <1>22, Frame

-----------------------------------------------------------------------------
(* Steps of a process that has no group locked                              *)

PlainChain(p, w) == w \in {NoOne, Free, Spare, NewChain(p), OldChain(p)}
PlainJob(j) == j.at \notin Working /\ j.at # "move"
PlainSame(p, own, len, hd, nx, own2, len2, hd2, nx2) ==
  /\ modulus' = modulus /\ modValue' = modValue /\ header' = header
  /\ locked' = locked /\ store' = store /\ primary' = primary
  /\ DOMAIN overflow' = Block
  /\ \A w \in Owner : ~PlainChain(p, w) => len2[w] = len[w] /\ hd2[w] = hd[w]
  /\ \A b \in Block :
       IF PlainChain(p, own[b]) THEN PlainChain(p, own2[b])
       ELSE own2[b] = own[b] /\ nx2[b] = nx[b] /\ overflow'[b] = overflow[b]
PlainBlocks(p, o, own2, nx2) ==
  \A b \in Block :
    /\ own2[b] \in {Free, OldChain(p)} => overflow'[b].next = nx2[b]
    /\ own2[b] = NewChain(p) => overflow'[b] = DataBlock(o.key, nx2[b])

LEMMA PlainFrame ==
  ASSUME NEW own, NEW len, NEW hd, NEW nx, NEW ct, NEW spot, NEW rec, NEW base,
         NEW own2, NEW len2, NEW hd2, NEW nx2, NEW jb2, NEW o, NEW p \in Proc,
         Good(job, own, len, hd, nx, ct, spot, rec, base),
         Becomes(job, jb2, p, o), PlainJob(job[p]), PlainJob(o),
         PlainSame(p, own, len, hd, nx, own2, len2, hd2, nx2),
         Chained(own2, len2, hd2, nx2), SpaceOK(jb2, own2, len2, hd2)',
         PlainBlocks(p, o, own2, nx2), NewOK(jb2, p, len2, hd2), OldOK(jb2, p, len2, hd2)
  PROVE  Good(jb2, own2, len2, hd2, nx2, ct, spot, rec, base)'
  <1>g. /\ Chained(own, len, hd, nx) /\ Placed(ct, spot, rec)
        /\ ParamsOK(modulus, modValue) /\ modulus \in MinMod..MaxMod /\ modulus \in Group
        /\ header = None /\ locked \in [Group -> Proc \cup {None}] /\ None \notin Proc
        /\ job \in [Proc -> Job] /\ store \in [Key -> [size : Nat, data : Nat]]
        /\ OneMover(job) /\ DOMAIN primary = Group
        /\ \A k \in Key : Home(k) \in 1..modulus /\ Home(k) \in Group
        /\ \A q \in Proc : JobOK(job, q, own, len, hd, nx, ct, spot, rec, base)
    BY GoodFacts
  <1>1. jb2 \in [Proc -> Job] /\ jb2[p] = o /\ \A q \in Proc : q # p => jb2[q] = job[q]
    BY DEF Becomes
  <1>2. ~Moving(job, p) /\ ~Moving(jb2, p) /\ jb2[p].at \notin Working
    BY <1>1 DEF Moving, PlainJob
  <1>3. \A h \in Group : ~Touched(p, h)
    BY <1>g, <1>2 DEF Touched, JobOK, LocksOK, PlainJob, PlainSame
  <1>4. \A k \in Key : Home(k)' = Home(k)
    BY DEF Home, PlainSame
  <1>5. \A k \in Key : ~MineKey(p, k)
    BY <1>g, <1>3 DEF MineKey
  <1>6. \A w : MineChain(p, w) <=> PlainChain(p, w) \/ w \in {SourceChain(p), SourceBlock(p)}
    BY <1>3, <1>5 DEF PlainChain, MineChain
  <1>7. len[SourceChain(p)] = 0 /\ len[SourceBlock(p)] = 0
    BY <1>g, <1>2 DEF JobOK, MoveOK
  <1>8. \A b \in Block : own[b] # SourceChain(p) /\ own[b] # SourceBlock(p)
    <2>1. \A b \in Block : own[b] # NoOne => len[own[b]] # 0
      BY <1>g, ChainFacts
    <2>2. SourceChain(p) # NoOne /\ SourceBlock(p) # NoOne
      BY AllOwners
    <2> QED BY <1>7, <2>1, <2>2
  <1>11. \A q \in Proc : Moving(jb2, q) <=> Moving(job, q)
    BY <1>1, <1>2 DEF Moving
  <1>12. len2[SourceChain(p)] = 0 /\ len2[SourceBlock(p)] = 0
    <2>1. ~PlainChain(p, SourceChain(p)) /\ ~PlainChain(p, SourceBlock(p))
      BY Kinds DEF PlainChain
    <2> QED BY <1>7, <2>1, AllOwners DEF PlainSame
  <1>13. \A b \in Block : own2[b] # SourceChain(p) /\ own2[b] # SourceBlock(p)
    <2>1. \A b \in Block : own2[b] # NoOne => len2[own2[b]] # 0
      BY ChainFacts
    <2>2. SourceChain(p) # NoOne /\ SourceBlock(p) # NoOne
      BY AllOwners
    <2> QED BY <1>12, <2>1, <2>2
  <1>15. Apart(p, jb2, own, len, hd, nx, ct, spot, rec, base, own2, len2, hd2, nx2, ct, spot, rec, base)
    <2>1. \A w \in Owner : ~MineChain(p, w) => len2[w] = len[w] /\ hd2[w] = hd[w]
      BY <1>6 DEF PlainSame
    <2>2. \A b \in Block :
       IF MineChain(p, own[b]) THEN MineChain(p, own2[b])
       ELSE /\ own2[b] = own[b] /\ nx2[b] = nx[b] /\ ct[<<"o", b>>] = ct[<<"o", b>>]
            /\ overflow'[b] = overflow[b]
      BY <1>6, <1>8 DEF PlainSame
    <2>3. \A h \in Group :
       IF Touched(p, h) THEN locked[h] \in {p, None} /\ locked'[h] \in {p, None}
       ELSE /\ ct[<<"p", h>>] = ct[<<"p", h>>] /\ primary'[h] = primary[h]
            /\ locked'[h] = locked[h] /\ (h \in 1..modulus' <=> h \in 1..modulus)
      BY <1>3 DEF PlainSame
    <2>4. \A q \in Proc \ {p} :
       /\ jb2[q] = job[q] /\ base[q] = base[q] /\ ct[BufferOf(q)] = ct[BufferOf(q)]
       /\ Moving(job, q) => modulus' = modulus
      BY <1>1 DEF PlainSame
    <2>5. \A k \in Key : ~MineKey(p, k) =>
       spot[k] = spot[k] /\ rec[k] = rec[k] /\ store'[k] = store[k] /\ Home(k)' = Home(k)
      BY <1>4 DEF PlainSame
    <2> QED BY <2>1, <2>2, <2>3, <2>4, <2>5 DEF Apart
  <1>16. FixedOK(jb2)'
    BY <1>g, <1>1 DEF FixedOK, ParamsOK, PlainSame
  <1>17. OneMover(jb2)
    BY <1>g, <1>11 DEF OneMover
  <1>20. ASSUME NEW b \in Block, MineChain(p, own2[b]) PROVE BlockOnDisk(jb2, b, own2, nx2, ct)'
    <2>1. PlainChain(p, own2[b])
      BY <1>6, <1>13, <1>20
    <2>2. own2[b][1] \notin {"group", "source", "data"}
      BY <2>1, Kinds DEF PlainChain
    <2>3. own2[b][1] \in {"free", "old"} => overflow'[b].next = nx2[b]
      <3>1. own2[b][1] \in {"free", "old"} => own2[b] \in {Free, OldChain(p)}
        BY <2>1, Kinds DEF PlainChain
      <3> QED BY <3>1 DEF PlainBlocks
    <2>4. \A k \in Key : own2[b] # DataChain(k)
      BY <2>2, Kinds
    <2>5. ASSUME NEW q \in Proc, own2[b] = NewChain(q)
          PROVE  overflow'[b] = DataBlock(jb2[q].key, nx2[b])
      <3>1. q = p
        BY <2>1, <2>5, Kinds DEF PlainChain
      <3> QED BY <1>1, <2>5, <3>1 DEF PlainBlocks
    <2> QED BY <2>2, <2>3, <2>4, <2>5 DEF BlockOnDisk
  <1>22. JobOK(jb2, p, own2, len2, hd2, nx2, ct, spot, rec, base)'
    <2>1. LocksOK(jb2, p, base)'
      BY <1>2, <1>3 DEF LocksOK, Moving, Touched
    <2>2. NewOK(jb2, p, len2, hd2)' /\ OldOK(jb2, p, len2, hd2)'
      BY DEF NewOK, OldOK
    <2>3. MoveOK(jb2, p, own2, len2, hd2, nx2, ct, base)'
      BY <1>2, <1>12 DEF MoveOK, Moving
    <2>4. WorkOK(jb2, p, own2, len2, hd2, nx2, ct, spot, rec)'
      BY <1>2 DEF WorkOK
    <2> QED BY <2>1, <2>2, <2>3, <2>4 DEF JobOK
  <1> QED BY <1>g, <1>3, <1>5, <1>15, <1>16, <1>17, <1>20, <1>22, Frame

\* What the blocks in each chain have on the disk.
DiskIs(own, nx, ct) ==
  /\ \A b \in Block : own[b] = Free => overflow[b].next = nx[b]
  /\ \A b \in Block, p \in Proc : own[b] = OldChain(p) => overflow[b].next = nx[b]
  /\ \A b \in Block, p \in Proc : own[b] = NewChain(p) => overflow[b] = DataBlock(job[p].key, nx[b])
  /\ \A b \in Block, k \in Key : own[b] = DataChain(k) => overflow[b] = DataBlock(k, nx[b])
  /\ \A b \in Block, g \in Group : own[b] = GroupChain(g) /\ Written(job, <<"o", b>>) =>
       overflow[b] = GroupBlock(ct[<<"o", b>>], nx[b])
  /\ \A b \in Block, p \in Proc : own[b] = SourceChain(p) => overflow[b] = GroupBlock(ct[<<"o", b>>], nx[b])
LEMMA DiskFacts ==
  ASSUME NEW own, NEW len, NEW hd, NEW nx, NEW ct, NEW spot, NEW rec, NEW base,
         Good(job, own, len, hd, nx, ct, spot, rec, base)
  PROVE  DiskIs(own, nx, ct)
  <1>0. SUFFICES ASSUME NEW b \in Block
        PROVE  /\ own[b] = Free => overflow[b].next = nx[b]
               /\ \A p \in Proc : own[b] = OldChain(p) => overflow[b].next = nx[b]
               /\ \A p \in Proc : own[b] = NewChain(p) => overflow[b] = DataBlock(job[p].key, nx[b])
               /\ \A k \in Key : own[b] = DataChain(k) => overflow[b] = DataBlock(k, nx[b])
               /\ \A g \in Group : own[b] = GroupChain(g) /\ Written(job, <<"o", b>>) =>
                    overflow[b] = GroupBlock(ct[<<"o", b>>], nx[b])
               /\ \A p \in Proc : own[b] = SourceChain(p) =>
                    overflow[b] = GroupBlock(ct[<<"o", b>>], nx[b])
    BY DEF DiskIs
  <1>1. BlockOnDisk(job, b, own, nx, ct)
    BY GoodFacts
  <1>2. own[b] = Free => overflow[b].next = nx[b]
    <2>1. Free[1] = "free"
      BY Kinds
    <2> QED BY <1>1, <2>1 DEF BlockOnDisk
  <1>3. \A p \in Proc : own[b] = OldChain(p) => overflow[b].next = nx[b]
    <2>1. \A p \in Proc : OldChain(p)[1] = "old"
      BY Kinds
    <2> QED BY <1>1, <2>1 DEF BlockOnDisk
  <1>4. \A g \in Group : own[b] = GroupChain(g) /\ Written(job, <<"o", b>>) =>
           overflow[b] = GroupBlock(ct[<<"o", b>>], nx[b])
    <2>1. \A g \in Group : GroupChain(g)[1] = "group"
      BY Kinds
    <2> QED BY <1>1, <2>1 DEF BlockOnDisk
  <1>5. ASSUME NEW p \in Proc, own[b] = SourceChain(p)
        PROVE  overflow[b] = GroupBlock(ct[<<"o", b>>], nx[b])
    <2>1. own[b][1] = "source"
      BY <1>5, Kinds
    <2>2. Written(job, <<"o", b>>)
      <3>1. SUFFICES ASSUME NEW q \in Proc, <<"o", b>> \in Held(job[q]) PROVE FALSE
        BY DEF Written
      <3>2. PICK g \in Group : InGroup(own, <<"o", b>>, g)
        BY <3>1, HeldIsLocked
      <3>3. own[b] = GroupChain(g)
        BY <3>2 DEF InGroup
      <3>4. GroupChain(g)[1] = "group"
        BY Kinds
      <3> QED BY <2>1, <3>3, <3>4
    <2> QED BY <1>1, <2>1, <2>2 DEF BlockOnDisk
  <1> QED BY <1>1, <1>2, <1>3, <1>4, <1>5 DEF BlockOnDisk

\* FreeData: a chain goes in front of the free chain.
LEMMA GiveData ==
  ASSUME NEW own, NEW len, NEW hd, NEW nx, Chained(own, len, hd, nx), DOMAIN overflow = Block,
         NEW A \in Owner, A # Free, hd[A] # 0, \A b \in Block : own[b] = A => overflow[b].next = nx[b],
         freeChain = hd[Free], FreeData(hd[A])
  PROVE  /\ UNCHANGED <<primary, extent, flushed>> /\ DOMAIN overflow' = Block
         /\ \E own2, len2, hd2, nx2 :
              /\ Chained(own2, len2, hd2, nx2)
              /\ \A b \in Block : own2[b] = IF own[b] = A THEN Free ELSE own[b]
              /\ \A b \in Block : IF own[b] = A THEN overflow'[b].next = nx2[b]
                                  ELSE nx2[b] = nx[b] /\ overflow'[b] = overflow[b]
              /\ len2[A] = 0 /\ hd2[A] = 0 /\ freeChain' = hd2[Free]
              /\ \A w \in Owner : w # A /\ w # Free => len2[w] = len[w] /\ hd2[w] = hd[w]
  <1>1. PICK c : c = Chain(hd[A])
    OBVIOUS
  <1>2. Enumerates(c, A, own, len, hd, nx)
    BY <1>1, ChainSeq
  <1>3. Len(c) # 0 /\ Len(c) \in Nat
    <2>1. len[A] # 0
      BY ChainFacts
    <2> QED BY <1>2, <2>1 DEF Enumerates
  <1>4. PICK z : z = c[Len(c)]
    OBVIOUS
  <1>5. z \in Block /\ own[z] = A /\ nx[z] = 0 /\ Last(c) = z
    BY <1>2, <1>3, <1>4 DEF Enumerates, Last
  <1>6. \A b \in Block : b \in Range(c) <=> own[b] = A
    BY <1>2 DEF Enumerates, Range
  <1>7. /\ UNCHANGED <<primary, extent, flushed>> /\ freeChain' = hd[A]
        /\ overflow' = [b \in Block |->
            IF b \in Range(c)
            THEN GroupBlock(<<>>, IF b = Last(c) THEN freeChain ELSE overflow[b].next)
            ELSE overflow[b]]
    BY <1>1 DEF FreeData
  <1>8. PICK own2, len2, hd2, nx2 :
           /\ Chained(own2, len2, hd2, nx2)
           /\ \A b \in Block : own2[b] = IF own[b] = A THEN Free ELSE own[b]
           /\ \A b \in Block : nx2[b] = IF b = z THEN hd[Free] ELSE nx[b]
           /\ len2[A] = 0 /\ hd2[A] = 0 /\ hd2[Free] = hd[A]
           /\ \A w \in Owner : w # A /\ w # Free => len2[w] = len[w] /\ hd2[w] = hd[w]
    <2>1. Free \in Owner /\ A # Free /\ z \in Block /\ own[z] = A /\ nx[z] = 0 /\ Chained(own, len, hd, nx)
      BY <1>5, AllOwners
    <2> QED BY ONLY <2>1, A \in Owner, GiveBack
  <1>9. \A b \in Block : IF own[b] = A THEN overflow'[b].next = nx2[b]
                         ELSE nx2[b] = nx[b] /\ overflow'[b] = overflow[b]
    BY <1>5, <1>6, <1>7, <1>8 DEF GroupBlock
  <1> QED BY <1>7, <1>8, <1>9

\* The header on the disk, when it is not written; when a block is taken; and
\* when the copy of it, or what is in memory now, is written.
LEMMA HeaderKept ==
  ASSUME NEW own, NEW own2, NEW jb1, NEW jb2, HeaderOK(jb1, own), flushed' = flushed,
         (\E q \in Proc : jb1[q].at = "flush") => \E q \in Proc : jb2[q].at = "flush",
         \A b \in Block : own[b] = Free => own2[b] = Free
  PROVE  HeaderOK(jb2, own2)'
  <1>1. onDisk' = onDisk /\ image' = image /\ late' = late /\ stale' = stale
    BY DEF flushed
  <1> QED BY <1>1 DEF HeaderOK, NamesFree
LEMMA HeaderTaken ==
  ASSUME NEW own, NEW own2, NEW jb1, NEW jb2, HeaderOK(jb1, own), Outdated, UNCHANGED image,
         NamesFree(onDisk, own2)' \/ \E q \in Proc : jb2[q].at = "flush"
  PROVE  HeaderOK(jb2, own2)'
  BY DEF HeaderOK, Outdated, Copied
LEMMA HeaderPut ==
  ASSUME NEW own, NEW jb1, NEW jb2, NEW p \in Proc, HeaderOK(jb1, own), PutHeader(p),
         NamesFree(freeChain, own)
  PROVE  HeaderOK(jb2, own)'
  <1>1. /\ onDisk' = (IF image[p] = NoImage THEN freeChain ELSE image[p])
        /\ stale' = (p \in late) /\ late' = late \ {p}
        /\ image' = [image EXCEPT ![p] = NoImage]
    BY DEF PutHeader
  <1>2. NamesFree(onDisk, own)' \/ stale'
    <2>1. CASE p \in late
      BY <1>1, <2>1
    <2>2. CASE p \notin late
      BY <1>1, <2>2 DEF HeaderOK, NamesFree
    <2> QED BY <2>1, <2>2
  <1>3. \A q \in Proc : image'[q] = NoImage \/ q \in late' \/ NamesFree(image[q], own)'
    <2>1. SUFFICES ASSUME NEW q \in Proc, q # p
                   PROVE  image'[q] = NoImage \/ q \in late' \/ NamesFree(image[q], own)'
      BY <1>1 DEF HeaderOK
    <2>2. image'[q] = image[q] /\ (q \in late => q \in late')
      BY <1>1, <2>1
    <2> QED BY <2>2 DEF HeaderOK, NamesFree
  <1> QED BY <1>1, <1>2, <1>3 DEF HeaderOK
LEMMA HeadFree ==
  ASSUME NEW own, NEW len, NEW hd, NEW nx, Chained(own, len, hd, nx), freeChain = hd[Free]
  PROVE  NamesFree(freeChain, own)
  BY ChainFacts, AllOwners DEF NamesFree

LEMMA FlushHeaderStep ==
  ASSUME IInv, NEW p \in Proc, FlushHeader(p)
  PROVE  IInv'
  <1>1. PICK own, len, hd, nx, ct, spot, rec, base : Good(job, own, len, hd, nx, ct, spot, rec, base)
    BY DEF IInv
  <1>2. PICK jb2 : jb2 = job'
    OBVIOUS
  <1>g. /\ Chained(own, len, hd, nx) /\ job \in [Proc -> Job] /\ DOMAIN overflow = Block
        /\ SpaceOK(job, own, len, hd)
        /\ \A b \in Block : BlockOnDisk(job, b, own, nx, ct)
        /\ \A q \in Proc : JobOK(job, q, own, len, hd, nx, ct, spot, rec, base)
    BY <1>1, GoodFacts
  <1>3. PICK j \in DataJob : j = job[p] /\ j.at = "flush"
    BY <1>g, JobTypes DEF FlushHeader, At
  <1>4. PICK o : o = [j EXCEPT !.at = "place"]
    OBVIOUS
  <1>5. o \in DataJob /\ o.at = "place" /\ o.key = j.key /\ o.data = j.data /\ o.head = j.head
    BY <1>3, <1>4 DEF DataJob
  <1>6. jb2 = [job EXCEPT ![p] = o]
    BY <1>2, <1>3, <1>4 DEF FlushHeader, Do
  <1>7. Becomes(job, jb2, p, o)
    BY <1>g, <1>5, <1>6 DEF Becomes, Job
  <1>8. /\ UNCHANGED <<modulus, modValue, primary, overflow, extent, freeChain, locked, header, store>>
        /\ PutHeader(p)
    BY DEF FlushHeader, blocks
  <1>9. PlainJob(job[p]) /\ PlainJob(o) /\ jb2[p] = o
    BY <1>g, <1>3, <1>5, <1>6 DEF PlainJob, Working
  <1>10. PlainSame(p, own, len, hd, nx, own, len, hd, nx)
    BY <1>g, <1>8 DEF PlainSame
  <1>11. SpaceOK(jb2, own, len, hd)'
    <2>1. HeaderOK(job, own) /\ freeChain = hd[Free]
      BY <1>g DEF SpaceOK
    <2>2. HeaderOK(jb2, own)'
      BY <1>g, <1>8, <2>1, HeadFree, HeaderPut
    <2> QED BY <1>g, <1>8, <2>2 DEF SpaceOK
  <1>12. PlainBlocks(p, o, own, nx)
    <2>1. DiskIs(own, nx, ct)
      BY <1>1, DiskFacts
    <2>2. o.key = job[p].key
      BY <1>3, <1>5
    <2> QED BY <1>8, <2>1, <2>2 DEF PlainBlocks, DiskIs
  <1>13. NewOK(jb2, p, len, hd) /\ OldOK(jb2, p, len, hd)
    <2>1. NewOK(job, p, len, hd) /\ OldOK(job, p, len, hd)
      BY <1>g DEF JobOK
    <2> QED BY <1>3, <1>5, <1>9, <2>1 DEF NewOK, OldOK, Working
  <1>14. Good(jb2, own, len, hd, nx, ct, spot, rec, base)'
    BY <1>1, <1>g, <1>7, <1>9, <1>10, <1>11, <1>12, <1>13, PlainFrame
  <1>15. GoodAfter(jb2)
    BY <1>14 DEF GoodAfter
  <1> QED BY <1>2, <1>15, AfterIs

\* Full disks: what comes of them in the middle of an update is left out.
NeverFull == Ops \cap {"fullsplit", "fullreplace", "fullresize", "fulldata"} = {}

LEMMA FreeOldDataStep ==
  ASSUME IInv, NEW p \in Proc, FreeOldData(p)
  PROVE  IInv'
  <1>1. PICK own, len, hd, nx, ct, spot, rec, base : Good(job, own, len, hd, nx, ct, spot, rec, base)
    BY DEF IInv
  <1>2. PICK jb2 : jb2 = job'
    OBVIOUS
  <1>g. /\ Chained(own, len, hd, nx) /\ job \in [Proc -> Job] /\ DOMAIN overflow = Block
        /\ SpaceOK(job, own, len, hd)
        /\ JobOK(job, p, own, len, hd, nx, ct, spot, rec, base)
    BY <1>1, GoodFacts
  <1>3. job[p].at = "freedata" /\ job[p].old \in Nat \ {0} /\ job[p].old = hd[OldChain(p)]
    <2>1. job[p] \in [at : {"freedata"}, old : Nat \ {0}]
      BY <1>g, JobTypes DEF FreeOldData, At
    <2>2. OldOK(job, p, len, hd)
      BY <1>g DEF JobOK
    <2> QED BY <2>1, <2>2 DEF OldOK
  <1>4. Becomes(job, jb2, p, Idle)
    BY <1>2, <1>g DEF FreeOldData, Do, Becomes, Job
  <1>5. UNCHANGED <<modulus, modValue, locked, header, store>>
    BY DEF FreeOldData
  <1>6. DiskIs(own, nx, ct)
    BY <1>1, DiskFacts
  <1>7. PICK A : A = OldChain(p)
    OBVIOUS
  <1>8. A \in Owner /\ A # Free /\ A # Spare /\ A # NewChain(p) /\ A # NoOne
    BY <1>7, AllOwners, Kinds
  <1>9. /\ hd[A] # 0 /\ \A b \in Block : own[b] = A => overflow[b].next = nx[b]
        /\ freeChain = hd[Free] /\ FreeData(hd[A])
    BY <1>3, <1>6, <1>7, <1>g DEF DiskIs, SpaceOK, FreeOldData
  <1>10. /\ UNCHANGED <<primary, extent, flushed>> /\ DOMAIN overflow' = Block
         /\ \E own2, len2, hd2, nx2 :
              /\ Chained(own2, len2, hd2, nx2)
              /\ \A b \in Block : own2[b] = IF own[b] = A THEN Free ELSE own[b]
              /\ \A b \in Block : IF own[b] = A THEN overflow'[b].next = nx2[b]
                                  ELSE nx2[b] = nx[b] /\ overflow'[b] = overflow[b]
              /\ len2[A] = 0 /\ hd2[A] = 0 /\ freeChain' = hd2[Free]
              /\ \A w \in Owner : w # A /\ w # Free => len2[w] = len[w] /\ hd2[w] = hd[w]
    BY ONLY <1>g, <1>8, <1>9, GiveData
  <1>11. PICK own2, len2, hd2, nx2 :
              /\ Chained(own2, len2, hd2, nx2)
              /\ \A b \in Block : own2[b] = IF own[b] = A THEN Free ELSE own[b]
              /\ \A b \in Block : IF own[b] = A THEN overflow'[b].next = nx2[b]
                                  ELSE nx2[b] = nx[b] /\ overflow'[b] = overflow[b]
              /\ len2[A] = 0 /\ hd2[A] = 0 /\ freeChain' = hd2[Free]
              /\ \A w \in Owner : w # A /\ w # Free => len2[w] = len[w] /\ hd2[w] = hd[w]
    BY <1>10
  <1>12. jb2[p] = Idle /\ PlainJob(job[p]) /\ PlainJob(Idle)
    BY <1>3, <1>4 DEF Becomes, PlainJob, Idle, Working
  <1>13. PlainSame(p, own, len, hd, nx, own2, len2, hd2, nx2)
    <2>1. \A w \in Owner : ~PlainChain(p, w) => len2[w] = len[w] /\ hd2[w] = hd[w]
      BY <1>7, <1>11 DEF PlainChain
    <2>2. \A b \in Block :
       IF PlainChain(p, own[b]) THEN PlainChain(p, own2[b])
       ELSE own2[b] = own[b] /\ nx2[b] = nx[b] /\ overflow'[b] = overflow[b]
      BY <1>7, <1>11 DEF PlainChain
    <2> QED BY <1>5, <1>10, <2>1, <2>2 DEF PlainSame
  <1>14. SpaceOK(jb2, own2, len2, hd2)'
    <2>1. SpaceOK(job, own, len, hd)
      BY <1>g
    <2>2. extent' = extent /\ flushed' = flushed /\ modulus' = modulus
      BY <1>5, <1>10
    <2>3. len2[Spare] = 0
      BY <1>8, <1>11, <2>1, AllOwners, Kinds DEF SpaceOK
    <2>4. \A b \in Block : own2[b] = NoOne <=> own[b] = NoOne
      BY <1>8, <1>11, AllOwners
    <2>5. \A g \in Group : g > modulus => len2[GroupChain(g)] = 0
      <3>1. \A g \in Group : GroupChain(g) \in Owner /\ GroupChain(g) # A /\ GroupChain(g) # Free
        BY <1>7, AllOwners, Kinds
      <3> QED BY <1>11, <2>1, <3>1 DEF SpaceOK
    <2>6. (\E q \in Proc : job[q].at = "flush") => \E q \in Proc : jb2[q].at = "flush"
      BY <1>3, <1>4 DEF Becomes
    <2>7. \A b \in Block : own[b] = Free => own2[b] = Free
      BY <1>11
    <2>8. \A b \in Block : own2[b] = NoOne <=> b > extent
      BY <2>1, <2>4 DEF SpaceOK
    <2>9. HeaderOK(jb2, own2)'
      BY <2>1, <2>2, <2>6, <2>7, HeaderKept DEF SpaceOK
    <2>10. extent \in 0..MaxBlock
      BY <2>1 DEF SpaceOK
    <2> QED BY <1>11, <2>2, <2>3, <2>5, <2>8, <2>9, <2>10 DEF SpaceOK
  <1>15. PlainBlocks(p, Idle, own2, nx2)
    <2>1. len2[NewChain(p)] = 0
      <3>1. NewOK(job, p, len, hd)
        BY <1>g DEF JobOK
      <3>2. len[NewChain(p)] = 0
        BY <1>3, <3>1 DEF NewOK
      <3> QED BY <1>8, <1>11, <3>2, AllOwners, Kinds
    <2>2. \A b \in Block : own2[b] # NewChain(p)
      BY <1>11, <2>1, ChainFacts, AllOwners
    <2>3. ASSUME NEW b \in Block, own2[b] \in {Free, OldChain(p)} PROVE overflow'[b].next = nx2[b]
      <3>1. CASE own[b] = A
        BY <1>11, <3>1
      <3>2. CASE own[b] # A
        BY <1>6, <1>7, <1>11, <2>3, <3>2 DEF DiskIs
      <3> QED BY <3>1, <3>2
    <2> QED BY <2>2, <2>3 DEF PlainBlocks
  <1>16. NewOK(jb2, p, len2, hd2) /\ OldOK(jb2, p, len2, hd2)
    <2>1. NewOK(job, p, len, hd)
      BY <1>g DEF JobOK
    <2>2. len[NewChain(p)] = 0
      BY <1>3, <2>1 DEF NewOK
    <2>3. len2[NewChain(p)] = 0
      BY <1>8, <1>11, <2>2, AllOwners, Kinds
    <2> QED BY <1>7, <1>11, <1>12, <2>3 DEF NewOK, OldOK, Idle, Working
  <1>17. Good(jb2, own2, len2, hd2, nx2, ct, spot, rec, base)'
    BY ONLY <1>1, p \in Proc, <1>4, <1>11, <1>12, <1>13, <1>14, <1>15, <1>16, PlainFrame
  <1>18. GoodAfter(jb2)
    BY <1>17 DEF GoodAfter
  <1> QED BY <1>2, <1>18, AfterIs

\* A process that has no groups and no data does nothing but flush the header.
LEMMA LeaveStep ==
  ASSUME IInv, NEW p \in Proc, job[p].at \in {"idle", "leave"},
         NEW o \in {Idle, [at |-> "leave"]}, Do(p, o),
         UNCHANGED <<modulus, modValue, blocks, extent, freeChain, locked, header, store>>,
         \A jb, own : jb = job' /\ HeaderOK(job, own) /\ NamesFree(freeChain, own) => HeaderOK(jb, own)'
  PROVE  IInv'
  <1>1. PICK own, len, hd, nx, ct, spot, rec, base : Good(job, own, len, hd, nx, ct, spot, rec, base)
    BY DEF IInv
  <1>2. PICK jb2 : jb2 = job'
    OBVIOUS
  <1>g. /\ Chained(own, len, hd, nx) /\ job \in [Proc -> Job] /\ DOMAIN overflow = Block
        /\ SpaceOK(job, own, len, hd)
        /\ JobOK(job, p, own, len, hd, nx, ct, spot, rec, base)
    BY <1>1, GoodFacts
  <1>3. DiskIs(own, nx, ct)
    BY <1>1, DiskFacts
  <1>4. o \in Job /\ o.at \in {"idle", "leave"}
    BY DEF Job, Idle
  <1>5. Becomes(job, jb2, p, o) /\ jb2[p] = o
    BY <1>2, <1>4, <1>g DEF Becomes, Do
  <1>6. PlainJob(job[p]) /\ PlainJob(o)
    BY <1>4 DEF PlainJob, Working
  <1>7. UNCHANGED <<modulus, modValue, primary, overflow, extent, freeChain, locked, header, store>>
    BY DEF blocks
  <1>8. PlainSame(p, own, len, hd, nx, own, len, hd, nx)
    BY <1>g, <1>7 DEF PlainSame
  <1>9. SpaceOK(jb2, own, len, hd)'
    <2>1. HeaderOK(job, own) /\ freeChain = hd[Free]
      BY <1>g DEF SpaceOK
    <2>2. HeaderOK(jb2, own)'
      BY <1>2, <1>g, <2>1, HeadFree
    <2> QED BY <1>7, <1>g, <2>2 DEF SpaceOK
  <1>10. len[NewChain(p)] = 0 /\ len[OldChain(p)] = 0
    BY <1>g DEF JobOK, NewOK, OldOK, Working
  <1>11. NewOK(jb2, p, len, hd) /\ OldOK(jb2, p, len, hd)
    BY <1>4, <1>5, <1>10 DEF NewOK, OldOK, Working
  <1>12. PlainBlocks(p, o, own, nx)
    <2>1. \A b \in Block : own[b] # NewChain(p)
      BY <1>g, <1>10, ChainFacts, AllOwners
    <2> QED BY <1>3, <1>7, <2>1 DEF PlainBlocks, DiskIs
  <1>13. Good(jb2, own, len, hd, nx, ct, spot, rec, base)'
    BY ONLY <1>1, p \in Proc, <1>g, <1>5, <1>6, <1>8, <1>9, <1>11, <1>12, PlainFrame
  <1>14. GoodAfter(jb2)
    BY <1>13 DEF GoodAfter
  <1> QED BY <1>2, <1>14, AfterIs

LEMMA DataFailsStep ==
  ASSUME NeverFull, IInv, NEW p \in Proc, NEW n \in Data, DataFails(p, n)
  PROVE  IInv'
  <1>1. PICK own, len, hd, nx, ct, spot, rec, base : Good(job, own, len, hd, nx, ct, spot, rec, base)
    BY DEF IInv
  <1>g. /\ Chained(own, len, hd, nx) /\ job \in [Proc -> Job] /\ DOMAIN overflow = Block
        /\ SpaceOK(job, own, len, hd) /\ MaxBlock \in Nat
        /\ JobOK(job, p, own, len, hd, nx, ct, spot, rec, base)
    BY <1>1, GoodFacts
  <1>3. DiskIs(own, nx, ct)
    BY <1>1, DiskFacts
  <1>4. freeChain = hd[Free] /\ Enumerates(Chain(hd[Free]), Free, own, len, hd, nx)
    <2>1. Free \in Owner /\ \A b \in Block : own[b] = Free => overflow[b].next = nx[b]
      BY <1>3, AllOwners DEF DiskIs
    <2>2. Enumerates(Chain(hd[Free]), Free, own, len, hd, nx)
      BY ONLY <1>g, <2>1, ChainSeq
    <2> QED BY <1>g, <2>2 DEF SpaceOK
  <1>5. BlocksLeft = len[Free] + (MaxBlock - extent) /\ extent \in 0..MaxBlock /\ len[Free] \in Nat
    BY <1>4, <1>g, ChainFacts, AllOwners DEF BlocksLeft, Enumerates, SpaceOK
  <1>6. BlocksLeft = 0
    BY DEF NeverFull, DataFails
  <1>7. len[Free] = 0 /\ extent = MaxBlock /\ hd[Free] = 0
    <2>1. len[Free] = 0 /\ extent = MaxBlock
      BY <1>g, <1>5, <1>6
    <2> QED BY <1>g, <2>1, ChainFacts, AllOwners
  <1>8. /\ job[p].at = "idle" /\ Do(p, [at |-> "leave"])
        /\ modulus' = modulus /\ modValue' = modValue /\ blocks' = blocks
        /\ locked' = locked /\ header' = header /\ store' = store
        /\ freeChain' = 0 /\ extent' = MaxBlock
    BY <1>6 DEF DataFails, At
  <1>9. flushed' = flushed
    BY <1>6 DEF DataFails, flushed
  <1>10. UNCHANGED <<modulus, modValue, blocks, extent, freeChain, locked, header, store>>
    BY <1>4, <1>7, <1>8
  <1>11. ASSUME NEW jb, jb = job', NEW own2, HeaderOK(job, own2)
         PROVE  HeaderOK(jb, own2)'
    <2>1. (\E q \in Proc : job[q].at = "flush") => \E q \in Proc : jb[q].at = "flush"
      BY <1>8, <1>11, <1>g DEF Do
    <2> QED BY <1>9, <1>11, <2>1, HeaderKept
  <1> QED BY <1>8, <1>10, <1>11, LeaveStep

LEMMA CloseFileStep ==
  ASSUME IInv, NEW p \in Proc, CloseFile(p)
  PROVE  IInv'
  <1>1. /\ job[p].at = "idle" /\ Do(p, [at |-> "leave"]) /\ flushed' = flushed
        /\ UNCHANGED <<modulus, modValue, blocks, extent, freeChain, locked, header, store>>
    BY DEF CloseFile, At, space
  <1>2. job \in [Proc -> Job]
    BY GoodFacts DEF IInv
  <1>3. ASSUME NEW jb2, jb2 = job', NEW own, HeaderOK(job, own)
        PROVE  HeaderOK(jb2, own)'
    <2>1. (\E q \in Proc : job[q].at = "flush") => \E q \in Proc : jb2[q].at = "flush"
      BY <1>1, <1>2, <1>3 DEF Do
    <2> QED BY <1>1, <1>3, <2>1, HeaderKept
  <1> QED BY <1>1, <1>3, LeaveStep

LEMMA LeaveFileStep ==
  ASSUME IInv, NEW p \in Proc, LeaveFile(p)
  PROVE  IInv'
  <1>1. /\ job[p].at = "leave" /\ Do(p, Idle) /\ PutHeader(p)
        /\ UNCHANGED <<modulus, modValue, blocks, extent, freeChain, locked, header, store>>
    BY DEF LeaveFile, At
  <1>2. ASSUME NEW jb2, jb2 = job', NEW own, HeaderOK(job, own), NamesFree(freeChain, own)
        PROVE  HeaderOK(jb2, own)'
    BY <1>1, <1>2, HeaderPut
  <1> QED BY <1>1, <1>2, LeaveStep

LEMMA WriteDataStep ==
  ASSUME IInv, NEW p \in Proc, NEW k \in Key, NEW n \in Data, WriteData(p, k, LargeSize, n)
  PROVE  IInv'
  <1>1. PICK own, len, hd, nx, ct, spot, rec, base : Good(job, own, len, hd, nx, ct, spot, rec, base)
    BY DEF IInv
  <1>2. PICK jb2 : jb2 = job'
    OBVIOUS
  <1>g. /\ Chained(own, len, hd, nx) /\ job \in [Proc -> Job] /\ DOMAIN overflow = Block
        /\ SpaceOK(job, own, len, hd) /\ MaxBlock \in Nat
        /\ JobOK(job, p, own, len, hd, nx, ct, spot, rec, base)
    BY <1>1, GoodFacts
  <1>3. DiskIs(own, nx, ct)
    BY <1>1, DiskFacts
  <1>4. freeChain = hd[Free] /\ Enumerates(Chain(hd[Free]), Free, own, len, hd, nx)
    <2>1. Free \in Owner /\ \A b \in Block : own[b] = Free => overflow[b].next = nx[b]
      BY <1>3, AllOwners DEF DiskIs
    <2>2. Enumerates(Chain(hd[Free]), Free, own, len, hd, nx)
      BY ONLY <1>g, <2>1, ChainSeq
    <2> QED BY <1>g, <2>2 DEF SpaceOK
  <1>5. PICK c : c = Chain(freeChain)
    OBVIOUS
  <1>6. Enumerates(c, Free, own, len, hd, nx)
    BY <1>4, <1>5
  <1>7. job[p] = Idle
    BY <1>g, JobTypes DEF WriteData, At
  <1>8. n \in Nat \ {0} /\ n <= Len(c) + (MaxBlock - extent)
    BY <1>5, DHBlocksAssumption DEF WriteData, BlocksLeft
  <1>9. PICK got : got = [i \in 1..n |-> IF i <= Len(c) THEN c[i] ELSE extent + i - Len(c)]
    OBVIOUS
  <1>10. Drawn(got, n, c, extent)
    BY <1>9 DEF Drawn
  <1>11. PICK B : B = NewChain(p)
    OBVIOUS
  <1>12. B \in Owner /\ B # Free /\ B # Spare /\ B # NoOne /\ B # OldChain(p)
    BY <1>11, AllOwners, Kinds
  <1>13. len[B] = 0
    <2>1. NewOK(job, p, len, hd)
      BY <1>g DEF JobOK
    <2> QED BY <1>7, <1>11, <2>1 DEF NewOK, Idle, Working
  <1>14. extent \in 0..MaxBlock /\ \A b \in Block : own[b] = NoOne <=> b > extent
    BY <1>g DEF SpaceOK
  <1>14a. DataTaken(own, len, hd, nx, B, extent, c, n, got)
    BY ONLY <1>g, <1>6, <1>8, <1>10, <1>12, <1>13, <1>14, TakeMany
  <1>15. /\ \A i \in 1..n : got[i] \in Block /\ own[got[i]] \in {Free, NoOne}
         /\ \A i, j \in 1..n : got[i] = got[j] => i = j
         /\ \A b \in Block : b <= extent /\ own[b] # Free => \A i \in 1..n : got[i] # b
         /\ \A b \in Block : b > (IF n > Len(c) THEN extent + n - Len(c) ELSE extent) <=>
              own[b] = NoOne /\ \A i \in 1..n : got[i] # b
         /\ \E own2, len2, hd2, nx2 :
              /\ Chained(own2, len2, hd2, nx2)
              /\ \A b \in Block : own2[b] = IF \E i \in 1..n : got[i] = b THEN B ELSE own[b]
              /\ \A i \in 1..n : nx2[got[i]] = IF i < n THEN got[i + 1] ELSE 0
              /\ \A b \in Block : (\A i \in 1..n : got[i] # b) => nx2[b] = nx[b]
              /\ len2[B] = n /\ hd2[B] = got[1]
              /\ hd2[Free] = IF n < Len(c) THEN c[n + 1] ELSE 0
              /\ \A o \in Owner : o # Free /\ o # B => len2[o] = len[o] /\ hd2[o] = hd[o]
    BY <1>14a DEF DataTaken
  <1>16. PICK own2, len2, hd2, nx2 :
              /\ Chained(own2, len2, hd2, nx2)
              /\ \A b \in Block : own2[b] = IF \E i \in 1..n : got[i] = b THEN B ELSE own[b]
              /\ \A i \in 1..n : nx2[got[i]] = IF i < n THEN got[i + 1] ELSE 0
              /\ \A b \in Block : (\A i \in 1..n : got[i] # b) => nx2[b] = nx[b]
              /\ len2[B] = n /\ hd2[B] = got[1]
              /\ hd2[Free] = IF n < Len(c) THEN c[n + 1] ELSE 0
              /\ \A o \in Owner : o # Free /\ o # B => len2[o] = len[o] /\ hd2[o] = hd[o]
    BY <1>15
  <1>17. PICK o : o = [at |-> "flush", key |-> k, size |-> LargeSize, data |-> n, head |-> got[1]]
    OBVIOUS
  <1>18. /\ freeChain' = (IF n < Len(c) THEN c[n + 1] ELSE 0)
         /\ extent' = (IF n > Len(c) THEN extent + n - Len(c) ELSE extent)
         /\ jb2 = [job EXCEPT ![p] = o]
         /\ modulus' = modulus /\ modValue' = modValue /\ primary' = primary
         /\ Outdated /\ image' = image
         /\ locked' = locked /\ header' = header /\ store' = store
    BY <1>2, <1>5, <1>9, <1>17 DEF WriteData, Do
  <1>19. /\ overflow' = [b \in Block |->
             IF b \in Range(got)
             THEN DataBlock(k, LET i == CHOOSE x \in 1..n : got[x] = b
                               IN IF i < n THEN got[i + 1] ELSE 0)
             ELSE overflow[b]]
    BY <1>5, <1>9 DEF WriteData
  <1>20. \A b \in Block : IF \E i \in 1..n : got[i] = b THEN overflow'[b] = DataBlock(k, nx2[b])
                          ELSE overflow'[b] = overflow[b]
    <2>1. SUFFICES ASSUME NEW b \in Block
                   PROVE  IF \E i \in 1..n : got[i] = b THEN overflow'[b] = DataBlock(k, nx2[b])
                          ELSE overflow'[b] = overflow[b]
      OBVIOUS
    <2>2. b \in Range(got) <=> \E i \in 1..n : got[i] = b
      BY <1>9 DEF Range
    <2>3. CASE \E i \in 1..n : got[i] = b
      <3>1. PICK i : i = CHOOSE x \in 1..n : got[x] = b
        OBVIOUS
      <3>2. i \in 1..n /\ got[i] = b
        BY <2>3, <3>1
      <3>3. overflow'[b] = DataBlock(k, IF i < n THEN got[i + 1] ELSE 0)
        BY <1>19, <2>2, <2>3, <3>1
      <3>4. nx2[b] = IF i < n THEN got[i + 1] ELSE 0
        BY <1>16, <3>2
      <3> QED BY <2>3, <3>3, <3>4
    <2> QED BY <1>19, <2>2, <2>3
  <1>21. DOMAIN overflow' = Block
    BY <1>19
  <1>22. got[1] \in 0..MaxBlock /\ got[1] \in Block
    BY <1>8, <1>15 DEF Block
  <1>23. o \in DataJob /\ o.at = "flush" /\ o.key = k /\ o.data = n /\ o.head = got[1]
    BY <1>8, <1>17, <1>22, DHBlocksAssumption DEF DataJob
  <1>24. Becomes(job, jb2, p, o)
    BY <1>g, <1>18, <1>23 DEF Becomes, Job
  <1>25. jb2[p] = o /\ PlainJob(job[p]) /\ PlainJob(o)
    BY <1>7, <1>23, <1>24 DEF Becomes, PlainJob, Idle, Working
  <1>26. PlainSame(p, own, len, hd, nx, own2, len2, hd2, nx2)
    <2>1. \A w \in Owner : ~PlainChain(p, w) => len2[w] = len[w] /\ hd2[w] = hd[w]
      BY <1>11, <1>16 DEF PlainChain
    <2>2. \A b \in Block :
       IF PlainChain(p, own[b]) THEN PlainChain(p, own2[b])
       ELSE own2[b] = own[b] /\ nx2[b] = nx[b] /\ overflow'[b] = overflow[b]
      <3>1. \A b \in Block : (\E i \in 1..n : got[i] = b) => PlainChain(p, own[b]) /\ PlainChain(p, own2[b])
        BY <1>11, <1>15, <1>16 DEF PlainChain
      <3> QED BY <1>16, <1>20, <3>1
    <2> QED BY <1>18, <1>21, <2>1, <2>2 DEF PlainSame
  <1>27. SpaceOK(jb2, own2, len2, hd2)'
    <2>1. SpaceOK(job, own, len, hd)
      BY <1>g
    <2>2. jb2[p].at = "flush"
      BY <1>23, <1>25
    <2>3. len2[Spare] = 0
      BY <1>12, <1>16, <2>1, AllOwners, Kinds DEF SpaceOK
    <2>4. \A g \in Group : g > modulus => len2[GroupChain(g)] = 0
      <3>1. \A g \in Group : GroupChain(g) \in Owner /\ GroupChain(g) # B /\ GroupChain(g) # Free
        BY <1>11, AllOwners, Kinds
      <3> QED BY <1>16, <2>1, <3>1 DEF SpaceOK
    <2>5. extent' \in 0..MaxBlock
      BY <1>8, <1>14, <1>18, <1>g, <1>6 DEF Enumerates
    <2>6. \A b \in Block : own2[b] = NoOne <=> b > extent'
      BY <1>12, <1>15, <1>16, <1>18
    <2>7. HeaderOK(jb2, own2)'
      BY <1>18, <2>1, <2>2, HeaderTaken DEF SpaceOK
    <2> QED BY <1>16, <1>18, <2>3, <2>4, <2>5, <2>6, <2>7 DEF SpaceOK
  <1>28. PlainBlocks(p, o, own2, nx2)
    <2>1. SUFFICES ASSUME NEW b \in Block
                   PROVE  /\ own2[b] \in {Free, OldChain(p)} => overflow'[b].next = nx2[b]
                          /\ own2[b] = B => overflow'[b] = DataBlock(k, nx2[b])
      BY <1>11, <1>23 DEF PlainBlocks
    <2>2. CASE \E i \in 1..n : got[i] = b
      BY <1>12, <1>16, <1>20, <2>2
    <2>3. CASE ~\E i \in 1..n : got[i] = b
      <3>1. own2[b] = own[b] /\ nx2[b] = nx[b] /\ overflow'[b] = overflow[b]
        BY <1>16, <1>20, <2>3
      <3>2. own[b] # B
        BY <1>12, <1>13, <1>g, ChainFacts
      <3> QED BY <1>3, <3>1, <3>2 DEF DiskIs
    <2> QED BY <2>2, <2>3
  <1>29. NewOK(jb2, p, len2, hd2) /\ OldOK(jb2, p, len2, hd2)
    <2>1. len[OldChain(p)] = 0
      <3>1. OldOK(job, p, len, hd)
        BY <1>g DEF JobOK
      <3> QED BY <1>7, <3>1 DEF OldOK, Idle, Working
    <2>2. len2[OldChain(p)] = 0
      BY <1>12, <1>16, <2>1, AllOwners, Kinds
    <2> QED BY <1>11, <1>16, <1>23, <1>25, <2>2 DEF NewOK, OldOK, Working
  <1>30. Good(jb2, own2, len2, hd2, nx2, ct, spot, rec, base)'
    BY ONLY <1>1, p \in Proc, <1>24, <1>16, <1>25, <1>26, <1>27, <1>28, <1>29, PlainFrame
  <1>31. GoodAfter(jb2)
    BY <1>30 DEF GoodAfter
  <1> QED BY <1>2, <1>31, AfterIs

-----------------------------------------------------------------------------
(* A process that works on a record of group g *)

AtWork(p, j, g, own, len, hd, nx, ct, spot, rec) ==
  /\ j = job[p] /\ j.at \in Working /\ g = Home(j.key) /\ j.key \in Key
  /\ g \in 1..modulus /\ ~Moving(job, p) /\ locked[g] = p /\ \A h \in Group : h # g => locked[h] # p
  /\ j.loc \in Loc /\ InGroup(own, j.loc, g)
  /\ \A l \in Loc : InGroup(own, l, g) /\ l # j.loc => BlockAt(l) = GroupBlock(ct[l], NextOf(hd, nx, l))
  /\ \A k \in Key : Home(k) = g =>
       /\ spot[k] = Nowhere \/ (spot[k] \in Loc /\ InGroup(own, spot[k], g))
       /\ IF spot[k] = Nowhere THEN len[DataChain(k)] = 0 ELSE hd[DataChain(k)] = rec[k].head
       /\ \/ k = j.key
          \/ store[k] = IF spot[k] = Nowhere THEN Absent
                        ELSE [size |-> rec[k].size, data |-> len[DataChain(k)]]

\* The keys of a group that no split or merge has locked.
LEMMA KeysOf ==
  ASSUME NEW own, NEW len, NEW hd, NEW nx, NEW ct, NEW spot, NEW rec, NEW base,
         Good(job, own, len, hd, nx, ct, spot, rec, base), NEW g \in Group,
         \A q \in Proc : Moving(job, q) => locked[g] # q,
         NEW k \in Key, Home(k) = g
  PROVE  spot[k] = Nowhere \/ (spot[k] \in Loc /\ InGroup(own, spot[k], g))
  <1>1. HomeOK(job, k, own, spot, base) /\ \A q \in Proc : JobOK(job, q, own, len, hd, nx, ct, spot, rec, base)
    BY GoodFacts
  <1>2. spot[k] = Nowhere \/ InGroup(own, spot[k], g)
    <2>1. SUFFICES ASSUME NEW q \in Proc, Moving(job, q), Home(k) \in Goals(job, q, base)
                   PROVE  FALSE
      BY <1>1 DEF HomeOK
    <2>2. LocksOK(job, q, base)
      BY <1>1 DEF JobOK
    <2>3. g \in {base[q], job[q].new}
      BY <2>1 DEF Goals
    <2>4. locked[g] = q
      BY <2>1, <2>2, <2>3 DEF LocksOK
    <2> QED BY <2>1, <2>4
  <1>3. InGroup(own, spot[k], g) => spot[k] \in Loc
    BY DEF InGroup, Loc
  <1> QED BY <1>2, <1>3

LEMMA WorkFacts ==
  ASSUME NEW own, NEW len, NEW hd, NEW nx, NEW ct, NEW spot, NEW rec, NEW base,
         Good(job, own, len, hd, nx, ct, spot, rec, base), NEW p \in Proc, job[p].at \in Working
  PROVE  \E j \in WriteJob \cup DeleteJob, g \in Group : AtWork(p, j, g, own, len, hd, nx, ct, spot, rec)
  <1>g. /\ locked \in [Group -> Proc \cup {None}] /\ None \notin Proc
        /\ job \in [Proc -> Job]
        /\ \A k \in Key : Home(k) \in 1..modulus /\ Home(k) \in Group
        /\ \A h \in Group : h \in 1..modulus => GroupOnDisk(job, h, hd, ct)
        /\ \A k \in Key : StoreOK(job, k, len, hd, spot, rec)
        /\ \A q \in Proc : JobOK(job, q, own, len, hd, nx, ct, spot, rec, base)
    BY GoodFacts
  <1>1. PICK j \in WriteJob \cup DeleteJob : j = job[p]
    BY <1>g, JobTypes
  <1>2. j.at \in Working /\ j.key \in Key /\ j.loc \in Loc
    BY <1>1, WorkTypes
  <1>3. PICK g \in Group : g = Home(j.key) /\ g \in 1..modulus
    BY <1>2, <1>g
  <1>4. ~Moving(job, p)
    BY <1>g, JobTypes DEF Moving
  <1>5. \A h \in Group : locked[h] = p <=> h = g
    <2>1. LocksOK(job, p, base)
      BY <1>g DEF JobOK
    <2> QED BY <1>1, <1>3, <1>4, <2>1 DEF LocksOK
  <1>6. InGroup(own, j.loc, g)
    <2>1. WorkOK(job, p, own, len, hd, nx, ct, spot, rec)
      BY <1>g DEF JobOK
    <2> QED BY <1>1, <1>2, <1>3, <2>1 DEF WorkOK
  <1>7. ASSUME NEW l \in Loc, InGroup(own, l, g), l # j.loc
        PROVE  Written(job, l)
    <2>1. SUFFICES ASSUME NEW q \in Proc, l \in Held(job[q]) PROVE FALSE
      BY DEF Written
    <2>2. PICK h \in Group : locked[h] = q /\ InGroup(own, l, h)
      BY <2>1, HeldIsLocked
    <2>3. h = g
      BY <1>7, <2>2, InOneGroup
    <2>4. q = p
      BY <1>5, <2>2, <2>3
    <2>5. Held(job[p]) = {j.loc}
      BY <1>1, <1>2 DEF Held
    <2> QED BY <1>7, <2>1, <2>4, <2>5
  <1>8. ASSUME NEW l \in Loc, InGroup(own, l, g), l # j.loc
        PROVE  BlockAt(l) = GroupBlock(ct[l], NextOf(hd, nx, l))
    <2>1. Written(job, l)
      BY <1>7, <1>8
    <2>2. CASE l = <<"p", g>>
      <3>1. GroupOnDisk(job, g, hd, ct)
        BY <1>3, <1>g
      <3>2. primary[g] = GroupBlock(ct[<<"p", g>>], hd[GroupChain(g)])
        BY <2>1, <2>2, <3>1 DEF GroupOnDisk
      <3> QED BY <2>2, <3>2 DEF BlockAt, NextOf
    <2>3. CASE l # <<"p", g>>
      <3>1. PICK b \in Block : l = <<"o", b>> /\ own[b] = GroupChain(g)
        BY <1>8, <2>3 DEF InGroup
      <3>2. DiskIs(own, nx, ct)
        BY DiskFacts
      <3>3. Written(job, <<"o", b>>)
        BY <2>1, <3>1
      <3>4. overflow[b] = GroupBlock(ct[<<"o", b>>], nx[b])
        BY <3>1, <3>2, <3>3 DEF DiskIs
      <3> QED BY <3>1, <3>4 DEF BlockAt, NextOf
    <2> QED BY <2>2, <2>3
  <1>9. ASSUME NEW k \in Key, Home(k) = g
        PROVE  /\ spot[k] = Nowhere \/ (spot[k] \in Loc /\ InGroup(own, spot[k], g))
               /\ IF spot[k] = Nowhere THEN len[DataChain(k)] = 0 ELSE hd[DataChain(k)] = rec[k].head
               /\ \/ k = j.key
                  \/ store[k] = IF spot[k] = Nowhere THEN Absent
                                ELSE [size |-> rec[k].size, data |-> len[DataChain(k)]]
    <2>1. \A q \in Proc : Moving(job, q) => locked[g] # q
      BY <1>4, <1>5
    <2>2. spot[k] = Nowhere \/ (spot[k] \in Loc /\ InGroup(own, spot[k], g))
      BY <1>9, <2>1, KeysOf
    <2>3. k # j.key => ~Busy(job, k)
      <3>1. SUFFICES ASSUME NEW q \in Proc, job[q].at \in Working, job[q].key = k PROVE k = j.key
        BY DEF Busy
      <3>2. LocksOK(job, q, base)
        BY <1>g DEF JobOK
      <3>3. locked[g] = q
        BY <1>9, <3>1, <3>2 DEF LocksOK
      <3> QED BY <1>1, <1>5, <3>1, <3>3
    <2>4. StoreOK(job, k, len, hd, spot, rec)
      BY <1>g
    <2> QED BY <2>2, <2>3, <2>4 DEF StoreOK
  <1>10. AtWork(p, j, g, own, len, hd, nx, ct, spot, rec)
    BY <1>1, <1>2, <1>3, <1>4, <1>5, <1>6, <1>8, <1>9 DEF AtWork
  <1> QED BY <1>10

\* What a block is written over, and what is not.
WroteAt(l, b) ==
  /\ BlockAt(l)' = b /\ \A m \in Loc : m # l => BlockAt(m)' = BlockAt(m)
  /\ DOMAIN primary' = Group /\ DOMAIN overflow' = Block
  /\ \A h \in Group : l # <<"p", h>> => primary'[h] = primary[h]
  /\ \A c \in Block : l # <<"o", c>> => overflow'[c] = overflow[c]
LEMMA WriteIs ==
  ASSUME NEW l \in Loc, NEW b, Write(l, b), DOMAIN primary = Group, DOMAIN overflow = Block
  PROVE  WroteAt(l, b)
  <1>1. CASE l[1] = "p"
    <2>1. PICK g \in Group : l = <<"p", g>>
      BY <1>1 DEF Loc
    <2>2. primary' = [primary EXCEPT ![g] = b] /\ overflow' = overflow
      BY <2>1 DEF Write
    <2>3. BlockAt(l)' = b
      BY <2>1, <2>2 DEF BlockAt
    <2>4. \A h \in Group : l # <<"p", h>> => primary'[h] = primary[h]
      BY <2>1, <2>2
    <2>5. ASSUME NEW m \in Loc, m # l PROVE BlockAt(m)' = BlockAt(m)
      <3>1. CASE m[1] = "p"
        <4>1. PICK h \in Group : m = <<"p", h>>
          BY <3>1 DEF Loc
        <4>2. primary'[h] = primary[h]
          BY <2>1, <2>4, <2>5, <4>1
        <4> QED BY <4>1, <4>2 DEF BlockAt
      <3>2. CASE m[1] # "p"
        BY <2>2, <3>2 DEF BlockAt
      <3> QED BY <3>1, <3>2
    <2> QED BY <2>2, <2>3, <2>4, <2>5 DEF WroteAt
  <1>2. CASE l[1] # "p"
    <2>1. PICK g \in Block : l = <<"o", g>>
      BY <1>2 DEF Loc
    <2>2. overflow' = [overflow EXCEPT ![g] = b] /\ primary' = primary
      BY <2>1 DEF Write
    <2>3. BlockAt(l)' = b
      BY <2>1, <2>2 DEF BlockAt
    <2>4. \A h \in Block : l # <<"o", h>> => overflow'[h] = overflow[h]
      BY <2>1, <2>2
    <2>5. ASSUME NEW m \in Loc, m # l PROVE BlockAt(m)' = BlockAt(m)
      <3>1. CASE m[1] # "p"
        <4>1. PICK h \in Block : m = <<"o", h>>
          BY <3>1 DEF Loc
        <4>2. overflow'[h] = overflow[h]
          BY <2>1, <2>4, <2>5, <4>1
        <4> QED BY <4>1, <4>2 DEF BlockAt
      <3>2. CASE m[1] = "p"
        BY <2>2, <3>2 DEF BlockAt
      <3> QED BY <3>1, <3>2
    <2> QED BY <2>2, <2>3, <2>4, <2>5 DEF WroteAt
  <1> QED BY <1>1, <1>2

\* Steps that take no block from the free chain.
KeepsFree(own, own2, len2, hd2) ==
  /\ modulus' = modulus /\ extent' = extent /\ flushed' = flushed /\ freeChain' = hd2[Free]
  /\ \A b \in Block : own2[b] = NoOne <=> own[b] = NoOne
  /\ \A b \in Block : own[b] = Free => own2[b] = Free
  /\ len2[Spare] = 0 /\ \A g \in Group : g > modulus => len2[GroupChain(g)] = 0
LEMMA SpaceStep ==
  ASSUME NEW own, NEW len, NEW hd, NEW own2, NEW len2, NEW hd2, NEW jb2, NEW o, NEW p \in Proc,
         SpaceOK(job, own, len, hd), Becomes(job, jb2, p, o), job[p].at # "flush",
         KeepsFree(own, own2, len2, hd2)
  PROVE  SpaceOK(jb2, own2, len2, hd2)'
  <1>1. (\E q \in Proc : job[q].at = "flush") => \E q \in Proc : jb2[q].at = "flush"
    BY DEF Becomes
  <1>2. HeaderOK(job, own) /\ flushed' = flushed /\ \A b \in Block : own[b] = Free => own2[b] = Free
    BY DEF KeepsFree, SpaceOK
  <1>3. \A b \in Block : own2[b] = NoOne <=> b > extent
    BY DEF SpaceOK, KeepsFree
  <1>4. HeaderOK(jb2, own2)'
    BY <1>1, <1>2, HeaderKept
  <1>5. extent \in 0..MaxBlock
    BY DEF SpaceOK
  <1> QED BY <1>3, <1>4, <1>5 DEF SpaceOK, KeepsFree

LEMMA WriteLastStep ==
  ASSUME IInv, NEW p \in Proc, WriteLast(p)
  PROVE  IInv'
  <1>1. PICK own, len, hd, nx, ct, spot, rec, base : Good(job, own, len, hd, nx, ct, spot, rec, base)
    BY DEF IInv
  <1>2. PICK jb2 : jb2 = job'
    OBVIOUS
  <1>g. /\ Chained(own, len, hd, nx) /\ Placed(ct, spot, rec) /\ job \in [Proc -> Job]
        /\ DOMAIN overflow = Block /\ DOMAIN primary = Group
        /\ store \in [Key -> [size : Nat, data : Nat]]
        /\ locked \in [Group -> Proc \cup {None}] /\ None \notin Proc
        /\ SpaceOK(job, own, len, hd)
        /\ JobOK(job, p, own, len, hd, nx, ct, spot, rec, base)
    BY <1>1, GoodFacts
  <1>3. DiskIs(own, nx, ct)
    BY <1>1, DiskFacts
  <1>4. job[p].at = "last" /\ job[p].at \in Working
    BY DEF WriteLast, At, Working
  <1>5. PICK j \in WriteJob \cup DeleteJob, g \in Group : AtWork(p, j, g, own, len, hd, nx, ct, spot, rec)
    BY <1>1, <1>4, WorkFacts
  <1>6. /\ j = job[p] /\ j.at = "last" /\ g = Home(j.key) /\ j.key \in Key
        /\ g \in 1..modulus /\ ~Moving(job, p) /\ locked[g] = p /\ \A h \in Group : h # g => locked[h] # p
        /\ j.loc \in Loc /\ InGroup(own, j.loc, g) /\ j.old \in Nat
    BY <1>4, <1>5, WorkTypes DEF AtWork
  <1>7. /\ InGroup(own, j.loc, Home(j.key))
        /\ j.buff = GroupBlock(ct[j.loc], NextOf(hd, nx, j.loc))
        /\ j.op = "write" => j.rec.key = j.key /\ j.rec.size = j.size
        /\ IF j.op = "write"
           THEN spot[j.key] # Nowhere /\ rec[j.key] = j.rec /\ len[DataChain(j.key)] = j.data
           ELSE spot[j.key] = Nowhere
    <2>1. WorkOK(job, p, own, len, hd, nx, ct, spot, rec)
      BY <1>g DEF JobOK
    <2> QED BY <1>4, <1>6, <2>1 DEF WorkOK
  <1>8. j.old = hd[OldChain(p)] /\ len[NewChain(p)] = 0
    <2>1. NewOK(job, p, len, hd) /\ OldOK(job, p, len, hd)
      BY <1>g DEF JobOK
    <2> QED BY <1>4, <1>6, <2>1 DEF NewOK, OldOK
  <1>9. PICK o : o = IF j.old = 0 THEN Idle ELSE [at |-> "freedata", old |-> j.old]
    OBVIOUS
  <1>10. IF j.old = 0 THEN o = Idle ELSE o.at = "freedata" /\ o.old = j.old /\ o \in [at : {"freedata"}, old : Nat \ {0}]
    BY <1>6, <1>9
  <1>11. Becomes(job, jb2, p, o)
    BY <1>2, <1>6, <1>9, <1>10, <1>g DEF WriteLast, Do, Becomes, Job
  <1>12. jb2[p] = o /\ o.at \notin Working /\ o.at # "move" /\ o.at \notin {"flush", "place"} /\ Held(o) = {}
    BY <1>10, <1>11 DEF Becomes, Working, Idle, Held
  <1>13. WroteAt(j.loc, j.buff)
    BY <1>6, <1>g, WriteIs DEF WriteLast
  <1>14. /\ modulus' = modulus /\ modValue' = modValue /\ header' = header
         /\ extent' = extent /\ flushed' = flushed /\ freeChain' = freeChain
         /\ locked' = [h \in Group |-> IF locked[h] = p THEN None ELSE locked[h]]
    BY DEF WriteLast, space, Unlock
  <1>15. /\ store' \in [Key -> [size : Nat, data : Nat]]
         /\ \A k \in Key : k # j.key => store'[k] = store[k]
         /\ store'[j.key] = IF j.op = "write" THEN [size |-> j.size, data |-> j.data] ELSE Absent
    <2>1. store' = [store EXCEPT ![j.key] = IF j.op = "write" THEN [size |-> j.size, data |-> j.data] ELSE Absent]
      BY <1>6 DEF WriteLast
    <2>2. j.op = "write" => j.size \in Nat /\ j.data \in Nat
      <3>1. j.op = "write" => j.size \in Size
        BY WorkTypes
      <3>2. \A s \in Size : s \in Nat
        BY DHBlocksAssumption
      <3> QED BY <3>1, <3>2, WorkTypes
    <2>3. Absent \in [size : Nat, data : Nat]
      BY DEF Absent
    <2> QED BY <1>6, <1>g, <2>1, <2>2, <2>3
  <1>16. WorkLocks(p, g, o)
    BY <1>6, <1>12, <1>14, <1>g DEF WorkLocks
  <1>17. \A b \in Block : own[b] # GroupChain(g) => overflow'[b] = overflow[b]
    <2>1. \A b \in Block : j.loc = <<"o", b>> => own[b] = GroupChain(g)
      BY <1>6 DEF InGroup
    <2> QED BY <1>13, <2>1 DEF WroteAt
  <1>18. WorkSame(p, g, own, len, hd, nx, ct, spot, rec, own, len, hd, nx, ct, spot, rec)
    <2>1. \A h \in Group : h # g => primary'[h] = primary[h]
      <3>1. \A h \in Group : h # g => j.loc # <<"p", h>>
        BY <1>6 DEF InGroup
      <3> QED BY <1>13, <3>1 DEF WroteAt
    <2>2. \A b \in Block : ~WorkChain(p, g, own[b]) => overflow'[b] = overflow[b]
      BY <1>17 DEF WorkChain
    <2>3. \A k \in Key : Home(k) # g => store'[k] = store[k]
      BY <1>6, <1>15
    <2> QED BY <1>13, <1>15, <2>1, <2>2, <2>3 DEF WorkSame, WroteAt
  <1>19. SpaceOK(jb2, own, len, hd)'
    <2>1. KeepsFree(own, own, len, hd)
      BY <1>14, <1>g DEF KeepsFree, SpaceOK
    <2>2. job[p].at # "flush"
      BY <1>4
    <2> QED BY <1>g, <1>11, <2>1, <2>2, SpaceStep
  <1>20. WorkBlocks(p, g, o, own, hd, nx, ct)
    <2>1. ASSUME NEW l \in Loc, InGroup(own, l, g)
          PROVE  BlockAt(l)' = GroupBlock(ct[l], NextOf(hd, nx, l))
      <3>1. CASE l = j.loc
        BY <1>7, <1>13, <3>1 DEF WroteAt
      <3>2. CASE l # j.loc
        BY <1>5, <1>13, <2>1, <3>2 DEF WroteAt, AtWork
      <3> QED BY <3>1, <3>2
    <2>2. \A b \in Block : own[b] # NewChain(p)
      BY <1>8, <1>g, ChainFacts, AllOwners
    <2>3. \A b \in Block : own[b] \in {Free, OldChain(p)} => overflow'[b].next = nx[b]
      <3>1. Free # GroupChain(g) /\ OldChain(p) # GroupChain(g)
        BY Kinds
      <3> QED BY <1>3, <1>17, <3>1 DEF DiskIs
    <2>4. \A b \in Block, k \in Key : own[b] = DataChain(k) => overflow'[b] = DataBlock(k, nx[b])
      <3>1. \A k : DataChain(k) # GroupChain(g)
        BY Kinds
      <3> QED BY <1>3, <1>17, <3>1 DEF DiskIs
    <2> QED BY <2>1, <2>2, <2>3, <2>4 DEF WorkBlocks
  <1>21. WorkKeys(g, o, own, len, hd, spot, rec)
    <2>1. ASSUME NEW k \in Key, Home(k) = g
          PROVE  /\ spot[k] = Nowhere \/ InGroup(own, spot[k], g)
                 /\ IF spot[k] = Nowhere THEN len[DataChain(k)] = 0 ELSE hd[DataChain(k)] = rec[k].head
                 /\ k # j.key => store[k] = IF spot[k] = Nowhere THEN Absent
                                            ELSE [size |-> rec[k].size, data |-> len[DataChain(k)]]
      BY <1>5, <2>1 DEF AtWork
    <2>2. store'[j.key] = IF spot[j.key] = Nowhere THEN Absent
                          ELSE [size |-> rec[j.key].size, data |-> len[DataChain(j.key)]]
      BY <1>7, <1>15
    <2>3. ASSUME NEW k \in Key, Home(k) = g
          PROVE  store'[k] = IF spot[k] = Nowhere THEN Absent
                             ELSE [size |-> rec[k].size, data |-> len[DataChain(k)]]
      <3>1. CASE k = j.key
        BY <2>2, <3>1
      <3>2. CASE k # j.key
        <4>1. store'[k] = store[k]
          BY <1>15, <3>2
        <4> QED BY <2>1, <2>3, <3>2, <4>1
      <3> QED BY <3>1, <3>2
    <2>4. SUFFICES ASSUME NEW k \in Key, Home(k) = g
          PROVE  /\ spot[k] = Nowhere \/ InGroup(own, spot[k], g)
                 /\ IF spot[k] = Nowhere THEN len[DataChain(k)] = 0 ELSE hd[DataChain(k)] = rec[k].head
                 /\ store'[k] = IF spot[k] = Nowhere THEN Absent
                                ELSE [size |-> rec[k].size, data |-> len[DataChain(k)]]
      BY DEF WorkKeys
    <2>5. store'[k] = IF spot[k] = Nowhere THEN Absent
                      ELSE [size |-> rec[k].size, data |-> len[DataChain(k)]]
      BY <2>3, <2>4
    <2> QED BY <2>1, <2>4, <2>5
  <1>22. NewOK(jb2, p, len, hd) /\ OldOK(jb2, p, len, hd)
    <2>0. hd[OldChain(p)] = 0 <=> len[OldChain(p)] = 0
      BY <1>g, ChainFacts, AllOwners
    <2>1. j.old = 0 => len[OldChain(p)] = 0
      BY <1>8, <2>0
    <2> QED BY <1>8, <1>10, <1>12, <2>1 DEF NewOK, OldOK, Working, Idle
  <1>23. WorkOK(jb2, p, own, len, hd, nx, ct, spot, rec)'
    BY <1>12 DEF WorkOK
  <1>24. Good(jb2, own, len, hd, nx, ct, spot, rec, base)'
    BY ONLY <1>1, p \in Proc, g \in Group, <1>g, <1>6, <1>11, <1>12, <1>16, <1>18, <1>19, <1>20, <1>21,
            <1>22, <1>23, WorkFrame
  <1>25. GoodAfter(jb2)
    BY <1>24 DEF GoodAfter
  <1> QED BY <1>2, <1>25, AfterIs

\* What there is to know of a process that has no block for its new record.
LEMMA AtAdd ==
  ASSUME NEW own, NEW len, NEW hd, NEW nx, NEW ct, NEW spot, NEW rec, NEW base,
         Good(job, own, len, hd, nx, ct, spot, rec, base), NEW p \in Proc, job[p].at = "add"
  PROVE  /\ job[p] \in WriteJob
         /\ job[p].buff = GroupBlock(ct[job[p].loc], 0) /\ NextOf(hd, nx, job[p].loc) = 0
         /\ job[p].rec.key = job[p].key /\ job[p].rec.size = job[p].size /\ spot[job[p].key] = Nowhere
         /\ job[p].rec.head = hd[NewChain(p)] /\ job[p].data = len[NewChain(p)]
         /\ job[p].old = hd[OldChain(p)]
         /\ ~job[p].found => /\ job[p].buff = BlockAt(job[p].loc) /\ store[job[p].key] = Absent
                             /\ job[p].old = 0
  <1>g. /\ job \in [Proc -> Job] /\ JobOK(job, p, own, len, hd, nx, ct, spot, rec, base)
    BY GoodFacts
  <1>1. job[p].at \in Working
    BY DEF Working
  <1>2. job[p] \in WriteJob \cup DeleteJob
    BY <1>1, <1>g, JobTypes
  <1>3. /\ job[p].op = "write" /\ job[p].buff.next = 0
        /\ job[p].buff = GroupBlock(ct[job[p].loc], NextOf(hd, nx, job[p].loc))
        /\ job[p].rec.key = job[p].key /\ job[p].rec.size = job[p].size /\ spot[job[p].key] = Nowhere
        /\ ~job[p].found => /\ job[p].buff = BlockAt(job[p].loc) /\ store[job[p].key] = Absent
                            /\ job[p].old = 0
    <2>1. WorkOK(job, p, own, len, hd, nx, ct, spot, rec)
      BY <1>g DEF JobOK
    <2> QED BY <1>1, <2>1 DEF WorkOK
  <1>4. NextOf(hd, nx, job[p].loc) = 0
    BY <1>3 DEF GroupBlock
  <1>5. job[p] \in WriteJob
    BY <1>2, <1>3, WorkTypes
  <1>6. /\ job[p].rec.head = hd[NewChain(p)] /\ job[p].data = len[NewChain(p)]
        /\ job[p].old = hd[OldChain(p)]
    <2>1. NewOK(job, p, len, hd) /\ OldOK(job, p, len, hd)
      BY <1>g DEF JobOK
    <2> QED BY <1>1, <1>3, <2>1 DEF NewOK, OldOK
  <1> QED BY <1>3, <1>4, <1>5, <1>6

LEMMA AddFailsStep ==
  ASSUME NeverFull, IInv, NEW p \in Proc, AddFails(p)
  PROVE  IInv'
  <1>1. PICK own, len, hd, nx, ct, spot, rec, base : Good(job, own, len, hd, nx, ct, spot, rec, base)
    BY DEF IInv
  <1>2. PICK jb2 : jb2 = job'
    OBVIOUS
  <1>g. /\ Chained(own, len, hd, nx) /\ Placed(ct, spot, rec) /\ job \in [Proc -> Job]
        /\ DOMAIN overflow = Block /\ DOMAIN primary = Group
        /\ store \in [Key -> [size : Nat, data : Nat]]
        /\ locked \in [Group -> Proc \cup {None}] /\ None \notin Proc
        /\ SpaceOK(job, own, len, hd)
    BY <1>1, GoodFacts
  <1>3. DiskIs(own, nx, ct)
    BY <1>1, DiskFacts
  <1>4. job[p].at = "add" /\ job[p].at \in Working
    BY DEF AddFails, At, Working
  <1>5. PICK j \in WriteJob \cup DeleteJob, g \in Group : AtWork(p, j, g, own, len, hd, nx, ct, spot, rec)
    BY <1>1, <1>4, WorkFacts
  <1>6. /\ j = job[p] /\ j.at = "add" /\ g = Home(j.key) /\ j.key \in Key
        /\ g \in 1..modulus /\ ~Moving(job, p) /\ locked[g] = p /\ \A h \in Group : h # g => locked[h] # p
        /\ j.loc \in Loc /\ InGroup(own, j.loc, g)
    BY <1>4, <1>5 DEF AtWork
  <1>7. /\ j.buff = GroupBlock(ct[j.loc], NextOf(hd, nx, j.loc)) /\ j.buff = BlockAt(j.loc)
        /\ spot[j.key] = Nowhere /\ j.rec.head = hd[NewChain(p)]
        /\ store[j.key] = Absent /\ hd[OldChain(p)] = 0
    <2>1. ~job[p].found
      BY DEF NeverFull, AddFails
    <2> QED BY <1>1, <1>4, <1>6, <2>1, AtAdd
  <1>8. len[OldChain(p)] = 0
    BY <1>7, <1>g, ChainFacts, AllOwners
  <1>9. PICK A : A = NewChain(p)
    OBVIOUS
  <1>10. A \in Owner /\ A # Free /\ A # Spare /\ A # NoOne /\ A # OldChain(p) /\ A # GroupChain(g)
    BY <1>9, AllOwners, Kinds
  <1>11. Becomes(job, jb2, p, Idle)
    BY <1>2, <1>g DEF AddFails, Do, Becomes, Job
  <1>12. jb2[p] = Idle /\ Idle.at \notin Working /\ Idle.at # "move" /\ Idle.at \notin {"flush", "place"} /\ Held(Idle) = {}
    BY <1>11 DEF Becomes, Working, Idle, Held
  <1>13. /\ modulus' = modulus /\ modValue' = modValue /\ header' = header /\ store' = store
         /\ locked' = [h \in Group |-> IF locked[h] = p THEN None ELSE locked[h]]
    BY DEF AddFails, Unlock
  <1>14. freeChain = hd[Free] /\ \A b \in Block : own[b] = A => overflow[b].next = nx[b]
    <2>1. \A b \in Block : own[b] = A => overflow[b] = DataBlock(job[p].key, nx[b])
      BY <1>3, <1>9 DEF DiskIs
    <2> QED BY <1>g, <2>1 DEF SpaceOK, DataBlock
  <1>15. /\ primary' = primary /\ extent' = extent /\ flushed' = flushed /\ DOMAIN overflow' = Block
         /\ \E own2, len2, hd2, nx2 :
              /\ Chained(own2, len2, hd2, nx2)
              /\ \A b \in Block : own2[b] = IF own[b] = A THEN Free ELSE own[b]
              /\ \A b \in Block : IF own[b] = A THEN overflow'[b].next = nx2[b]
                                  ELSE nx2[b] = nx[b] /\ overflow'[b] = overflow[b]
              /\ len2[A] = 0 /\ hd2[A] = 0 /\ freeChain' = hd2[Free]
              /\ \A w \in Owner : w # A /\ w # Free => len2[w] = len[w] /\ hd2[w] = hd[w]
    <2>1. CASE j.rec.head = 0
      <3>1. UNCHANGED <<primary, overflow, extent, freeChain, flushed>>
        BY <1>6, <2>1 DEF AddFails, blocks, space, FreeData
      <3>2. hd[A] = 0 /\ len[A] = 0 /\ \A b \in Block : own[b] # A
        <4>1. hd[A] = 0
          BY <1>7, <1>9, <2>1
        <4> QED BY <4>1, <1>10, <1>g, ChainFacts
      <3> QED BY <1>14, <1>g, <3>1, <3>2
    <2>2. CASE j.rec.head # 0
      <3>1. hd[A] # 0 /\ FreeData(hd[A])
        BY <1>6, <1>7, <1>9, <2>2 DEF AddFails
      <3>2. /\ UNCHANGED <<primary, extent, flushed>> /\ DOMAIN overflow' = Block
            /\ \E own2, len2, hd2, nx2 :
              /\ Chained(own2, len2, hd2, nx2)
              /\ \A b \in Block : own2[b] = IF own[b] = A THEN Free ELSE own[b]
              /\ \A b \in Block : IF own[b] = A THEN overflow'[b].next = nx2[b]
                                  ELSE nx2[b] = nx[b] /\ overflow'[b] = overflow[b]
              /\ len2[A] = 0 /\ hd2[A] = 0 /\ freeChain' = hd2[Free]
              /\ \A w \in Owner : w # A /\ w # Free => len2[w] = len[w] /\ hd2[w] = hd[w]
        BY ONLY <1>g, <1>10, <1>14, <3>1, GiveData
      <3> QED BY <3>2
    <2> QED BY <2>1, <2>2
  <1>16. PICK own2, len2, hd2, nx2 :
              /\ Chained(own2, len2, hd2, nx2)
              /\ \A b \in Block : own2[b] = IF own[b] = A THEN Free ELSE own[b]
              /\ \A b \in Block : IF own[b] = A THEN overflow'[b].next = nx2[b]
                                  ELSE nx2[b] = nx[b] /\ overflow'[b] = overflow[b]
              /\ len2[A] = 0 /\ hd2[A] = 0 /\ freeChain' = hd2[Free]
              /\ \A w \in Owner : w # A /\ w # Free => len2[w] = len[w] /\ hd2[w] = hd[w]
    BY <1>15
  <1>17. WorkLocks(p, g, Idle)
    BY <1>6, <1>12, <1>13, <1>g DEF WorkLocks
  <1>18. WorkSame(p, g, own, len, hd, nx, ct, spot, rec, own2, len2, hd2, nx2, ct, spot, rec)
    <2>1. \A w \in Owner : ~WorkChain(p, g, w) => len2[w] = len[w] /\ hd2[w] = hd[w]
      BY <1>9, <1>16 DEF WorkChain
    <2>2. \A b \in Block :
       IF WorkChain(p, g, own[b]) THEN WorkChain(p, g, own2[b])
       ELSE /\ own2[b] = own[b] /\ nx2[b] = nx[b] /\ ct[<<"o", b>>] = ct[<<"o", b>>]
            /\ overflow'[b] = overflow[b]
      BY <1>9, <1>16 DEF WorkChain
    <2> QED BY <1>13, <1>15, <1>g, <2>1, <2>2 DEF WorkSame
  <1>19. SpaceOK(jb2, own2, len2, hd2)'
    <2>1. KeepsFree(own, own2, len2, hd2)
      <3>1. \A b \in Block : own2[b] = NoOne <=> own[b] = NoOne
        BY <1>10, <1>16, AllOwners
      <3>2. \A b \in Block : own[b] = Free => own2[b] = Free
        BY <1>16
      <3>3. len2[Spare] = 0
        BY <1>10, <1>16, <1>g, AllOwners, Kinds DEF SpaceOK
      <3>4. \A h \in Group : h > modulus => len2[GroupChain(h)] = 0
        <4>1. \A h \in Group : GroupChain(h) \in Owner /\ GroupChain(h) # A /\ GroupChain(h) # Free
          BY <1>9, AllOwners, Kinds
        <4> QED BY <1>16, <1>g, <4>1 DEF SpaceOK
      <3> QED BY <1>13, <1>15, <1>16, <3>1, <3>2, <3>3, <3>4 DEF KeepsFree
    <2>2. job[p].at # "flush"
      BY <1>4
    <2> QED BY <1>g, <1>11, <2>1, <2>2, SpaceStep
  <1>20. \A l \in Loc : InGroup(own2, l, g) => InGroup(own, l, g) /\ BlockAt(l)' = BlockAt(l) /\ NextOf(hd2, nx2, l) = NextOf(hd, nx, l)
    <2>1. SUFFICES ASSUME NEW l \in Loc, InGroup(own2, l, g)
                   PROVE  InGroup(own, l, g) /\ BlockAt(l)' = BlockAt(l) /\ NextOf(hd2, nx2, l) = NextOf(hd, nx, l)
      OBVIOUS
    <2>2. CASE l = <<"p", g>>
      <3>1. hd2[GroupChain(g)] = hd[GroupChain(g)]
        BY <1>10, <1>16, AllOwners, Kinds
      <3> QED BY <1>15, <2>2, <3>1 DEF InGroup, BlockAt, NextOf
    <2>3. CASE l # <<"p", g>>
      <3>1. PICK b \in Block : l = <<"o", b>> /\ own2[b] = GroupChain(g)
        BY <2>1, <2>3 DEF InGroup
      <3>2. Free # GroupChain(g)
        BY Kinds
      <3>3. own[b] = GroupChain(g) /\ own[b] # A
        BY <1>10, <1>16, <3>1, <3>2
      <3>4. nx2[b] = nx[b] /\ overflow'[b] = overflow[b]
        BY <1>16, <3>3
      <3> QED BY <3>1, <3>3, <3>4 DEF InGroup, BlockAt, NextOf
    <2> QED BY <2>2, <2>3
  <1>21. WorkBlocks(p, g, Idle, own2, hd2, nx2, ct)
    <2>1. ASSUME NEW l \in Loc, InGroup(own2, l, g)
          PROVE  BlockAt(l)' = GroupBlock(ct[l], NextOf(hd2, nx2, l))
      <3>1. InGroup(own, l, g) /\ BlockAt(l)' = BlockAt(l) /\ NextOf(hd2, nx2, l) = NextOf(hd, nx, l)
        BY <1>20, <2>1
      <3>2. BlockAt(l) = GroupBlock(ct[l], NextOf(hd, nx, l))
        <4>1. CASE l = j.loc
          BY <1>7, <4>1
        <4>2. CASE l # j.loc
          BY <1>5, <3>1, <4>2 DEF AtWork
        <4> QED BY <4>1, <4>2
      <3> QED BY <3>1, <3>2
    <2>2. \A b \in Block : own2[b] # NewChain(p)
      BY <1>9, <1>10, <1>16
    <2>3. \A b \in Block : own2[b] \in {Free, OldChain(p)} => overflow'[b].next = nx2[b]
      BY <1>3, <1>16 DEF DiskIs
    <2>4. \A b \in Block, k \in Key : own2[b] = DataChain(k) => overflow'[b] = DataBlock(k, nx2[b])
      <3>1. \A k : DataChain(k) # Free
        BY Kinds
      <3> QED BY <1>3, <1>16, <3>1 DEF DiskIs
    <2> QED BY <2>1, <2>2, <2>3, <2>4 DEF WorkBlocks
  <1>22. WorkKeys(g, Idle, own2, len2, hd2, spot, rec)
    <2>1. SUFFICES ASSUME NEW k \in Key, Home(k) = g
          PROVE  /\ spot[k] = Nowhere \/ InGroup(own2, spot[k], g)
                 /\ IF spot[k] = Nowhere THEN len2[DataChain(k)] = 0 ELSE hd2[DataChain(k)] = rec[k].head
                 /\ store'[k] = IF spot[k] = Nowhere THEN Absent
                                ELSE [size |-> rec[k].size, data |-> len2[DataChain(k)]]
      BY DEF WorkKeys
    <2>2. len2[DataChain(k)] = len[DataChain(k)] /\ hd2[DataChain(k)] = hd[DataChain(k)]
      <3>1. DataChain(k) \in Owner /\ DataChain(k) # A /\ DataChain(k) # Free
        BY <1>9, AllOwners, Kinds
      <3> QED BY <1>16, <3>1
    <2>3. /\ spot[k] = Nowhere \/ (spot[k] \in Loc /\ InGroup(own, spot[k], g))
          /\ IF spot[k] = Nowhere THEN len[DataChain(k)] = 0 ELSE hd[DataChain(k)] = rec[k].head
          /\ k # j.key => store[k] = IF spot[k] = Nowhere THEN Absent
                                     ELSE [size |-> rec[k].size, data |-> len[DataChain(k)]]
      BY <1>5, <2>1 DEF AtWork
    <2>4. InGroup(own, spot[k], g) => InGroup(own2, spot[k], g)
      <3>1. \A b \in Block : own[b] = GroupChain(g) => own2[b] = GroupChain(g)
        BY <1>10, <1>16
      <3> QED BY <3>1 DEF InGroup
    <2>5. store[k] = IF spot[k] = Nowhere THEN Absent ELSE [size |-> rec[k].size, data |-> len[DataChain(k)]]
      BY <1>7, <2>3
    <2> QED BY <1>13, <2>2, <2>3, <2>4, <2>5
  <1>23. NewOK(jb2, p, len2, hd2) /\ OldOK(jb2, p, len2, hd2)
    <2>1. len2[OldChain(p)] = 0
      BY <1>8, <1>10, <1>16, AllOwners, Kinds
    <2> QED BY <1>9, <1>12, <1>16, <2>1 DEF NewOK, OldOK, Working, Idle
  <1>24. WorkOK(jb2, p, own2, len2, hd2, nx2, ct, spot, rec)'
    BY <1>12 DEF WorkOK
  <1>25. Good(jb2, own2, len2, hd2, nx2, ct, spot, rec, base)'
    BY ONLY <1>1, p \in Proc, g \in Group, <1>g, <1>6, <1>11, <1>12, <1>16, <1>17, <1>18, <1>19, <1>21,
            <1>22, <1>23, <1>24, WorkFrame
  <1>26. GoodAfter(jb2)
    BY <1>25 DEF GoodAfter
  <1> QED BY <1>2, <1>26, AfterIs

\* A free block has no records.
LEMMA NoRecords ==
  ASSUME NEW own, NEW len, NEW hd, NEW nx, NEW ct, NEW spot, NEW rec, NEW base,
         Good(job, own, len, hd, nx, ct, spot, rec, base), NEW b \in Block,
         own[b][1] \notin {"group", "source"}
  PROVE  ct[<<"o", b>>] = <<>>
  <1>g. /\ Placed(ct, spot, rec) /\ \A k \in Key : HomeOK(job, k, own, spot, base)
    BY GoodFacts
  <1>1. <<"o", b>> \in Spot
    BY DEF Spot, Loc
  <1>2. ct[<<"o", b>>] \in Seq(Record)
    BY <1>1, <1>g, PlacedFacts
  <1>3. ASSUME Len(ct[<<"o", b>>]) # 0 PROVE FALSE
    <2>1. 1 \in 1..Len(ct[<<"o", b>>])
      BY <1>2, <1>3
    <2>2. PICK k \in Key : spot[k] = <<"o", b>>
      BY <1>1, <1>g, <2>1, PlacedFacts
    <2>3. HomeOK(job, k, own, spot, base)
      BY <1>g
    <2>4. spot[k] # Nowhere /\ \A q : spot[k] # BufferOf(q)
      BY <2>2 DEF Nowhere, BufferOf
    <2>5. CASE InGroup(own, spot[k], Home(k))
      <3>1. own[b] = GroupChain(Home(k))
        BY <2>2, <2>5 DEF InGroup
      <3> QED BY <3>1, Kinds
    <2>6. CASE ~InGroup(own, spot[k], Home(k))
      <3>1. PICK q \in Proc, c \in Block : spot[k] = <<"o", c>> /\ own[c] = SourceChain(q)
        BY <2>3, <2>4, <2>6 DEF HomeOK
      <3>2. c = b
        BY <2>2, <3>1
      <3> QED BY <3>1, <3>2, Kinds
    <2> QED BY <2>5, <2>6
  <1> QED BY <1>2, <1>3, EmptySeq

\* GetOverflow: a free block, or a new one.
TakesFree(own, hd, nx, own2, len2, hd2, o) ==
  /\ modulus' = modulus
  /\ \A b \in Block : own2[b] = NoOne <=> own[b] = NoOne /\ b # o
  /\ hd2[Free] = IF hd[Free] # 0 THEN nx[o] ELSE 0
  /\ len2[Spare] = 0 /\ \A g \in Group : g > modulus => len2[GroupChain(g)] = 0
LEMMA GetIs ==
  ASSUME NEW own, NEW len, NEW hd, SpaceOK(job, own, len, hd), NEW o \in Block, GetOverflow(o)
  PROVE  FromFree(own, hd, o)
  BY DHBlocksAssumption DEF SpaceOK, GetOverflow, FromFree, NoSpace, Block
LEMMA SpaceTake ==
  ASSUME NEW own, NEW len, NEW hd, NEW nx, NEW ct, NEW own2, NEW len2, NEW hd2, NEW nx2, NEW jb2, NEW o \in Block,
         Chained(own, len, hd, nx), Chained(own2, len2, hd2, nx2),
         SpaceOK(job, own, len, hd), DiskIs(own, nx, ct), GetOverflow(o),
         TakesFree(own, hd, nx, own2, len2, hd2, o)
  PROVE  SpaceOK(jb2, own2, len2, hd2)'
  <1>1. extent \in 0..MaxBlock /\ freeChain = hd[Free] /\ \A b \in Block : own[b] = NoOne <=> b > extent
    BY DEF SpaceOK
  <1>2. freeChain' = hd2[Free] /\ onDisk' = hd2[Free] /\ Outdated /\ UNCHANGED image
    <2>1. hd[Free] # 0 => own[hd[Free]] = Free
      BY ChainFacts, AllOwners
    <2>2. hd[Free] # 0 => overflow[o].next = nx[o]
      BY <1>1, <2>1 DEF DiskIs, GetOverflow
    <2> QED BY <1>1, <2>2 DEF GetOverflow, TakesFree
  <1>3. extent' \in 0..MaxBlock /\ \A b \in Block : own2[b] = NoOne <=> b > extent'
    <2>1. CASE hd[Free] # 0
      <3>1. own[o] # NoOne
        BY <1>1, <2>1, ChainFacts, AllOwners DEF GetOverflow
      <3>2. extent' = extent
        BY <1>1, <2>1 DEF GetOverflow
      <3> QED BY <1>1, <3>1, <3>2 DEF TakesFree
    <2>2. CASE hd[Free] = 0
      <3>1. extent' = o /\ o = extent + 1
        BY <1>1, <2>2 DEF GetOverflow
      <3> QED BY <1>1, <3>1, DHBlocksAssumption DEF TakesFree, Block
    <2> QED BY <2>1, <2>2
  <1>4. NamesFree(hd2[Free], own2)
    BY ChainFacts, AllOwners DEF NamesFree
  <1>5. HeaderOK(jb2, own2)'
    <2>1. HeaderOK(job, own)
      BY DEF SpaceOK
    <2>2. NamesFree(onDisk, own2)'
      BY <1>2, <1>4 DEF NamesFree
    <2> QED BY <1>2, <2>1, <2>2, HeaderTaken
  <1> QED BY <1>2, <1>3, <1>5 DEF SpaceOK, TakesFree

LEMMA AddStep ==
  ASSUME IInv, NEW p \in Proc, Add(p)
  PROVE  IInv'
  <1>1. PICK own, len, hd, nx, ct, spot, rec, base : Good(job, own, len, hd, nx, ct, spot, rec, base)
    BY DEF IInv
  <1>2. PICK jb2 : jb2 = job'
    OBVIOUS
  <1>g. /\ Chained(own, len, hd, nx) /\ Placed(ct, spot, rec) /\ job \in [Proc -> Job]
        /\ DOMAIN overflow = Block /\ DOMAIN primary = Group
        /\ store \in [Key -> [size : Nat, data : Nat]]
        /\ locked \in [Group -> Proc \cup {None}] /\ None \notin Proc
        /\ SpaceOK(job, own, len, hd) /\ len[Spare] = 0
    BY <1>1, GoodFacts DEF SpaceOK
  <1>3. DiskIs(own, nx, ct)
    BY <1>1, DiskFacts
  <1>4. job[p].at = "add" /\ job[p].at \in Working
    BY DEF Add, At, Working
  <1>5. PICK j \in WriteJob \cup DeleteJob, g \in Group : AtWork(p, j, g, own, len, hd, nx, ct, spot, rec)
    BY <1>1, <1>4, WorkFacts
  <1>6. /\ j = job[p] /\ j.at = "add" /\ g = Home(j.key) /\ j.key \in Key
        /\ g \in 1..modulus /\ ~Moving(job, p) /\ locked[g] = p /\ \A h \in Group : h # g => locked[h] # p
        /\ j.loc \in Loc /\ InGroup(own, j.loc, g)
    BY <1>4, <1>5 DEF AtWork
  <1>7. /\ j \in WriteJob /\ j.buff = GroupBlock(ct[j.loc], 0) /\ NextOf(hd, nx, j.loc) = 0
        /\ spot[j.key] = Nowhere /\ j.rec.head = hd[NewChain(p)] /\ j.data = len[NewChain(p)]
        /\ j.rec.key = j.key /\ j.rec.size = j.size /\ j.old = hd[OldChain(p)]
    BY <1>1, <1>4, <1>6, AtAdd
  <1>8. PICK o \in Block : /\ GetOverflow(o) /\ Write(job[p].loc, [job[p].buff EXCEPT !.next = o])
                           /\ Do(p, [job[p] EXCEPT !.at = "last", !.loc = <<"o", o>>,
                                       !.buff = GroupBlock(<<job[p].rec>>, 0)])
    BY DEF Add
  <1>9. PICK m : m = <<"o", o>>
    OBVIOUS
  <1>10. m \in Loc /\ m \in Spot
    BY <1>9 DEF Loc, Spot
  <1>11. PICK i : i = [j EXCEPT !.at = "last", !.loc = m, !.buff = GroupBlock(<<j.rec>>, 0)]
    OBVIOUS
  <1>12. /\ i \in WriteJob /\ i.at = "last" /\ i.op = "write" /\ i.key = j.key /\ i.size = j.size
         /\ i.data = j.data /\ i.rec = j.rec /\ i.loc = m /\ i.buff = GroupBlock(<<j.rec>>, 0)
         /\ i.old = j.old
    <2>1. GroupBlock(<<j.rec>>, 0) \in BlockType /\ j.rec \in Record
      BY <1>7 DEF GroupBlock, BlockType, WriteJob
    <2> QED BY <1>7, <1>10, <1>11, <2>1 DEF WriteJob, Working
  <1>13. Becomes(job, jb2, p, i)
    BY <1>2, <1>6, <1>8, <1>9, <1>11, <1>12, <1>g DEF Do, Becomes, Job
  <1>14. jb2[p] = i /\ i.at \in Working /\ i.at # "move" /\ Held(i) = {m}
    BY <1>12, <1>13 DEF Becomes, Working, Held
  <1>15. WroteAt(j.loc, GroupBlock(ct[j.loc], o))
    <2>1. [j.buff EXCEPT !.next = o] = GroupBlock(ct[j.loc], o)
      BY <1>7 DEF GroupBlock
    <2>2. Write(j.loc, GroupBlock(ct[j.loc], o))
      BY <1>6, <1>8, <2>1
    <2> QED BY <1>6, <1>g, <2>2, WriteIs
  <1>16. /\ modulus' = modulus /\ modValue' = modValue /\ header' = header /\ store' = store
         /\ locked' = locked
    BY DEF Add
  \* The chains.
  <1>17. FromFree(own, hd, o)
    BY <1>8, <1>g, GetIs
  <1>18. own[o] \in {Free, NoOne} /\ \E own2, len2, hd2, nx2 : Added(own, len, hd, nx, own2, len2, hd2, nx2, g, j.loc, o)
    <2>1. NextIs(hd, nx, j.loc, 0)
      BY <1>7 DEF NextIs
    <2> QED BY ONLY <1>g, <1>6, <1>17, <2>1, g \in Group, o \in Block, AddBlock
  <1>19. PICK own2, len2, hd2, nx2 :
              /\ Chained(own2, len2, hd2, nx2)
              /\ \A b \in Block : own2[b] = IF b = o THEN GroupChain(g) ELSE own[b]
              /\ \A b \in Block : nx2[b] = IF b = o THEN 0 ELSE IF j.loc = <<"o", b>> THEN o ELSE nx[b]
              /\ hd2[Free] = IF hd[Free] # 0 THEN nx[o] ELSE 0
              /\ hd2[GroupChain(g)] = IF j.loc[1] = "p" THEN o ELSE hd[GroupChain(g)]
              /\ \A w \in Owner : w # Free /\ w # GroupChain(g) => len2[w] = len[w] /\ hd2[w] = hd[w]
    BY <1>18 DEF Added
  <1>20. PICK A, B : A = NewChain(p) /\ B = DataChain(j.key)
    OBVIOUS
  <1>21. /\ A \in Owner /\ B \in Owner /\ A # B /\ {A, B} \cap {Free, Spare, NoOne, OldChain(p)} = {}
         /\ \A h \in Group : A # GroupChain(h) /\ B # GroupChain(h)
    BY <1>6, <1>20, AllOwners, Kinds
  <1>22. len[B] = 0 /\ len2[B] = 0
    <2>1. len[B] = 0
      BY <1>5, <1>6, <1>7, <1>20 DEF AtWork
    <2> QED BY <1>19, <1>21, <2>1
  <1>23. PICK own3, len3, hd3 :
           /\ Chained(own3, len3, hd3, nx2)
           /\ \A b \in Block : own3[b] = IF own2[b] = A THEN B ELSE own2[b]
           /\ len3[A] = 0 /\ hd3[A] = 0 /\ len3[B] = len2[A] /\ hd3[B] = hd2[A]
           /\ \A w \in Owner : w # A /\ w # B => len3[w] = len2[w] /\ hd3[w] = hd2[w]
    BY ONLY <1>19, <1>21, <1>22, Handover
  <1>24. len3[B] = j.data /\ hd3[B] = j.rec.head
    BY <1>7, <1>19, <1>20, <1>21, <1>23
  <1>25. \A w \in Owner : w \notin {A, B, Free, GroupChain(g)} => len3[w] = len[w] /\ hd3[w] = hd[w]
    BY <1>19, <1>23
  <1>26. /\ hd3[Free] = IF hd[Free] # 0 THEN nx[o] ELSE 0
         /\ hd3[GroupChain(g)] = IF j.loc[1] = "p" THEN o ELSE hd[GroupChain(g)]
    BY <1>19, <1>21, <1>23, AllOwners
  <1>27. \A b \in Block : own3[b] = IF b = o THEN GroupChain(g) ELSE IF own[b] = A THEN B ELSE own[b]
    BY <1>19, <1>21, <1>23
  \* The records.
  <1>28. ct[m] = <<>>
    <2>1. own[o][1] \notin {"group", "source"}
      BY <1>18, Kinds
    <2> QED BY <1>1, <1>9, <2>1, NoRecords
  <1>29. j.rec \in Record /\ IsAt(spot, j.rec, Nowhere)
    BY <1>7 DEF WriteJob, IsAt
  <1>30. PICK ct2, spot2, rec2 :
           /\ Placed(ct2, spot2, rec2)
           /\ ct2[m] = Append(ct[m], j.rec)
           /\ \A l \in Spot : l # m => ct2[l] = ct[l]
           /\ spot2[j.rec.key] = m /\ rec2[j.rec.key] = j.rec
           /\ \A k \in Key : k # j.rec.key => spot2[k] = spot[k] /\ rec2[k] = rec[k]
    <2>1. \E ct2, spot2, rec2 : Put(ct, spot, rec, ct2, spot2, rec2, m, j.rec)
      BY ONLY <1>g, <1>10, <1>29, PutRecord
    <2> QED BY <2>1 DEF Put
  <1>31. ct2[m] = <<j.rec>> /\ spot2[j.key] = m /\ rec2[j.key] = j.rec
    BY <1>7, <1>28, <1>30
  \* The blocks that are in the group.
  <1>32. own[o] # GroupChain(g) /\ m # j.loc
    <2>1. Free # GroupChain(g) /\ NoOne # GroupChain(g)
      BY Kinds
    <2> QED BY <1>6, <1>9, <1>18, <2>1 DEF InGroup
  <1>33. ASSUME NEW l \in Loc, InGroup(own3, l, g), l # m
         PROVE  /\ InGroup(own, l, g) /\ ct2[l] = ct[l]
                /\ NextOf(hd3, nx2, l) = IF l = j.loc THEN o ELSE NextOf(hd, nx, l)
    <2>0. ct2[l] = ct[l]
      BY <1>30, <1>33 DEF Spot
    <2>1. CASE l = <<"p", g>>
      <3>1. hd3[GroupChain(g)] = IF l = j.loc THEN o ELSE hd[GroupChain(g)]
        <4>1. j.loc[1] = "p" <=> l = j.loc
          BY <1>6, <2>1 DEF InGroup
        <4> QED BY <1>26, <4>1
      <3> QED BY <2>0, <2>1, <3>1 DEF InGroup, NextOf
    <2>2. CASE l # <<"p", g>>
      <3>1. PICK b \in Block : l = <<"o", b>> /\ own3[b] = GroupChain(g)
        BY <1>33, <2>2 DEF InGroup
      <3>2. b # o
        BY <1>9, <1>33, <3>1
      <3>3. own[b] = GroupChain(g)
        BY <1>21, <1>27, <3>1, <3>2
      <3>4. nx2[b] = IF j.loc = l THEN o ELSE nx[b]
        BY <1>19, <3>1, <3>2
      <3> QED BY <2>0, <3>1, <3>3, <3>4 DEF InGroup, NextOf
    <2> QED BY <2>1, <2>2
  <1>34. \A l : InGroup(own, l, g) => InGroup(own3, l, g)
    <2>1. \A b \in Block : own[b] = GroupChain(g) => own3[b] = GroupChain(g)
      BY <1>21, <1>27
    <2> QED BY <2>1 DEF InGroup
  <1>35. InGroup(own3, m, g)
    BY <1>9, <1>27 DEF InGroup
  <1>36. ct2[j.loc] = ct[j.loc]
    BY <1>6, <1>30, <1>32 DEF Spot
  <1>37. \A b \in Block : own[b] # GroupChain(g) => overflow'[b] = overflow[b]
    <2>1. \A b \in Block : j.loc = <<"o", b>> => own[b] = GroupChain(g)
      BY <1>6 DEF InGroup
    <2> QED BY <1>15, <2>1 DEF WroteAt
  \* What WorkFrame asks for.
  <1>40. WorkLocks(p, g, i)
    BY <1>6, <1>12, <1>14, <1>16, <1>g DEF WorkLocks
  <1>41. WorkSame(p, g, own, len, hd, nx, ct, spot, rec, own3, len3, hd3, nx2, ct2, spot2, rec2)
    <2>1. \A h \in Group : h # g => primary'[h] = primary[h] /\ ct2[<<"p", h>>] = ct[<<"p", h>>]
      <3>1. \A h \in Group : h # g => j.loc # <<"p", h>> /\ m # <<"p", h>> /\ <<"p", h>> \in Spot
        BY <1>6, <1>9 DEF InGroup, Spot, Loc
      <3> QED BY <1>15, <1>30, <3>1 DEF WroteAt
    <2>2. \A w \in Owner : ~WorkChain(p, g, w) => len3[w] = len[w] /\ hd3[w] = hd[w]
      <3>1. \A w \in Owner : ~WorkChain(p, g, w) => w \notin {A, B, Free, GroupChain(g)}
        BY <1>6, <1>20 DEF WorkChain
      <3> QED BY <1>25, <3>1
    <2>3. \A b \in Block :
       IF WorkChain(p, g, own[b]) THEN WorkChain(p, g, own3[b])
       ELSE /\ own3[b] = own[b] /\ nx2[b] = nx[b] /\ ct2[<<"o", b>>] = ct[<<"o", b>>]
            /\ overflow'[b] = overflow[b]
      <3>1. SUFFICES ASSUME NEW b \in Block
                     PROVE  IF WorkChain(p, g, own[b]) THEN WorkChain(p, g, own3[b])
                            ELSE /\ own3[b] = own[b] /\ nx2[b] = nx[b] /\ ct2[<<"o", b>>] = ct[<<"o", b>>]
                                 /\ overflow'[b] = overflow[b]
        OBVIOUS
      <3>2. CASE WorkChain(p, g, own[b])
        <4>1. own3[b] \in {GroupChain(g), B, own[b]}
          BY <1>27
        <4>2. WorkChain(p, g, B) /\ WorkChain(p, g, GroupChain(g))
          BY <1>6, <1>20 DEF WorkChain
        <4> QED BY <3>2, <4>1, <4>2
      <3>3. CASE ~WorkChain(p, g, own[b])
        <4>1. own[b] # A /\ own[b] # Free /\ own[b] # NoOne /\ own[b] # GroupChain(g)
          BY <1>20, <3>3 DEF WorkChain
        <4>2. b # o /\ <<"o", b>> # m /\ <<"o", b>> \in Spot /\ j.loc # <<"o", b>>
          BY <1>6, <1>9, <1>18, <4>1 DEF InGroup, Spot, Loc
        <4>3. own3[b] = own[b] /\ nx2[b] = nx[b]
          BY <1>19, <1>27, <4>1, <4>2
        <4> QED BY <1>30, <1>37, <3>3, <4>1, <4>2, <4>3
      <3> QED BY <3>2, <3>3
    <2>4. \A q \in Proc : ct2[BufferOf(q)] = ct[BufferOf(q)]
      <3>1. \A q \in Proc : BufferOf(q) \in Spot /\ BufferOf(q) # m
        BY <1>9 DEF BufferOf, Spot
      <3> QED BY <1>30, <3>1
    <2>5. \A k \in Key : Home(k) # g => spot2[k] = spot[k] /\ rec2[k] = rec[k] /\ store'[k] = store[k]
      BY <1>6, <1>7, <1>16, <1>30
    <2>6. store' \in [Key -> [size : Nat, data : Nat]] /\ DOMAIN primary' = Group /\ DOMAIN overflow' = Block
      BY <1>15, <1>16, <1>g DEF WroteAt
    <2> QED BY <2>1, <2>2, <2>3, <2>4, <2>5, <2>6 DEF WorkSame
  <1>42. SpaceOK(jb2, own3, len3, hd3)'
    <2>1. TakesFree(own, hd, nx, own3, len3, hd3, o)
      <3>1. \A b \in Block : own3[b] = NoOne <=> own[b] = NoOne /\ b # o
        <4>1. GroupChain(g) # NoOne
          BY Kinds
        <4>2. A # NoOne /\ B # NoOne
          BY <1>21
        <4> QED BY <1>27, <4>1, <4>2
      <3>2. len3[Spare] = 0
        <4>1. Spare \in Owner /\ Spare # Free /\ Spare # GroupChain(g)
          BY AllOwners, Kinds
        <4>2. Spare # A /\ Spare # B
          BY <1>21
        <4> QED BY <1>25, <1>g, <4>1, <4>2
      <3>3. \A h \in Group : h > modulus => len3[GroupChain(h)] = 0
        <4>1. ASSUME NEW h \in Group, h > modulus PROVE GroupChain(h) \in Owner /\ GroupChain(h) \notin {A, B, Free, GroupChain(g)}
          <5>0. modulus \in Nat /\ h \in Nat
            BY <1>1, DHBlocksAssumption DEF Good, FixedOK, Group
          <5>1. h # g
            BY <1>6, <4>1, <5>0
          <5>2. GroupChain(h) # GroupChain(g)
            BY <5>1 DEF GroupChain
          <5>3. GroupChain(h) # Free /\ GroupChain(h) \in Owner
            BY AllOwners, Kinds
          <5> QED BY <1>21, <5>2, <5>3
        <4> QED BY <1>25, <1>g, <4>1 DEF SpaceOK
      <3> QED BY <1>16, <1>26, <3>1, <3>2, <3>3 DEF TakesFree
    <2> QED BY ONLY o \in Block, <1>3, <1>8, <1>g, <1>23, <2>1, SpaceTake
  <1>43. WorkBlocks(p, g, i, own3, hd3, nx2, ct2)
    <2>1. ASSUME NEW l \in Loc, InGroup(own3, l, g), l \notin Held(i)
          PROVE  BlockAt(l)' = GroupBlock(ct2[l], NextOf(hd3, nx2, l))
      <3>0. l # m
        BY <1>14, <2>1
      <3>1. CASE l = j.loc
        BY <1>15, <1>33, <2>1, <3>0, <3>1 DEF WroteAt
      <3>2. CASE l # j.loc
        <4>1. BlockAt(l) = GroupBlock(ct[l], NextOf(hd, nx, l))
          BY <1>5, <1>33, <2>1, <3>0, <3>2 DEF AtWork
        <4> QED BY <1>15, <1>33, <2>1, <3>0, <3>2, <4>1 DEF WroteAt
      <3> QED BY <3>1, <3>2
    <2>2. \A b \in Block : own3[b] # NewChain(p)
      BY <1>20, <1>21, <1>27
    <2>3. \A b \in Block : own3[b] \in {Free, OldChain(p)} => overflow'[b].next = nx2[b]
      <3>1. SUFFICES ASSUME NEW b \in Block, own3[b] \in {Free, OldChain(p)} PROVE overflow'[b].next = nx2[b]
        OBVIOUS
      <3>2. Free # GroupChain(g) /\ OldChain(p) # GroupChain(g)
        BY Kinds
      <3>3. b # o /\ own[b] = own3[b] /\ own[b] # GroupChain(g)
        BY <1>21, <1>27, <3>1, <3>2
      <3>4. nx2[b] = nx[b]
        BY <1>6, <1>19, <3>3 DEF InGroup
      <3> QED BY <1>3, <1>37, <3>1, <3>3, <3>4 DEF DiskIs
    <2>4. ASSUME NEW b \in Block, NEW k \in Key, own3[b] = DataChain(k) PROVE overflow'[b] = DataBlock(k, nx2[b])
      <3>1. DataChain(k) # GroupChain(g) /\ A # GroupChain(g)
        BY <1>21, Kinds
      <3>2. b # o /\ own[b] # GroupChain(g)
        BY <1>27, <2>4, <3>1
      <3>3. nx2[b] = nx[b] /\ overflow'[b] = overflow[b]
        BY <1>6, <1>19, <1>37, <3>2 DEF InGroup
      <3>4. CASE own[b] = A
        <4>1. DataChain(k) = DataChain(j.key)
          BY <1>20, <1>27, <2>4, <3>2, <3>4
        <4>2. k = j.key
          BY <4>1 DEF DataChain
        <4> QED BY <1>3, <1>6, <1>20, <3>3, <3>4, <4>2 DEF DiskIs
      <3>5. CASE own[b] # A
        <4>1. own[b] = DataChain(k)
          BY <1>27, <2>4, <3>2, <3>5
        <4> QED BY <1>3, <3>3, <4>1 DEF DiskIs
      <3> QED BY <3>4, <3>5
    <2> QED BY <2>1, <2>2, <2>3, <2>4 DEF WorkBlocks
  <1>44. WorkKeys(g, i, own3, len3, hd3, spot2, rec2)
    <2>1. SUFFICES ASSUME NEW k \in Key, Home(k) = g
          PROVE  /\ spot2[k] = Nowhere \/ InGroup(own3, spot2[k], g)
                 /\ IF spot2[k] = Nowhere THEN len3[DataChain(k)] = 0 ELSE hd3[DataChain(k)] = rec2[k].head
                 /\ k # j.key => store'[k] = IF spot2[k] = Nowhere THEN Absent
                                             ELSE [size |-> rec2[k].size, data |-> len3[DataChain(k)]]
      BY <1>12, <1>14 DEF WorkKeys
    <2>2. CASE k = j.key
      <3>1. spot2[k] = m /\ rec2[k] = j.rec /\ m # Nowhere /\ hd3[DataChain(k)] = j.rec.head
        BY <1>9, <1>20, <1>24, <1>31, <2>2 DEF Nowhere
      <3> QED BY <1>35, <2>2, <3>1
    <2>3. CASE k # j.key
      <3>1. spot2[k] = spot[k] /\ rec2[k] = rec[k]
        BY <1>7, <1>30, <2>3
      <3>2. len3[DataChain(k)] = len[DataChain(k)] /\ hd3[DataChain(k)] = hd[DataChain(k)]
        <4>1. DataChain(k) # B
          BY <1>20, <2>3 DEF DataChain
        <4>2. DataChain(k) \in Owner /\ DataChain(k) \notin {A, Free, GroupChain(g)}
          BY <1>20, AllOwners, Kinds
        <4> QED BY <1>25, <4>1, <4>2
      <3>3. /\ spot[k] = Nowhere \/ (spot[k] \in Loc /\ InGroup(own, spot[k], g))
            /\ IF spot[k] = Nowhere THEN len[DataChain(k)] = 0 ELSE hd[DataChain(k)] = rec[k].head
            /\ store[k] = IF spot[k] = Nowhere THEN Absent
                          ELSE [size |-> rec[k].size, data |-> len[DataChain(k)]]
        BY <1>5, <2>1, <2>3 DEF AtWork
      <3> QED BY <1>16, <1>34, <3>1, <3>2, <3>3
    <2> QED BY <2>2, <2>3
  <1>45. NewOK(jb2, p, len3, hd3) /\ OldOK(jb2, p, len3, hd3)
    <2>1. OldChain(p) \in Owner /\ OldChain(p) \notin {A, B, Free, GroupChain(g)}
      <3>1. OldChain(p) \in Owner /\ OldChain(p) # Free /\ OldChain(p) # GroupChain(g)
        BY AllOwners, Kinds
      <3>2. OldChain(p) # A /\ OldChain(p) # B
        BY <1>21
      <3> QED BY <3>1, <3>2
    <2>2. hd3[OldChain(p)] = hd[OldChain(p)]
      BY <1>25, <2>1
    <2> QED BY <1>7, <1>12, <1>14, <1>20, <1>23, <2>2 DEF NewOK, OldOK
  <1>46. WorkOK(jb2, p, own3, len3, hd3, nx2, ct2, spot2, rec2)'
    <2>1. Home(i.key)' = g
      BY <1>6, <1>12, <1>16 DEF Home
    <2>2. NextOf(hd3, nx2, m) = 0
      BY <1>9, <1>19 DEF NextOf
    <2>3. m # Nowhere
      BY <1>9 DEF Nowhere
    <2>4. len3[DataChain(i.key)] = i.data
      BY <1>12, <1>20, <1>24
    <2> QED BY <1>7, <1>12, <1>14, <1>31, <1>35, <2>1, <2>2, <2>3, <2>4 DEF WorkOK
  <1>47. Good(jb2, own3, len3, hd3, nx2, ct2, spot2, rec2, base)'
    BY ONLY <1>1, p \in Proc, g \in Group, <1>g, <1>6, <1>13, <1>14, <1>23, <1>30, <1>40, <1>41, <1>42, <1>43,
            <1>44, <1>45, <1>46, WorkFrame
  <1>48. GoodAfter(jb2)
    BY <1>47 DEF GoodAfter
  <1> QED BY <1>2, <1>48, AfterIs

-----------------------------------------------------------------------------
(* A process that locks the group of a record, and changes no block         *)

\* The chains of data that it may rename.
LockChain(p, k, w) == w \in {DataChain(k), OldChain(p), NewChain(p)}
Renames(p, k, own, len, hd, own2, len2, hd2) ==
  /\ \A w \in Owner : ~LockChain(p, k, w) => len2[w] = len[w] /\ hd2[w] = hd[w]
  /\ \A b \in Block :
       /\ IF LockChain(p, k, own[b]) THEN LockChain(p, k, own2[b]) ELSE own2[b] = own[b]
       /\ own2[b] = NewChain(p) => own[b] = NewChain(p)
       /\ own2[b] = DataChain(k) => own[b] \in {DataChain(k), NewChain(p)}
       /\ own2[b] = OldChain(p) => own[b] \in {DataChain(k), OldChain(p)}
Starts(p, k) == job[p].at = "idle" \/ (job[p].at = "place" /\ job[p].key = k)
LocksFor(p, k) ==
  LockHome(p, k) /\ UNCHANGED <<modulus, modValue, blocks, space, header, store>>
WorksAt(o, k, l) == o.at \in Working /\ o.key = k /\ o.loc = l
\* Of the records it may change only that of key k, at l.
Changes(k, l, ct, spot, rec, ct2, spot2, rec2) ==
  /\ \A m \in Spot : m # l => ct2[m] = ct[m]
  /\ \A x \in Key : x # k => spot2[x] = spot[x] /\ rec2[x] = rec[x]
KeyAt(k, l, len2, hd2, spot2, rec2) ==
  IF spot2[k] = Nowhere THEN len2[DataChain(k)] = 0
  ELSE spot2[k] = l /\ hd2[DataChain(k)] = rec2[k].head

LEMMA LockFrame ==
  ASSUME NEW own, NEW len, NEW hd, NEW nx, NEW ct, NEW spot, NEW rec, NEW base,
         NEW own2, NEW len2, NEW hd2, NEW ct2, NEW spot2, NEW rec2,
         NEW jb2, NEW o, NEW p \in Proc, NEW k \in Key, NEW l \in Loc,
         Good(job, own, len, hd, nx, ct, spot, rec, base),
         Starts(p, k), LocksFor(p, k), Becomes(job, jb2, p, o), WorksAt(o, k, l),
         InGroup(own, l, Home(k)), Renames(p, k, own, len, hd, own2, len2, hd2),
         Chained(own2, len2, hd2, nx), Placed(ct2, spot2, rec2),
         Changes(k, l, ct, spot, rec, ct2, spot2, rec2), KeyAt(k, l, len2, hd2, spot2, rec2),
         NewOK(jb2, p, len2, hd2), OldOK(jb2, p, len2, hd2),
         WorkOK(jb2, p, own2, len2, hd2, nx, ct2, spot2, rec2)'
  PROVE  Good(jb2, own2, len2, hd2, nx, ct2, spot2, rec2, base)'
  <1>g. /\ Chained(own, len, hd, nx) /\ job \in [Proc -> Job]
        /\ DOMAIN overflow = Block /\ DOMAIN primary = Group
        /\ store \in [Key -> [size : Nat, data : Nat]]
        /\ locked \in [Group -> Proc \cup {None}] /\ None \notin Proc
        /\ SpaceOK(job, own, len, hd) /\ len[Spare] = 0
        /\ \A x \in Key : Home(x) \in 1..modulus /\ Home(x) \in Group
        /\ \A q \in Proc : JobOK(job, q, own, len, hd, nx, ct, spot, rec, base)
    BY GoodFacts DEF SpaceOK
  <1>1. PICK g \in Group : g = Home(k) /\ g \in 1..modulus
    BY <1>g
  <1>2. /\ modulus' = modulus /\ modValue' = modValue /\ primary' = primary /\ overflow' = overflow
        /\ extent' = extent /\ freeChain' = freeChain /\ flushed' = flushed /\ header' = header
        /\ store' = store
        /\ locked[g] = None /\ locked' = [locked EXCEPT ![g] = p]
    BY <1>1 DEF LocksFor, LockHome, blocks, space
  <1>3. ~Moving(job, p) /\ job[p].at \notin Working /\ job[p].at # "flush"
    BY DEF Starts, Moving, Working
  <1>4. o.at \in Working /\ o.at # "move" /\ o.key = k /\ Held(o) = {l} /\ InGroup(own, l, g)
    BY <1>1 DEF WorksAt, Working, Held
  <1>5. \A h \in Group : locked[h] # p
    <2>1. LocksOK(job, p, base)
      BY <1>g DEF JobOK
    <2> QED BY <1>3, <2>1 DEF LocksOK
  <1>6. DiskIs(own, nx, ct)
    BY DiskFacts
  <1>7. \A x : GroupChain(x) \notin {DataChain(k), OldChain(p), NewChain(p)}
    BY Kinds
  <1>8. \A b \in Block : \A h : own2[b] = GroupChain(h) <=> own[b] = GroupChain(h)
    <2>1. SUFFICES ASSUME NEW b \in Block, NEW h PROVE own2[b] = GroupChain(h) <=> own[b] = GroupChain(h)
      OBVIOUS
    <2>2. IF LockChain(p, k, own[b]) THEN LockChain(p, k, own2[b]) ELSE own2[b] = own[b]
      BY DEF Renames
    <2>3. ~LockChain(p, k, GroupChain(h))
      BY <1>7 DEF LockChain
    <2> QED BY <2>2, <2>3
  <1>9. \A m : InGroup(own2, m, g) <=> InGroup(own, m, g)
    BY <1>8 DEF InGroup
  <1>10. \A w \in Owner : w \notin {DataChain(k), OldChain(p), NewChain(p)} => len2[w] = len[w] /\ hd2[w] = hd[w]
    BY DEF Renames, LockChain
  <1>11. \A h \in Group : len2[GroupChain(h)] = len[GroupChain(h)] /\ hd2[GroupChain(h)] = hd[GroupChain(h)]
    <2>1. \A h \in Group : GroupChain(h) \in Owner
      BY AllOwners
    <2> QED BY <1>7, <1>10, <2>1
  <1>12. len2[Spare] = 0 /\ hd2[Free] = hd[Free]
    <2>1. /\ Spare \in Owner /\ Free \in Owner
          /\ Spare \notin {DataChain(k), OldChain(p), NewChain(p)}
          /\ Free \notin {DataChain(k), OldChain(p), NewChain(p)}
      BY AllOwners, Kinds
    <2> QED BY <1>g, <1>10, <2>1
  <1>13. WorkLocks(p, g, o)
    BY <1>1, <1>2, <1>4, <1>5, <1>g DEF WorkLocks
  <1>14. \A w : LockChain(p, k, w) => WorkChain(p, g, w)
    BY <1>1 DEF LockChain, WorkChain
  <1>15. WorkSame(p, g, own, len, hd, nx, ct, spot, rec, own2, len2, hd2, nx, ct2, spot2, rec2)
    <2>1. \A h \in Group : h # g => ct2[<<"p", h>>] = ct[<<"p", h>>]
      <3>1. \A h \in Group : h # g => l # <<"p", h>> /\ <<"p", h>> \in Spot
        BY <1>4 DEF InGroup, Spot, Loc
      <3> QED BY <3>1 DEF Changes
    <2>2. \A w \in Owner : ~WorkChain(p, g, w) => len2[w] = len[w] /\ hd2[w] = hd[w]
      BY <1>14 DEF Renames
    <2>3. ASSUME NEW b \in Block
          PROVE  IF WorkChain(p, g, own[b]) THEN WorkChain(p, g, own2[b])
                 ELSE own2[b] = own[b] /\ ct2[<<"o", b>>] = ct[<<"o", b>>]
      <3>1. IF LockChain(p, k, own[b]) THEN LockChain(p, k, own2[b]) ELSE own2[b] = own[b]
        BY DEF Renames
      <3>2. CASE WorkChain(p, g, own[b])
        BY <1>14, <3>1, <3>2
      <3>3. CASE ~WorkChain(p, g, own[b])
        <4>1. own[b] # GroupChain(g)
          BY <3>3 DEF WorkChain
        <4>2. l # <<"o", b>> /\ <<"o", b>> \in Spot
          BY <1>4, <4>1 DEF InGroup, Spot, Loc
        <4> QED BY <1>14, <3>1, <3>3, <4>2 DEF Changes
      <3> QED BY <3>2, <3>3
    <2>4. \A q \in Proc : ct2[BufferOf(q)] = ct[BufferOf(q)]
      <3>1. \A q \in Proc : BufferOf(q) \in Spot /\ BufferOf(q) # l
        BY <1>4 DEF BufferOf, Spot, InGroup
      <3> QED BY <3>1 DEF Changes
    <2>5. \A x \in Key : Home(x) # g => spot2[x] = spot[x] /\ rec2[x] = rec[x]
      BY <1>1 DEF Changes
    <2> QED BY <1>2, <1>g, <2>1, <2>2, <2>3, <2>4, <2>5 DEF WorkSame
  <1>16. SpaceOK(jb2, own2, len2, hd2)'
    <2>1. \A b \in Block : own2[b] = NoOne <=> own[b] = NoOne
      <3>1. ~LockChain(p, k, NoOne)
        BY Kinds DEF LockChain
      <3> QED BY <3>1 DEF Renames
    <2>2. \A b \in Block : own[b] = Free => own2[b] = Free
      <3>1. ~LockChain(p, k, Free)
        BY Kinds DEF LockChain
      <3> QED BY <3>1 DEF Renames
    <2>3. KeepsFree(own, own2, len2, hd2)
      BY <1>2, <1>11, <1>12, <1>g, <2>1, <2>2 DEF KeepsFree, SpaceOK
    <2> QED BY <1>3, <1>g, <2>3, SpaceStep
  <1>17. \A b \in Block : own[b] = NewChain(p) => job[p].key = k
    <2>1. SUFFICES ASSUME NEW b \in Block, own[b] = NewChain(p), job[p].at = "idle" PROVE FALSE
      BY DEF Starts
    <2>2. NewOK(job, p, len, hd)
      BY <1>g DEF JobOK
    <2>3. len[NewChain(p)] = 0
      BY <2>1, <2>2 DEF NewOK
    <2>4. NewChain(p) # NoOne
      BY Kinds
    <2> QED BY <1>g, <2>1, <2>3, <2>4, ChainFacts
  <1>18. WorkBlocks(p, g, o, own2, hd2, nx, ct2)
    <2>1. ASSUME NEW m \in Loc, InGroup(own2, m, g), m \notin Held(o)
          PROVE  BlockAt(m)' = GroupBlock(ct2[m], NextOf(hd2, nx, m))
      <3>1. InGroup(own, m, g) /\ m # l /\ m \in Spot
        BY <1>4, <1>9, <2>1 DEF Spot
      <3>2. ct2[m] = ct[m]
        BY <3>1 DEF Changes
      <3>3. NextOf(hd2, nx, m) = NextOf(hd, nx, m)
        BY <1>11, <3>1 DEF NextOf, InGroup
      <3>4. BlockAt(m) = GroupBlock(ct[m], NextOf(hd, nx, m))
        <4>1. Along(Places(g), g, own, hd, nx, ct)
          BY <1>1, <1>2, GroupPlaces
        <4>2. PICK i \in 1..Len(Places(g)) : Places(g)[i] = m
          BY <3>1, <4>1 DEF Along
        <4> QED BY <4>1, <4>2 DEF Along
      <3>5. BlockAt(m)' = BlockAt(m)
        BY <1>2 DEF BlockAt
      <3> QED BY <3>2, <3>3, <3>4, <3>5
    <2>2. ASSUME NEW b \in Block
          PROVE  /\ own2[b] \in {Free, OldChain(p)} => overflow'[b].next = nx[b]
                 /\ own2[b] = NewChain(p) => overflow'[b] = DataBlock(k, nx[b])
                 /\ \A x \in Key : own2[b] = DataChain(x) => overflow'[b] = DataBlock(x, nx[b])
      <3>1. own[b] \in {Free, OldChain(p)} => overflow[b].next = nx[b]
        BY <1>6 DEF DiskIs
      <3>2. own[b] = NewChain(p) => overflow[b] = DataBlock(k, nx[b])
        BY <1>6, <1>17 DEF DiskIs
      <3>3. \A x \in Key : own[b] = DataChain(x) => overflow[b] = DataBlock(x, nx[b])
        BY <1>6 DEF DiskIs
      <3>4. /\ IF LockChain(p, k, own[b]) THEN LockChain(p, k, own2[b]) ELSE own2[b] = own[b]
            /\ own2[b] = NewChain(p) => own[b] = NewChain(p)
            /\ own2[b] = DataChain(k) => own[b] \in {DataChain(k), NewChain(p)}
            /\ own2[b] = OldChain(p) => own[b] \in {DataChain(k), OldChain(p)}
        BY DEF Renames
      <3>5. own2[b] = Free => own[b] = Free
        <4>1. ~LockChain(p, k, Free)
          BY Kinds DEF LockChain
        <4> QED BY <3>4, <4>1
      <3>6. own2[b] \in {Free, OldChain(p)} => overflow[b].next = nx[b]
        <4>1. own[b] = DataChain(k) => overflow[b].next = nx[b]
          <5>1. own[b] = DataChain(k) => overflow[b] = DataBlock(k, nx[b])
            BY <3>3
          <5> QED BY <5>1 DEF DataBlock
        <4> QED BY <3>1, <3>4, <3>5, <4>1
      <3>7. ASSUME NEW x \in Key, own2[b] = DataChain(x) PROVE overflow[b] = DataBlock(x, nx[b])
        <4>1. CASE x = k
          BY <3>2, <3>3, <3>4, <3>7, <4>1
        <4>2. CASE x # k
          <5>1. ~LockChain(p, k, DataChain(x))
            <6>1. DataChain(x) # DataChain(k)
              BY <4>2 DEF DataChain
            <6> QED BY <6>1, Kinds DEF LockChain
          <5> QED BY <3>3, <3>4, <3>7, <5>1
        <4> QED BY <4>1, <4>2
      <3> QED BY <1>2, <3>2, <3>4, <3>6, <3>7
    <2> QED BY <1>4, <2>1, <2>2 DEF WorkBlocks
  <1>19. WorkKeys(g, o, own2, len2, hd2, spot2, rec2)
    <2>1. SUFFICES ASSUME NEW x \in Key, Home(x) = g
          PROVE  /\ spot2[x] = Nowhere \/ InGroup(own2, spot2[x], g)
                 /\ IF spot2[x] = Nowhere THEN len2[DataChain(x)] = 0 ELSE hd2[DataChain(x)] = rec2[x].head
                 /\ x # k => store'[x] = IF spot2[x] = Nowhere THEN Absent
                                         ELSE [size |-> rec2[x].size, data |-> len2[DataChain(x)]]
      BY <1>4 DEF WorkKeys
    <2>2. CASE x = k
      BY <1>4, <1>9, <2>2 DEF KeyAt
    <2>3. CASE x # k
      <3>1. spot2[x] = spot[x] /\ rec2[x] = rec[x]
        BY <2>3 DEF Changes
      <3>2. len2[DataChain(x)] = len[DataChain(x)] /\ hd2[DataChain(x)] = hd[DataChain(x)]
        <4>1. DataChain(x) # DataChain(k)
          BY <2>3 DEF DataChain
        <4>2. DataChain(x) \in Owner /\ DataChain(x) # OldChain(p) /\ DataChain(x) # NewChain(p)
          BY AllOwners, Kinds
        <4> QED BY <1>10, <4>1, <4>2
      <3>3. /\ spot[x] = Nowhere \/ (spot[x] \in Loc /\ InGroup(own, spot[x], g))
            /\ IF spot[x] = Nowhere THEN len[DataChain(x)] = 0 ELSE hd[DataChain(x)] = rec[x].head
            /\ store[x] = IF spot[x] = Nowhere THEN Absent
                          ELSE [size |-> rec[x].size, data |-> len[DataChain(x)]]
        <4>1. Unlocked(Home(x))
          BY <1>1, <1>2, <2>1 DEF Unlocked
        <4> QED BY <2>1, <4>1, HomeFree DEF DataIs
      <3> QED BY <1>2, <1>9, <2>3, <3>1, <3>2, <3>3
    <2> QED BY <2>2, <2>3
  <1> QED BY ONLY p \in Proc, g \in Group, Good(job, own, len, hd, nx, ct, spot, rec, base),
          Becomes(job, jb2, p, o), Chained(own2, len2, hd2, nx), Placed(ct2, spot2, rec2),
          NewOK(jb2, p, len2, hd2), OldOK(jb2, p, len2, hd2),
          WorkOK(jb2, p, own2, len2, hd2, nx, ct2, spot2, rec2)',
          <1>3, <1>4, <1>13, <1>15, <1>16, <1>18, <1>19, WorkFrame

\* What there is to know of a process that locks the group of k.
LEMMA LockFacts ==
  ASSUME NEW own, NEW len, NEW hd, NEW nx, NEW ct, NEW spot, NEW rec, NEW base,
         Good(job, own, len, hd, nx, ct, spot, rec, base), NEW p \in Proc, NEW k \in Key,
         Starts(p, k), LocksFor(p, k)
  PROVE  /\ Home(k) \in 1..modulus /\ Home(k) \in Group /\ Home(k)' = Home(k)
         /\ Along(Places(Home(k)), Home(k), own, hd, nx, ct)
         /\ len[OldChain(p)] = 0 /\ hd[OldChain(p)] = 0
         /\ IF job[p].at = "idle" THEN len[NewChain(p)] = 0 /\ hd[NewChain(p)] = 0
            ELSE job[p].head = hd[NewChain(p)] /\ job[p].data = len[NewChain(p)]
         /\ len[NewChain(p)] \in Nat /\ hd[NewChain(p)] \in 0..MaxBlock
         /\ \A l \in Loc : BlockAt(l)' = BlockAt(l)
         /\ \A x \in Key : store'[x] = store[x]
         /\ ~Moving(job, p)
  <1>g. /\ Chained(own, len, hd, nx) /\ ParamsOK(modulus, modValue)
        /\ \A x \in Key : Home(x) \in 1..modulus /\ Home(x) \in Group
        /\ JobOK(job, p, own, len, hd, nx, ct, spot, rec, base)
    BY GoodFacts
  <1>0. NewChain(p) \in Owner /\ OldChain(p) \in Owner
    BY AllOwners
  <1>1. /\ modulus' = modulus /\ modValue' = modValue /\ primary' = primary /\ overflow' = overflow
        /\ store' = store /\ locked[Home(k)] = None
    BY DEF LocksFor, LockHome, blocks
  <1>2. Home(k)' = Home(k)
    BY <1>1 DEF Home
  <1>3. Along(Places(Home(k)), Home(k), own, hd, nx, ct)
    BY <1>1, <1>g, GroupPlaces
  <1>4. len[OldChain(p)] = 0
    <2>1. job[p].at \notin Working \cup {"freedata"}
      BY DEF Starts, Working
    <2> QED BY <1>g, <2>1 DEF JobOK, OldOK
  <1>5. hd[OldChain(p)] = 0
    BY <1>0, <1>4, <1>g, ChainFacts
  <1>6. NewOK(job, p, len, hd)
    BY <1>g DEF JobOK
  <1>7. job[p].at = "idle" => len[NewChain(p)] = 0
    BY <1>6 DEF NewOK
  <1>8. len[NewChain(p)] = 0 => hd[NewChain(p)] = 0
    BY <1>0, <1>g, ChainFacts
  <1>9. job[p].at # "idle" => job[p].head = hd[NewChain(p)] /\ job[p].data = len[NewChain(p)]
    BY <1>6 DEF NewOK, Starts
  <1>10. len[NewChain(p)] \in Nat /\ hd[NewChain(p)] \in 0..MaxBlock
    <2>1. hd[NewChain(p)] = 0 \/ hd[NewChain(p)] \in Block
      BY <1>0, <1>g, ChainFacts
    <2>2. hd[NewChain(p)] \in 0..MaxBlock
      BY <2>1, DHBlocksAssumption DEF Block
    <2>3. len[NewChain(p)] \in Nat
      BY <1>0, <1>g, ChainFacts
    <2> QED BY <2>2, <2>3
  <1>11. \A l \in Loc : BlockAt(l)' = BlockAt(l)
    BY <1>1 DEF BlockAt
  <1>12. ~Moving(job, p)
    BY DEF Starts, Moving
  <1> QED BY <1>1, <1>2, <1>3, <1>4, <1>5, <1>7, <1>8, <1>9, <1>10, <1>11, <1>12, <1>g

\* The record of key k, which is at place i of its group, is taken out, and its
\* data is no longer in the file.
FoundIn(k, i, l) == FoundAt(k, i) /\ l = Places(Home(k))[i]
Cleared(p, k, l, own, len, hd, nx, ct, spot, rec, own2, len2, hd2, ct2, spot2) ==
  /\ Chained(own2, len2, hd2, nx) /\ Placed(ct2, spot2, rec)
  /\ Renames(p, k, own, len, hd, own2, len2, hd2)
  /\ Changes(k, l, ct, spot, rec, ct2, spot2, rec) /\ KeyAt(k, l, len2, hd2, spot2, rec)
  /\ spot2[k] = Nowhere
  /\ len2[NewChain(p)] = len[NewChain(p)] /\ hd2[NewChain(p)] = hd[NewChain(p)]
  /\ \A m \in Loc : NextOf(hd2, nx, m) = NextOf(hd, nx, m)
  /\ \A m, h : InGroup(own, m, h) => InGroup(own2, m, h)
TakenOut(p, k, l, own, len, hd, nx, ct, spot, rec, own2, len2, hd2, ct2, spot2) ==
  /\ Cleared(p, k, l, own, len, hd, nx, ct, spot, rec, own2, len2, hd2, ct2, spot2)
  /\ hd2[OldChain(p)] = rec[k].head
  /\ Without(BlockAt(l), k) = GroupBlock(ct2[l], NextOf(hd2, nx, l))
LEMMA TakeOut ==
  ASSUME NEW own, NEW len, NEW hd, NEW nx, NEW ct, NEW spot, NEW rec, NEW base,
         Good(job, own, len, hd, nx, ct, spot, rec, base), NEW p \in Proc, NEW k \in Key,
         Starts(p, k), LocksFor(p, k), NEW i, NEW l, FoundIn(k, i, l)
  PROVE  /\ l \in Loc /\ InGroup(own, l, Home(k)) /\ spot[k] = l
         /\ BlockAt(l) = GroupBlock(ct[l], NextOf(hd, nx, l)) /\ BlockAt(l) \in BlockType
         /\ RecordOf(BlockAt(l), k) = rec[k] /\ rec[k] \in Record
         /\ i \in 1..Len(Places(Home(k)))
         /\ \E own2, len2, hd2, ct2, spot2 :
              TakenOut(p, k, l, own, len, hd, nx, ct, spot, rec, own2, len2, hd2, ct2, spot2)
  <1>g. Chained(own, len, hd, nx) /\ Placed(ct, spot, rec)
    BY GoodFacts
  <1>1. /\ Home(k) \in Group /\ Along(Places(Home(k)), Home(k), own, hd, nx, ct)
        /\ len[OldChain(p)] = 0
    BY LockFacts
  <1>2. Unlocked(Home(k))
    BY DEF LocksFor, LockHome, Unlocked
  <1>2a. FoundWhere(k, spot) /\ DataIs(k, len, hd, spot, rec)
    BY ONLY <1>2, k \in Key, Good(job, own, len, hd, nx, ct, spot, rec, base), HomeFree
  <1>3. spot[k] = l /\ i \in 1..Len(Places(Home(k)))
    BY <1>2a DEF FoundIn, FoundWhere
  <1>4. l \in Loc /\ InGroup(own, l, Home(k)) /\ BlockAt(l) = GroupBlock(ct[l], NextOf(hd, nx, l))
    <2>1. PICK ls : ls = Places(Home(k))
      OBVIOUS
    <2>2. Along(ls, Home(k), own, hd, nx, ct) /\ i \in 1..Len(ls) /\ l = ls[i]
      BY <1>1, <1>3, <2>1 DEF FoundIn
    <2> QED BY <2>2 DEF Along
  <1>5. l \in Spot /\ l # Nowhere
    BY <1>4, <1>g, PlacedFacts DEF Spot
  <1>6. PICK b : b = BlockAt(l)
    OBVIOUS
  <1>7. PICK s \in 1..Len(ct[l]) :
          /\ ct[l][s].key = k /\ RecordOf(b, k) = rec[k] /\ ct[l][s] = rec[k]
          /\ Without(b, k) = GroupBlock(RemoveAt(ct[l], s), NextOf(hd, nx, l))
    <2>1. BlockIs(b, ct, l, NextOf(hd, nx, l))
      BY <1>4, <1>6 DEF BlockIs
    <2> QED BY <1>3, <1>5, <1>g, <2>1, InBlock
  <1>8. PICK ct2, spot2 : Dropped(ct, spot, rec, ct2, spot2, l, s)
    BY <1>5, <1>g, DropRecord
  <1>9. /\ DataChain(k) \in Owner /\ OldChain(p) \in Owner /\ NewChain(p) \in Owner
        /\ DataChain(k) # OldChain(p) /\ NewChain(p) # DataChain(k) /\ NewChain(p) # OldChain(p)
    BY AllOwners, Kinds
  <1>10. PICK own2, len2, hd2 :
           /\ Chained(own2, len2, hd2, nx)
           /\ \A c \in Block : own2[c] = IF own[c] = DataChain(k) THEN OldChain(p) ELSE own[c]
           /\ len2[DataChain(k)] = 0 /\ hd2[DataChain(k)] = 0
           /\ len2[OldChain(p)] = len[DataChain(k)] /\ hd2[OldChain(p)] = hd[DataChain(k)]
           /\ \A w \in Owner : w # DataChain(k) /\ w # OldChain(p) => len2[w] = len[w] /\ hd2[w] = hd[w]
    BY ONLY <1>1, <1>9, <1>g, Handover
  <1>11. Renames(p, k, own, len, hd, own2, len2, hd2)
    BY <1>9, <1>10 DEF Renames, LockChain
  <1>12. Placed(ct2, spot2, rec) /\ Changes(k, l, ct, spot, rec, ct2, spot2, rec) /\ spot2[k] = Nowhere
    BY <1>7, <1>8 DEF Dropped, Changes
  <1>13. KeyAt(k, l, len2, hd2, spot2, rec)
    BY <1>10, <1>12 DEF KeyAt
  <1>14. hd2[OldChain(p)] = rec[k].head
    BY <1>2a, <1>3, <1>5, <1>10 DEF DataIs
  <1>15. \A h : GroupChain(h) # DataChain(k) /\ GroupChain(h) # OldChain(p)
    BY Kinds
  <1>16. \A m, h : InGroup(own, m, h) => InGroup(own2, m, h)
    BY <1>10, <1>15 DEF InGroup
  <1>17. \A m \in Loc : NextOf(hd2, nx, m) = NextOf(hd, nx, m)
    <2>1. \A h \in Group : hd2[GroupChain(h)] = hd[GroupChain(h)]
      BY <1>10, <1>15, AllOwners
    <2>2. \A m \in Loc : m[1] = "p" => m[2] \in Group
      BY DEF Loc
    <2> QED BY <2>1, <2>2 DEF NextOf
  <1>18. Without(BlockAt(l), k) = GroupBlock(ct2[l], NextOf(hd2, nx, l))
    BY <1>4, <1>6, <1>7, <1>8, <1>17 DEF Dropped
  <1>19. len2[NewChain(p)] = len[NewChain(p)] /\ hd2[NewChain(p)] = hd[NewChain(p)]
    BY <1>9, <1>10
  <1>20. TakenOut(p, k, l, own, len, hd, nx, ct, spot, rec, own2, len2, hd2, ct2, spot2)
    BY <1>10, <1>11, <1>12, <1>13, <1>14, <1>16, <1>17, <1>18, <1>19 DEF TakenOut, Cleared
  <1>21. BlockAt(l) \in BlockType
    <2>1. ct[l] \in Seq(Record)
      BY <1>5, <1>g, PlacedFacts
    <2>2. NextOf(hd, nx, l) \in Nat
      <3>1. \A h \in Group : GroupChain(h) \in Owner
        BY AllOwners
      <3>2. hd \in [Owner -> Nat] /\ nx \in [Block -> Nat]
        BY <1>g, ChainFacts
      <3> QED BY <1>4, <3>1, <3>2 DEF NextOf, Loc
    <2> QED BY <1>4, <2>1, <2>2 DEF GroupBlock, BlockType
  <1>22. RecordOf(BlockAt(l), k) = rec[k] /\ rec[k] \in Record
    BY <1>6, <1>7, <1>g, PlacedFacts
  <1> QED BY <1>3, <1>4, <1>20, <1>21, <1>22

LEMMA DeleteStep ==
  ASSUME IInv, NEW p \in Proc, NEW k \in Key, Delete(p, k)
  PROVE  IInv'
  <1>1. PICK own, len, hd, nx, ct, spot, rec, base : Good(job, own, len, hd, nx, ct, spot, rec, base)
    BY DEF IInv
  <1>2. PICK jb2 : jb2 = job'
    OBVIOUS
  <1>g. job \in [Proc -> Job] /\ Placed(ct, spot, rec)
    BY <1>1, GoodFacts
  <1>3. Starts(p, k) /\ LocksFor(p, k) /\ job[p].at = "idle"
    BY DEF Delete, At, Starts, LocksFor
  <1>4. PICK ls : ls = Places(Home(k))
    OBVIOUS
  <1>5. /\ Along(ls, Home(k), own, hd, nx, ct) /\ Home(k)' = Home(k)
        /\ len[NewChain(p)] = 0 /\ hd[NewChain(p)] = 0
    BY <1>1, <1>3, <1>4, LockFacts
  <1>6. PICK i, l, b, prev, j :
          /\ i \in 1..Len(ls)
          /\ FoundAt(k, i) /\ l = ls[i] /\ b = Without(BlockAt(l), k) /\ prev = ls[IF i > 1 THEN i - 1 ELSE 1]
          /\ j = [at |-> "unchain", op |-> "delete", key |-> k, loc |-> l, buff |-> b, prev |-> prev,
                  old |-> RecordOf(BlockAt(l), k).head]
          /\ job' = [job EXCEPT ![p] = IF b.recs = <<>> /\ i > 1 THEN j ELSE Onward(j, b)]
    <2>1. PICK i \in 1..Len(ls) :
            /\ FoundAt(k, i)
            /\ Do(p, IF Without(BlockAt(ls[i]), k).recs = <<>> /\ i > 1
                     THEN [at |-> "unchain", op |-> "delete", key |-> k, loc |-> ls[i],
                           buff |-> Without(BlockAt(ls[i]), k), prev |-> ls[IF i > 1 THEN i - 1 ELSE 1],
                           old |-> RecordOf(BlockAt(ls[i]), k).head]
                     ELSE Onward([at |-> "unchain", op |-> "delete", key |-> k, loc |-> ls[i],
                           buff |-> Without(BlockAt(ls[i]), k), prev |-> ls[IF i > 1 THEN i - 1 ELSE 1],
                           old |-> RecordOf(BlockAt(ls[i]), k).head], Without(BlockAt(ls[i]), k)))
      BY <1>4 DEF Delete
    <2>2. PICK l : l = ls[i]
      OBVIOUS
    <2>3. PICK b, prev : b = Without(BlockAt(l), k) /\ prev = ls[IF i > 1 THEN i - 1 ELSE 1]
      OBVIOUS
    <2>4. PICK j : j = [at |-> "unchain", op |-> "delete", key |-> k, loc |-> l, buff |-> b, prev |-> prev,
                        old |-> RecordOf(BlockAt(l), k).head]
      OBVIOUS
    <2>5. job' = [job EXCEPT ![p] = IF b.recs = <<>> /\ i > 1 THEN j ELSE Onward(j, b)]
      BY <2>1, <2>2, <2>3, <2>4 DEF Do
    <2> QED BY <2>1, <2>2, <2>3, <2>4, <2>5
  <1>7. FoundIn(k, i, l)
    BY <1>4, <1>6 DEF FoundIn
  <1>8. /\ l \in Loc /\ InGroup(own, l, Home(k)) /\ spot[k] = l
        /\ RecordOf(BlockAt(l), k) = rec[k] /\ rec[k] \in Record
        /\ \E own2, len2, hd2, ct2, spot2 :
             TakenOut(p, k, l, own, len, hd, nx, ct, spot, rec, own2, len2, hd2, ct2, spot2)
    BY <1>1, <1>3, <1>7, TakeOut
  <1>9. PICK own2, len2, hd2, ct2, spot2 :
          TakenOut(p, k, l, own, len, hd, nx, ct, spot, rec, own2, len2, hd2, ct2, spot2)
    BY <1>8
  <1>10. /\ Chained(own2, len2, hd2, nx) /\ Placed(ct2, spot2, rec)
         /\ Renames(p, k, own, len, hd, own2, len2, hd2)
         /\ Changes(k, l, ct, spot, rec, ct2, spot2, rec) /\ KeyAt(k, l, len2, hd2, spot2, rec)
         /\ spot2[k] = Nowhere /\ hd2[OldChain(p)] = rec[k].head
         /\ len2[NewChain(p)] = 0
         /\ b = GroupBlock(ct2[l], NextOf(hd2, nx, l))
         /\ \A m \in Loc : NextOf(hd2, nx, m) = NextOf(hd, nx, m)
         /\ \A m, h : InGroup(own, m, h) => InGroup(own2, m, h)
    BY <1>5, <1>6, <1>9 DEF TakenOut, Cleared
  <1>11. prev \in Loc /\ InGroup(own, prev, Home(k))
    <2>1. (IF i > 1 THEN i - 1 ELSE 1) \in 1..Len(ls)
      BY <1>5, <1>6 DEF Along
    <2> QED BY <1>5, <1>6, <2>1 DEF Along
  <1>12. b \in BlockType
    <2>1. ct2[l] \in Seq(Record)
      BY <1>8, <1>10, PlacedFacts DEF Spot
    <2>2. NextOf(hd2, nx, l) \in Nat
      <3>1. \A h \in Group : GroupChain(h) \in Owner
        BY AllOwners
      <3>2. hd2 \in [Owner -> Nat] /\ nx \in [Block -> Nat]
        BY <1>10, ChainFacts
      <3> QED BY <1>8, <3>1, <3>2 DEF NextOf, Loc
    <2> QED BY <1>10, <2>1, <2>2 DEF GroupBlock, BlockType
  <1>13. rec[k].head \in Nat
    BY <1>8, DHBlocksAssumption DEF Record
  <1>14. /\ j \in DeleteJob /\ j.at = "unchain" /\ j.op = "delete" /\ j.key = k /\ j.loc = l /\ j.buff = b
         /\ j.prev = prev /\ j.old = rec[k].head
    BY <1>6, <1>8, <1>11, <1>12, <1>13 DEF DeleteJob, Working
  <1>15. ASSUME NEW jb, NEW o \in DeleteJob, Becomes(job, jb, p, o),
                o.key = k, o.op = "delete", o.loc = l, o.buff = b, o.old = rec[k].head,
                \/ o.at = "ready"
                \/ /\ o.at = "unchain" /\ o.prev = prev /\ ct2[l] = <<>> /\ l[1] = "o"
                   /\ NextOf(hd, nx, prev) = l[2]
         PROVE  Good(jb, own2, len2, hd2, nx, ct2, spot2, rec, base)'
    <2>1. jb[p] = o /\ o.at \in Working
      BY <1>15, <1>g DEF Becomes, Working
    <2>2. NewOK(jb, p, len2, hd2) /\ OldOK(jb, p, len2, hd2)
      BY <1>10, <1>15, <2>1 DEF NewOK, OldOK
    <2>3. WorkOK(jb, p, own2, len2, hd2, nx, ct2, spot2, rec)'
      <3>1. InGroup(own2, l, Home(k)) /\ InGroup(own2, prev, Home(k))
        BY <1>8, <1>10, <1>11
      <3>2. NextOf(hd2, nx, prev) = NextOf(hd, nx, prev)
        BY <1>10, <1>11
      <3> QED BY <1>5, <1>10, <1>15, <2>1, <3>1, <3>2 DEF WorkOK
    <2>4. WorksAt(o, k, l)
      BY <1>15, <2>1 DEF WorksAt
    <2> QED BY ONLY <1>1, <1>3, <1>8, <1>10, <1>15, <2>2, <2>3, <2>4, p \in Proc, k \in Key, LockFrame
  <1>16. CASE b.recs = <<>> /\ i > 1
    <2>1. Becomes(job, jb2, p, j)
      BY <1>2, <1>6, <1>14, <1>16, <1>g DEF Becomes, Job
    <2>2. i - 1 \in 1..Len(ls) - 1 /\ (i - 1) + 1 = i /\ prev = ls[i - 1]
      BY <1>5, <1>6, <1>16 DEF Along
    <2>3. l = <<"o", NextOf(hd, nx, prev)>>
      BY <1>5, <1>6, <2>2 DEF Along
    <2>4. l[1] = "o" /\ NextOf(hd, nx, prev) = l[2]
      BY <2>3
    <2>5. ct2[l] = <<>>
      BY <1>10, <1>16 DEF GroupBlock
    <2>6. Good(jb2, own2, len2, hd2, nx, ct2, spot2, rec, base)'
      BY ONLY <1>14, <1>15, <2>1, <2>4, <2>5
    <2> QED BY <1>2, <2>6, AfterIs DEF GoodAfter
  <1>17. CASE ~(b.recs = <<>> /\ i > 1)
    <2>1. PICK r : r = Ready(j, b)
      OBVIOUS
    <2>2. PICK o : o = Onward(j, b)
      OBVIOUS
    <2>3. /\ WentOn(j, b, r, o) /\ j \in WriteJob \cup DeleteJob
      BY <1>12, <1>14, <2>1, <2>2, OnwardIs
    <2>4. /\ r \in DeleteJob /\ r.at = "ready" /\ r.buff = b /\ r.op = "delete" /\ r.key = k /\ r.loc = l
          /\ r.old = rec[k].head
      BY <1>14, <2>3, WorkTypes DEF WentOn
    <2>5. PICK jb1 : jb1 = [job EXCEPT ![p] = r]
      OBVIOUS
    <2>6. Becomes(job, jb1, p, r) /\ Becomes(job, jb2, p, o)
      <3>1. jb2 = [job EXCEPT ![p] = o]
        BY <1>2, <1>6, <1>17, <2>2
      <3>2. r \in Job /\ o \in Job
        BY <2>3, <2>4 DEF WentOn, Job
      <3> QED BY <1>g, <2>5, <3>1, <3>2 DEF Becomes
    <2>7. Good(jb1, own2, len2, hd2, nx, ct2, spot2, rec, base)'
      BY ONLY <1>15, <2>4, <2>6
    <2>8. GoodAfter(jb2)
      BY ONLY <1>12, <2>1, <2>2, <2>3, <2>6, <2>7, p \in Proc, GoOn
    <2> QED BY <1>2, <2>8, AfterIs
  <1> QED BY <1>16, <1>17

\* The record that dh_write() has, and its job, when it has found block l.
Comes(p, w, k) ==
  /\ w.key = k /\ w.size \in Size
  /\ \/ job[p].at = "idle" /\ w.data = 0 /\ w.head = 0
     \/ job[p].at = "place" /\ job[p].key = k /\ w.data = job[p].data /\ w.head = job[p].head
NewRecord(w) == [key |-> w.key, size |-> w.size, head |-> w.head]
PlaceJob(w, l, old, f) ==
  [at |-> "last", op |-> "write", key |-> w.key, size |-> w.size, data |-> w.data,
   rec |-> NewRecord(w), loc |-> l, buff |-> BlockAt(l), old |-> old, found |-> f]
PlacedJob(j, w, l, old, f) ==
  /\ j \in WriteJob /\ j.at = "last" /\ j.op = "write" /\ j.key = w.key /\ j.size = w.size /\ j.data = w.data
  /\ j.rec = NewRecord(w) /\ j.loc = l /\ j.buff = BlockAt(l) /\ j.old = old /\ j.found = f
  /\ j.rec.key = w.key /\ j.rec.size = w.size /\ j.rec.head = w.head /\ j.rec \in Record
LEMMA PlaceJobIs ==
  ASSUME NEW w, w.key \in Key, w.size \in Size, w.data \in Nat, w.head \in 0..MaxBlock,
         NEW l \in Loc, BlockAt(l) \in BlockType, NEW old \in Nat, NEW f \in BOOLEAN
  PROVE  PlacedJob(PlaceJob(w, l, old, f), w, l, old, f)
  <1>1. PICK x : x = NewRecord(w)
    OBVIOUS
  <1>2. x \in Record /\ x.key = w.key /\ x.size = w.size /\ x.head = w.head
    BY <1>1 DEF NewRecord, Record
  <1>3. PICK b : b = BlockAt(l)
    OBVIOUS
  <1>4. PICK j : j = PlaceJob(w, l, old, f)
    OBVIOUS
  <1>5. j = [at |-> "last", op |-> "write", key |-> w.key, size |-> w.size, data |-> w.data,
             rec |-> x, loc |-> l, buff |-> b, old |-> old, found |-> f]
    BY <1>1, <1>3, <1>4 DEF PlaceJob
  <1>6. j \in WriteJob
    BY <1>2, <1>3, <1>5 DEF WriteJob, Working
  <1> QED BY <1>1, <1>2, <1>3, <1>4, <1>5, <1>6 DEF PlacedJob

LEMMA PlaceFacts ==
  ASSUME NEW own, NEW len, NEW hd, NEW nx, NEW ct, NEW spot, NEW rec, NEW base,
         Good(job, own, len, hd, nx, ct, spot, rec, base), NEW p \in Proc, NEW k \in Key,
         NEW w, Comes(p, w, k), LocksFor(p, k)
  PROVE  /\ Starts(p, k) /\ w.key = k /\ w.size \in Size
         /\ w.data = len[NewChain(p)] /\ w.head = hd[NewChain(p)]
         /\ w.data \in Nat /\ w.head \in 0..MaxBlock
  <1>1. Starts(p, k)
    BY DEF Comes, Starts
  <1>2. /\ IF job[p].at = "idle" THEN len[NewChain(p)] = 0 /\ hd[NewChain(p)] = 0
           ELSE job[p].head = hd[NewChain(p)] /\ job[p].data = len[NewChain(p)]
        /\ len[NewChain(p)] \in Nat /\ hd[NewChain(p)] \in 0..MaxBlock
    BY <1>1, LockFacts
  <1> QED BY <1>1, <1>2 DEF Comes

\* It goes on from block l, and the record is not in the file.
GoesOn(p, k, l, j, b, old, f, nx, hd2, ct2, jb2) ==
  /\ old = hd2[OldChain(p)] /\ b = GroupBlock(ct2[l], NextOf(hd2, nx, l))
  /\ f \/ (b = BlockAt(l) /\ b.next = 0 /\ store[k] = Absent /\ old = 0)
  /\ jb2 = job' /\ Do(p, Onward(j, b))
LEMMA PlaceReady ==
  ASSUME NEW own, NEW len, NEW hd, NEW nx, NEW ct, NEW spot, NEW rec, NEW base,
         NEW own2, NEW len2, NEW hd2, NEW ct2, NEW spot2,
         Good(job, own, len, hd, nx, ct, spot, rec, base), NEW p \in Proc, NEW k \in Key,
         NEW w, Comes(p, w, k), LocksFor(p, k), NEW l \in Loc, InGroup(own, l, Home(k)),
         NEW old \in Nat, NEW f \in BOOLEAN, NEW j, PlacedJob(j, w, l, old, f), NEW b \in BlockType,
         Cleared(p, k, l, own, len, hd, nx, ct, spot, rec, own2, len2, hd2, ct2, spot2),
         NEW jb2, GoesOn(p, k, l, j, b, old, f, nx, hd2, ct2, jb2)
  PROVE  GoodAfter(jb2)
  <1>0. /\ old = hd2[OldChain(p)] /\ b = GroupBlock(ct2[l], NextOf(hd2, nx, l))
        /\ f \/ (b = BlockAt(l) /\ b.next = 0 /\ store[k] = Absent /\ old = 0)
        /\ jb2 = job' /\ Do(p, Onward(j, b))
    BY DEF GoesOn
  <1>g. job \in [Proc -> Job]
    BY GoodFacts
  <1>1. /\ Starts(p, k) /\ w.key = k /\ w.data = len[NewChain(p)] /\ w.head = hd[NewChain(p)]
    BY PlaceFacts
  <1>2. Home(k)' = Home(k) /\ BlockAt(l)' = BlockAt(l) /\ store'[k] = store[k]
    BY <1>1, LockFacts
  <1>3. PICK r : r = Ready(j, b)
    OBVIOUS
  <1>4. PICK o : o = Onward(j, b)
    OBVIOUS
  <1>5. j \in WriteJob \cup DeleteJob /\ j.op = "write"
    BY DEF PlacedJob
  <1>6. WentOn(j, b, r, o)
    BY <1>3, <1>4, <1>5, OnwardIs
  <1>7. /\ r \in WriteJob \cup DeleteJob /\ o \in WriteJob \cup DeleteJob
        /\ r.at = "ready" /\ r.op = "write" /\ r.buff = b /\ r.key = k /\ r.loc = l /\ r.old = old
        /\ r.size = w.size /\ r.data = w.data /\ r.found = f
        /\ r.rec.key = k /\ r.rec.size = w.size /\ r.rec.head = w.head
    BY <1>1, <1>5, <1>6 DEF WentOn, PlacedJob
  <1>8. PICK jb1 : jb1 = [job EXCEPT ![p] = r]
    OBVIOUS
  <1>9. Becomes(job, jb1, p, r) /\ Becomes(job, jb2, p, o)
    <2>1. jb2 = [job EXCEPT ![p] = o]
      BY <1>0, <1>4 DEF Do
    <2> QED BY <1>7, <1>8, <1>g, <2>1 DEF Becomes, Job
  <1>10. /\ Chained(own2, len2, hd2, nx) /\ Placed(ct2, spot2, rec)
         /\ Renames(p, k, own, len, hd, own2, len2, hd2)
         /\ Changes(k, l, ct, spot, rec, ct2, spot2, rec) /\ KeyAt(k, l, len2, hd2, spot2, rec)
         /\ spot2[k] = Nowhere
         /\ len2[NewChain(p)] = len[NewChain(p)] /\ hd2[NewChain(p)] = hd[NewChain(p)]
         /\ InGroup(own2, l, Home(k))
    BY DEF Cleared
  <1>11. jb1[p] = r /\ r.at \in Working
    BY <1>7, <1>9 DEF Becomes, Working
  <1>12. NewOK(jb1, p, len2, hd2) /\ OldOK(jb1, p, len2, hd2)
    BY <1>0, <1>1, <1>7, <1>10, <1>11 DEF NewOK, OldOK
  <1>13. WorkOK(jb1, p, own2, len2, hd2, nx, ct2, spot2, rec)'
    BY <1>0, <1>2, <1>7, <1>10, <1>11 DEF WorkOK
  <1>14. WorksAt(r, k, l)
    BY <1>7, <1>11 DEF WorksAt
  <1>15. Good(jb1, own2, len2, hd2, nx, ct2, spot2, rec, base)'
    BY ONLY Good(job, own, len, hd, nx, ct, spot, rec, base), l \in Loc, InGroup(own, l, Home(k)), LocksFor(p, k),
            <1>1, <1>9, <1>10, <1>12, <1>13, <1>14, p \in Proc, k \in Key, LockFrame
  <1> QED BY ONLY b \in BlockType, <1>3, <1>4, <1>5, <1>9, <1>15, p \in Proc, GoOn

\* A new record, which goes on from the last block.
LastOf(k, l) == l = Places(Home(k))[Len(Places(Home(k)))]
PlacesOn(p, w, l, old, f, b, jb2) == jb2 = job' /\ Do(p, Onward(PlaceJob(w, l, old, f), b))
LEMMA PlaceAbsent ==
  ASSUME NEW own, NEW len, NEW hd, NEW nx, NEW ct, NEW spot, NEW rec, NEW base,
         Good(job, own, len, hd, nx, ct, spot, rec, base), NEW p \in Proc, NEW k \in Key,
         NEW w, Comes(p, w, k), LocksFor(p, k), \A i : ~FoundAt(k, i),
         NEW l, LastOf(k, l), NEW jb2, PlacesOn(p, w, l, 0, FALSE, BlockAt(l), jb2)
  PROVE  GoodAfter(jb2)
  <1>g. Chained(own, len, hd, nx) /\ Placed(ct, spot, rec)
    BY GoodFacts
  <1>1. /\ Starts(p, k) /\ w.key = k /\ w.size \in Size /\ w.data \in Nat /\ w.head \in 0..MaxBlock
    BY PlaceFacts
  <1>2. /\ Home(k) \in Group /\ Along(Places(Home(k)), Home(k), own, hd, nx, ct)
        /\ len[OldChain(p)] = 0 /\ hd[OldChain(p)] = 0
    BY <1>1, LockFacts
  <1>3. Unlocked(Home(k))
    BY DEF LocksFor, LockHome, Unlocked
  <1>4. FoundWhere(k, spot) /\ DataIs(k, len, hd, spot, rec)
        /\ store[k] = IF spot[k] = Nowhere THEN Absent
                      ELSE [size |-> rec[k].size, data |-> len[DataChain(k)]]
    BY ONLY <1>3, k \in Key, Good(job, own, len, hd, nx, ct, spot, rec, base), HomeFree
  <1>5. spot[k] = Nowhere /\ store[k] = Absent /\ len[DataChain(k)] = 0
    BY <1>4 DEF FoundWhere, DataIs
  <1>6. /\ l \in Loc /\ InGroup(own, l, Home(k)) /\ BlockAt(l) = GroupBlock(ct[l], NextOf(hd, nx, l))
        /\ NextOf(hd, nx, l) = 0
    <2>1. PICK ls : ls = Places(Home(k))
      OBVIOUS
    <2>2. Along(ls, Home(k), own, hd, nx, ct) /\ l = ls[Len(ls)]
      BY <1>2, <2>1 DEF LastOf
    <2>3. Len(ls) \in 1..Len(ls)
      BY <2>2 DEF Along
    <2> QED BY <2>2, <2>3 DEF Along
  <1>7. PICK b : b = BlockAt(l)
    OBVIOUS
  <1>8. b \in BlockType /\ b.next = 0 /\ b = GroupBlock(ct[l], NextOf(hd, nx, l)) /\ l \in Spot
    <2>1. ct[l] \in Seq(Record) /\ l \in Spot
      BY <1>6, <1>g, PlacedFacts DEF Spot
    <2> QED BY <1>6, <1>7, <2>1 DEF GroupBlock, BlockType
  <1>9. Renames(p, k, own, len, hd, own, len, hd)
    BY DEF Renames
  <1>10. Changes(k, l, ct, spot, rec, ct, spot, rec) /\ KeyAt(k, l, len, hd, spot, rec)
    BY <1>5 DEF Changes, KeyAt
  <1>11. Cleared(p, k, l, own, len, hd, nx, ct, spot, rec, own, len, hd, ct, spot)
    BY <1>5, <1>9, <1>10, <1>g DEF Cleared
  <1>12. PICK j : j = PlaceJob(w, l, 0, FALSE)
    OBVIOUS
  <1>13. PlacedJob(j, w, l, 0, FALSE)
    BY <1>1, <1>6, <1>7, <1>8, <1>12, PlaceJobIs
  <1>14. GoesOn(p, k, l, j, b, 0, FALSE, nx, hd, ct, jb2)
    BY <1>2, <1>5, <1>7, <1>8, <1>12 DEF GoesOn, PlacesOn
  <1>15. 0 \in Nat /\ FALSE \in BOOLEAN
    OBVIOUS
  <1> QED BY ONLY Good(job, own, len, hd, nx, ct, spot, rec, base), p \in Proc, k \in Key, Comes(p, w, k), LocksFor(p, k),
          <1>6, <1>8, <1>11, <1>13, <1>14, <1>15, PlaceReady

\* A record of another size is taken out first.
LEMMA PlaceOther ==
  ASSUME NEW own, NEW len, NEW hd, NEW nx, NEW ct, NEW spot, NEW rec, NEW base,
         Good(job, own, len, hd, nx, ct, spot, rec, base), NEW p \in Proc, NEW k \in Key,
         NEW w, Comes(p, w, k), LocksFor(p, k), NEW i, NEW l, FoundIn(k, i, l),
         NEW jb2, PlacesOn(p, w, l, RecordOf(BlockAt(l), k).head, TRUE, Without(BlockAt(l), k), jb2)
  PROVE  GoodAfter(jb2)
  <1>1. /\ Starts(p, k) /\ w.key = k /\ w.size \in Size /\ w.data \in Nat /\ w.head \in 0..MaxBlock
    BY PlaceFacts
  <1>2. /\ l \in Loc /\ InGroup(own, l, Home(k)) /\ spot[k] = l /\ BlockAt(l) \in BlockType
        /\ RecordOf(BlockAt(l), k) = rec[k] /\ rec[k] \in Record
        /\ \E own2, len2, hd2, ct2, spot2 :
             TakenOut(p, k, l, own, len, hd, nx, ct, spot, rec, own2, len2, hd2, ct2, spot2)
    BY <1>1, TakeOut
  <1>3. PICK own2, len2, hd2, ct2, spot2 :
          TakenOut(p, k, l, own, len, hd, nx, ct, spot, rec, own2, len2, hd2, ct2, spot2)
    BY <1>2
  <1>4. Cleared(p, k, l, own, len, hd, nx, ct, spot, rec, own2, len2, hd2, ct2, spot2)
    BY <1>3 DEF TakenOut
  <1>5. PICK old : old = rec[k].head
    OBVIOUS
  <1>6. PICK b : b = Without(BlockAt(l), k)
    OBVIOUS
  <1>7. old \in Nat /\ old = hd2[OldChain(p)] /\ b = GroupBlock(ct2[l], NextOf(hd2, nx, l))
    BY <1>2, <1>3, <1>5, <1>6, DHBlocksAssumption DEF TakenOut, Record
  <1>8. b \in BlockType
    <2>0. Chained(own2, len2, hd2, nx) /\ Placed(ct2, spot2, rec)
      BY <1>4 DEF Cleared
    <2>1. ct2[l] \in Seq(Record)
      BY <1>2, <2>0, PlacedFacts DEF Spot
    <2>2. NextOf(hd2, nx, l) \in Nat
      <3>1. \A h \in Group : GroupChain(h) \in Owner
        BY AllOwners
      <3>2. hd2 \in [Owner -> Nat] /\ nx \in [Block -> Nat]
        BY <2>0, ChainFacts
      <3> QED BY <1>2, <3>1, <3>2 DEF NextOf, Loc
    <2> QED BY <1>7, <2>1, <2>2 DEF GroupBlock, BlockType
  <1>9. PICK j : j = PlaceJob(w, l, old, TRUE)
    OBVIOUS
  <1>10. PlacedJob(j, w, l, old, TRUE)
    BY <1>1, <1>2, <1>7, <1>9, PlaceJobIs
  <1>11. GoesOn(p, k, l, j, b, old, TRUE, nx, hd2, ct2, jb2)
    BY <1>2, <1>5, <1>6, <1>7, <1>9 DEF GoesOn, PlacesOn
  <1>12. TRUE \in BOOLEAN
    OBVIOUS
  <1> QED BY ONLY Good(job, own, len, hd, nx, ct, spot, rec, base), p \in Proc, k \in Key, Comes(p, w, k), LocksFor(p, k),
          <1>2, <1>4, <1>7, <1>8, <1>10, <1>11, <1>12, PlaceReady

\* A record of the same size is replaced where it is: its data is no longer that
\* of the file, and what has been written for the new one is.
Overwrites(p, w, l, old, jb2) ==
  /\ jb2 = job'
  /\ Do(p, [PlaceJob(w, l, old, TRUE) EXCEPT !.buff.recs =
              [j \in DOMAIN @ |-> IF @[j].key = w.key THEN NewRecord(w) ELSE @[j]]])
LEMMA PlaceSame ==
  ASSUME NEW own, NEW len, NEW hd, NEW nx, NEW ct, NEW spot, NEW rec, NEW base,
         Good(job, own, len, hd, nx, ct, spot, rec, base), NEW p \in Proc, NEW k \in Key,
         NEW w, Comes(p, w, k), LocksFor(p, k), NEW i, NEW l, FoundIn(k, i, l),
         NEW jb2, Overwrites(p, w, l, RecordOf(BlockAt(l), k).head, jb2)
  PROVE  GoodAfter(jb2)
  <1>g. Chained(own, len, hd, nx) /\ Placed(ct, spot, rec) /\ job \in [Proc -> Job]
    BY GoodFacts
  <1>1. /\ Starts(p, k) /\ w.key = k /\ w.size \in Size /\ w.data \in Nat /\ w.head \in 0..MaxBlock
        /\ w.data = len[NewChain(p)] /\ w.head = hd[NewChain(p)]
    BY PlaceFacts
  <1>2. /\ l \in Loc /\ InGroup(own, l, Home(k)) /\ spot[k] = l /\ BlockAt(l) \in BlockType
        /\ RecordOf(BlockAt(l), k) = rec[k] /\ rec[k] \in Record
        /\ BlockAt(l) = GroupBlock(ct[l], NextOf(hd, nx, l))
    BY <1>1, TakeOut
  <1>3. Unlocked(Home(k))
    BY DEF LocksFor, LockHome, Unlocked
  <1>4. DataIs(k, len, hd, spot, rec)
    BY ONLY <1>3, k \in Key, Good(job, own, len, hd, nx, ct, spot, rec, base), HomeFree
  <1>5. l \in Spot /\ l # Nowhere
    BY <1>2, <1>g, PlacedFacts DEF Spot
  <1>6. PICK r : r = NewRecord(w)
    OBVIOUS
  <1>7. r \in Record /\ r.key = k /\ r.size = w.size /\ r.head = w.head
    BY <1>1, <1>6 DEF NewRecord, Record
  <1>8. IsAt(spot, r, l)
    BY <1>2, <1>7 DEF IsAt
  <1>9. PICK ct2, rec2 : Replaced(ct, spot, rec, ct2, rec2, l, r)
    BY <1>5, <1>7, <1>8, <1>g, ReplaceRecord
  <1>10. /\ Placed(ct2, spot, rec2) /\ rec2[k] = r
         /\ ct2[l] = [j \in DOMAIN ct[l] |-> IF ct[l][j].key = k THEN r ELSE ct[l][j]]
         /\ Changes(k, l, ct, spot, rec, ct2, spot, rec2)
    BY <1>7, <1>9 DEF Replaced, Changes
  <1>11. /\ DataChain(k) \in Owner /\ OldChain(p) \in Owner /\ NewChain(p) \in Owner
         /\ DataChain(k) # OldChain(p) /\ NewChain(p) # DataChain(k) /\ NewChain(p) # OldChain(p)
    BY AllOwners, Kinds
  <1>12. len[OldChain(p)] = 0
    BY <1>1, LockFacts
  <1>13. PICK own1, len1, hd1 :
           /\ Chained(own1, len1, hd1, nx)
           /\ \A c \in Block : own1[c] = IF own[c] = DataChain(k) THEN OldChain(p) ELSE own[c]
           /\ len1[DataChain(k)] = 0 /\ hd1[DataChain(k)] = 0
           /\ len1[OldChain(p)] = len[DataChain(k)] /\ hd1[OldChain(p)] = hd[DataChain(k)]
           /\ \A o \in Owner : o # DataChain(k) /\ o # OldChain(p) => len1[o] = len[o] /\ hd1[o] = hd[o]
    BY ONLY <1>11, <1>12, <1>g, Handover
  <1>14. PICK own2, len2, hd2 :
           /\ Chained(own2, len2, hd2, nx)
           /\ \A c \in Block : own2[c] = IF own1[c] = NewChain(p) THEN DataChain(k) ELSE own1[c]
           /\ len2[NewChain(p)] = 0 /\ hd2[NewChain(p)] = 0
           /\ len2[DataChain(k)] = len1[NewChain(p)] /\ hd2[DataChain(k)] = hd1[NewChain(p)]
           /\ \A o \in Owner : o # NewChain(p) /\ o # DataChain(k) => len2[o] = len1[o] /\ hd2[o] = hd1[o]
    BY ONLY <1>11, <1>13, Handover
  <1>15. Renames(p, k, own, len, hd, own2, len2, hd2)
    <2>1. \A c \in Block : own2[c] = IF own[c] = DataChain(k) THEN OldChain(p)
                                     ELSE IF own[c] = NewChain(p) THEN DataChain(k) ELSE own[c]
      BY <1>11, <1>13, <1>14
    <2>2. \A o \in Owner : ~LockChain(p, k, o) => len2[o] = len[o] /\ hd2[o] = hd[o]
      BY <1>13, <1>14 DEF LockChain
    <2> QED BY <1>11, <2>1, <2>2 DEF Renames, LockChain
  <1>16. /\ len2[NewChain(p)] = 0
         /\ len2[DataChain(k)] = w.data /\ hd2[DataChain(k)] = w.head
         /\ hd2[OldChain(p)] = rec[k].head
    BY <1>1, <1>2, <1>4, <1>5, <1>11, <1>13, <1>14 DEF DataIs
  <1>17. KeyAt(k, l, len2, hd2, spot, rec2)
    BY <1>2, <1>5, <1>7, <1>10, <1>16 DEF KeyAt
  <1>18. \A h : GroupChain(h) # DataChain(k) /\ GroupChain(h) # OldChain(p) /\ GroupChain(h) # NewChain(p)
    BY Kinds
  <1>19. InGroup(own2, l, Home(k))
    <2>1. \A c \in Block : own[c] = GroupChain(Home(k)) => own2[c] = GroupChain(Home(k))
      BY <1>13, <1>14, <1>18
    <2> QED BY <1>2, <2>1 DEF InGroup
  <1>20. NextOf(hd2, nx, l) = NextOf(hd, nx, l)
    <2>1. \A h \in Group : hd2[GroupChain(h)] = hd[GroupChain(h)]
      BY <1>13, <1>14, <1>18, AllOwners
    <2>2. l[1] = "p" => l[2] \in Group
      BY <1>2 DEF Loc
    <2> QED BY <2>1, <2>2 DEF NextOf
  <1>21. PICK old : old = rec[k].head
    OBVIOUS
  <1>22. old \in Nat
    BY <1>2, <1>21, DHBlocksAssumption DEF Record
  <1>23. PICK j : j = PlaceJob(w, l, old, TRUE)
    OBVIOUS
  <1>24. PlacedJob(j, w, l, old, TRUE)
    BY <1>1, <1>2, <1>22, <1>23, PlaceJobIs
  <1>25. PICK o : o = [j EXCEPT !.buff.recs =
                         [m \in DOMAIN @ |-> IF @[m].key = k THEN r ELSE @[m]]]
    OBVIOUS
  <1>26. jb2 = [job EXCEPT ![p] = o]
    BY <1>1, <1>2, <1>6, <1>21, <1>23, <1>25 DEF Overwrites, Do
  <1>27. ct2[l] \in Seq(Record)
    BY <1>5, <1>10, PlacedFacts
  <1>28. GroupBlock(ct2[l], NextOf(hd2, nx, l)) \in BlockType
    BY <1>2, <1>20, <1>27 DEF GroupBlock, BlockType
  <1>29. /\ o \in WriteJob /\ o.at = "last" /\ o.op = "write" /\ o.key = k /\ o.loc = l
         /\ o.size = w.size /\ o.data = w.data /\ o.rec = r /\ o.old = old
         /\ o.buff = GroupBlock(ct2[l], NextOf(hd2, nx, l))
    <2>1. /\ j \in WriteJob /\ j.at = "last" /\ j.op = "write" /\ j.key = k /\ j.size = w.size /\ j.data = w.data
          /\ j.rec = r /\ j.loc = l /\ j.old = old
          /\ j.buff = GroupBlock(ct[l], NextOf(hd, nx, l))
      BY <1>1, <1>2, <1>6, <1>24 DEF PlacedJob
    <2>2. PICK n : n = NextOf(hd, nx, l)
      OBVIOUS
    <2>3. PICK s : s = ct[l]
      OBVIOUS
    <2>4. PICK t : t = ct2[l]
      OBVIOUS
    <2>5. t = [m \in DOMAIN s |-> IF s[m].key = k THEN r ELSE s[m]]
      BY <1>10, <2>3, <2>4
    <2>6. [recs |-> t, next |-> n] \in BlockType
      BY <1>20, <1>28, <2>2, <2>4 DEF GroupBlock
    <2>7. j.buff = [recs |-> s, next |-> n]
      BY <2>1, <2>2, <2>3 DEF GroupBlock
    <2>8. [j.buff EXCEPT !.recs = [m \in DOMAIN @ |-> IF @[m].key = k THEN r ELSE @[m]]] = [recs |-> t, next |-> n]
      BY <2>5, <2>7
    <2>9. o = [j EXCEPT !.buff = [recs |-> t, next |-> n]]
      BY <1>25, <2>1, <2>5, <2>7, <2>8 DEF WriteJob
    <2>10. o \in WriteJob /\ o.buff = [recs |-> t, next |-> n]
      BY <2>1, <2>6, <2>9 DEF WriteJob
    <2>11. /\ o.at = "last" /\ o.op = "write" /\ o.key = k /\ o.loc = l
           /\ o.size = w.size /\ o.data = w.data /\ o.rec = r /\ o.old = old
      BY <2>1, <2>9 DEF WriteJob
    <2> QED BY <1>20, <2>2, <2>4, <2>10, <2>11 DEF GroupBlock
  <1>30. Becomes(job, jb2, p, o) /\ jb2[p] = o /\ o.at \in Working
    BY <1>26, <1>29, <1>g DEF Becomes, Job, Working
  <1>31. NewOK(jb2, p, len2, hd2) /\ OldOK(jb2, p, len2, hd2)
    BY <1>16, <1>21, <1>29, <1>30 DEF NewOK, OldOK
  <1>32. Home(k)' = Home(k)
    BY <1>1, LockFacts
  <1>33. WorkOK(jb2, p, own2, len2, hd2, nx, ct2, spot, rec2)'
    BY <1>2, <1>5, <1>7, <1>10, <1>16, <1>19, <1>29, <1>30, <1>32 DEF WorkOK
  <1>34. WorksAt(o, k, l)
    BY <1>29, <1>30 DEF WorksAt
  <1>35. Good(jb2, own2, len2, hd2, nx, ct2, spot, rec2, base)'
    BY ONLY Good(job, own, len, hd, nx, ct, spot, rec, base), p \in Proc, k \in Key, LocksFor(p, k),
            <1>1, <1>2, <1>10, <1>14, <1>15, <1>17, <1>30, <1>31, <1>33, <1>34, LockFrame
  <1> QED BY <1>35 DEF GoodAfter

LEMMA PlaceStep ==
  ASSUME IInv, NEW p \in Proc, NEW k \in Key, NEW w, Comes(p, w, k), Place(p, w)
  PROVE  IInv'
  <1>1. PICK own, len, hd, nx, ct, spot, rec, base : Good(job, own, len, hd, nx, ct, spot, rec, base)
    BY DEF IInv
  <1>2. PICK jb2 : jb2 = job'
    OBVIOUS
  <1>3. w.key = k /\ LocksFor(p, k)
    BY DEF Comes, Place, LocksFor
  <1>5. PICK ls : ls = Places(Home(k))
    OBVIOUS
  <1>7. PICK found : found = {i \in 1..Len(ls) : FoundAt(k, i)}
    OBVIOUS
  <1>8. \/ /\ found = {}
           /\ Do(p, Onward(PlaceJob(w, ls[Len(ls)], 0, FALSE), BlockAt(ls[Len(ls)])))
        \/ \E i \in found :
             \/ /\ RecordOf(BlockAt(ls[i]), k).size = w.size
                /\ Do(p, [PlaceJob(w, ls[i], RecordOf(BlockAt(ls[i]), k).head, TRUE) EXCEPT !.buff.recs =
                     [j \in DOMAIN @ |-> IF @[j].key = k THEN NewRecord(w) ELSE @[j]]])
             \/ /\ RecordOf(BlockAt(ls[i]), k).size # w.size
                /\ Do(p, Onward(PlaceJob(w, ls[i], RecordOf(BlockAt(ls[i]), k).head, TRUE),
                                Without(BlockAt(ls[i]), k)))
    <2>1. Last(ls) = ls[Len(ls)]
      BY DEF Last
    <2>2. \A i, old : [at |-> "last", op |-> "write", key |-> w.key, size |-> w.size, data |-> w.data,
            rec |-> [key |-> w.key, size |-> w.size, head |-> w.head], loc |-> ls[i], buff |-> BlockAt(ls[i]),
            old |-> old, found |-> found # {}] = PlaceJob(w, ls[i], old, found # {})
      BY DEF PlaceJob, NewRecord
    <2>3. \/ /\ found = {}
             /\ Do(p, Onward(PlaceJob(w, ls[Len(ls)], 0, found # {}), BlockAt(Last(ls))))
          \/ \E i \in found :
             \/ /\ RecordOf(BlockAt(ls[i]), w.key).size = w.size
                /\ Do(p, [PlaceJob(w, ls[i], RecordOf(BlockAt(ls[i]), w.key).head, found # {}) EXCEPT !.buff.recs =
                     [j \in DOMAIN @ |-> IF @[j].key = w.key THEN NewRecord(w) ELSE @[j]]])
             \/ /\ RecordOf(BlockAt(ls[i]), w.key).size # w.size
                /\ Do(p, Onward(PlaceJob(w, ls[i], RecordOf(BlockAt(ls[i]), w.key).head, found # {}),
                                Without(BlockAt(ls[i]), w.key)))
      <3> DEFINE L == Places(Home(w.key))
                 F == {i \in 1..Len(L) : FoundAt(w.key, i)}
      <3>1. \/ /\ F = {}
               /\ Do(p, Onward(PlaceJob(w, L[Len(L)], 0, F # {}), BlockAt(Last(L))))
            \/ \E i \in F :
               \/ /\ RecordOf(BlockAt(L[i]), w.key).size = w.size
                  /\ Do(p, [PlaceJob(w, L[i], RecordOf(BlockAt(L[i]), w.key).head, F # {}) EXCEPT !.buff.recs =
                       [j \in DOMAIN @ |-> IF @[j].key = w.key THEN NewRecord(w) ELSE @[j]]])
               \/ /\ RecordOf(BlockAt(L[i]), w.key).size # w.size
                  /\ Do(p, Onward(PlaceJob(w, L[i], RecordOf(BlockAt(L[i]), w.key).head, F # {}),
                                  Without(BlockAt(L[i]), w.key)))
        BY DEF Place, PlaceJob, NewRecord
      <3>2. L = ls /\ F = found
        BY <1>3, <1>5, <1>7
      <3> HIDE DEF L, F
      <3> QED BY <3>1, <3>2
    <2>4. CASE found = {}
      <3>1. (found # {}) = FALSE
        BY <2>4
      <3> QED BY <2>1, <2>3, <2>4, <3>1
    <2>5. CASE found # {}
      <3>1. (found # {}) = TRUE
        BY <2>5
      <3> QED BY <1>3, <2>3, <2>5, <3>1
    <2> QED BY <2>4, <2>5
  <1>9. /\ LocksFor(p, k) /\ Len(ls) \in Nat \ {0}
        /\ \A i : FoundAt(k, i) => i \in 1..Len(ls)
    <2>1. Starts(p, k)
      BY DEF Comes, Starts
    <2>2. Along(ls, Home(k), own, hd, nx, ct)
      BY <1>1, <1>3, <1>5, <2>1, LockFacts
    <2>3. Len(ls) \in Nat \ {0}
      BY <2>2 DEF Along
    <2> QED BY <1>3, <1>5, <2>3 DEF FoundAt
  <1>10. ASSUME found = {}, Do(p, Onward(PlaceJob(w, ls[Len(ls)], 0, FALSE), BlockAt(ls[Len(ls)])))
         PROVE  GoodAfter(jb2)
    <2>1. \A i : ~FoundAt(k, i)
      BY <1>7, <1>9, <1>10
    <2>2. PICK l : l = ls[Len(ls)]
      OBVIOUS
    <2>3. LastOf(k, l) /\ PlacesOn(p, w, l, 0, FALSE, BlockAt(l), jb2)
      BY <1>2, <1>5, <1>10, <2>2 DEF LastOf, PlacesOn
    <2> QED BY ONLY <1>1, <1>3, <2>1, <2>3, p \in Proc, k \in Key, Comes(p, w, k), PlaceAbsent
  <1>11. ASSUME NEW i \in found,
                Do(p, Onward(PlaceJob(w, ls[i], RecordOf(BlockAt(ls[i]), k).head, TRUE),
                                Without(BlockAt(ls[i]), k)))
         PROVE  GoodAfter(jb2)
    <2>1. PICK l : l = ls[i]
      OBVIOUS
    <2>2. FoundIn(k, i, l)
      BY <1>5, <1>7, <2>1 DEF FoundIn
    <2>3. PlacesOn(p, w, l, RecordOf(BlockAt(l), k).head, TRUE, Without(BlockAt(l), k), jb2)
      BY <1>2, <1>11, <2>1 DEF PlacesOn
    <2> QED BY ONLY <1>1, <1>3, <2>2, <2>3, p \in Proc, k \in Key, Comes(p, w, k), PlaceOther
  <1>12. ASSUME NEW i \in found,
                Do(p, [PlaceJob(w, ls[i], RecordOf(BlockAt(ls[i]), k).head, TRUE) EXCEPT !.buff.recs =
                     [j \in DOMAIN @ |-> IF @[j].key = k THEN NewRecord(w) ELSE @[j]]])
         PROVE  GoodAfter(jb2)
    <2>1. PICK l : l = ls[i]
      OBVIOUS
    <2>2. FoundIn(k, i, l)
      BY <1>5, <1>7, <2>1 DEF FoundIn
    <2>3. Overwrites(p, w, l, RecordOf(BlockAt(l), k).head, jb2)
      BY <1>2, <1>3, <1>12, <2>1 DEF Overwrites
    <2> QED BY ONLY <1>1, <1>3, <2>2, <2>3, p \in Proc, k \in Key, Comes(p, w, k), PlaceSame
  <1>13. GoodAfter(jb2)
    BY <1>8, <1>10, <1>11, <1>12
  <1> QED BY <1>2, <1>13, AfterIs

LEMMA WriteRecordStep ==
  ASSUME IInv, NEW p \in Proc, NEW k \in Key, NEW s \in Size, WriteRecord(p, k, s)
  PROVE  IInv'
  <1>1. PICK w : w = [key |-> k, size |-> s, data |-> 0, head |-> 0]
    OBVIOUS
  <1>2. Comes(p, w, k) /\ Place(p, w)
    BY <1>1 DEF WriteRecord, At, Comes
  <1> QED BY ONLY IInv, p \in Proc, k \in Key, <1>2, PlaceStep

LEMMA PlaceLargeStep ==
  ASSUME IInv, NEW p \in Proc, PlaceLarge(p)
  PROVE  IInv'
  <1>1. job \in [Proc -> Job]
    BY GoodFacts DEF IInv
  <1>2. PICK w : w = job[p]
    OBVIOUS
  <1>3. Place(p, w) /\ w.at = "place" /\ w \in Job
    BY <1>1, <1>2 DEF PlaceLarge, At
  <1>4. w \in DataJob
    BY <1>3, JobTypes
  <1>5. PICK k \in Key : k = w.key
    BY <1>4 DEF DataJob
  <1>6. w.size \in Size
    BY <1>4 DEF DataJob
  <1>7. Comes(p, w, k)
    BY <1>2, <1>3, <1>5, <1>6 DEF Comes
  <1> QED BY ONLY IInv, p \in Proc, k \in Key, <1>3, <1>7, PlaceStep

-----------------------------------------------------------------------------
(* A process that moves blocks and records about in its group               *)
\* Blocks of group g may become free, and all of its places may be written.
Regroups(g, o, own, hd, nx, own2, hd2, nx2, ct2) ==
  /\ modulus' = modulus /\ modValue' = modValue /\ header' = header /\ store' = store
  /\ locked' = locked
  /\ DOMAIN primary' = Group /\ DOMAIN overflow' = Block
  /\ \A h \in Group : h # g => primary'[h] = primary[h]
  /\ \A b \in Block :
       IF own[b] = GroupChain(g)
       THEN own2[b] = own[b] \/ (own2[b] = Free /\ overflow'[b].next = nx2[b])
       ELSE own2[b] = own[b] /\ nx2[b] = nx[b] /\ overflow'[b] = overflow[b]
  /\ \A l \in Loc : InGroup(own2, l, g) /\ l # o.loc =>
       BlockAt(l)' = GroupBlock(ct2[l], NextOf(hd2, nx2, l))
KeepsChains(g, len, hd, len2, hd2) ==
  \A w \in Owner : w # Free /\ w # GroupChain(g) => len2[w] = len[w] /\ hd2[w] = hd[w]
Reseats(g, own, ct, spot, own2, ct2, spot2) ==
  /\ \A m \in Spot : ct2[m] = ct[m] \/ InGroup(own, m, g)
  /\ \A k \in Key : \/ spot2[k] = spot[k]
                    \/ InGroup(own, spot[k], g) /\ spot[k] # Nowhere /\ spot2[k] # Nowhere
  /\ \A k \in Key : Home(k) = g => spot2[k] = Nowhere \/ InGroup(own2, spot2[k], g)

LEMMA GroupFrame ==
  ASSUME NEW own, NEW len, NEW hd, NEW nx, NEW ct, NEW spot, NEW rec, NEW base,
         NEW own2, NEW len2, NEW hd2, NEW nx2, NEW ct2, NEW spot2,
         NEW jb2, NEW o, NEW p \in Proc, NEW j \in WriteJob \cup DeleteJob, NEW g \in Group,
         Good(job, own, len, hd, nx, ct, spot, rec, base),
         AtWork(p, j, g, own, len, hd, nx, ct, spot, rec),
         Becomes(job, jb2, p, o), WorksAt(o, j.key, o.loc),
         Regroups(g, o, own, hd, nx, own2, hd2, nx2, ct2), KeepsChains(g, len, hd, len2, hd2),
         Reseats(g, own, ct, spot, own2, ct2, spot2),
         Chained(own2, len2, hd2, nx2), Placed(ct2, spot2, rec), KeepsFree(own, own2, len2, hd2),
         NewOK(jb2, p, len2, hd2), OldOK(jb2, p, len2, hd2),
         WorkOK(jb2, p, own2, len2, hd2, nx2, ct2, spot2, rec)'
  PROVE  Good(jb2, own2, len2, hd2, nx2, ct2, spot2, rec, base)'
  <1>g. /\ Chained(own, len, hd, nx) /\ Placed(ct, spot, rec) /\ job \in [Proc -> Job]
        /\ store \in [Key -> [size : Nat, data : Nat]]
        /\ locked \in [Group -> Proc \cup {None}] /\ None \notin Proc
        /\ SpaceOK(job, own, len, hd)
        /\ JobOK(job, p, own, len, hd, nx, ct, spot, rec, base)
    BY GoodFacts
  <1>1. DiskIs(own, nx, ct)
    BY DiskFacts
  <1>2. /\ j = job[p] /\ j.at \in Working /\ g = Home(j.key) /\ j.key \in Key
        /\ g \in 1..modulus /\ ~Moving(job, p) /\ locked[g] = p /\ \A h \in Group : h # g => locked[h] # p
    BY DEF AtWork
  <1>3. o.at \in Working /\ o.key = j.key /\ o.at # "move" /\ Held(o) = {o.loc}
    BY DEF WorksAt, Working, Held
  <1>4. /\ modulus' = modulus /\ modValue' = modValue /\ header' = header /\ store' = store
        /\ locked' = locked /\ DOMAIN primary' = Group /\ DOMAIN overflow' = Block
    BY DEF Regroups
  <1>5. WorkLocks(p, g, o)
    BY <1>2, <1>3, <1>4, <1>g DEF WorkLocks
  <1>6. \A b \in Block :
          IF own[b] = GroupChain(g)
          THEN own2[b] = own[b] \/ (own2[b] = Free /\ overflow'[b].next = nx2[b])
          ELSE own2[b] = own[b] /\ nx2[b] = nx[b] /\ overflow'[b] = overflow[b]
    BY DEF Regroups
  <1>7. Free # GroupChain(g) /\ \A q : OldChain(q) # GroupChain(g) /\ NewChain(q) # GroupChain(g)
        /\ Free # OldChain(q) /\ Free # NewChain(q)
    BY Kinds
  <1>8. \A k : DataChain(k) # GroupChain(g) /\ DataChain(k) # Free
    BY Kinds
  <1>9. ASSUME NEW k \in Key
        PROVE  /\ len2[DataChain(k)] = len[DataChain(k)] /\ hd2[DataChain(k)] = hd[DataChain(k)]
               /\ spot2[k] = Nowhere <=> spot[k] = Nowhere
    BY <1>8, AllOwners DEF KeepsChains, Reseats
  <1>10. WorkSame(p, g, own, len, hd, nx, ct, spot, rec, own2, len2, hd2, nx2, ct2, spot2, rec)
    <2>1. \A h \in Group : h # g => primary'[h] = primary[h] /\ ct2[<<"p", h>>] = ct[<<"p", h>>]
      <3>1. \A h \in Group : h # g => ~InGroup(own, <<"p", h>>, g) /\ <<"p", h>> \in Spot
        BY DEF InGroup, Spot, Loc
      <3> QED BY <3>1 DEF Reseats, Regroups
    <2>2. \A w \in Owner : ~WorkChain(p, g, w) => len2[w] = len[w] /\ hd2[w] = hd[w]
      BY DEF KeepsChains, WorkChain
    <2>3. ASSUME NEW b \in Block
          PROVE  IF WorkChain(p, g, own[b]) THEN WorkChain(p, g, own2[b])
                 ELSE /\ own2[b] = own[b] /\ nx2[b] = nx[b] /\ ct2[<<"o", b>>] = ct[<<"o", b>>]
                      /\ overflow'[b] = overflow[b]
      <3>1. CASE WorkChain(p, g, own[b])
        <4>1. own2[b] = own[b] \/ own2[b] = Free
          BY <1>6
        <4>2. WorkChain(p, g, Free)
          BY DEF WorkChain
        <4> QED BY <3>1, <4>1, <4>2
      <3>2. CASE ~WorkChain(p, g, own[b])
        <4>1. own[b] # GroupChain(g)
          BY <3>2 DEF WorkChain
        <4>2. ~InGroup(own, <<"o", b>>, g) /\ <<"o", b>> \in Spot
          BY <4>1 DEF InGroup, Spot, Loc
        <4> QED BY <1>6, <3>2, <4>1, <4>2 DEF Reseats
      <3> QED BY <3>1, <3>2
    <2>4. \A q \in Proc : ct2[BufferOf(q)] = ct[BufferOf(q)]
      <3>1. \A q \in Proc : BufferOf(q) \in Spot /\ ~InGroup(own, BufferOf(q), g)
        BY DEF BufferOf, Spot, InGroup
      <3> QED BY <3>1 DEF Reseats
    <2>5. ASSUME NEW k \in Key, Home(k) # g PROVE spot2[k] = spot[k]
      <3>1. SUFFICES ASSUME InGroup(own, spot[k], g), spot[k] # Nowhere PROVE FALSE
        BY DEF Reseats
      <3>2. HomeOK(job, k, own, spot, base)
        BY GoodFacts
      <3>3. InGroup(own, spot[k], Home(k)) => FALSE
        BY <2>5, <3>1, InOneGroup
      <3>4. \A q : spot[k] # BufferOf(q)
        BY <3>1 DEF BufferOf, InGroup
      <3>5. \A b \in Block, q \in Proc : spot[k] = <<"o", b>> => own[b] # SourceChain(q)
        <4>1. \A q : SourceChain(q) # GroupChain(g)
          BY Kinds
        <4> QED BY <3>1, <4>1 DEF InGroup
      <3> QED BY <3>1, <3>2, <3>3, <3>4, <3>5 DEF HomeOK
    <2> QED BY <1>4, <1>g, <2>1, <2>2, <2>3, <2>4, <2>5 DEF WorkSame
  <1>11. SpaceOK(jb2, own2, len2, hd2)'
    <2>1. job[p].at # "flush"
      BY <1>2 DEF Working
    <2> QED BY <1>g, <2>1, SpaceStep
  <1>12. WorkBlocks(p, g, o, own2, hd2, nx2, ct2)
    <2>1. \A l \in Loc : InGroup(own2, l, g) /\ l \notin Held(o) =>
            BlockAt(l)' = GroupBlock(ct2[l], NextOf(hd2, nx2, l))
      BY <1>3 DEF Regroups
    <2>2. ASSUME NEW b \in Block
          PROVE  /\ own2[b] \in {Free, OldChain(p)} => overflow'[b].next = nx2[b]
                 /\ own2[b] = NewChain(p) => overflow'[b] = DataBlock(o.key, nx2[b])
                 /\ \A k \in Key : own2[b] = DataChain(k) /\ Home(k) = g => overflow'[b] = DataBlock(k, nx2[b])
      <3>1. CASE own[b] = GroupChain(g)
        BY <1>6, <1>7, <1>8, <3>1
      <3>2. CASE own[b] # GroupChain(g)
        BY <1>1, <1>2, <1>3, <1>6, <3>2 DEF DiskIs
      <3> QED BY <3>1, <3>2
    <2> QED BY <2>1, <2>2 DEF WorkBlocks
  <1>13. WorkKeys(g, o, own2, len2, hd2, spot2, rec)
    <2>1. SUFFICES ASSUME NEW k \in Key, Home(k) = g
          PROVE  /\ spot2[k] = Nowhere \/ InGroup(own2, spot2[k], g)
                 /\ IF spot2[k] = Nowhere THEN len2[DataChain(k)] = 0 ELSE hd2[DataChain(k)] = rec[k].head
                 /\ k # j.key => store'[k] = IF spot2[k] = Nowhere THEN Absent
                                             ELSE [size |-> rec[k].size, data |-> len2[DataChain(k)]]
      BY <1>3 DEF WorkKeys
    <2>2. /\ IF spot[k] = Nowhere THEN len[DataChain(k)] = 0 ELSE hd[DataChain(k)] = rec[k].head
          /\ k # j.key => store[k] = IF spot[k] = Nowhere THEN Absent
                                     ELSE [size |-> rec[k].size, data |-> len[DataChain(k)]]
      BY <2>1 DEF AtWork
    <2>3. spot2[k] = Nowhere \/ InGroup(own2, spot2[k], g)
      BY <2>1 DEF Reseats
    <2> QED BY <1>4, <1>9, <2>2, <2>3
  <1> QED BY ONLY p \in Proc, g \in Group, Good(job, own, len, hd, nx, ct, spot, rec, base),
          Becomes(job, jb2, p, o), Chained(own2, len2, hd2, nx2), Placed(ct2, spot2, rec),
          NewOK(jb2, p, len2, hd2), OldOK(jb2, p, len2, hd2),
          WorkOK(jb2, p, own2, len2, hd2, nx2, ct2, spot2, rec)',
          <1>2, <1>3, <1>5, <1>10, <1>11, <1>12, <1>13, WorkFrame

\* The block after l is freed: what the group has then.
FreesNext(g, l, n, own, hd, nx, own2, hd2, nx2) ==
  /\ n \in Block /\ own[n] = GroupChain(g) /\ l # <<"o", n>> /\ <<"o", n>> \in Loc
  /\ InGroup(own2, l, g)
  /\ NextOf(hd2, nx2, l) = nx[n]
  /\ \A m : InGroup(own2, m, g) => InGroup(own, m, g) /\ m # <<"o", n>>
  /\ \A m : InGroup(own, m, g) /\ m # <<"o", n>> => InGroup(own2, m, g)
  /\ \A m \in Loc : InGroup(own2, m, g) /\ m # l => NextOf(hd2, nx2, m) = NextOf(hd, nx, m)
LEMMA FreedNext ==
  ASSUME NEW own, NEW len, NEW hd, NEW nx, NEW own2, NEW len2, NEW hd2, NEW nx2,
         Chained(own, len, hd, nx), NEW g \in Group, NEW l \in Loc, InGroup(own, l, g),
         NEW n, NextIs(hd, nx, l, n), n # 0,
         Freed(own, len, hd, nx, own2, len2, hd2, nx2, g, l, n)
  PROVE  FreesNext(g, l, n, own, hd, nx, own2, hd2, nx2)
  <1>1. n \in Block /\ own[n] = GroupChain(g) /\ l # <<"o", n>>
    BY GroupNext DEF NextIs
  <1>2. <<"o", n>> \in Loc
    BY <1>1 DEF Loc
  <1>3. Free # GroupChain(g)
    BY Kinds
  <1>4. /\ \A b \in Block : own2[b] = IF b = n THEN Free ELSE own[b]
        /\ \A b \in Block : nx2[b] = IF b = n THEN hd[Free]
                                     ELSE IF l = <<"o", b>> THEN nx[n] ELSE nx[b]
        /\ hd2[GroupChain(g)] = IF l[1] = "p" THEN nx[n] ELSE hd[GroupChain(g)]
    BY DEF Freed
  <1>5. InGroup(own2, l, g)
    BY <1>1, <1>4 DEF InGroup
  <1>6. NextOf(hd2, nx2, l) = nx[n]
    <2>1. CASE l = <<"p", g>>
      BY <1>4, <2>1 DEF NextOf
    <2>2. CASE l # <<"p", g>>
      <3>1. l[1] = "o" /\ l = <<"o", l[2]>> /\ l[2] \in Block /\ l[2] # n
        BY <1>1, <2>2 DEF InGroup
      <3> QED BY <1>4, <3>1 DEF NextOf
    <2> QED BY <2>1, <2>2
  <1>7. ASSUME NEW m, InGroup(own2, m, g) PROVE InGroup(own, m, g) /\ m # <<"o", n>>
    BY <1>1, <1>3, <1>4, <1>7 DEF InGroup
  <1>8. ASSUME NEW m, InGroup(own, m, g), m # <<"o", n>> PROVE InGroup(own2, m, g)
    BY <1>4, <1>8 DEF InGroup
  <1>9. ASSUME NEW m \in Loc, InGroup(own2, m, g), m # l PROVE NextOf(hd2, nx2, m) = NextOf(hd, nx, m)
    <2>1. CASE m = <<"p", g>>
      <3>1. l[1] # "p"
        BY <1>9, <2>1 DEF InGroup
      <3> QED BY <1>4, <2>1, <3>1 DEF NextOf
    <2>2. CASE m # <<"p", g>>
      <3>1. m[1] = "o" /\ m = <<"o", m[2]>> /\ m[2] \in Block /\ m[2] # n
        BY <1>7, <1>9, <2>2 DEF InGroup
      <3> QED BY <1>4, <1>9, <3>1 DEF NextOf
    <2> QED BY <2>1, <2>2
  <1> QED BY <1>1, <1>2, <1>5, <1>6, <1>7, <1>8, <1>9 DEF FreesNext

\* The free block has no records.
Emptied(own, ct, spot, ct2, spot2, l, n) ==
  /\ \A m \in Spot : m # l /\ m # <<"o", n>> => ct2[m] = ct[m]
  /\ \A k \in Key : spot2[k] = spot[k] \/ (spot[k] = <<"o", n>> /\ spot2[k] = l)
  /\ \A k \in Key : spot2[k] # <<"o", n>>
Frees(n) ==
  FreeOverflow(n) /\ UNCHANGED <<modulus, modValue, locked, header, store>>
PrunesAt(own, j, l, n) == j.loc \in {l, <<"o", n>>} /\ l # <<"o", n>>

LEMMA DropFrame ==
  ASSUME NEW own, NEW len, NEW hd, NEW nx, NEW ct, NEW spot, NEW rec, NEW base,
         NEW own2, NEW len2, NEW hd2, NEW nx2, NEW ct2, NEW spot2,
         NEW jb2, NEW o, NEW p \in Proc, NEW j \in WriteJob \cup DeleteJob, NEW g \in Group,
         Good(job, own, len, hd, nx, ct, spot, rec, base),
         AtWork(p, j, g, own, len, hd, nx, ct, spot, rec),
         NEW l \in Loc, InGroup(own, l, g), NEW n, NextIs(hd, nx, l, n), n # 0,
         PrunesAt(own, j, l, n), Frees(n),
         Freed(own, len, hd, nx, own2, len2, hd2, nx2, g, l, n),
         Emptied(own, ct, spot, ct2, spot2, l, n), Placed(ct2, spot2, rec),
         Becomes(job, jb2, p, o), WorksAt(o, j.key, l),
         NewOK(jb2, p, len2, hd2), OldOK(jb2, p, len2, hd2),
         WorkOK(jb2, p, own2, len2, hd2, nx2, ct2, spot2, rec)'
  PROVE  Good(jb2, own2, len2, hd2, nx2, ct2, spot2, rec, base)'
  <1>g. /\ Chained(own, len, hd, nx) /\ Placed(ct, spot, rec)
        /\ DOMAIN overflow = Block /\ DOMAIN primary = Group /\ SpaceOK(job, own, len, hd)
        /\ modulus \in Nat
    BY GoodFacts DEF Group
  <1>1. FreesNext(g, l, n, own, hd, nx, own2, hd2, nx2)
    BY <1>g, FreedNext
  <1>2. /\ n \in Block /\ own[n] = GroupChain(g) /\ l # <<"o", n>> /\ <<"o", n>> \in Loc
        /\ \A m : InGroup(own2, m, g) => InGroup(own, m, g) /\ m # <<"o", n>>
        /\ \A m : InGroup(own, m, g) /\ m # <<"o", n>> => InGroup(own2, m, g)
        /\ \A m \in Loc : InGroup(own2, m, g) /\ m # l => NextOf(hd2, nx2, m) = NextOf(hd, nx, m)
        /\ InGroup(own2, l, g)
    BY <1>1 DEF FreesNext
  <1>3. /\ Chained(own2, len2, hd2, nx2)
        /\ \A b \in Block : own2[b] = IF b = n THEN Free ELSE own[b]
        /\ \A b \in Block : nx2[b] = IF b = n THEN hd[Free]
                                     ELSE IF l = <<"o", b>> THEN nx[n] ELSE nx[b]
        /\ hd2[Free] = n
        /\ \A w \in Owner : w # Free /\ w # GroupChain(g) => len2[w] = len[w] /\ hd2[w] = hd[w]
    BY DEF Freed
  <1>4. /\ WroteAt(<<"o", n>>, GroupBlock(<<>>, freeChain))
        /\ freeChain' = n /\ extent' = extent /\ flushed' = flushed
        /\ modulus' = modulus /\ modValue' = modValue /\ header' = header /\ store' = store
        /\ locked' = locked
    <2>1. Write(<<"o", n>>, GroupBlock(<<>>, freeChain))
      BY DEF Frees, FreeOverflow
    <2> QED BY <1>2, <1>g, <2>1, WriteIs DEF Frees, FreeOverflow
  <1>5. freeChain = hd[Free]
    BY <1>g DEF SpaceOK
  <1>6. o.loc = l
    BY DEF WorksAt
  <1>7. Regroups(g, o, own, hd, nx, own2, hd2, nx2, ct2)
    <2>1. \A h \in Group : h # g => primary'[h] = primary[h]
      BY <1>4 DEF WroteAt
    <2>2. ASSUME NEW b \in Block
          PROVE  IF own[b] = GroupChain(g)
                 THEN own2[b] = own[b] \/ (own2[b] = Free /\ overflow'[b].next = nx2[b])
                 ELSE own2[b] = own[b] /\ nx2[b] = nx[b] /\ overflow'[b] = overflow[b]
      <3>1. CASE b = n
        <4>1. overflow'[n] = GroupBlock(<<>>, freeChain)
          BY <1>2, <1>4 DEF WroteAt, BlockAt
        <4> QED BY <1>2, <1>3, <1>5, <3>1, <4>1 DEF GroupBlock
      <3>2. CASE b # n
        <4>1. own2[b] = own[b]
          BY <1>3, <3>2
        <4>2. own[b] # GroupChain(g) => l # <<"o", b>>
          BY DEF InGroup
        <4> QED BY <1>3, <1>4, <3>2, <4>1, <4>2 DEF WroteAt
      <3> QED BY <3>1, <3>2
    <2>3. ASSUME NEW m \in Loc, InGroup(own2, m, g), m # l
          PROVE  BlockAt(m)' = GroupBlock(ct2[m], NextOf(hd2, nx2, m))
      <3>1. InGroup(own, m, g) /\ m # <<"o", n>> /\ NextOf(hd2, nx2, m) = NextOf(hd, nx, m)
        BY <1>2, <2>3
      <3>2. m # j.loc
        BY <2>3, <3>1 DEF PrunesAt
      <3>3. BlockAt(m) = GroupBlock(ct[m], NextOf(hd, nx, m))
        BY <3>1, <3>2 DEF AtWork
      <3>4. BlockAt(m)' = BlockAt(m)
        BY <1>4, <3>1 DEF WroteAt
      <3>5. ct2[m] = ct[m]
        BY <2>3, <3>1 DEF Emptied, Spot
      <3> QED BY <3>1, <3>3, <3>4, <3>5
    <2> QED BY <1>4, <1>6, <2>1, <2>2, <2>3 DEF Regroups, WroteAt
  <1>8. KeepsChains(g, len, hd, len2, hd2)
    BY <1>3 DEF KeepsChains
  <1>9. Reseats(g, own, ct, spot, own2, ct2, spot2)
    <2>1. \A m \in Spot : ct2[m] = ct[m] \/ InGroup(own, m, g)
      BY <1>2 DEF Emptied, InGroup
    <2>2. <<"o", n>> # Nowhere /\ l # Nowhere
      BY <1>2, <1>g, PlacedFacts DEF Spot
    <2>3. InGroup(own, <<"o", n>>, g)
      BY <1>2 DEF InGroup
    <2>4. \A k \in Key : \/ spot2[k] = spot[k]
                         \/ InGroup(own, spot[k], g) /\ spot[k] # Nowhere /\ spot2[k] # Nowhere
      BY <2>2, <2>3 DEF Emptied
    <2>5. ASSUME NEW k \in Key, Home(k) = g PROVE spot2[k] = Nowhere \/ InGroup(own2, spot2[k], g)
      <3>1. spot[k] = Nowhere \/ InGroup(own, spot[k], g)
        BY <2>5 DEF AtWork
      <3>2. spot2[k] # <<"o", n>>
        BY DEF Emptied
      <3>3. spot2[k] = spot[k] \/ spot2[k] = l
        BY DEF Emptied
      <3> QED BY <1>2, <3>1, <3>2, <3>3
    <2> QED BY <2>1, <2>4, <2>5 DEF Reseats
  <1>10. KeepsFree(own, own2, len2, hd2)
    <2>1. \A b \in Block : own2[b] = NoOne <=> own[b] = NoOne
      <3>1. Free # NoOne /\ GroupChain(g) # NoOne
        BY Kinds
      <3> QED BY <1>2, <1>3, <3>1
    <2>2. \A b \in Block : own[b] = Free => own2[b] = Free
      BY <1>3
    <2>3. len2[Spare] = 0
      <3>1. Spare \in Owner /\ Spare # Free /\ Spare # GroupChain(g)
        BY AllOwners, Kinds
      <3> QED BY <1>3, <1>g, <3>1 DEF SpaceOK
    <2>4. ASSUME NEW h \in Group, h > modulus PROVE len2[GroupChain(h)] = 0
      <3>1. h # g
        BY <1>g, <2>4 DEF AtWork, Group
      <3>2. GroupChain(h) # GroupChain(g)
        BY <3>1 DEF GroupChain
      <3>3. GroupChain(h) # Free /\ GroupChain(h) \in Owner
        BY AllOwners, Kinds
      <3> QED BY <1>3, <1>g, <2>4, <3>2, <3>3 DEF SpaceOK
    <2> QED BY <1>3, <1>4, <2>1, <2>2, <2>3, <2>4 DEF KeepsFree
  <1>11. WorksAt(o, j.key, o.loc)
    BY <1>6
  <1> QED BY ONLY p \in Proc, g \in Group, j \in WriteJob \cup DeleteJob, Good(job, own, len, hd, nx, ct, spot, rec, base),
          AtWork(p, j, g, own, len, hd, nx, ct, spot, rec), Becomes(job, jb2, p, o), Placed(ct2, spot2, rec),
          NewOK(jb2, p, len2, hd2), OldOK(jb2, p, len2, hd2),
          WorkOK(jb2, p, own2, len2, hd2, nx2, ct2, spot2, rec)',
          <1>3, <1>7, <1>8, <1>9, <1>10, <1>11, GroupFrame

LEMMA UnchainStep ==
  ASSUME IInv, NEW p \in Proc, Unchain(p)
  PROVE  IInv'
  <1>1. PICK own, len, hd, nx, ct, spot, rec, base : Good(job, own, len, hd, nx, ct, spot, rec, base)
    BY DEF IInv
  <1>2. PICK jb2 : jb2 = job'
    OBVIOUS
  <1>g. /\ Chained(own, len, hd, nx) /\ Placed(ct, spot, rec) /\ job \in [Proc -> Job]
        /\ JobOK(job, p, own, len, hd, nx, ct, spot, rec, base)
    BY <1>1, GoodFacts
  <1>4. job[p].at = "unchain" /\ job[p].at \in Working
    BY DEF Unchain, At, Working
  <1>5. PICK j \in WriteJob \cup DeleteJob, g \in Group : AtWork(p, j, g, own, len, hd, nx, ct, spot, rec)
    BY <1>1, <1>4, WorkFacts
  <1>6. /\ j = job[p] /\ j.at = "unchain" /\ g = Home(j.key) /\ j.key \in Key
        /\ j.loc \in Loc /\ InGroup(own, j.loc, g)
    BY <1>4, <1>5 DEF AtWork
  <1>7. /\ j.buff = GroupBlock(ct[j.loc], NextOf(hd, nx, j.loc))
        /\ spot[j.key] = Nowhere /\ j.op = "delete" /\ j.loc[1] = "o" /\ ct[j.loc] = <<>>
        /\ InGroup(own, j.prev, g) /\ NextOf(hd, nx, j.prev) = j.loc[2]
    <2>1. WorkOK(job, p, own, len, hd, nx, ct, spot, rec)
      BY <1>g DEF JobOK
    <2> QED BY <1>4, <1>6, <2>1 DEF WorkOK
  <1>8. j.old = hd[OldChain(p)] /\ len[NewChain(p)] = 0
    <2>1. NewOK(job, p, len, hd) /\ OldOK(job, p, len, hd)
      BY <1>g DEF JobOK
    <2> QED BY <1>4, <1>6, <1>7, <2>1 DEF NewOK, OldOK
  <1>9. j \in DeleteJob /\ j.prev \in Loc /\ j.buff \in BlockType
    BY <1>7, WorkTypes
  <1>10. PICK n : n = j.loc[2]
    OBVIOUS
  <1>11. n \in Block /\ n # 0 /\ j.loc = <<"o", n>>
    BY <1>6, <1>7, <1>10, BlockNat DEF Loc
  <1>12. PICK l : l = j.prev
    OBVIOUS
  <1>13. l \in Loc /\ InGroup(own, l, g) /\ NextIs(hd, nx, l, n)
    BY <1>7, <1>9, <1>10, <1>12 DEF NextIs
  <1>14. PICK own2, len2, hd2, nx2 : Freed(own, len, hd, nx, own2, len2, hd2, nx2, g, l, n)
    BY ONLY <1>g, <1>11, <1>13, g \in Group, DropNext
  <1>15. FreesNext(g, l, n, own, hd, nx, own2, hd2, nx2)
    BY ONLY <1>g, <1>11, <1>13, <1>14, g \in Group, FreedNext
  <1>16. l # <<"o", n>> /\ InGroup(own2, l, g) /\ NextOf(hd2, nx2, l) = nx[n]
    BY <1>15 DEF FreesNext
  <1>17. j.buff.next = nx[n]
    BY <1>7, <1>11 DEF GroupBlock, NextOf
  <1>18. PICK b : b = GroupBlock(ct[l], nx[n])
    OBVIOUS
  <1>19. [BlockAt(l) EXCEPT !.next = j.buff.next] = b
    <2>1. BlockAt(l) = GroupBlock(ct[l], n)
      BY <1>5, <1>11, <1>13, <1>16 DEF AtWork, NextIs
    <2> QED BY <1>17, <1>18, <2>1 DEF GroupBlock
  <1>20. b \in BlockType
    <2>1. ct[l] \in Seq(Record)
      BY <1>13, <1>g, PlacedFacts DEF Spot
    <2>2. nx[n] \in Nat
      BY <1>11, <1>g, ChainFacts
    <2> QED BY <1>18, <2>1, <2>2 DEF GroupBlock, BlockType
  <1>21. PICK o : o = [j EXCEPT !.at = "last", !.loc = l, !.buff = b]
    OBVIOUS
  <1>22. /\ o \in DeleteJob /\ o.at = "last" /\ o.op = "delete" /\ o.key = j.key /\ o.loc = l
         /\ o.buff = b /\ o.old = j.old
    BY <1>7, <1>9, <1>13, <1>20, <1>21 DEF DeleteJob, Working
  <1>23. Becomes(job, jb2, p, o)
    <2>1. job' = [job EXCEPT ![p] = o]
      BY <1>6, <1>12, <1>19, <1>21 DEF Unchain, Do
    <2> QED BY <1>2, <1>22, <1>g, <2>1 DEF Becomes, Job
  <1>24. jb2[p] = o /\ o.at \in Working
    BY <1>22, <1>23, <1>g DEF Becomes, Working
  <1>25. Frees(n)
    BY <1>6, <1>10 DEF Frees, Unchain
  <1>26. Emptied(own, ct, spot, ct, spot, l, n)
    <2>1. ASSUME NEW k \in Key, spot[k] = <<"o", n>> PROVE FALSE
      <3>1. spot[k] # Nowhere
        BY <2>1 DEF Nowhere
      <3>2. PICK i \in 1..Len(ct[spot[k]]) : ct[spot[k]][i].key = k
        BY <1>g, <3>1 DEF Placed
      <3>3. Len(ct[spot[k]]) = 0
        BY <1>7, <1>11, <2>1
      <3> QED BY <3>2, <3>3
    <2> QED BY <2>1 DEF Emptied
  <1>27. PrunesAt(own, j, l, n)
    BY <1>11, <1>16 DEF PrunesAt
  <1>28. WorksAt(o, j.key, l)
    BY <1>22, <1>24 DEF WorksAt
  <1>29. /\ len2[NewChain(p)] = 0 /\ hd2[OldChain(p)] = j.old
    <2>1. /\ NewChain(p) \in Owner /\ NewChain(p) # Free /\ NewChain(p) # GroupChain(g)
          /\ OldChain(p) \in Owner /\ OldChain(p) # Free /\ OldChain(p) # GroupChain(g)
      BY AllOwners, Kinds
    <2> QED BY <1>8, <1>14, <2>1 DEF Freed
  <1>30. NewOK(jb2, p, len2, hd2) /\ OldOK(jb2, p, len2, hd2)
    BY <1>22, <1>24, <1>29 DEF NewOK, OldOK
  <1>31. WorkOK(jb2, p, own2, len2, hd2, nx2, ct, spot, rec)'
    <2>1. Home(o.key)' = g
      BY <1>6, <1>22, <1>25 DEF Home, Frees
    <2> QED BY <1>7, <1>16, <1>18, <1>22, <1>24, <2>1 DEF WorkOK
  <1>32. Good(jb2, own2, len2, hd2, nx2, ct, spot, rec, base)'
    BY ONLY p \in Proc, g \in Group, j \in WriteJob \cup DeleteJob,
            <1>1, <1>g, <1>5, <1>11, <1>13, <1>14, <1>23, <1>25, <1>26, <1>27, <1>28, <1>30, <1>31, DropFrame
  <1>33. GoodAfter(jb2)
    BY <1>32 DEF GoodAfter
  <1> QED BY <1>2, <1>33, AfterIs

\* What there is to know of a process that compacts its group.
AtCompact(p, j, g, l, n, m, own, len, hd, nx, ct, spot) ==
  /\ j = job[p] /\ j.at = "compact" /\ g = Home(j.key) /\ j.key \in Key
  /\ l = j.loc /\ l \in Loc /\ l \in Spot /\ InGroup(own, l, g) /\ NextIs(hd, nx, l, n) /\ n # 0 /\ n \in Block
  /\ m = <<"o", n>> /\ m \in Loc /\ m \in Spot /\ InGroup(own, m, g) /\ m # l
  /\ j.buff = GroupBlock(ct[l], n) /\ overflow[n] = GroupBlock(ct[m], nx[n]) /\ nx[n] \in Nat
  /\ spot[j.key] = Nowhere
  /\ j.op = "write" => /\ j.found /\ j.rec.key = j.key /\ j.rec.size = j.size
                       /\ j.rec.head = hd[NewChain(p)] /\ j.data = len[NewChain(p)]
  /\ j.op # "write" => len[NewChain(p)] = 0
  /\ j.old = hd[OldChain(p)]
LEMMA CompactFacts ==
  ASSUME NEW own, NEW len, NEW hd, NEW nx, NEW ct, NEW spot, NEW rec, NEW base,
         Good(job, own, len, hd, nx, ct, spot, rec, base), NEW p \in Proc, job[p].at = "compact"
  PROVE  \E j \in WriteJob \cup DeleteJob, g \in Group : \E l, n, m :
           /\ AtWork(p, j, g, own, len, hd, nx, ct, spot, rec)
           /\ AtCompact(p, j, g, l, n, m, own, len, hd, nx, ct, spot)
  <1>g. /\ Chained(own, len, hd, nx) /\ Placed(ct, spot, rec) /\ job \in [Proc -> Job]
        /\ JobOK(job, p, own, len, hd, nx, ct, spot, rec, base)
    BY GoodFacts
  <1>4. job[p].at \in Working
    BY DEF Working
  <1>5. PICK j \in WriteJob \cup DeleteJob, g \in Group : AtWork(p, j, g, own, len, hd, nx, ct, spot, rec)
    BY <1>4, WorkFacts
  <1>6. /\ j = job[p] /\ j.at = "compact" /\ g = Home(j.key) /\ j.key \in Key
        /\ j.loc \in Loc /\ InGroup(own, j.loc, g)
    BY <1>5 DEF AtWork
  <1>7. PICK l : l = j.loc
    OBVIOUS
  <1>8. PICK n : n = NextOf(hd, nx, l)
    OBVIOUS
  <1>9. PICK m : m = <<"o", n>>
    OBVIOUS
  <1>10. /\ j.buff = GroupBlock(ct[l], n) /\ spot[j.key] = Nowhere
         /\ j.op = "write" => j.rec.key = j.key /\ j.rec.size = j.size
         /\ j.op = "write" /\ ~j.found => j.buff.next = 0
         /\ j.buff.next # 0
    <2>1. WorkOK(job, p, own, len, hd, nx, ct, spot, rec)
      BY <1>g DEF JobOK
    <2> QED BY <1>4, <1>6, <1>7, <1>8, <2>1 DEF WorkOK
  <1>11. n # 0 /\ (j.op = "write" => j.found)
    BY <1>10 DEF GroupBlock
  <1>12. /\ j.old = hd[OldChain(p)]
         /\ IF j.op = "write" THEN j.rec.head = hd[NewChain(p)] /\ j.data = len[NewChain(p)]
            ELSE len[NewChain(p)] = 0
    <2>1. NewOK(job, p, len, hd) /\ OldOK(job, p, len, hd)
      BY <1>g DEF JobOK
    <2> QED BY <1>4, <1>6, <2>1 DEF NewOK, OldOK
  <1>13. NextIs(hd, nx, l, n) /\ l \in Loc /\ InGroup(own, l, g)
    BY <1>6, <1>7, <1>8 DEF NextIs
  <1>14. n \in Block /\ own[n] = GroupChain(g) /\ l # m
    BY <1>6, <1>7, <1>8, <1>9, <1>11, <1>g, GroupNext
  <1>15. m \in Loc /\ m \in Spot /\ l \in Spot /\ InGroup(own, m, g)
    BY <1>9, <1>13, <1>14 DEF Loc, Spot, InGroup
  <1>16. overflow[n] = GroupBlock(ct[m], nx[n])
    <2>1. BlockAt(m) = GroupBlock(ct[m], NextOf(hd, nx, m))
      BY <1>5, <1>7, <1>14, <1>15 DEF AtWork
    <2> QED BY <1>9, <2>1 DEF BlockAt, NextOf
  <1>17. nx[n] \in Nat
    BY <1>14, <1>g, ChainFacts
  <1>18. AtCompact(p, j, g, l, n, m, own, len, hd, nx, ct, spot)
    BY <1>6, <1>7, <1>9, <1>10, <1>11, <1>12, <1>13, <1>14, <1>15, <1>16, <1>17 DEF AtCompact
  <1> QED BY <1>5, <1>18

\* It goes on from place x of its group, with the chains and records as they are then.
Alike(i, j, x) ==
  /\ i \in WriteJob \cup DeleteJob /\ i.op = j.op /\ i.key = j.key /\ i.loc = x /\ i.old = j.old
  /\ j.op = "write" => i.size = j.size /\ i.data = j.data /\ i.rec = j.rec /\ i.found = j.found
ReadyAt(p, j, g, x, b, len, hd, own2, len2, hd2, nx2, ct2, spot2) ==
  /\ InGroup(own2, x, g) /\ b = GroupBlock(ct2[x], NextOf(hd2, nx2, x))
  /\ spot2[j.key] = Nowhere /\ Home(j.key)' = g
  /\ len2[NewChain(p)] = len[NewChain(p)] /\ hd2[NewChain(p)] = hd[NewChain(p)]
  /\ hd2[OldChain(p)] = hd[OldChain(p)]
LEMMA CompactReady ==
  ASSUME NEW own, NEW len, NEW hd, NEW nx, NEW ct, NEW spot, NEW rec,
         NEW own2, NEW len2, NEW hd2, NEW nx2, NEW ct2, NEW spot2,
         NEW p \in Proc, NEW j \in WriteJob \cup DeleteJob, NEW g, NEW l, NEW n, NEW m,
         AtCompact(p, j, g, l, n, m, own, len, hd, nx, ct, spot),
         NEW x, NEW b \in BlockType, NEW i, Alike(i, j, x),
         ReadyAt(p, j, g, x, b, len, hd, own2, len2, hd2, nx2, ct2, spot2),
         NEW r, NEW o, WentOn(i, b, r, o), NEW jb1, Becomes(job, jb1, p, r)
  PROVE  /\ WorksAt(r, j.key, x) /\ r \in Job
         /\ NewOK(jb1, p, len2, hd2) /\ OldOK(jb1, p, len2, hd2)
         /\ WorkOK(jb1, p, own2, len2, hd2, nx2, ct2, spot2, rec)'
  <1>1. /\ r \in WriteJob \cup DeleteJob /\ r.at = "ready" /\ r.buff = b
        /\ r.op = j.op /\ r.key = j.key /\ r.loc = x /\ r.old = j.old
        /\ j.op = "write" => r.size = j.size /\ r.data = j.data /\ r.rec = j.rec /\ r.found = j.found
    BY DEF WentOn, Alike
  <1>2. jb1[p] = r /\ r \in Job /\ r.at \in Working
    BY <1>1 DEF Becomes, Working
  <1>3. j.op \in {"write", "delete"}
    BY WorkTypes
  <1>4. NewOK(jb1, p, len2, hd2) /\ OldOK(jb1, p, len2, hd2)
    BY <1>1, <1>2, <1>3 DEF NewOK, OldOK, AtCompact, ReadyAt
  <1>5. WorkOK(jb1, p, own2, len2, hd2, nx2, ct2, spot2, rec)'
    BY <1>1, <1>2 DEF WorkOK, AtCompact, ReadyAt
  <1> QED BY <1>1, <1>2, <1>4, <1>5 DEF WorksAt

\* The next block is emptied and freed.
CompactsAll(p, j, l, n, m, nx, ct, jb2) ==
  /\ Frees(n) /\ jb2 = job'
  /\ Do(p, Onward(j, GroupBlock(ct[l] \o SubSeq(ct[m], 1, Len(ct[m])), nx[n])))
LEMMA CompactAll ==
  ASSUME NEW own, NEW len, NEW hd, NEW nx, NEW ct, NEW spot, NEW rec, NEW base,
         Good(job, own, len, hd, nx, ct, spot, rec, base),
         NEW p \in Proc, NEW j \in WriteJob \cup DeleteJob, NEW g \in Group, NEW l, NEW n, NEW m,
         AtWork(p, j, g, own, len, hd, nx, ct, spot, rec),
         AtCompact(p, j, g, l, n, m, own, len, hd, nx, ct, spot),
         NEW jb2, CompactsAll(p, j, l, n, m, nx, ct, jb2)
  PROVE  GoodAfter(jb2)
  <1>g. Chained(own, len, hd, nx) /\ Placed(ct, spot, rec) /\ job \in [Proc -> Job]
    BY GoodFacts
  <1>1. /\ j = job[p] /\ g = Home(j.key) /\ j.key \in Key /\ l = j.loc
        /\ l \in Loc /\ l \in Spot /\ InGroup(own, l, g) /\ NextIs(hd, nx, l, n) /\ n # 0 /\ n \in Block
        /\ m = <<"o", n>> /\ m \in Spot /\ m # l /\ nx[n] \in Nat /\ spot[j.key] = Nowhere
    BY DEF AtCompact
  <1>2. PICK own2, len2, hd2, nx2 : Freed(own, len, hd, nx, own2, len2, hd2, nx2, g, l, n)
    BY ONLY <1>g, <1>1, g \in Group, DropNext
  <1>3. InGroup(own2, l, g) /\ NextOf(hd2, nx2, l) = nx[n]
    <2>1. FreesNext(g, l, n, own, hd, nx, own2, hd2, nx2)
      BY ONLY <1>g, <1>1, <1>2, g \in Group, FreedNext
    <2> QED BY <2>1 DEF FreesNext
  <1>4. PICK e, f : PourIs(ct, l, m, Len(ct[m]), e, f)
    BY DEF PourIs
  <1>5. Len(ct[m]) \in 0..Len(ct[m])
    BY <1>1, <1>g, PlacedFacts
  <1>6. PICK ct2, spot2 : Pours(ct, spot, rec, ct2, spot2, l, m, Len(ct[m]), e, f)
    BY ONLY <1>1, <1>4, <1>5, <1>g, PourRecords
  <1>7. /\ Placed(ct2, spot2, rec) /\ ct2[l] = e
        /\ \A x \in Spot : x # l /\ x # m => ct2[x] = ct[x]
        /\ \A k \in Key : spot2[k] = spot[k] \/ (spot[k] = m /\ spot2[k] = l)
        /\ \A k \in Key : spot2[k] # m
    BY <1>6 DEF Pours
  <1>8. Emptied(own, ct, spot, ct2, spot2, l, n)
    BY <1>1, <1>7 DEF Emptied
  <1>9. PrunesAt(own, j, l, n)
    BY <1>1 DEF PrunesAt
  <1>10. PICK b : b = GroupBlock(e, nx[n])
    OBVIOUS
  <1>11. b \in BlockType
    <2>1. e \in Seq(Record)
      BY <1>1, <1>7, PlacedFacts
    <2> QED BY <1>1, <1>10, <2>1 DEF GroupBlock, BlockType
  <1>12. PICK r : r = Ready(j, b)
    OBVIOUS
  <1>13. PICK o : o = Onward(j, b)
    OBVIOUS
  <1>14. WentOn(j, b, r, o)
    BY <1>11, <1>12, <1>13, OnwardIs
  <1>15. PICK jb1 : jb1 = [job EXCEPT ![p] = r]
    OBVIOUS
  <1>16. Becomes(job, jb1, p, r) /\ Becomes(job, jb2, p, o)
    <2>1. jb2 = [job EXCEPT ![p] = o]
      BY <1>4, <1>10, <1>13 DEF CompactsAll, Do, PourIs
    <2> QED BY <1>14, <1>15, <1>g, <2>1 DEF Becomes, WentOn, Job
  <1>17. Frees(n)
    BY DEF CompactsAll
  <1>18. Alike(j, j, l)
    BY <1>1 DEF Alike
  <1>19. ReadyAt(p, j, g, l, b, len, hd, own2, len2, hd2, nx2, ct2, spot2)
    <2>1. spot2[j.key] = Nowhere
      <3>1. m # Nowhere
        BY <1>1, <1>g, PlacedFacts
      <3> QED BY <1>1, <1>7, <3>1
    <2>2. Home(j.key)' = g
      BY <1>1, <1>17 DEF Frees, Home
    <2>3. /\ NewChain(p) \in Owner /\ NewChain(p) # Free /\ NewChain(p) # GroupChain(g)
          /\ OldChain(p) \in Owner /\ OldChain(p) # Free /\ OldChain(p) # GroupChain(g)
      BY AllOwners, Kinds
    <2>4. \A w \in Owner : w # Free /\ w # GroupChain(g) => len2[w] = len[w] /\ hd2[w] = hd[w]
      BY <1>2 DEF Freed
    <2> QED BY <1>3, <1>7, <1>10, <2>1, <2>2, <2>3, <2>4 DEF ReadyAt
  <1>20. /\ WorksAt(r, j.key, l)
         /\ NewOK(jb1, p, len2, hd2) /\ OldOK(jb1, p, len2, hd2)
         /\ WorkOK(jb1, p, own2, len2, hd2, nx2, ct2, spot2, rec)'
    BY ONLY p \in Proc, j \in WriteJob \cup DeleteJob, AtCompact(p, j, g, l, n, m, own, len, hd, nx, ct, spot),
            <1>11, <1>14, <1>16, <1>18, <1>19, CompactReady
  <1>21. Good(jb1, own2, len2, hd2, nx2, ct2, spot2, rec, base)'
    BY ONLY p \in Proc, g \in Group, j \in WriteJob \cup DeleteJob,
            Good(job, own, len, hd, nx, ct, spot, rec, base), AtWork(p, j, g, own, len, hd, nx, ct, spot, rec),
            <1>1, <1>2, <1>7, <1>8, <1>9, <1>16, <1>17, <1>20, DropFrame
  <1> QED BY ONLY p \in Proc, j \in WriteJob \cup DeleteJob, <1>11, <1>12, <1>13, <1>16, <1>21, GoOn

\* Some records of the next block do not fit: this one is written.
CompactsSome(p, j, l, n, m, q, nx, ct, jb2) ==
  /\ Write(l, GroupBlock(ct[l] \o SubSeq(ct[m], 1, q), n))
  /\ UNCHANGED <<modulus, modValue, space, locked, header, store>> /\ jb2 = job'
  /\ Do(p, Onward([j EXCEPT !.loc = m], GroupBlock(SubSeq(ct[m], q + 1, Len(ct[m])), nx[n])))
LEMMA CompactSome ==
  ASSUME NEW own, NEW len, NEW hd, NEW nx, NEW ct, NEW spot, NEW rec, NEW base,
         Good(job, own, len, hd, nx, ct, spot, rec, base),
         NEW p \in Proc, NEW j \in WriteJob \cup DeleteJob, NEW g \in Group, NEW l, NEW n, NEW m,
         AtWork(p, j, g, own, len, hd, nx, ct, spot, rec),
         AtCompact(p, j, g, l, n, m, own, len, hd, nx, ct, spot), NEW q \in 0..Len(ct[m]),
         NEW jb2, CompactsSome(p, j, l, n, m, q, nx, ct, jb2)
  PROVE  GoodAfter(jb2)
  <1>g. /\ Chained(own, len, hd, nx) /\ Placed(ct, spot, rec) /\ job \in [Proc -> Job]
        /\ DOMAIN overflow = Block /\ DOMAIN primary = Group /\ SpaceOK(job, own, len, hd)
    BY GoodFacts
  <1>1. /\ j = job[p] /\ g = Home(j.key) /\ j.key \in Key /\ l = j.loc
        /\ l \in Loc /\ l \in Spot /\ InGroup(own, l, g) /\ NextOf(hd, nx, l) = n /\ n # 0 /\ n \in Block
        /\ m = <<"o", n>> /\ m \in Loc /\ m \in Spot /\ m # l /\ InGroup(own, m, g)
        /\ nx[n] \in Nat /\ spot[j.key] = Nowhere
    BY DEF AtCompact, NextIs
  <1>4. PICK e, f : PourIs(ct, l, m, q, e, f)
    BY DEF PourIs
  <1>6. PICK ct2, spot2 : Pours(ct, spot, rec, ct2, spot2, l, m, q, e, f)
    BY ONLY <1>1, <1>4, <1>g, q \in 0..Len(ct[m]), PourRecords
  <1>7. /\ Placed(ct2, spot2, rec) /\ ct2[l] = e /\ ct2[m] = f
        /\ \A x \in Spot : x # l /\ x # m => ct2[x] = ct[x]
        /\ \A k \in Key : spot2[k] = spot[k] \/ (spot[k] = m /\ spot2[k] = l)
    BY <1>6 DEF Pours
  <1>10. PICK b : b = GroupBlock(f, nx[n])
    OBVIOUS
  <1>11. b \in BlockType
    <2>1. f \in Seq(Record)
      BY <1>1, <1>7, PlacedFacts
    <2> QED BY <1>1, <1>10, <2>1 DEF GroupBlock, BlockType
  <1>12. PICK i : i = [j EXCEPT !.loc = m]
    OBVIOUS
  <1>13. Alike(i, j, m)
    <2>1. CASE j \in WriteJob
      BY <1>1, <1>12, <2>1 DEF WriteJob, Alike
    <2>2. CASE j \in DeleteJob
      BY <1>1, <1>12, <2>2 DEF DeleteJob, Alike
    <2> QED BY <2>1, <2>2
  <1>14. PICK r : r = Ready(i, b)
    OBVIOUS
  <1>15. PICK o : o = Onward(i, b)
    OBVIOUS
  <1>16. WentOn(i, b, r, o) /\ i \in WriteJob \cup DeleteJob
    BY <1>11, <1>13, <1>14, <1>15, OnwardIs DEF Alike
  <1>17. PICK jb1 : jb1 = [job EXCEPT ![p] = r]
    OBVIOUS
  <1>18. Becomes(job, jb1, p, r) /\ Becomes(job, jb2, p, o)
    <2>1. jb2 = [job EXCEPT ![p] = o]
      BY <1>4, <1>10, <1>12, <1>15 DEF CompactsSome, Do, PourIs
    <2> QED BY <1>16, <1>17, <1>g, <2>1 DEF Becomes, WentOn, Job
  <1>19. /\ WroteAt(l, GroupBlock(e, n))
         /\ modulus' = modulus /\ modValue' = modValue /\ header' = header /\ store' = store /\ locked' = locked
         /\ extent' = extent /\ flushed' = flushed /\ freeChain' = freeChain
    <2>1. Write(l, GroupBlock(e, n))
      BY <1>4 DEF CompactsSome, PourIs
    <2> QED BY <1>1, <1>g, <2>1, WriteIs DEF CompactsSome, space
  <1>20. ReadyAt(p, j, g, m, b, len, hd, own, len, hd, nx, ct2, spot2)
    <2>1. spot2[j.key] = Nowhere
      <3>1. m # Nowhere
        BY <1>1, <1>g, PlacedFacts
      <3> QED BY <1>1, <1>7, <3>1
    <2>2. Home(j.key)' = g
      BY <1>1, <1>19 DEF Home
    <2>3. NextOf(hd, nx, m) = nx[n]
      BY <1>1 DEF NextOf
    <2> QED BY <1>1, <1>7, <1>10, <2>1, <2>2, <2>3 DEF ReadyAt
  <1>21. /\ WorksAt(r, j.key, m)
         /\ NewOK(jb1, p, len, hd) /\ OldOK(jb1, p, len, hd)
         /\ WorkOK(jb1, p, own, len, hd, nx, ct2, spot2, rec)'
    BY ONLY p \in Proc, j \in WriteJob \cup DeleteJob, AtCompact(p, j, g, l, n, m, own, len, hd, nx, ct, spot),
            <1>11, <1>13, <1>16, <1>18, <1>20, CompactReady
  <1>22. r.loc = m
    BY <1>21 DEF WorksAt
  <1>23. Regroups(g, r, own, hd, nx, own, hd, nx, ct2)
    <2>1. \A h \in Group : h # g => primary'[h] = primary[h]
      <3>1. \A h \in Group : h # g => l # <<"p", h>>
        BY <1>1 DEF InGroup
      <3> QED BY <1>19, <3>1 DEF WroteAt
    <2>2. \A b2 \in Block : own[b2] # GroupChain(g) => overflow'[b2] = overflow[b2]
      <3>1. \A b2 \in Block : l = <<"o", b2>> => own[b2] = GroupChain(g)
        BY <1>1 DEF InGroup
      <3> QED BY <1>19, <3>1 DEF WroteAt
    <2>3. ASSUME NEW x \in Loc, InGroup(own, x, g), x # m
          PROVE  BlockAt(x)' = GroupBlock(ct2[x], NextOf(hd, nx, x))
      <3>1. CASE x = l
        BY <1>1, <1>7, <1>19, <3>1 DEF WroteAt
      <3>2. CASE x # l
        <4>1. BlockAt(x) = GroupBlock(ct[x], NextOf(hd, nx, x))
          BY <1>1, <2>3, <3>2 DEF AtWork
        <4>2. ct2[x] = ct[x]
          BY <1>7, <2>3, <3>2 DEF Spot
        <4> QED BY <1>19, <3>2, <4>1, <4>2 DEF WroteAt
      <3> QED BY <3>1, <3>2
    <2> QED BY <1>19, <1>22, <2>1, <2>2, <2>3 DEF Regroups, WroteAt
  <1>24. KeepsChains(g, len, hd, len, hd)
    BY DEF KeepsChains
  <1>25. Reseats(g, own, ct, spot, own, ct2, spot2)
    <2>0. m # Nowhere /\ l # Nowhere
      BY <1>1, <1>g, PlacedFacts
    <2>1. \A x \in Spot : ct2[x] = ct[x] \/ InGroup(own, x, g)
      BY <1>1, <1>7
    <2>2. \A k \in Key : \/ spot2[k] = spot[k]
                         \/ InGroup(own, spot[k], g) /\ spot[k] # Nowhere /\ spot2[k] # Nowhere
      BY <1>1, <1>7, <2>0
    <2>3. ASSUME NEW k \in Key, Home(k) = g PROVE spot2[k] = Nowhere \/ InGroup(own, spot2[k], g)
      <3>1. spot[k] = Nowhere \/ InGroup(own, spot[k], g)
        BY <2>3 DEF AtWork
      <3> QED BY <1>1, <1>7, <3>1
    <2> QED BY <2>1, <2>2, <2>3 DEF Reseats
  <1>26. KeepsFree(own, own, len, hd)
    BY <1>19, <1>g DEF KeepsFree, SpaceOK
  <1>27. WorksAt(r, j.key, r.loc)
    BY <1>21, <1>22
  <1>28. Good(jb1, own, len, hd, nx, ct2, spot2, rec, base)'
    BY ONLY p \in Proc, g \in Group, j \in WriteJob \cup DeleteJob,
            Good(job, own, len, hd, nx, ct, spot, rec, base), AtWork(p, j, g, own, len, hd, nx, ct, spot, rec),
            <1>g, <1>7, <1>18, <1>21, <1>23, <1>24, <1>25, <1>26, <1>27, GroupFrame
  <1> QED BY ONLY p \in Proc, <1>11, <1>14, <1>15, <1>16, <1>18, <1>28, GoOn

LEMMA CompactStep ==
  ASSUME IInv, NEW p \in Proc, Compact(p)
  PROVE  IInv'
  <1>1. PICK own, len, hd, nx, ct, spot, rec, base : Good(job, own, len, hd, nx, ct, spot, rec, base)
    BY DEF IInv
  <1>2. PICK jb2 : jb2 = job'
    OBVIOUS
  <1>3. job[p].at = "compact"
    BY DEF Compact, At
  <1>4. PICK j \in WriteJob \cup DeleteJob, g \in Group : \E l, n, m :
           /\ AtWork(p, j, g, own, len, hd, nx, ct, spot, rec)
           /\ AtCompact(p, j, g, l, n, m, own, len, hd, nx, ct, spot)
    BY <1>1, <1>3, CompactFacts
  <1>5. PICK l, n, m :
           /\ AtWork(p, j, g, own, len, hd, nx, ct, spot, rec)
           /\ AtCompact(p, j, g, l, n, m, own, len, hd, nx, ct, spot)
    BY <1>4
  <1>6. /\ j = job[p] /\ j.loc = l /\ j.buff.recs = ct[l] /\ j.buff.next = n
        /\ overflow[n].recs = ct[m] /\ overflow[n].next = nx[n]
    BY <1>5 DEF AtCompact, GroupBlock
  <1>7. PICK q \in 0..Len(ct[m]) :
          \/ /\ q = Len(ct[m])
             /\ FreeOverflow(n)
             /\ Do(p, Onward(j, GroupBlock(ct[l] \o SubSeq(ct[m], 1, q), nx[n])))
          \/ /\ q < Len(ct[m])
             /\ Write(l, GroupBlock(ct[l] \o SubSeq(ct[m], 1, q), n))
             /\ Do(p, Onward([j EXCEPT !.loc = m], GroupBlock(SubSeq(ct[m], q + 1, Len(ct[m])), nx[n])))
             /\ UNCHANGED space
    <2>1. m = <<"o", n>>
      BY <1>5 DEF AtCompact
    <2>2. PICK q \in 0..Len(overflow[job[p].buff.next].recs) :
          \/ /\ q = Len(overflow[job[p].buff.next].recs)
             /\ FreeOverflow(job[p].buff.next)
             /\ Do(p, Onward(job[p], GroupBlock(job[p].buff.recs \o SubSeq(overflow[job[p].buff.next].recs, 1, q),
                                                overflow[job[p].buff.next].next)))
          \/ /\ q < Len(overflow[job[p].buff.next].recs)
             /\ Write(job[p].loc, GroupBlock(job[p].buff.recs \o SubSeq(overflow[job[p].buff.next].recs, 1, q),
                                             job[p].buff.next))
             /\ Do(p, Onward([job[p] EXCEPT !.loc = <<"o", job[p].buff.next>>],
                             GroupBlock(SubSeq(overflow[job[p].buff.next].recs, q + 1,
                                               Len(overflow[job[p].buff.next].recs)),
                                        overflow[job[p].buff.next].next)))
             /\ UNCHANGED space
      BY DEF Compact
    <2> QED BY <1>6, <2>1, <2>2
  <1>8. UNCHANGED <<modulus, modValue, locked, header, store>>
    BY DEF Compact
  <1>9. CASE /\ q = Len(ct[m])
             /\ FreeOverflow(n)
             /\ Do(p, Onward(j, GroupBlock(ct[l] \o SubSeq(ct[m], 1, q), nx[n])))
    <2>1. CompactsAll(p, j, l, n, m, nx, ct, jb2)
      BY <1>2, <1>8, <1>9 DEF CompactsAll, Frees
    <2>2. GoodAfter(jb2)
      BY ONLY p \in Proc, <1>1, <1>5, <2>1, CompactAll
    <2> QED BY <1>2, <2>2, AfterIs
  <1>10. CASE /\ q < Len(ct[m])
              /\ Write(l, GroupBlock(ct[l] \o SubSeq(ct[m], 1, q), n))
              /\ Do(p, Onward([j EXCEPT !.loc = m], GroupBlock(SubSeq(ct[m], q + 1, Len(ct[m])), nx[n])))
              /\ UNCHANGED space
    <2>1. CompactsSome(p, j, l, n, m, q, nx, ct, jb2)
      BY <1>2, <1>8, <1>10 DEF CompactsSome
    <2>2. GoodAfter(jb2)
      BY ONLY p \in Proc, <1>1, <1>5, <1>7, <2>1, CompactSome
    <2> QED BY <1>2, <2>2, AfterIs
  <1> QED BY <1>7, <1>9, <1>10

-----------------------------------------------------------------------------
(* A process that splits or merges                                          *)
\* The chains that it may change, of groups g and h.
MoveChain(p, g, h, w) ==
  w \in {NoOne, Free, Spare, SourceChain(p), SourceBlock(p), GroupChain(g), GroupChain(h)}
\* It has locked the two groups before the step or after it.
ResizeLocks(p, g, h, jb2, o, base, base2) ==
  /\ header' = header /\ store' = store
  /\ \A x \in Group : Touched(p, x) <=> x \in {g, h}
  /\ \A x \in Group : IF x \in {g, h} THEN locked[x] \in {p, None} /\ locked'[x] \in {p, None}
                      ELSE locked'[x] = locked[x] /\ (x \in 1..modulus' <=> x \in 1..modulus)
  /\ locked' \in [Group -> Proc \cup {None}]
  /\ ParamsOK(modulus, modValue)' /\ modulus' \in MinMod..MaxMod
  /\ \A k \in Key : Home(k) \notin {g, h} => Home(k)' = Home(k)
  /\ job[p].at \in {"idle", "move"} /\ o.at \in {"idle", "move"}
  /\ \A q \in Proc : q # p => ~Moving(job, q) /\ base2[q] = base[q]
  /\ LocksOK(jb2, p, base2)'
ResizeSame(p, g, h, own, len, hd, nx, ct, spot, own2, len2, hd2, nx2, ct2, spot2) ==
  /\ DOMAIN primary' = Group /\ DOMAIN overflow' = Block
  /\ \A x \in Group : x \notin {g, h} => primary'[x] = primary[x] /\ ct2[<<"p", x>>] = ct[<<"p", x>>]
  /\ \A w \in Owner : ~MoveChain(p, g, h, w) => len2[w] = len[w] /\ hd2[w] = hd[w]
  /\ \A b \in Block :
       IF MoveChain(p, g, h, own[b]) THEN MoveChain(p, g, h, own2[b])
       ELSE /\ own2[b] = own[b] /\ nx2[b] = nx[b] /\ ct2[<<"o", b>>] = ct[<<"o", b>>]
            /\ overflow'[b] = overflow[b]
  /\ \A q \in Proc : q # p => ct2[BufferOf(q)] = ct[BufferOf(q)]
  /\ \A k \in Key : Home(k) \notin {g, h} => spot2[k] = spot[k]
ResizeBlocks(p, g, h, o, own2, hd2, nx2, ct2) ==
  /\ \A l \in Loc : \A x \in {g, h} : x \in 1..modulus' /\ InGroup(own2, l, x) /\ l \notin Held(o) =>
       BlockAt(l)' = GroupBlock(ct2[l], NextOf(hd2, nx2, l))
  /\ \A b \in Block :
       /\ own2[b] = Free => overflow'[b].next = nx2[b]
       /\ own2[b] = SourceChain(p) => overflow'[b] = GroupBlock(ct2[<<"o", b>>], nx2[b])
ResizeKeys(g, h, jb2, own2, spot, spot2, base2) ==
  \A k \in Key : Home(k) \in {g, h} =>
    (spot2[k] = Nowhere <=> spot[k] = Nowhere) /\ HomeOK(jb2, k, own2, spot2, base2)'

LEMMA ResizeFrame ==
  ASSUME NEW own, NEW len, NEW hd, NEW nx, NEW ct, NEW spot, NEW rec, NEW base,
         NEW own2, NEW len2, NEW hd2, NEW nx2, NEW ct2, NEW spot2, NEW base2,
         NEW jb2, NEW o, NEW p \in Proc, NEW g \in Group, NEW h \in Group,
         Good(job, own, len, hd, nx, ct, spot, rec, base),
         Becomes(job, jb2, p, o), ResizeLocks(p, g, h, jb2, o, base, base2),
         ResizeSame(p, g, h, own, len, hd, nx, ct, spot, own2, len2, hd2, nx2, ct2, spot2),
         Chained(own2, len2, hd2, nx2), Placed(ct2, spot2, rec), SpaceOK(jb2, own2, len2, hd2)',
         ResizeBlocks(p, g, h, o, own2, hd2, nx2, ct2), ResizeKeys(g, h, jb2, own2, spot, spot2, base2),
         MoveOK(jb2, p, own2, len2, hd2, nx2, ct2, base2)'
  PROVE  Good(jb2, own2, len2, hd2, nx2, ct2, spot2, rec, base2)'
  <1>g. /\ Chained(own, len, hd, nx) /\ Placed(ct, spot, rec)
        /\ header = None /\ locked \in [Group -> Proc \cup {None}] /\ None \notin Proc
        /\ job \in [Proc -> Job] /\ store \in [Key -> [size : Nat, data : Nat]]
        /\ MinMod \in Nat \ {0} /\ MaxMod \in Nat
        /\ \A k \in Key : Home(k) \in 1..modulus /\ Home(k) \in Group
        /\ \A k \in Key : StoreOK(job, k, len, hd, spot, rec)
        /\ \A q \in Proc : JobOK(job, q, own, len, hd, nx, ct, spot, rec, base)
    BY GoodFacts
  <1>d. DiskIs(own, nx, ct)
    BY DiskFacts
  <1>1. jb2 \in [Proc -> Job] /\ jb2[p] = o /\ \A q \in Proc : q # p => jb2[q] = job[q]
    BY DEF Becomes
  <1>2. /\ header' = header /\ store' = store
        /\ \A x \in Group : Touched(p, x) <=> x \in {g, h}
        /\ ParamsOK(modulus, modValue)' /\ modulus' \in MinMod..MaxMod
        /\ locked' \in [Group -> Proc \cup {None}]
        /\ job[p].at \in {"idle", "move"} /\ o.at \in {"idle", "move"}
        /\ \A q \in Proc : q # p => ~Moving(job, q) /\ base2[q] = base[q]
    BY DEF ResizeLocks
  <1>3. \A k \in Key : MineKey(p, k) <=> Home(k) \in {g, h}
    BY <1>g, <1>2 DEF MineKey
  <1>4. \A w : MoveChain(p, g, h, w) => MineChain(p, w)
    BY <1>2 DEF MoveChain, MineChain
  <1>5. \A w : MineChain(p, w) => \/ MoveChain(p, g, h, w) \/ w \in {NewChain(p), OldChain(p)}
                                  \/ \E k \in Key : w = DataChain(k) /\ MineKey(p, k)
    BY <1>2 DEF MoveChain, MineChain
  <1>6. \A k : ~MoveChain(p, g, h, DataChain(k)) /\ ~MoveChain(p, g, h, NewChain(p)) /\ ~MoveChain(p, g, h, OldChain(p))
    BY Kinds DEF MoveChain
  <1>7. len[NewChain(p)] = 0 /\ len[OldChain(p)] = 0
    BY <1>g, <1>2 DEF JobOK, NewOK, OldOK, Working
  <1>8. len2[NewChain(p)] = 0 /\ len2[OldChain(p)] = 0
    <2>1. len2[NewChain(p)] = len[NewChain(p)] /\ len2[OldChain(p)] = len[OldChain(p)]
      BY <1>6, AllOwners DEF ResizeSame
    <2> QED BY <1>7, <2>1
  <1>9. \A b \in Block : own2[b] # NewChain(p) /\ own2[b] # OldChain(p)
    <2>1. \A b \in Block : own2[b] # NoOne => len2[own2[b]] # 0
      BY ChainFacts
    <2>2. NewChain(p) # NoOne /\ OldChain(p) # NoOne
      BY AllOwners
    <2> QED BY <1>8, <2>1, <2>2
  <1>10. \A b \in Block, k \in Key : own2[b] = DataChain(k) =>
           own[b] = DataChain(k) /\ nx2[b] = nx[b] /\ overflow'[b] = overflow[b]
    <2> SUFFICES ASSUME NEW b \in Block, NEW k \in Key, own2[b] = DataChain(k)
                 PROVE  own[b] = DataChain(k) /\ nx2[b] = nx[b] /\ overflow'[b] = overflow[b]
      OBVIOUS
    <2>1. ~MoveChain(p, g, h, own2[b])
      BY <1>6
    <2> QED BY <2>1 DEF ResizeSame
  <1>11. \A b \in Block : own[b] # NewChain(p) /\ own[b] # OldChain(p)
    <2>1. \A b \in Block : own[b] # NoOne => len[own[b]] # 0
      BY <1>g, ChainFacts
    <2>2. NewChain(p) # NoOne /\ OldChain(p) # NoOne
      BY AllOwners
    <2> QED BY <1>7, <2>1, <2>2
  <1>12. \A k : Busy(jb2, k) <=> Busy(job, k)
    <2>1. jb2[p].at \notin Working /\ job[p].at \notin Working
      BY <1>1, <1>2 DEF Working
    <2> QED BY <1>1, <2>1 DEF Busy
  <1>13. Apart(p, jb2, own, len, hd, nx, ct, spot, rec, base, own2, len2, hd2, nx2, ct2, spot2, rec, base2)
    <2>1. \A w \in Owner : ~MineChain(p, w) => len2[w] = len[w] /\ hd2[w] = hd[w]
      BY <1>4 DEF ResizeSame
    <2>2. ASSUME NEW b \in Block
          PROVE  IF MineChain(p, own[b]) THEN MineChain(p, own2[b])
                 ELSE /\ own2[b] = own[b] /\ nx2[b] = nx[b] /\ ct2[<<"o", b>>] = ct[<<"o", b>>]
                      /\ overflow'[b] = overflow[b]
      <3>1. CASE MoveChain(p, g, h, own[b])
        BY <1>4, <3>1 DEF ResizeSame
      <3>2. CASE ~MoveChain(p, g, h, own[b])
        <4>1. /\ own2[b] = own[b] /\ nx2[b] = nx[b] /\ ct2[<<"o", b>>] = ct[<<"o", b>>]
              /\ overflow'[b] = overflow[b]
          BY <3>2 DEF ResizeSame
        <4> QED BY <4>1
      <3> QED BY <3>1, <3>2
    <2>3. \A x \in Group :
            IF Touched(p, x) THEN locked[x] \in {p, None} /\ locked'[x] \in {p, None}
            ELSE /\ ct2[<<"p", x>>] = ct[<<"p", x>>] /\ primary'[x] = primary[x]
                 /\ locked'[x] = locked[x] /\ (x \in 1..modulus' <=> x \in 1..modulus)
      BY <1>2 DEF ResizeLocks, ResizeSame
    <2>4. \A q \in Proc \ {p} :
            /\ jb2[q] = job[q] /\ base2[q] = base[q] /\ ct2[BufferOf(q)] = ct[BufferOf(q)]
            /\ Moving(job, q) => modulus' = modulus
      BY <1>1, <1>2 DEF ResizeSame
    <2>5. \A k \in Key : ~MineKey(p, k) =>
            spot2[k] = spot[k] /\ rec[k] = rec[k] /\ store'[k] = store[k] /\ Home(k)' = Home(k)
      BY <1>2, <1>3 DEF ResizeSame, ResizeLocks
    <2> QED BY <2>1, <2>2, <2>3, <2>4, <2>5 DEF Apart
  <1>14. FixedOK(jb2)'
    BY <1>g, <1>1, <1>2 DEF FixedOK, ResizeSame, ParamsOK
  <1>15. OneMover(jb2)
    BY <1>1, <1>2 DEF OneMover, Moving
  <1>16. ASSUME NEW x \in Group, Touched(p, x), x \in 1..modulus'
         PROVE  GroupOnDisk(jb2, x, hd2, ct2)'
    <2>1. x \in {g, h}
      BY <1>2, <1>16
    <2>2. SUFFICES ASSUME Written(jb2, <<"p", x>>)
                   PROVE  primary'[x] = GroupBlock(ct2[<<"p", x>>], hd2[GroupChain(x)])
      BY DEF GroupOnDisk, Written
    <2>3. <<"p", x>> \notin Held(o)
      BY <1>1, <2>2 DEF Written
    <2>4. <<"p", x>> \in Loc /\ InGroup(own2, <<"p", x>>, x)
      BY DEF Loc, InGroup
    <2>5. BlockAt(<<"p", x>>)' = GroupBlock(ct2[<<"p", x>>], NextOf(hd2, nx2, <<"p", x>>))
      BY <1>16, <2>1, <2>3, <2>4 DEF ResizeBlocks
    <2> QED BY <2>5 DEF BlockAt, NextOf
  <1>17. ASSUME NEW b \in Block, MineChain(p, own2[b]) PROVE BlockOnDisk(jb2, b, own2, nx2, ct2)'
    <2>1. MoveChain(p, g, h, own2[b]) \/ \E k \in Key : own2[b] = DataChain(k) /\ MineKey(p, k)
      BY <1>5, <1>9, <1>17
    <2>2. ASSUME Written(jb2, <<"o", b>>), own2[b][1] \in {"group", "source"}
          PROVE  overflow'[b] = GroupBlock(ct2[<<"o", b>>], nx2[b])
      <3>1. own2[b] \in {SourceChain(p), GroupChain(g), GroupChain(h)}
        BY <2>1, <2>2, Kinds DEF MoveChain
      <3>2. CASE own2[b] = SourceChain(p)
        BY <3>2 DEF ResizeBlocks
      <3>3. ASSUME NEW x \in {g, h}, own2[b] = GroupChain(x)
            PROVE  overflow'[b] = GroupBlock(ct2[<<"o", b>>], nx2[b])
        <4>1. <<"o", b>> \notin Held(o)
          BY <1>1, <2>2 DEF Written
        <4>2. <<"o", b>> \in Loc /\ InGroup(own2, <<"o", b>>, x)
          BY <3>3 DEF Loc, InGroup
        <4>3. x \in 1..modulus'
          <5>1. x \in Nat \ {0} /\ modulus' \in Nat
            BY <1>2, <1>g DEF Group
          <5>2. len2[GroupChain(x)] # 0
            <6>1. GroupChain(x) # NoOne
              BY Kinds
            <6> QED BY <3>3, <6>1, ChainFacts
          <5>3. x > modulus' => len2[GroupChain(x)] = 0
            BY DEF SpaceOK
          <5> QED BY <5>1, <5>2, <5>3
        <4>4. BlockAt(<<"o", b>>)' = GroupBlock(ct2[<<"o", b>>], NextOf(hd2, nx2, <<"o", b>>))
          BY <4>1, <4>2, <4>3 DEF ResizeBlocks
        <4> QED BY <4>4 DEF BlockAt, NextOf
      <3> QED BY <3>1, <3>2, <3>3
    <2>3. own2[b][1] \in {"free", "old"} => overflow'[b].next = nx2[b]
      <3>1. own2[b][1] \in {"free", "old"} => own2[b] = Free
        BY <2>1, Kinds DEF MoveChain
      <3> QED BY <3>1 DEF ResizeBlocks
    <2>4. ASSUME NEW k \in Key, own2[b] = DataChain(k)
          PROVE  overflow'[b] = DataBlock(k, nx2[b])
      BY <1>10, <1>d, <2>4 DEF DiskIs
    <2>5. \A q \in Proc : own2[b] # NewChain(q)
      <3>1. \A q \in Proc : ~MoveChain(p, g, h, NewChain(q)) /\ \A k : NewChain(q) # DataChain(k)
        BY Kinds DEF MoveChain
      <3> QED BY <2>1, <3>1
    <2>6. Written(jb2, <<"o", b>>)' <=> Written(jb2, <<"o", b>>)
      BY DEF Written
    <2> QED BY <2>2, <2>3, <2>4, <2>5, <2>6 DEF BlockOnDisk
  <1>18. ASSUME NEW k \in Key, MineKey(p, k)
         PROVE  HomeOK(jb2, k, own2, spot2, base2)' /\ StoreOK(jb2, k, len2, hd2, spot2, rec)'
    <2>1. (spot2[k] = Nowhere <=> spot[k] = Nowhere) /\ HomeOK(jb2, k, own2, spot2, base2)'
      BY <1>3, <1>18 DEF ResizeKeys
    <2>2. len2[DataChain(k)] = len[DataChain(k)] /\ hd2[DataChain(k)] = hd[DataChain(k)]
      BY <1>6, AllOwners DEF ResizeSame
    <2>3. Busy(jb2, k)' <=> Busy(job, k)
      BY <1>12 DEF Busy
    <2>4. StoreOK(job, k, len, hd, spot, rec)
      BY <1>g
    <2> QED BY <1>2, <2>1, <2>2, <2>3, <2>4 DEF StoreOK
  <1>19. JobOK(jb2, p, own2, len2, hd2, nx2, ct2, spot2, rec, base2)'
    <2>1. NewOK(jb2, p, len2, hd2)' /\ OldOK(jb2, p, len2, hd2)'
      BY <1>1, <1>2, <1>8 DEF NewOK, OldOK, Working
    <2>2. WorkOK(jb2, p, own2, len2, hd2, nx2, ct2, spot2, rec)'
      BY <1>1, <1>2 DEF WorkOK, Working
    <2> QED BY <2>1, <2>2 DEF JobOK, ResizeLocks
  <1> QED BY <1>13, <1>14, <1>15, <1>16, <1>17, <1>18, <1>19, Frame

\* What there is to know of a process p that moves records to groups g and h.
GoalAt(g, h, i) == IF i = 1 THEN g ELSE h
AtMove(p, j, g, h, own, len, hd, nx, ct, spot, base) ==
  /\ j = job[p] /\ j.at = "move" /\ g = base[p] /\ h = j.new /\ g # h
  /\ g \in 1..modulus /\ h = IF j.op = "split" THEN modulus ELSE modulus + 1
  /\ j.op \in {"split", "merge"} /\ j.src \in Loc
  /\ \A x \in Group : locked[x] = p <=> x \in {g, h}
  /\ \A q \in Proc : q # p => ~Moving(job, q)
  /\ j.buff = GroupBlock(ct[BufferOf(p)], hd[SourceChain(p)])
  /\ IF j.src[1] = "o" THEN hd[SourceBlock(p)] = j.src[2] /\ len[SourceBlock(p)] = 1
     ELSE len[SourceBlock(p)] = 0
  /\ Len(j.tgt) = IF j.op = "split" THEN 2 ELSE 1
  /\ \A i \in 1..Len(j.tgt) :
       /\ j.tgt[i].loc \in Loc /\ InGroup(own, j.tgt[i].loc, GoalAt(g, h, i))
       /\ j.tgt[i].buff = GroupBlock(ct[j.tgt[i].loc], 0)
       /\ NextOf(hd, nx, j.tgt[i].loc) = 0
  /\ \A l \in Loc : \A x \in {g, h} : x \in 1..modulus /\ InGroup(own, l, x) /\ l \notin Held(j) =>
       BlockAt(l) = GroupBlock(ct[l], NextOf(hd, nx, l))
  /\ \A k \in Key :
       \/ spot[k] = Nowhere
       \/ spot[k] \in Loc /\ InGroup(own, spot[k], Home(k))
       \/ /\ Home(k) \in {g, h}
          /\ \/ spot[k] = BufferOf(p)
             \/ \E b \in Block : spot[k] = <<"o", b>> /\ own[b] = SourceChain(p)

LEMMA MoveFacts ==
  ASSUME NEW own, NEW len, NEW hd, NEW nx, NEW ct, NEW spot, NEW rec, NEW base,
         Good(job, own, len, hd, nx, ct, spot, rec, base), NEW p \in Proc, job[p].at = "move"
  PROVE  \E j \in MoveJob, g \in Group, h \in Group :
           AtMove(p, j, g, h, own, len, hd, nx, ct, spot, base)
  <1>g. /\ locked \in [Group -> Proc \cup {None}] /\ None \notin Proc
        /\ job \in [Proc -> Job] /\ OneMover(job) /\ Placed(ct, spot, rec)
        /\ modulus \in MinMod..MaxMod /\ MinMod \in Nat \ {0} /\ MaxMod \in Nat
        /\ \A x \in Group : x \in 1..modulus => GroupOnDisk(job, x, hd, ct)
        /\ \A k \in Key : HomeOK(job, k, own, spot, base)
        /\ \A q \in Proc : JobOK(job, q, own, len, hd, nx, ct, spot, rec, base)
    BY GoodFacts
  <1>1. PICK j \in MoveJob : j = job[p]
    BY <1>g, JobTypes
  <1>2. j.at = "move" /\ Moving(job, p) /\ j.new \in Group /\ j.op \in {"split", "merge"} /\ j.src \in Loc
    BY <1>1 DEF Moving, MoveJob
  <1>3. MoveOK(job, p, own, len, hd, nx, ct, base) /\ LocksOK(job, p, base)
    BY <1>g DEF JobOK
  <1>4. PICK g \in Group, h \in Group : g = base[p] /\ h = j.new
    <2>1. base[p] \in 1..modulus
      BY <1>2, <1>3 DEF MoveOK
    <2>2. base[p] \in Group
      BY <2>1, <1>g DEF Group
    <2> QED BY <1>2, <2>2
  <1>5. \A x \in Group : locked[x] = p <=> x \in {g, h}
    <2>1. j.at \notin Working
      BY <1>2 DEF Working
    <2> QED BY <1>1, <1>2, <1>3, <1>4, <2>1 DEF LocksOK
  <1>6. \A q \in Proc : q # p => ~Moving(job, q)
    BY <1>2, <1>g DEF OneMover
  <1>7. /\ g \in 1..modulus /\ g # h
        /\ h = IF j.op = "split" THEN modulus ELSE modulus + 1
        /\ j.buff = GroupBlock(ct[BufferOf(p)], hd[SourceChain(p)])
        /\ IF j.src[1] = "o" THEN hd[SourceBlock(p)] = j.src[2] /\ len[SourceBlock(p)] = 1
           ELSE len[SourceBlock(p)] = 0
        /\ Len(j.tgt) = IF j.op = "split" THEN 2 ELSE 1
    BY <1>1, <1>2, <1>3, <1>4 DEF MoveOK
  <1>8. ASSUME NEW i \in 1..Len(j.tgt)
        PROVE  /\ j.tgt[i].loc \in Loc /\ InGroup(own, j.tgt[i].loc, GoalAt(g, h, i))
               /\ j.tgt[i].buff = GroupBlock(ct[j.tgt[i].loc], 0)
               /\ NextOf(hd, nx, j.tgt[i].loc) = 0
    BY <1>1, <1>2, <1>3, <1>4, TgtTypes DEF MoveOK, GoalAt
  <1>9. ASSUME NEW l \in Loc, NEW x \in {g, h}, x \in 1..modulus, InGroup(own, l, x), l \notin Held(j)
        PROVE  BlockAt(l) = GroupBlock(ct[l], NextOf(hd, nx, l))
    <2>1. Written(job, l)
      <3>1. SUFFICES ASSUME NEW q \in Proc, l \in Held(job[q]) PROVE FALSE
        BY DEF Written
      <3>2. PICK y \in Group : locked[y] = q /\ InGroup(own, l, y)
        BY <3>1, HeldIsLocked
      <3>3. y = x
        BY <1>9, <3>2, InOneGroup
      <3>4. q = p
        BY <1>5, <3>2, <3>3
      <3> QED BY <1>1, <1>9, <3>1, <3>4
    <2>2. CASE l = <<"p", x>>
      <3>1. GroupOnDisk(job, x, hd, ct)
        BY <1>9, <1>g
      <3>2. primary[x] = GroupBlock(ct[<<"p", x>>], hd[GroupChain(x)])
        BY <2>1, <2>2, <3>1 DEF GroupOnDisk
      <3> QED BY <2>2, <3>2 DEF BlockAt, NextOf
    <2>3. CASE l # <<"p", x>>
      <3>1. PICK b \in Block : l = <<"o", b>> /\ own[b] = GroupChain(x)
        BY <1>9, <2>3 DEF InGroup
      <3>2. DiskIs(own, nx, ct)
        BY DiskFacts
      <3>3. Written(job, <<"o", b>>)
        BY <2>1, <3>1
      <3>4. overflow[b] = GroupBlock(ct[<<"o", b>>], nx[b])
        BY <3>1, <3>2, <3>3 DEF DiskIs
      <3> QED BY <3>1, <3>4 DEF BlockAt, NextOf
    <2> QED BY <2>2, <2>3
  <1>10. ASSUME NEW k \in Key
         PROVE  \/ spot[k] = Nowhere
                \/ spot[k] \in Loc /\ InGroup(own, spot[k], Home(k))
                \/ /\ Home(k) \in {g, h}
                   /\ \/ spot[k] = BufferOf(p)
                      \/ \E b \in Block : spot[k] = <<"o", b>> /\ own[b] = SourceChain(p)
    <2>1. HomeOK(job, k, own, spot, base)
      BY <1>g
    <2>2. CASE InGroup(own, spot[k], Home(k))
      <3>1. Home(k) \in Group
        BY GoodFacts
      <3>2. spot[k] \in Loc
        BY <2>2, <3>1 DEF InGroup, Loc
      <3> QED BY <2>2, <3>2
    <2>3. ASSUME NEW q \in Proc, Moving(job, q), Home(k) \in Goals(job, q, base),
                 \/ spot[k] = BufferOf(q)
                 \/ \E b \in Block : spot[k] = <<"o", b>> /\ own[b] = SourceChain(q)
          PROVE  /\ Home(k) \in {g, h}
                 /\ \/ spot[k] = BufferOf(p)
                    \/ \E b \in Block : spot[k] = <<"o", b>> /\ own[b] = SourceChain(p)
      <3>1. q = p
        BY <1>6, <2>3
      <3>2. Goals(job, p, base) \subseteq {g, h}
        BY <1>1, <1>4 DEF Goals
      <3> QED BY <2>3, <3>1, <3>2
    <2> QED BY <2>1, <2>2, <2>3 DEF HomeOK
  <1>11. AtMove(p, j, g, h, own, len, hd, nx, ct, spot, base)
    BY <1>1, <1>2, <1>4, <1>5, <1>6, <1>7, <1>8, <1>9, <1>10 DEF AtMove
  <1> QED BY <1>11

\* A step of the move: what it keeps.
MovesOn(p, g, h, j, o) ==
  /\ modulus' = modulus /\ modValue' = modValue /\ header' = header /\ store' = store
  /\ locked' = locked
  /\ DOMAIN primary' = Group /\ DOMAIN overflow' = Block
  /\ \A x \in Group : x \notin {g, h} => primary'[x] = primary[x]
  /\ o \in MoveJob /\ o.at = "move" /\ o.op = j.op /\ o.new = j.new
MoveChains(p, g, h, own, len, hd, nx, own2, len2, hd2, nx2) ==
  /\ \A w \in Owner : ~MoveChain(p, g, h, w) => len2[w] = len[w] /\ hd2[w] = hd[w]
  /\ \A b \in Block :
       IF MoveChain(p, g, h, own[b]) THEN MoveChain(p, g, h, own2[b])
       ELSE own2[b] = own[b] /\ nx2[b] = nx[b] /\ overflow'[b] = overflow[b]
\* The places whose records it may move; where it moves them.
MoveSpot(p, g, h, own, m) ==
  m = BufferOf(p) \/ m \in {<<"p", g>>, <<"p", h>>}
  \/ \E b \in Block : m = <<"o", b>> /\ MoveChain(p, g, h, own[b])
MoveReseats(p, g, h, own, ct, spot, own2, ct2, spot2) ==
  /\ \A m \in Spot : ct2[m] = ct[m] \/ MoveSpot(p, g, h, own, m)
  /\ \A k \in Key :
       \/ spot2[k] = spot[k] /\ \A b \in Block : spot[k] = <<"o", b>> => own2[b] = own[b]
       \/ spot2[k] = BufferOf(p) /\ \E b \in Block : spot[k] = <<"o", b>> /\ own[b] = SourceChain(p)
       \/ spot[k] = BufferOf(p) /\ InGroup(own2, spot2[k], Home(k))

LEMMA MoveFrame ==
  ASSUME NEW own, NEW len, NEW hd, NEW nx, NEW ct, NEW spot, NEW rec, NEW base,
         NEW own2, NEW len2, NEW hd2, NEW nx2, NEW ct2, NEW spot2,
         NEW jb2, NEW o, NEW p \in Proc, NEW j \in MoveJob, NEW g \in Group, NEW h \in Group,
         Good(job, own, len, hd, nx, ct, spot, rec, base),
         AtMove(p, j, g, h, own, len, hd, nx, ct, spot, base),
         Becomes(job, jb2, p, o), MovesOn(p, g, h, j, o),
         MoveChains(p, g, h, own, len, hd, nx, own2, len2, hd2, nx2),
         MoveReseats(p, g, h, own, ct, spot, own2, ct2, spot2),
         Chained(own2, len2, hd2, nx2), Placed(ct2, spot2, rec), SpaceOK(jb2, own2, len2, hd2)',
         ResizeBlocks(p, g, h, o, own2, hd2, nx2, ct2),
         MoveOK(jb2, p, own2, len2, hd2, nx2, ct2, base)'
  PROVE  Good(jb2, own2, len2, hd2, nx2, ct2, spot2, rec, base)'
  <1>g. /\ locked \in [Group -> Proc \cup {None}] /\ None \notin Proc /\ Placed(ct, spot, rec)
        /\ ParamsOK(modulus, modValue) /\ modulus \in MinMod..MaxMod
        /\ \A k \in Key : Home(k) \in 1..modulus /\ Home(k) \in Group
    BY GoodFacts
  <1>m. /\ j = job[p] /\ j.at = "move" /\ g = base[p] /\ h = j.new
        /\ \A x \in Group : locked[x] = p <=> x \in {g, h}
        /\ \A q \in Proc : q # p => ~Moving(job, q)
    BY DEF AtMove
  <1>o. /\ modulus' = modulus /\ modValue' = modValue /\ header' = header /\ store' = store
        /\ locked' = locked
        /\ DOMAIN primary' = Group /\ DOMAIN overflow' = Block
        /\ \A x \in Group : x \notin {g, h} => primary'[x] = primary[x]
        /\ o \in MoveJob /\ o.at = "move" /\ o.op = j.op /\ o.new = j.new
    BY DEF MovesOn
  <1>1. jb2[p] = o /\ \A q \in Proc : q # p => jb2[q] = job[q]
    BY DEF Becomes
  <1>2. \A k \in Key : Home(k)' = Home(k)
    BY <1>o DEF Home
  <1>3. ResizeLocks(p, g, h, jb2, o, base, base)
    <2>1. \A x \in Group : Touched(p, x) <=> x \in {g, h}
      BY <1>m, <1>o DEF Touched
    <2>2. \A x \in Group : IF x \in {g, h} THEN locked[x] \in {p, None} /\ locked'[x] \in {p, None}
                           ELSE locked'[x] = locked[x] /\ (x \in 1..modulus' <=> x \in 1..modulus)
      BY <1>m, <1>o
    <2>3. ParamsOK(modulus, modValue)' /\ modulus' \in MinMod..MaxMod
      BY <1>g, <1>o DEF ParamsOK
    <2>4. LocksOK(jb2, p, base)'
      BY <1>1, <1>m, <1>o DEF LocksOK, Moving, Working
    <2> QED BY <1>2, <1>g, <1>m, <1>o, <2>1, <2>2, <2>3, <2>4 DEF ResizeLocks
  <1>4. ASSUME NEW m \in Spot, ~MoveSpot(p, g, h, own, m) PROVE ct2[m] = ct[m]
    BY <1>4 DEF MoveReseats
  <1>5. \A x \in Group : x \notin {g, h} => ct2[<<"p", x>>] = ct[<<"p", x>>]
    <2>1. SUFFICES ASSUME NEW x \in Group, x \notin {g, h} PROVE ct2[<<"p", x>>] = ct[<<"p", x>>]
      OBVIOUS
    <2>2. <<"p", x>> \in Spot /\ ~MoveSpot(p, g, h, own, <<"p", x>>)
      BY <2>1 DEF Spot, Loc, MoveSpot, BufferOf
    <2> QED BY <2>2, <1>4
  <1>6. ASSUME NEW b \in Block, ~MoveChain(p, g, h, own[b]) PROVE ct2[<<"o", b>>] = ct[<<"o", b>>]
    <2>1. <<"o", b>> \in Spot /\ ~MoveSpot(p, g, h, own, <<"o", b>>)
      BY <1>6 DEF Spot, Loc, MoveSpot, BufferOf
    <2> QED BY <2>1, <1>4
  <1>7. ASSUME NEW q \in Proc, q # p PROVE ct2[BufferOf(q)] = ct[BufferOf(q)]
    <2>1. BufferOf(q) \in Spot /\ ~MoveSpot(p, g, h, own, BufferOf(q))
      BY <1>7 DEF Spot, Loc, MoveSpot, BufferOf
    <2> QED BY <2>1, <1>4
  <1>8. ASSUME NEW k \in Key
        PROVE  \/ spot[k] = Nowhere
               \/ spot[k] \in Loc /\ InGroup(own, spot[k], Home(k))
               \/ /\ Home(k) \in {g, h}
                  /\ \/ spot[k] = BufferOf(p)
                     \/ \E b \in Block : spot[k] = <<"o", b>> /\ own[b] = SourceChain(p)
    BY DEF AtMove
  <1>9. ASSUME NEW k \in Key
        PROVE  \/ spot2[k] = spot[k] /\ \A b \in Block : spot[k] = <<"o", b>> => own2[b] = own[b]
               \/ spot2[k] = BufferOf(p) /\ \E b \in Block : spot[k] = <<"o", b>> /\ own[b] = SourceChain(p)
               \/ spot[k] = BufferOf(p) /\ InGroup(own2, spot2[k], Home(k))
    BY DEF MoveReseats
  <1>10. ASSUME NEW k \in Key, spot[k] = BufferOf(p) PROVE Home(k) \in {g, h} /\ spot[k] # Nowhere
    <2>1. BufferOf(p) # Nowhere /\ BufferOf(p) \notin Loc
      BY DEF BufferOf, Nowhere, Loc
    <2> QED BY <1>8, <1>10, <2>1
  <1>11. ASSUME NEW k \in Key, NEW b \in Block, spot[k] = <<"o", b>>, own[b] = SourceChain(p)
         PROVE  Home(k) \in {g, h} /\ spot[k] # Nowhere
    <2>1. <<"o", b>> # Nowhere
      BY DEF Nowhere
    <2>2. ~InGroup(own, <<"o", b>>, Home(k))
      BY <1>11, Kinds DEF InGroup
    <2> QED BY <1>8, <1>11, <2>1, <2>2
  <1>12. ASSUME NEW k \in Key, Home(k) \notin {g, h} PROVE spot2[k] = spot[k]
    BY <1>9, <1>10, <1>11, <1>12
  <1>13. ASSUME NEW k \in Key PROVE spot2[k] = Nowhere <=> spot[k] = Nowhere
    <2>1. BufferOf(p) # Nowhere
      BY DEF BufferOf, Nowhere
    <2>2. \A x : InGroup(own2, x, Home(k)) => x # Nowhere
      BY DEF InGroup, Nowhere
    <2> QED BY <1>9, <1>10, <1>11, <2>1, <2>2
  <1>14. ASSUME NEW k \in Key, Home(k) \in {g, h} PROVE HomeOK(jb2, k, own2, spot2, base)'
    <2>1. Moving(jb2, p) /\ Home(k) \in Goals(jb2, p, base)
      <3>1. Home(k) \in 1..modulus /\ modulus \in Nat
        BY <1>g DEF ParamsOK
      <3>2. h = IF j.op = "split" THEN modulus ELSE modulus + 1
        BY DEF AtMove
      <3> QED BY <1>1, <1>14, <1>m, <1>o, <3>1, <3>2 DEF Moving, Goals
    <2>2. \/ spot2[k] = Nowhere \/ InGroup(own2, spot2[k], Home(k))
          \/ spot2[k] = BufferOf(p)
          \/ \E b \in Block : spot2[k] = <<"o", b>> /\ own2[b] = SourceChain(p)
      <3>1. CASE spot2[k] = spot[k] /\ \A b \in Block : spot[k] = <<"o", b>> => own2[b] = own[b]
        <4>1. InGroup(own, spot[k], Home(k)) => InGroup(own2, spot[k], Home(k))
          BY <3>1 DEF InGroup
        <4>2. \A b \in Block : spot[k] = <<"o", b>> /\ own[b] = SourceChain(p) =>
                                 spot2[k] = <<"o", b>> /\ own2[b] = SourceChain(p)
          BY <3>1
        <4> QED BY <1>8, <3>1, <4>1, <4>2
      <3> QED BY <1>9, <3>1
    <2>3. \/ spot2[k] = Nowhere \/ InGroup(own2, spot2[k], Home(k)')
          \/ spot2[k] = BufferOf(p)
          \/ \E b \in Block : spot2[k] = <<"o", b>> /\ own2[b] = SourceChain(p)
      BY <1>2, <2>2
    <2>4. Home(k)' \in Goals(jb2, p, base)
      BY <1>2, <2>1
    <2> QED BY <2>1, <2>3, <2>4 DEF HomeOK, Moving, Goals
  <1>15. ResizeKeys(g, h, jb2, own2, spot, spot2, base)
    BY <1>13, <1>14 DEF ResizeKeys
  <1>16. ResizeSame(p, g, h, own, len, hd, nx, ct, spot, own2, len2, hd2, nx2, ct2, spot2)
    <2>1. \A b \in Block :
            IF MoveChain(p, g, h, own[b]) THEN MoveChain(p, g, h, own2[b])
            ELSE /\ own2[b] = own[b] /\ nx2[b] = nx[b] /\ ct2[<<"o", b>>] = ct[<<"o", b>>]
                 /\ overflow'[b] = overflow[b]
      BY <1>6 DEF MoveChains
    <2>2. \A w \in Owner : ~MoveChain(p, g, h, w) => len2[w] = len[w] /\ hd2[w] = hd[w]
      BY DEF MoveChains
    <2> QED BY <1>5, <1>7, <1>12, <1>o, <2>1, <2>2 DEF ResizeSame
  <1> QED BY <1>3, <1>15, <1>16, ResizeFrame

\* The first record of one place goes to the end of another.
MovedOne(ct, spot, rec, ct2, spot2, x, y, r) ==
  /\ Placed(ct2, spot2, rec)
  /\ ct2[x] = Append(ct[x], r) /\ ct2[y] = Tail(ct[y])
  /\ \A l \in Spot : l # x /\ l # y => ct2[l] = ct[l]
  /\ spot2[r.key] = x
  /\ \A k \in Key : k # r.key => spot2[k] = spot[k]
FirstIs(ct, y, r) == ct[y] # <<>> /\ r = Head(ct[y])
LEMMA MoveRecord ==
  ASSUME NEW ct, NEW spot, NEW rec, Placed(ct, spot, rec),
         NEW x \in Spot, NEW y \in Spot, x # y, NEW r, FirstIs(ct, y, r)
  PROVE  /\ r \in Record /\ r.key \in Key /\ spot[r.key] = y
         /\ \E ct2, spot2 : MovedOne(ct, spot, rec, ct2, spot2, x, y, r)
  <1>1. ct[x] \in Seq(Record) /\ ct[y] \in Seq(Record) /\ Len(ct[y]) >= 1 /\ Len(ct[y]) \in Nat /\ r = ct[y][1]
    BY PlacedFacts DEF FirstIs
  <1>2. r \in Record /\ r.key \in Key /\ spot[r.key] = y
    BY <1>1, PlacedFacts
  <1>3. PICK e, f : PourIs(ct, x, y, 1, e, f)
    BY DEF PourIs
  <1>4. 1 \in 0..Len(ct[y])
    BY <1>1
  <1>5. PICK ct2, spot2 : Pours(ct, spot, rec, ct2, spot2, x, y, 1, e, f)
    BY ONLY Placed(ct, spot, rec), x \in Spot, y \in Spot, x # y, <1>3, <1>4, PourRecords
  <1>6. /\ Placed(ct2, spot2, rec) /\ ct2[x] = e /\ ct2[y] = f
        /\ \A l \in Spot : l # x /\ l # y => ct2[l] = ct[l]
        /\ \A k \in Key : spot2[k] = spot[k] \/ (spot[k] = y /\ spot2[k] = x)
    BY <1>5 DEF Pours
  <1>7. e = Append(ct[x], r) /\ f = Tail(ct[y])
    BY <1>1, <1>3 DEF PourIs
  <1>8. Len(e) = Len(ct[x]) + 1 /\ e[Len(ct[x]) + 1] = r /\ \A i \in 1..Len(ct[x]) : e[i] = ct[x][i]
    BY <1>1, <1>2, <1>7
  <1>9. spot2[r.key] = x
    <2>1. \A i \in 1..Len(ct2[x]) : spot2[ct2[x][i].key] = x
      BY <1>6 DEF Placed
    <2>2. Len(ct[x]) + 1 \in 1..Len(e)
      BY <1>1, <1>8
    <2> QED BY <1>6, <1>8, <2>1, <2>2
  <1>10. ASSUME NEW k \in Key, k # r.key PROVE spot2[k] = spot[k]
    <2>1. SUFFICES ASSUME spot[k] = y, spot2[k] = x PROVE FALSE
      BY <1>6
    <2>2. spot2[k] # Nowhere
      BY <2>1, <1>6, PlacedFacts
    <2>3. PICK i \in 1..Len(e) : e[i].key = k
      <3>1. \E i \in 1..Len(ct2[spot2[k]]) : ct2[spot2[k]][i].key = k
        BY <1>6, <2>2 DEF Placed
      <3> QED BY <1>6, <2>1, <3>1
    <2>4. i \in 1..Len(ct[x]) /\ ct[x][i].key = k
      BY <1>1, <1>8, <1>10, <2>3
    <2>5. spot[k] = x
      BY <2>4, PlacedFacts
    <2> QED BY <2>1, <2>5
  <1>11. MovedOne(ct, spot, rec, ct2, spot2, x, y, r)
    BY <1>6, <1>7, <1>9, <1>10 DEF MovedOne
  <1> QED BY <1>2, <1>11

\* The record that is moved next, and the target that it goes to.
NextRecord(p, j, g, h, t, l, r, own, ct, spot, hd, nx) ==
  /\ FirstIs(ct, BufferOf(p), r) /\ r = Head(j.buff.recs) /\ t = TargetOf(p, r)
  /\ r \in Record /\ r.key \in Key /\ spot[r.key] = BufferOf(p)
  /\ t \in 1..Len(j.tgt) /\ Home(r.key) = GoalAt(g, h, t) /\ GoalAt(g, h, t) \in {g, h}
  /\ l = j.tgt[t].loc /\ l \in Loc /\ l \in Spot /\ l # BufferOf(p)
  /\ InGroup(own, l, GoalAt(g, h, t)) /\ NextIs(hd, nx, l, 0)
  /\ j.tgt[t].buff = GroupBlock(ct[l], 0)
  /\ GoalAt(g, h, t) \in 1..modulus
  /\ \A i \in 1..Len(j.tgt) : i # t => j.tgt[i].loc # l /\ GoalAt(g, h, i) # GoalAt(g, h, t)
LEMMA NextIsRecord ==
  ASSUME NEW own, NEW len, NEW hd, NEW nx, NEW ct, NEW spot, NEW rec, NEW base,
         NEW p \in Proc, NEW j \in MoveJob, NEW g \in Group, NEW h \in Group,
         Good(job, own, len, hd, nx, ct, spot, rec, base),
         AtMove(p, j, g, h, own, len, hd, nx, ct, spot, base), j.buff.recs # <<>>
  PROVE  \E t, l, r : NextRecord(p, j, g, h, t, l, r, own, ct, spot, hd, nx)
  <1>g. /\ Placed(ct, spot, rec) /\ modulus \in Nat
        /\ \A k \in Key : Home(k) \in 1..modulus /\ Home(k) \in Group
    BY GoodFacts DEF ParamsOK
  <1>m. /\ j = job[p] /\ h = j.new /\ g # h
        /\ g \in 1..modulus /\ h = IF j.op = "split" THEN modulus ELSE modulus + 1
        /\ j.op \in {"split", "merge"}
        /\ j.buff = GroupBlock(ct[BufferOf(p)], hd[SourceChain(p)])
        /\ Len(j.tgt) = IF j.op = "split" THEN 2 ELSE 1
        /\ \A i \in 1..Len(j.tgt) :
           /\ j.tgt[i].loc \in Loc /\ InGroup(own, j.tgt[i].loc, GoalAt(g, h, i))
           /\ j.tgt[i].buff = GroupBlock(ct[j.tgt[i].loc], 0)
           /\ NextOf(hd, nx, j.tgt[i].loc) = 0
    BY DEF AtMove
  <1>1. PICK r, t, l : r = Head(j.buff.recs) /\ t = TargetOf(p, r) /\ l = j.tgt[t].loc
    OBVIOUS
  <1>2. FirstIs(ct, BufferOf(p), r) /\ BufferOf(p) \in Spot
    BY <1>1, <1>m DEF FirstIs, GroupBlock, Spot, BufferOf
  <1>3. ct[BufferOf(p)] \in Seq(Record) /\ Len(ct[BufferOf(p)]) >= 1 /\ r = ct[BufferOf(p)][1]
    BY <1>2, <1>g, PlacedFacts DEF FirstIs
  <1>4. r \in Record /\ r.key \in Key /\ spot[r.key] = BufferOf(p)
    BY <1>2, <1>3, <1>g, PlacedFacts
  <1>5. Home(r.key) \in {g, h}
    <2>1. BufferOf(p) # Nowhere /\ BufferOf(p) \notin Loc
      BY DEF BufferOf, Nowhere, Loc
    <2>2. \/ spot[r.key] = Nowhere
          \/ spot[r.key] \in Loc /\ InGroup(own, spot[r.key], Home(r.key))
          \/ Home(r.key) \in {g, h}
      BY <1>4 DEF AtMove
    <2> QED BY <1>4, <2>1, <2>2
  <1>6. t \in 1..Len(j.tgt) /\ Home(r.key) = GoalAt(g, h, t) /\ GoalAt(g, h, t) \in {g, h}
    <2>1. t = IF j.op = "split" /\ Home(r.key) = h THEN 2 ELSE 1
      BY <1>1, <1>m DEF TargetOf
    <2>2. j.op # "split" => Home(r.key) = g
      <3>1. Home(r.key) \in 1..modulus
        BY <1>4, <1>g
      <3> QED BY <1>5, <1>m, <1>g, <3>1
    <2> QED BY <1>5, <1>m, <2>1, <2>2 DEF GoalAt
  <1>7. /\ l \in Loc /\ InGroup(own, l, GoalAt(g, h, t)) /\ NextIs(hd, nx, l, 0)
        /\ j.tgt[t].buff = GroupBlock(ct[l], 0)
    BY <1>1, <1>6, <1>m DEF NextIs
  <1>8. l \in Spot /\ l # BufferOf(p)
    BY <1>7 DEF Spot, Loc, BufferOf
  <1>9. ASSUME NEW i \in 1..Len(j.tgt), i # t PROVE j.tgt[i].loc # l /\ GoalAt(g, h, i) # GoalAt(g, h, t)
    <2>1. GoalAt(g, h, i) # GoalAt(g, h, t)
      BY <1>6, <1>9, <1>m DEF GoalAt
    <2>2. InGroup(own, j.tgt[i].loc, GoalAt(g, h, i))
      BY <1>m
    <2> QED BY <1>7, <2>1, <2>2, InOneGroup
  <1>10. GoalAt(g, h, t) \in 1..modulus
    BY <1>4, <1>6, <1>g
  <1>11. r = Head(j.buff.recs) /\ t = TargetOf(p, r) /\ l = j.tgt[t].loc
    BY <1>1
  <1>12. NextRecord(p, j, g, h, t, l, r, own, ct, spot, hd, nx)
    BY <1>2, <1>4, <1>6, <1>7, <1>8, <1>9, <1>10, <1>11 DEF NextRecord
  <1> QED BY <1>12

\* The job when record r has gone to target t, which is c then.
Retargets(j, o, t, c) ==
  /\ o \in MoveJob /\ o.at = "move" /\ o.op = j.op /\ o.new = j.new /\ o.src = j.src
  /\ o.buff = GroupBlock(Tail(j.buff.recs), j.buff.next)
  /\ Len(o.tgt) = Len(j.tgt)
  /\ o.tgt[t] = c
  /\ \A i \in 1..Len(j.tgt) : i # t => o.tgt[i] = j.tgt[i]
MovesTo(j, o, t, c) == o = [j EXCEPT !.buff.recs = Tail(@), !.tgt[t] = c]
LEMMA RetargetIs ==
  ASSUME NEW j \in MoveJob, j.buff.recs # <<>>, NEW t \in 1..Len(j.tgt),
         NEW c \in [loc : Loc, buff : BlockType], NEW o, MovesTo(j, o, t, c)
  PROVE  Retargets(j, o, t, c)
  <1>1. j.buff \in BlockType /\ j.tgt \in Seq([loc : Loc, buff : BlockType])
    BY DEF MoveJob
  <1>2. Tail(j.buff.recs) \in Seq(Record) /\ j.buff.next \in Nat
    BY <1>1 DEF BlockType
  <1>3. PICK b, s : b = [j.buff EXCEPT !.recs = Tail(@)] /\ s = [j.tgt EXCEPT ![t] = c]
    OBVIOUS
  <1>4. b = GroupBlock(Tail(j.buff.recs), j.buff.next) /\ b \in BlockType
    BY <1>1, <1>2, <1>3 DEF BlockType, GroupBlock
  <1>5. /\ s \in Seq([loc : Loc, buff : BlockType]) /\ Len(s) = Len(j.tgt) /\ s[t] = c
        /\ \A i \in 1..Len(j.tgt) : i # t => s[i] = j.tgt[i]
    BY <1>1, <1>3
  <1>6. o = [j EXCEPT !.buff = b, !.tgt = s]
    <2>1. o = [j EXCEPT !.buff = [j.buff EXCEPT !.recs = Tail(@)], !.tgt = [j.tgt EXCEPT ![t] = c]]
      BY DEF MovesTo, MoveJob
    <2> QED BY <1>3, <2>1
  <1>7. /\ o \in MoveJob /\ o.at = "move" /\ o.op = j.op /\ o.new = j.new /\ o.src = j.src
        /\ o.buff = b /\ o.tgt = s
    BY <1>4, <1>5, <1>6 DEF MoveJob
  <1> QED BY <1>4, <1>5, <1>7 DEF Retargets

\* The source and the targets of a move.
SourceIs(p, o, len, hd, ct) ==
  /\ o.buff = GroupBlock(ct[BufferOf(p)], hd[SourceChain(p)])
  /\ IF o.src[1] = "o" THEN hd[SourceBlock(p)] = o.src[2] /\ len[SourceBlock(p)] = 1
     ELSE len[SourceBlock(p)] = 0
TargetsAre(o, g, h, own, hd, nx, ct) ==
  \A i \in 1..Len(o.tgt) :
    /\ InGroup(own, o.tgt[i].loc, GoalAt(g, h, i))
    /\ o.tgt[i].buff = GroupBlock(ct[o.tgt[i].loc], 0)
    /\ NextOf(hd, nx, o.tgt[i].loc) = 0
LikeMove(j, o) ==
  o \in MoveJob /\ o.at = "move" /\ o.op = j.op /\ o.new = j.new /\ Len(o.tgt) = Len(j.tgt)
LEMMA MoveGoesOn ==
  ASSUME NEW own, NEW len, NEW hd, NEW nx, NEW ct, NEW spot, NEW base,
         NEW own2, NEW len2, NEW hd2, NEW nx2, NEW ct2,
         NEW p \in Proc, NEW j \in MoveJob, NEW g \in Group, NEW h \in Group, NEW o, NEW jb2,
         AtMove(p, j, g, h, own, len, hd, nx, ct, spot, base), job \in [Proc -> Job],
         Becomes(job, jb2, p, o), LikeMove(j, o), SourceIs(p, o, len2, hd2, ct2),
         TargetsAre(o, g, h, own2, hd2, nx2, ct2), modulus' = modulus
  PROVE  MoveOK(jb2, p, own2, len2, hd2, nx2, ct2, base)'
  <1>1. jb2[p] = o
    BY DEF Becomes
  <1>2. /\ g = base[p] /\ h = j.new /\ g # h
        /\ g \in 1..modulus /\ h = IF j.op = "split" THEN modulus ELSE modulus + 1
        /\ Len(j.tgt) = IF j.op = "split" THEN 2 ELSE 1
    BY DEF AtMove
  <1>3. /\ o.at = "move" /\ o.op = j.op /\ o.new = h /\ Len(o.tgt) = IF o.op = "split" THEN 2 ELSE 1
        /\ h = IF o.op = "split" THEN modulus' ELSE modulus' + 1
        /\ g \in 1..modulus'
    BY <1>2 DEF LikeMove
  <1>4. \A i \in 1..Len(o.tgt) :
          /\ InGroup(own2, o.tgt[i].loc, IF i = 1 THEN base[p] ELSE o.new)
          /\ o.tgt[i].buff = GroupBlock(ct2[o.tgt[i].loc], 0)
          /\ NextOf(hd2, nx2, o.tgt[i].loc) = 0
    BY <1>2, <1>3 DEF TargetsAre, GoalAt
  <1>5. /\ o.buff = GroupBlock(ct2[BufferOf(p)], hd2[SourceChain(p)])
        /\ IF o.src[1] = "o" THEN hd2[SourceBlock(p)] = o.src[2] /\ len2[SourceBlock(p)] = 1
           ELSE len2[SourceBlock(p)] = 0
    BY DEF SourceIs
  <1>6. base[p] \in 1..modulus' /\ base[p] # o.new
    BY <1>2, <1>3
  <1> QED BY <1>1, <1>3, <1>4, <1>5, <1>6 DEF MoveOK, Moving

\* A record that fits into the buffer of its target.
MoveKeepsAll == UNCHANGED <<modulus, modValue, locked, header, store>>
LEMMA MoveHere ==
  ASSUME NEW own, NEW len, NEW hd, NEW nx, NEW ct, NEW spot, NEW rec, NEW base,
         NEW p \in Proc, NEW j \in MoveJob, NEW g \in Group, NEW h \in Group,
         Good(job, own, len, hd, nx, ct, spot, rec, base),
         AtMove(p, j, g, h, own, len, hd, nx, ct, spot, base),
         NEW t, NEW l, NEW r, NextRecord(p, j, g, h, t, l, r, own, ct, spot, hd, nx),
         NEW c, c = [loc |-> l, buff |-> GroupBlock(Append(ct[l], r), 0)],
         NEW o, Retargets(j, o, t, c), NEW jb2, Becomes(job, jb2, p, o),
         UNCHANGED <<blocks, space>>, MoveKeepsAll
  PROVE  GoodAfter(jb2)
  <1>g. /\ Chained(own, len, hd, nx) /\ Placed(ct, spot, rec)
        /\ DOMAIN primary = Group /\ DOMAIN overflow = Block /\ SpaceOK(job, own, len, hd)
        /\ job \in [Proc -> Job] /\ len[Spare] = 0
    BY GoodFacts DEF SpaceOK
  <1>r. /\ FirstIs(ct, BufferOf(p), r) /\ r \in Record /\ r.key \in Key /\ spot[r.key] = BufferOf(p)
        /\ t \in 1..Len(j.tgt) /\ Home(r.key) = GoalAt(g, h, t) /\ GoalAt(g, h, t) \in {g, h}
        /\ l = j.tgt[t].loc /\ l \in Loc /\ l \in Spot /\ l # BufferOf(p)
        /\ InGroup(own, l, GoalAt(g, h, t))
        /\ \A i \in 1..Len(j.tgt) : i # t => j.tgt[i].loc # l
    BY DEF NextRecord
  <1>m. /\ j = job[p] /\ j.at = "move" /\ g = base[p] /\ h = j.new /\ g # h
        /\ g \in 1..modulus /\ h = IF j.op = "split" THEN modulus ELSE modulus + 1
        /\ j.buff = GroupBlock(ct[BufferOf(p)], hd[SourceChain(p)])
        /\ IF j.src[1] = "o" THEN hd[SourceBlock(p)] = j.src[2] /\ len[SourceBlock(p)] = 1
           ELSE len[SourceBlock(p)] = 0
        /\ Len(j.tgt) = IF j.op = "split" THEN 2 ELSE 1
        /\ \A i \in 1..Len(j.tgt) :
           /\ j.tgt[i].loc \in Loc /\ InGroup(own, j.tgt[i].loc, GoalAt(g, h, i))
           /\ j.tgt[i].buff = GroupBlock(ct[j.tgt[i].loc], 0)
           /\ NextOf(hd, nx, j.tgt[i].loc) = 0
        /\ \A m \in Loc : \A x \in {g, h} : x \in 1..modulus /\ InGroup(own, m, x) /\ m \notin Held(j) =>
             BlockAt(m) = GroupBlock(ct[m], NextOf(hd, nx, m))
    BY DEF AtMove
  <1>o. /\ o \in MoveJob /\ o.at = "move" /\ o.op = j.op /\ o.new = j.new /\ o.src = j.src
        /\ o.buff = GroupBlock(Tail(j.buff.recs), j.buff.next) /\ Len(o.tgt) = Len(j.tgt)
        /\ o.tgt[t].loc = l /\ o.tgt[t].buff = GroupBlock(Append(ct[l], r), 0)
        /\ \A i \in 1..Len(j.tgt) : i # t => o.tgt[i] = j.tgt[i]
    BY DEF Retargets
  <1>1. PICK y : y = BufferOf(p) /\ y \in Spot /\ y \notin Loc
    <2>1. BufferOf(p) \in Spot /\ BufferOf(p) \notin Loc
      BY DEF BufferOf, Spot, Loc
    <2> QED BY <2>1
  <1>2. PICK ct2, spot2 : MovedOne(ct, spot, rec, ct2, spot2, l, y, r)
    BY <1>1, <1>r, <1>g, MoveRecord
  <1>3. /\ Placed(ct2, spot2, rec)
        /\ ct2[l] = Append(ct[l], r) /\ ct2[y] = Tail(ct[y])
        /\ \A m \in Spot : m # l /\ m # y => ct2[m] = ct[m]
        /\ spot2[r.key] = l
        /\ \A k \in Key : k # r.key => spot2[k] = spot[k]
    BY <1>2 DEF MovedOne
  <1>4. jb2[p] = o
    BY <1>g DEF Becomes
  <1>5. MovesOn(p, g, h, j, o)
    BY <1>o, <1>g DEF MovesOn, MoveKeepsAll, blocks
  <1>6. MoveChains(p, g, h, own, len, hd, nx, own, len, hd, nx)
    BY DEF MoveChains, blocks
  <1>7. MoveReseats(p, g, h, own, ct, spot, own, ct2, spot2)
    <2>1. MoveSpot(p, g, h, own, l) /\ MoveSpot(p, g, h, own, y)
      BY <1>1, <1>r DEF MoveSpot, InGroup, MoveChain
    <2>2. \A m \in Spot : ct2[m] = ct[m] \/ MoveSpot(p, g, h, own, m)
      BY <1>3, <2>1
    <2> QED BY <1>3, <1>r, <2>2 DEF MoveReseats
  <1>8. SpaceOK(jb2, own, len, hd)'
    <2>1. KeepsFree(own, own, len, hd)
      BY <1>g DEF KeepsFree, space, MoveKeepsAll, SpaceOK
    <2>2. job[p].at # "flush"
      BY <1>m
    <2> QED BY <1>g, <2>1, <2>2, SpaceStep
  <1>9. ASSUME NEW m \in Loc, m \notin Held(o) PROVE m \notin Held(j) /\ m # l
    <2>1. \A i \in 1..Len(j.tgt) : o.tgt[i].loc = j.tgt[i].loc
      BY <1>o, <1>r
    <2>2. Held(o) = Held(j)
      BY <1>o, <1>m, <2>1 DEF Held, Working
    <2>3. l \in Held(j)
      BY <1>m, <1>r DEF Held, Working
    <2> QED BY <1>9, <2>2, <2>3
  <1>10. ResizeBlocks(p, g, h, o, own, hd, nx, ct2)
    <2>1. ASSUME NEW m \in Loc, NEW x \in {g, h}, x \in 1..modulus', InGroup(own, m, x), m \notin Held(o)
          PROVE  BlockAt(m)' = GroupBlock(ct2[m], NextOf(hd, nx, m))
      <3>1. BlockAt(m) = GroupBlock(ct[m], NextOf(hd, nx, m))
        BY <1>9, <1>m, <2>1 DEF MoveKeepsAll
      <3>2. m \in Spot /\ m # y
        BY <1>1, <2>1 DEF Spot
      <3>3. ct2[m] = ct[m]
        BY <1>3, <1>9, <2>1, <3>2
      <3> QED BY <3>1, <3>3 DEF BlockAt, blocks
    <2>2. ASSUME NEW b \in Block, own[b] = Free PROVE overflow'[b].next = nx[b]
      BY <2>2, DiskFacts DEF DiskIs, blocks
    <2>3. ASSUME NEW b \in Block, own[b] = SourceChain(p)
          PROVE  overflow'[b] = GroupBlock(ct2[<<"o", b>>], nx[b])
      <3>1. <<"o", b>> # l
        BY <1>r, <2>3, Kinds DEF InGroup
      <3>2. <<"o", b>> \in Spot /\ <<"o", b>> # y
        BY <1>1 DEF Spot, Loc
      <3>3. ct2[<<"o", b>>] = ct[<<"o", b>>]
        BY <1>3, <3>1, <3>2
      <3>4. overflow[b] = GroupBlock(ct[<<"o", b>>], nx[b])
        BY <2>3, DiskFacts DEF DiskIs
      <3> QED BY <3>3, <3>4 DEF blocks
    <2> QED BY <2>1, <2>2, <2>3 DEF ResizeBlocks
  <1>11. MoveOK(jb2, p, own, len, hd, nx, ct2, base)'
    <2>1. SourceIs(p, o, len, hd, ct2)
      <3>1. o.buff = GroupBlock(ct2[BufferOf(p)], hd[SourceChain(p)])
        BY <1>1, <1>3, <1>m, <1>o DEF GroupBlock
      <3> QED BY <1>m, <1>o, <3>1 DEF SourceIs
    <2>2. ASSUME NEW i \in 1..Len(o.tgt)
          PROVE  /\ InGroup(own, o.tgt[i].loc, GoalAt(g, h, i))
                 /\ o.tgt[i].buff = GroupBlock(ct2[o.tgt[i].loc], 0)
                 /\ NextOf(hd, nx, o.tgt[i].loc) = 0
      <3>1. CASE i = t
        <4>1. NextOf(hd, nx, l) = 0 /\ InGroup(own, l, GoalAt(g, h, i))
          BY <1>m, <1>r, <3>1
        <4>2. o.tgt[i].loc = l /\ o.tgt[i].buff = GroupBlock(ct2[l], 0)
          BY <1>3, <1>o, <3>1
        <4> QED BY <4>1, <4>2
      <3>2. CASE i # t
        <4>1. o.tgt[i] = j.tgt[i] /\ j.tgt[i].loc # l /\ j.tgt[i].loc \in Loc
          BY <1>m, <1>o, <1>r, <3>2
        <4>2. ct2[j.tgt[i].loc] = ct[j.tgt[i].loc]
          BY <1>1, <1>3, <4>1 DEF Spot
        <4> QED BY <1>m, <1>o, <4>1, <4>2
      <3> QED BY <3>1, <3>2
    <2>3. TargetsAre(o, g, h, own, hd, nx, ct2)
      BY <2>2 DEF TargetsAre
    <2>4. LikeMove(j, o) /\ modulus' = modulus
      BY <1>o DEF LikeMove, MoveKeepsAll
    <2> QED BY <1>g, <2>1, <2>3, <2>4, MoveGoesOn
  <1>12. Good(jb2, own, len, hd, nx, ct2, spot2, rec, base)'
    BY <1>3, <1>5, <1>6, <1>7, <1>8, <1>10, <1>11, <1>g, MoveFrame
  <1> QED BY <1>12 DEF GoodAfter

\* A block is added to a group: the places that the groups have then.
AddedAt(own, hd, nx, own2, hd2, nx2, x, l, b) ==
  /\ <<"o", b>> # l /\ <<"o", b>> \in Loc
  /\ InGroup(own2, <<"o", b>>, x) /\ NextOf(hd2, nx2, <<"o", b>>) = 0 /\ NextOf(hd2, nx2, l) = b
  /\ \A q \in Loc : \A z \in Group : InGroup(own2, q, z) /\ q # <<"o", b>> => InGroup(own, q, z)
  /\ \A q \in Loc : \A z \in Group : InGroup(own, q, z) =>
       q # <<"o", b>> /\ InGroup(own2, q, z) /\ (q # l => NextOf(hd2, nx2, q) = NextOf(hd, nx, q))
LEMMA AddedPlaces ==
  ASSUME NEW own, NEW len, NEW hd, NEW nx, NEW own2, NEW len2, NEW hd2, NEW nx2,
         NEW x \in Group, NEW l \in Loc, InGroup(own, l, x), NEW b \in Block, own[b] \in {Free, NoOne},
         Added(own, len, hd, nx, own2, len2, hd2, nx2, x, l, b)
  PROVE  AddedAt(own, hd, nx, own2, hd2, nx2, x, l, b)
  <1>1. /\ \A c \in Block : own2[c] = IF c = b THEN GroupChain(x) ELSE own[c]
        /\ \A c \in Block : nx2[c] = IF c = b THEN 0 ELSE IF l = <<"o", c>> THEN b ELSE nx[c]
        /\ hd2[GroupChain(x)] = IF l[1] = "p" THEN b ELSE hd[GroupChain(x)]
        /\ \A w \in Owner : w # Free /\ w # GroupChain(x) => len2[w] = len[w] /\ hd2[w] = hd[w]
    BY DEF Added
  <1>2. \A z : own[b] # GroupChain(z)
    BY Kinds
  <1>3. <<"o", b>> # l
    BY <1>2 DEF InGroup
  <1>4. <<"o", b>> \in Loc /\ InGroup(own2, <<"o", b>>, x) /\ NextOf(hd2, nx2, <<"o", b>>) = 0
    BY <1>1 DEF Loc, InGroup, NextOf
  <1>5. NextOf(hd2, nx2, l) = b
    <2>1. CASE l = <<"p", x>>
      BY <1>1, <2>1 DEF NextOf
    <2>2. CASE l # <<"p", x>>
      <3>1. PICK c \in Block : l = <<"o", c>>
        BY <2>2 DEF InGroup
      <3>2. c # b
        BY <1>3, <3>1
      <3>3. nx2[c] = b
        BY <1>1, <3>1, <3>2
      <3> QED BY <3>1, <3>3 DEF NextOf
    <2> QED BY <2>1, <2>2
  <1>6. ASSUME NEW q \in Loc, NEW z \in Group, InGroup(own2, q, z), q # <<"o", b>>
        PROVE  InGroup(own, q, z)
    BY <1>1, <1>6 DEF InGroup
  <1>7. ASSUME NEW q \in Loc, NEW z \in Group, InGroup(own, q, z)
        PROVE  q # <<"o", b>> /\ InGroup(own2, q, z) /\ (q # l => NextOf(hd2, nx2, q) = NextOf(hd, nx, q))
    <2>1. CASE q = <<"p", z>>
      <3>1. q # <<"o", b>> /\ InGroup(own2, q, z)
        BY <2>1 DEF InGroup
      <3>2. CASE z = x
        <4>1. q # l => l[1] # "p"
          BY <2>1, <3>2 DEF InGroup
        <4> QED BY <1>1, <2>1, <3>1, <3>2, <4>1 DEF NextOf
      <3>3. CASE z # x
        <4>1. GroupChain(z) # GroupChain(x)
          BY <3>3 DEF GroupChain
        <4>2. GroupChain(z) \in Owner /\ GroupChain(z) # Free
          BY AllOwners, Kinds
        <4>3. hd2[GroupChain(z)] = hd[GroupChain(z)]
          BY <1>1, <4>1, <4>2
        <4> QED BY <2>1, <3>1, <4>3 DEF NextOf
      <3> QED BY <3>2, <3>3
    <2>2. CASE q # <<"p", z>>
      <3>1. PICK c \in Block : q = <<"o", c>> /\ own[c] = GroupChain(z)
        BY <1>7, <2>2 DEF InGroup
      <3>2. c # b
        BY <1>2, <3>1
      <3>3. own2[c] = own[c] /\ (q # l => nx2[c] = nx[c])
        BY <1>1, <3>1, <3>2
      <3> QED BY <3>1, <3>2, <3>3 DEF InGroup, NextOf
    <2> QED BY <2>1, <2>2
  <1> QED BY <1>3, <1>4, <1>5, <1>6, <1>7 DEF AddedAt

\* The group that gets a block is one of those of the file: no other has blocks.
LEMMA AddedSpace ==
  ASSUME NEW own, NEW len, NEW hd, NEW nx, NEW ct, NEW spot, NEW rec, NEW base,
         Good(job, own, len, hd, nx, ct, spot, rec, base),
         NEW own2, NEW len2, NEW hd2, NEW nx2, NEW jb2, NEW x \in 1..modulus, NEW l, NEW b \in Block,
         Added(own, len, hd, nx, own2, len2, hd2, nx2, x, l, b), GetOverflow(b), modulus' = modulus
  PROVE  SpaceOK(jb2, own2, len2, hd2)'
  <1>g. /\ Chained(own, len, hd, nx) /\ SpaceOK(job, own, len, hd) /\ len[Spare] = 0
        /\ modulus \in Nat /\ MaxMod \in Nat
    BY GoodFacts DEF SpaceOK, ParamsOK
  <1>1. /\ Chained(own2, len2, hd2, nx2)
        /\ \A c \in Block : own2[c] = IF c = b THEN GroupChain(x) ELSE own[c]
        /\ hd2[Free] = IF hd[Free] # 0 THEN nx[b] ELSE 0
        /\ \A w \in Owner : w # Free /\ w # GroupChain(x) => len2[w] = len[w] /\ hd2[w] = hd[w]
    BY DEF Added
  <1>2. TakesFree(own, hd, nx, own2, len2, hd2, b)
    <2>1. \A c \in Block : own2[c] = NoOne <=> own[c] = NoOne /\ c # b
      <3>1. GroupChain(x) # NoOne
        BY Kinds
      <3> QED BY <1>1, <3>1
    <2>2. len2[Spare] = 0
      <3>1. Spare \in Owner /\ Spare # Free /\ Spare # GroupChain(x)
        BY AllOwners, Kinds
      <3> QED BY <1>1, <1>g, <3>1
    <2>3. ASSUME NEW z \in Group, z > modulus PROVE len2[GroupChain(z)] = 0
      <3>1. z # x
        BY <1>g, <2>3 DEF Group
      <3>2. GroupChain(z) # GroupChain(x)
        BY <3>1 DEF GroupChain
      <3>3. GroupChain(z) # Free /\ GroupChain(z) \in Owner
        BY AllOwners, Kinds
      <3>4. len[GroupChain(z)] = 0
        BY <1>g, <2>3 DEF SpaceOK
      <3> QED BY <1>1, <3>2, <3>3, <3>4
    <2> QED BY <1>1, <2>1, <2>2, <2>3 DEF TakesFree
  <1>3. DiskIs(own, nx, ct)
    BY DiskFacts
  <1> QED BY ONLY b \in Block, GetOverflow(b), <1>1, <1>2, <1>3, <1>g, SpaceTake

\* A record that goes into a new block of its target.
LEMMA MoveBeyond ==
  ASSUME NEW own, NEW len, NEW hd, NEW nx, NEW ct, NEW spot, NEW rec, NEW base,
         NEW p \in Proc, NEW j \in MoveJob, NEW g \in Group, NEW h \in Group,
         Good(job, own, len, hd, nx, ct, spot, rec, base),
         AtMove(p, j, g, h, own, len, hd, nx, ct, spot, base),
         NEW t, NEW l, NEW r, NextRecord(p, j, g, h, t, l, r, own, ct, spot, hd, nx),
         NEW b \in Block, GetOverflow(b), Write(l, GroupBlock(ct[l], b)),
         NEW c, c = [loc |-> <<"o", b>>, buff |-> GroupBlock(<<r>>, 0)],
         NEW o, Retargets(j, o, t, c), NEW jb2, Becomes(job, jb2, p, o), MoveKeepsAll
  PROVE  GoodAfter(jb2)
  <1>g. /\ Chained(own, len, hd, nx) /\ Placed(ct, spot, rec)
        /\ DOMAIN primary = Group /\ DOMAIN overflow = Block /\ SpaceOK(job, own, len, hd)
        /\ job \in [Proc -> Job] /\ len[Spare] = 0
    BY GoodFacts DEF SpaceOK
  <1>d. DiskIs(own, nx, ct)
    BY DiskFacts
  <1>r. /\ FirstIs(ct, BufferOf(p), r) /\ r \in Record /\ r.key \in Key /\ spot[r.key] = BufferOf(p)
        /\ t \in 1..Len(j.tgt) /\ Home(r.key) = GoalAt(g, h, t) /\ GoalAt(g, h, t) \in {g, h}
        /\ l = j.tgt[t].loc /\ l \in Loc /\ l \in Spot /\ l # BufferOf(p)
        /\ InGroup(own, l, GoalAt(g, h, t)) /\ NextIs(hd, nx, l, 0) /\ GoalAt(g, h, t) \in 1..modulus
        /\ \A i \in 1..Len(j.tgt) : i # t => j.tgt[i].loc # l /\ GoalAt(g, h, i) # GoalAt(g, h, t)
    BY DEF NextRecord
  <1>m. /\ j = job[p] /\ j.at = "move"
        /\ j.buff = GroupBlock(ct[BufferOf(p)], hd[SourceChain(p)])
        /\ IF j.src[1] = "o" THEN hd[SourceBlock(p)] = j.src[2] /\ len[SourceBlock(p)] = 1
           ELSE len[SourceBlock(p)] = 0
        /\ \A i \in 1..Len(j.tgt) :
           /\ j.tgt[i].loc \in Loc /\ InGroup(own, j.tgt[i].loc, GoalAt(g, h, i))
           /\ j.tgt[i].buff = GroupBlock(ct[j.tgt[i].loc], 0)
           /\ NextOf(hd, nx, j.tgt[i].loc) = 0
        /\ \A m \in Loc : \A x \in {g, h} : x \in 1..modulus /\ InGroup(own, m, x) /\ m \notin Held(j) =>
             BlockAt(m) = GroupBlock(ct[m], NextOf(hd, nx, m))
    BY DEF AtMove
  <1>o. /\ o \in MoveJob /\ o.at = "move" /\ o.op = j.op /\ o.new = j.new /\ o.src = j.src
        /\ o.buff = GroupBlock(Tail(j.buff.recs), j.buff.next) /\ Len(o.tgt) = Len(j.tgt)
        /\ o.tgt[t].loc = <<"o", b>> /\ o.tgt[t].buff = GroupBlock(<<r>>, 0)
        /\ \A i \in 1..Len(j.tgt) : i # t => o.tgt[i] = j.tgt[i]
    BY DEF Retargets
  <1>x. PICK x \in Group : x = GoalAt(g, h, t)
    BY <1>r
  <1>1. PICK y : y = BufferOf(p) /\ y \in Spot /\ y \notin Loc
    <2>1. BufferOf(p) \in Spot /\ BufferOf(p) \notin Loc
      BY DEF BufferOf, Spot, Loc
    <2> QED BY <2>1
  <1>2. PICK m : m = <<"o", b>> /\ m \in Loc /\ m \in Spot /\ m # y
    <2>1. <<"o", b>> \in Loc /\ <<"o", b>> \in Spot
      BY DEF Loc, Spot
    <2> QED BY <1>1, <2>1
  \* The chains.
  <1>3. FromFree(own, hd, b)
    BY <1>g, GetIs
  <1>4. own[b] \in {Free, NoOne} /\ \E own2, len2, hd2, nx2 : Added(own, len, hd, nx, own2, len2, hd2, nx2, x, l, b)
    BY ONLY <1>g, <1>r, <1>x, <1>3, b \in Block, AddBlock
  <1>5. PICK own2, len2, hd2, nx2 : Added(own, len, hd, nx, own2, len2, hd2, nx2, x, l, b)
    BY <1>4
  <1>6. /\ Chained(own2, len2, hd2, nx2)
        /\ \A z \in Block : own2[z] = IF z = b THEN GroupChain(x) ELSE own[z]
        /\ \A z \in Block : nx2[z] = IF z = b THEN 0 ELSE IF l = <<"o", z>> THEN b ELSE nx[z]
        /\ \A w \in Owner : w # Free /\ w # GroupChain(x) => len2[w] = len[w] /\ hd2[w] = hd[w]
    BY <1>5 DEF Added
  <1>7. AddedAt(own, hd, nx, own2, hd2, nx2, x, l, b)
    BY ONLY <1>r, <1>x, <1>4, <1>5, b \in Block, AddedPlaces
  <1>8. /\ m # l /\ InGroup(own2, m, x) /\ NextOf(hd2, nx2, m) = 0 /\ NextOf(hd2, nx2, l) = b
        /\ \A q \in Loc : \A z \in Group : InGroup(own2, q, z) /\ q # m => InGroup(own, q, z)
        /\ \A q \in Loc : \A z \in Group : InGroup(own, q, z) =>
             q # m /\ InGroup(own2, q, z) /\ (q # l => NextOf(hd2, nx2, q) = NextOf(hd, nx, q))
    BY <1>2, <1>7 DEF AddedAt
  <1>9. WroteAt(l, GroupBlock(ct[l], b))
    BY <1>r, <1>g, WriteIs
  \* The records.
  <1>10. ct[m] = <<>>
    <2>1. own[b][1] \notin {"group", "source"}
      BY <1>4, Kinds
    <2> QED BY <1>2, <2>1, NoRecords
  <1>11. PICK ct2, spot2 : MovedOne(ct, spot, rec, ct2, spot2, m, y, r)
    BY <1>1, <1>2, <1>r, <1>g, MoveRecord
  <1>12. /\ Placed(ct2, spot2, rec)
         /\ ct2[m] = Append(ct[m], r) /\ ct2[y] = Tail(ct[y])
         /\ \A q \in Spot : q # m /\ q # y => ct2[q] = ct[q]
         /\ spot2[r.key] = m
         /\ \A k \in Key : k # r.key => spot2[k] = spot[k]
    BY <1>11 DEF MovedOne
  <1>13. ct2[m] = <<r>>
    BY <1>10, <1>12
  <1>14. ASSUME NEW q \in Loc, q # m PROVE ct2[q] = ct[q]
    <2>1. q \in Spot /\ q # y
      BY <1>1, <1>14 DEF Spot
    <2> QED BY <1>12, <1>14, <2>1
  \* What MoveFrame asks for.
  <1>20. MovesOn(p, g, h, j, o)
    <2>1. ASSUME NEW z \in Group, z \notin {g, h} PROVE primary'[z] = primary[z]
      <3>1. l # <<"p", z>>
        BY <1>r, <2>1 DEF InGroup
      <3> QED BY <1>9, <3>1 DEF WroteAt
    <2> QED BY <1>9, <1>o, <2>1 DEF MovesOn, MoveKeepsAll, WroteAt
  <1>21. MoveChains(p, g, h, own, len, hd, nx, own2, len2, hd2, nx2)
    <2>1. MoveChain(p, g, h, GroupChain(x)) /\ MoveChain(p, g, h, Free) /\ MoveChain(p, g, h, NoOne)
      BY <1>r, <1>x DEF MoveChain
    <2>2. \A w \in Owner : ~MoveChain(p, g, h, w) => len2[w] = len[w] /\ hd2[w] = hd[w]
      BY <1>6, <2>1
    <2>3. ASSUME NEW z \in Block
          PROVE  IF MoveChain(p, g, h, own[z]) THEN MoveChain(p, g, h, own2[z])
                 ELSE own2[z] = own[z] /\ nx2[z] = nx[z] /\ overflow'[z] = overflow[z]
      <3>1. CASE MoveChain(p, g, h, own[z])
        BY <1>6, <2>1, <3>1
      <3>2. CASE ~MoveChain(p, g, h, own[z])
        <4>1. z # b /\ own[z] # GroupChain(x)
          BY <1>4, <2>1, <3>2
        <4>2. l # <<"o", z>>
          BY <1>r, <1>x, <4>1 DEF InGroup
        <4>3. overflow'[z] = overflow[z]
          BY <1>9, <4>2 DEF WroteAt
        <4> QED BY <1>6, <3>2, <4>1, <4>2, <4>3
      <3> QED BY <3>1, <3>2
    <2> QED BY <2>2, <2>3 DEF MoveChains
  <1>22. MoveReseats(p, g, h, own, ct, spot, own2, ct2, spot2)
    <2>1. MoveSpot(p, g, h, own, m) /\ MoveSpot(p, g, h, own, y)
      BY <1>1, <1>2, <1>4 DEF MoveSpot, MoveChain
    <2>2. \A q \in Spot : ct2[q] = ct[q] \/ MoveSpot(p, g, h, own, q)
      BY <1>12, <2>1
    <2>3. ASSUME NEW k \in Key, k # r.key
          PROVE  spot2[k] = spot[k] /\ \A z \in Block : spot[k] = <<"o", z>> => own2[z] = own[z]
      <3>1. spot2[k] = spot[k]
        BY <1>12, <2>3
      <3>2. ASSUME NEW z \in Block, spot[k] = <<"o", z>> PROVE own2[z] = own[z]
        <4>1. z # b
          <5>1. SUFFICES ASSUME spot[k] = m PROVE FALSE
            BY <1>2, <3>2
          <5>2. spot[k] # Nowhere
            BY <1>2, <1>g, <5>1, PlacedFacts
          <5>3. \E i \in 1..Len(ct[m]) : ct[m][i].key = k
            BY <1>g, <5>1, <5>2 DEF Placed
          <5> QED BY <1>10, <5>3
        <4> QED BY <1>6, <4>1
      <3> QED BY <3>1, <3>2
    <2>4. spot[r.key] = BufferOf(p) /\ InGroup(own2, spot2[r.key], Home(r.key))
      BY <1>8, <1>12, <1>r, <1>x
    <2> QED BY <2>2, <2>3, <2>4 DEF MoveReseats
  <1>23. SpaceOK(jb2, own2, len2, hd2)'
    BY <1>r, <1>x, <1>5, AddedSpace DEF MoveKeepsAll
  <1>24. ASSUME NEW q \in Loc, q \notin Held(o)
         PROVE  q # m /\ (q # l => q \notin Held(j))
    <2>1. m \in Held(o)
      BY <1>2, <1>o, <1>r DEF Held, Working
    <2>2. \A i \in 1..Len(j.tgt) : j.tgt[i].loc # l => o.tgt[i].loc = j.tgt[i].loc
      BY <1>o, <1>r
    <2>3. Held(o) = {o.tgt[i].loc : i \in 1..Len(o.tgt)} \cup (IF o.op = "merge" THEN {<<"p", o.new>>} ELSE {})
      BY <1>o DEF Held, Working
    <2>4. Held(j) = {j.tgt[i].loc : i \in 1..Len(j.tgt)} \cup (IF j.op = "merge" THEN {<<"p", j.new>>} ELSE {})
      BY <1>m DEF Held, Working
    <2> QED BY <1>24, <1>o, <2>1, <2>2, <2>3, <2>4
  <1>25. ResizeBlocks(p, g, h, o, own2, hd2, nx2, ct2)
    <2>1. ASSUME NEW q \in Loc, NEW z \in {g, h}, z \in 1..modulus', InGroup(own2, q, z), q \notin Held(o)
          PROVE  BlockAt(q)' = GroupBlock(ct2[q], NextOf(hd2, nx2, q))
      <3>1. q # m /\ (q # l => q \notin Held(j))
        BY <1>24, <2>1
      <3>2. InGroup(own, q, z) /\ ct2[q] = ct[q] /\ z \in 1..modulus
        BY <1>8, <1>14, <2>1, <3>1 DEF MoveKeepsAll
      <3>3. CASE q = l
        BY <1>8, <1>9, <3>2, <3>3 DEF WroteAt
      <3>4. CASE q # l
        <4>1. BlockAt(q) = GroupBlock(ct[q], NextOf(hd, nx, q))
          BY <1>m, <2>1, <3>1, <3>2, <3>4
        <4>2. NextOf(hd2, nx2, q) = NextOf(hd, nx, q)
          BY <1>8, <2>1, <3>2, <3>4
        <4>3. BlockAt(q)' = BlockAt(q)
          BY <1>9, <2>1, <3>4 DEF WroteAt
        <4> QED BY <3>2, <4>1, <4>2, <4>3
      <3> QED BY <3>3, <3>4
    <2>2. ASSUME NEW z \in Block, own2[z] \in {Free, SourceChain(p)}
          PROVE  /\ own[z] = own2[z] /\ nx2[z] = nx[z] /\ overflow'[z] = overflow[z] /\ z # b
      <3>1. own2[z] # GroupChain(x)
        BY <2>2, Kinds
      <3>2. z # b /\ own[z] = own2[z]
        BY <1>6, <3>1
      <3>3. l # <<"o", z>>
        BY <1>r, <1>x, <3>1, <3>2 DEF InGroup
      <3>4. overflow'[z] = overflow[z]
        BY <1>9, <3>3 DEF WroteAt
      <3> QED BY <1>6, <3>2, <3>3, <3>4
    <2>3. ASSUME NEW z \in Block, own2[z] = Free PROVE overflow'[z].next = nx2[z]
      BY <1>d, <2>2, <2>3 DEF DiskIs
    <2>4. ASSUME NEW z \in Block, own2[z] = SourceChain(p)
          PROVE  overflow'[z] = GroupBlock(ct2[<<"o", z>>], nx2[z])
      <3>1. /\ own[z] = SourceChain(p) /\ nx2[z] = nx[z] /\ overflow'[z] = overflow[z] /\ z # b
        BY <2>2, <2>4
      <3>2. overflow[z] = GroupBlock(ct[<<"o", z>>], nx[z])
        BY <1>d, <3>1 DEF DiskIs
      <3>3. <<"o", z>> \in Loc /\ <<"o", z>> # m
        BY <1>2, <3>1 DEF Loc
      <3>4. ct2[<<"o", z>>] = ct[<<"o", z>>]
        BY <1>14, <3>3
      <3> QED BY <3>1, <3>2, <3>4
    <2> QED BY <2>1, <2>3, <2>4 DEF ResizeBlocks
  <1>26. MoveOK(jb2, p, own2, len2, hd2, nx2, ct2, base)'
    <2>1. SourceIs(p, o, len2, hd2, ct2)
      <3>1. /\ SourceChain(p) \in Owner /\ SourceChain(p) # Free /\ SourceChain(p) # GroupChain(x)
            /\ SourceBlock(p) \in Owner /\ SourceBlock(p) # Free /\ SourceBlock(p) # GroupChain(x)
        BY AllOwners, Kinds
      <3>2. hd2[SourceChain(p)] = hd[SourceChain(p)]
            /\ hd2[SourceBlock(p)] = hd[SourceBlock(p)] /\ len2[SourceBlock(p)] = len[SourceBlock(p)]
        BY <1>6, <3>1
      <3>3. o.buff = GroupBlock(ct2[BufferOf(p)], hd2[SourceChain(p)])
        BY <1>1, <1>12, <1>m, <1>o, <3>2 DEF GroupBlock
      <3> QED BY <1>m, <1>o, <3>2, <3>3 DEF SourceIs
    <2>2. ASSUME NEW i \in 1..Len(o.tgt)
          PROVE  /\ InGroup(own2, o.tgt[i].loc, GoalAt(g, h, i))
                 /\ o.tgt[i].buff = GroupBlock(ct2[o.tgt[i].loc], 0)
                 /\ NextOf(hd2, nx2, o.tgt[i].loc) = 0
      <3>1. CASE i = t
        BY <1>2, <1>8, <1>13, <1>o, <1>x, <3>1
      <3>2. CASE i # t
        <4>1. o.tgt[i] = j.tgt[i] /\ j.tgt[i].loc # l /\ j.tgt[i].loc \in Loc
          BY <1>m, <1>o, <1>r, <3>2
        <4>2. GoalAt(g, h, i) \in Group /\ InGroup(own, j.tgt[i].loc, GoalAt(g, h, i))
          BY <1>m, <1>o DEF GoalAt
        <4>3. /\ j.tgt[i].loc # m /\ InGroup(own2, j.tgt[i].loc, GoalAt(g, h, i))
              /\ NextOf(hd2, nx2, j.tgt[i].loc) = NextOf(hd, nx, j.tgt[i].loc)
          BY <1>8, <4>1, <4>2
        <4>4. ct2[j.tgt[i].loc] = ct[j.tgt[i].loc]
          BY <1>14, <4>1, <4>3
        <4> QED BY <1>m, <1>o, <4>1, <4>3, <4>4
      <3> QED BY <3>1, <3>2
    <2>3. TargetsAre(o, g, h, own2, hd2, nx2, ct2)
      BY <2>2 DEF TargetsAre
    <2>4. LikeMove(j, o) /\ modulus' = modulus
      BY <1>o DEF LikeMove, MoveKeepsAll
    <2> QED BY <1>g, <2>1, <2>3, <2>4, MoveGoesOn
  <1>27. Good(jb2, own2, len2, hd2, nx2, ct2, spot2, rec, base)'
    BY <1>6, <1>12, <1>20, <1>21, <1>22, <1>23, <1>25, <1>26, MoveFrame
  <1> QED BY <1>27 DEF GoodAfter

LEMMA MoveStep ==
  ASSUME IInv, NEW p \in Proc, Move(p)
  PROVE  IInv'
  <1>1. PICK own, len, hd, nx, ct, spot, rec, base : Good(job, own, len, hd, nx, ct, spot, rec, base)
    BY DEF IInv
  <1>2. PICK jb2 : jb2 = job'
    OBVIOUS
  <1>3. job[p].at = "move" /\ job[p].buff.recs # <<>> /\ MoveKeepsAll
    BY DEF Move, At, MoveKeepsAll
  <1>4. PICK j \in MoveJob, g \in Group, h \in Group : AtMove(p, j, g, h, own, len, hd, nx, ct, spot, base)
    BY <1>1, <1>3, MoveFacts
  <1>5. j = job[p] /\ job \in [Proc -> Job]
    BY <1>1, <1>4, GoodFacts DEF AtMove
  <1>6. PICK t, l, r : NextRecord(p, j, g, h, t, l, r, own, ct, spot, hd, nx)
    BY ONLY p \in Proc, <1>1, <1>3, <1>4, <1>5, NextIsRecord
  <1>7. /\ r = Head(j.buff.recs) /\ t = TargetOf(p, r) /\ t \in 1..Len(j.tgt)
        /\ l = j.tgt[t].loc /\ l \in Loc /\ j.tgt[t].buff = GroupBlock(ct[l], 0)
        /\ r \in Record /\ l \in Spot
    BY <1>6 DEF NextRecord
  <1>8. ct[l] \in Seq(Record)
    BY <1>1, <1>7, GoodFacts, PlacedFacts
  <1>9. ASSUME NEW c \in [loc : Loc, buff : BlockType],
               Do(p, [job[p] EXCEPT !.buff.recs = Tail(@), !.tgt[t] = c])
        PROVE  \E o : Retargets(j, o, t, c) /\ Becomes(job, jb2, p, o)
    <2>1. PICK o : MovesTo(j, o, t, c)
      <3>1. MovesTo(j, [j EXCEPT !.buff.recs = Tail(@), !.tgt[t] = c], t, c)
        BY DEF MovesTo
      <3> QED BY <3>1
    <2>2. Retargets(j, o, t, c)
      <3>1. j.buff.recs # <<>>
        BY <1>3, <1>5
      <3> QED BY ONLY j \in MoveJob, <3>1, <1>7, <2>1, c \in [loc : Loc, buff : BlockType], RetargetIs
    <2>3. o = [job[p] EXCEPT !.buff.recs = Tail(@), !.tgt[t] = c]
      BY <2>1, <1>5 DEF MovesTo
    <2>4. jb2 = [job EXCEPT ![p] = o]
      BY <1>2, <1>9, <2>3 DEF Do
    <2>5. o \in Job
      BY <2>2 DEF Retargets, Job
    <2> QED BY <1>5, <2>2, <2>4, <2>5 DEF Becomes
  <1>10. \/ /\ Do(p, [job[p] EXCEPT !.buff.recs = Tail(@),
                       !.tgt[t] = [loc |-> l, buff |-> [j.tgt[t].buff EXCEPT !.recs = Append(@, r)]]])
            /\ UNCHANGED <<blocks, space>>
         \/ \E b \in Block :
              /\ GetOverflow(b) /\ Write(l, [j.tgt[t].buff EXCEPT !.next = b])
              /\ Do(p, [job[p] EXCEPT !.buff.recs = Tail(@),
                          !.tgt[t] = [loc |-> <<"o", b>>, buff |-> GroupBlock(<<r>>, 0)]])
    BY <1>5, <1>7 DEF Move
  <1>11. CASE /\ Do(p, [job[p] EXCEPT !.buff.recs = Tail(@),
                         !.tgt[t] = [loc |-> l, buff |-> [j.tgt[t].buff EXCEPT !.recs = Append(@, r)]]])
              /\ UNCHANGED <<blocks, space>>
    <2>1. PICK c : c = [loc |-> l, buff |-> GroupBlock(Append(ct[l], r), 0)]
      OBVIOUS
    <2>2. c = [loc |-> l, buff |-> [j.tgt[t].buff EXCEPT !.recs = Append(@, r)]]
      <3>1. PICK e : e = j.tgt[t].buff
        OBVIOUS
      <3>2. e = [recs |-> ct[l], next |-> 0]
        BY <1>7, <3>1 DEF GroupBlock
      <3>3. [e EXCEPT !.recs = Append(@, r)] = GroupBlock(Append(ct[l], r), 0)
        BY <3>2 DEF GroupBlock
      <3> QED BY <2>1, <3>1, <3>3
    <2>3. c \in [loc : Loc, buff : BlockType]
      <3>1. Append(ct[l], r) \in Seq(Record)
        BY <1>7, <1>8
      <3>2. GroupBlock(Append(ct[l], r), 0) \in BlockType
        BY <3>1 DEF GroupBlock, BlockType
      <3> QED BY <1>7, <2>1, <3>2
    <2>4. PICK o : Retargets(j, o, t, c) /\ Becomes(job, jb2, p, o)
      BY <1>9, <1>11, <2>2, <2>3
    <2>5. GoodAfter(jb2)
      BY ONLY p \in Proc, j \in MoveJob, g \in Group, h \in Group, <1>1, <1>3, <1>4, <1>6, <1>11, <2>1, <2>4, MoveHere
    <2> QED BY <1>2, <2>5, AfterIs
  <1>12. ASSUME NEW b \in Block,
                GetOverflow(b), Write(l, [j.tgt[t].buff EXCEPT !.next = b]),
                Do(p, [job[p] EXCEPT !.buff.recs = Tail(@),
                         !.tgt[t] = [loc |-> <<"o", b>>, buff |-> GroupBlock(<<r>>, 0)]])
         PROVE  IInv'
    <2>1. PICK c : c = [loc |-> <<"o", b>>, buff |-> GroupBlock(<<r>>, 0)]
      OBVIOUS
    <2>2. Write(l, GroupBlock(ct[l], b))
      <3>1. [j.tgt[t].buff EXCEPT !.next = b] = GroupBlock(ct[l], b)
        BY <1>7 DEF GroupBlock
      <3> QED BY <1>12, <3>1
    <2>3. c \in [loc : Loc, buff : BlockType]
      BY <1>7, <2>1 DEF GroupBlock, BlockType, Loc
    <2>4. PICK o : Retargets(j, o, t, c) /\ Becomes(job, jb2, p, o)
      BY <1>9, <1>12, <2>1, <2>3
    <2>5. GoodAfter(jb2)
      BY ONLY p \in Proc, j \in MoveJob, g \in Group, h \in Group, b \in Block,
              <1>1, <1>3, <1>4, <1>6, <1>12, <2>1, <2>2, <2>4, MoveBeyond
    <2> QED BY <1>2, <2>5, AfterIs
  <1> QED BY <1>10, <1>11, <1>12

\* The block of the source that was read last goes to the free chain, and the
\* next one becomes the one that is read.
SourceStep(p, own, len, hd, nx, own2, len2, hd2, nx2) ==
  /\ Chained(own2, len2, hd2, nx2)
  /\ \A b \in Block :
       \/ own2[b] = own[b] /\ nx2[b] = nx[b] /\ overflow'[b] = overflow[b]
       \/ own[b] = SourceBlock(p) /\ own2[b] = Free /\ overflow'[b].next = nx2[b]
       \/ own[b] = SourceChain(p) /\ own2[b] = SourceBlock(p)
  /\ \A w \in Owner : w \notin {Free, SourceBlock(p), SourceChain(p)} => len2[w] = len[w] /\ hd2[w] = hd[w]
  /\ freeChain' = hd2[Free] /\ primary' = primary /\ DOMAIN overflow' = Block
  /\ extent' = extent /\ flushed' = flushed
\* The records of that block go to the buffer.
SourceRead(p, own, ct, spot, own2, ct2, spot2) ==
  /\ \A m \in Spot : \/ ct2[m] = ct[m] \/ m = BufferOf(p)
                     \/ \E b \in Block : m = <<"o", b>> /\ own[b] = SourceChain(p) /\ own2[b] # own[b]
  /\ \A k \in Key :
       \/ /\ spot2[k] = spot[k]
          /\ \A b \in Block : spot[k] = <<"o", b>> /\ own[b] = SourceChain(p) => own2[b] = own[b]
       \/ spot2[k] = BufferOf(p) /\ \E b \in Block : spot[k] = <<"o", b>> /\ own[b] = SourceChain(p)

LEMMA HasRecords ==
  ASSUME NEW own, NEW len, NEW hd, NEW nx, NEW ct, NEW spot, NEW rec, NEW base,
         Good(job, own, len, hd, nx, ct, spot, rec, base), NEW k \in Key, NEW b \in Block,
         IsAt(spot, [key |-> k], <<"o", b>>)
  PROVE  own[b][1] \in {"group", "source"}
  <1>1. Placed(ct, spot, rec) /\ spot[k] = <<"o", b>> /\ <<"o", b>> # Nowhere
    BY GoodFacts DEF IsAt, Nowhere
  <1>2. \E i \in 1..Len(ct[spot[k]]) : ct[spot[k]][i].key = k
    BY <1>1 DEF Placed
  <1>3. ct[<<"o", b>>] # <<>>
    BY <1>1, <1>2
  <1> QED BY <1>3, NoRecords

LEMMA SourceFrame ==
  ASSUME NEW own, NEW len, NEW hd, NEW nx, NEW ct, NEW spot, NEW rec, NEW base,
         NEW own2, NEW len2, NEW hd2, NEW nx2, NEW ct2, NEW spot2,
         NEW p \in Proc, NEW j \in MoveJob, NEW g \in Group, NEW h \in Group,
         Good(job, own, len, hd, nx, ct, spot, rec, base),
         AtMove(p, j, g, h, own, len, hd, nx, ct, spot, base),
         SourceStep(p, own, len, hd, nx, own2, len2, hd2, nx2),
         SourceRead(p, own, ct, spot, own2, ct2, spot2), Placed(ct2, spot2, rec),
         NEW o, LikeMove(j, o), o.tgt = j.tgt, SourceIs(p, o, len2, hd2, ct2),
         NEW jb2, Becomes(job, jb2, p, o), MoveKeepsAll
  PROVE  GoodAfter(jb2)
  <1>g. /\ Chained(own, len, hd, nx) /\ Placed(ct, spot, rec)
        /\ DOMAIN primary = Group /\ DOMAIN overflow = Block /\ SpaceOK(job, own, len, hd)
        /\ job \in [Proc -> Job] /\ len[Spare] = 0 /\ DiskIs(own, nx, ct)
    BY GoodFacts, DiskFacts DEF SpaceOK
  <1>m. /\ j = job[p] /\ j.at = "move"
        /\ \A i \in 1..Len(j.tgt) :
           /\ j.tgt[i].loc \in Loc /\ InGroup(own, j.tgt[i].loc, GoalAt(g, h, i))
           /\ j.tgt[i].buff = GroupBlock(ct[j.tgt[i].loc], 0)
           /\ NextOf(hd, nx, j.tgt[i].loc) = 0
        /\ \A m \in Loc : \A x \in {g, h} : x \in 1..modulus /\ InGroup(own, m, x) /\ m \notin Held(j) =>
             BlockAt(m) = GroupBlock(ct[m], NextOf(hd, nx, m))
    BY DEF AtMove
  <1>s. /\ Chained(own2, len2, hd2, nx2)
        /\ \A w \in Owner : w \notin {Free, SourceBlock(p), SourceChain(p)} => len2[w] = len[w] /\ hd2[w] = hd[w]
        /\ freeChain' = hd2[Free] /\ primary' = primary /\ DOMAIN overflow' = Block
        /\ extent' = extent /\ flushed' = flushed
    BY DEF SourceStep
  <1>1. ASSUME NEW b \in Block
        PROVE  \/ own2[b] = own[b] /\ nx2[b] = nx[b] /\ overflow'[b] = overflow[b]
               \/ own[b] = SourceBlock(p) /\ own2[b] = Free /\ overflow'[b].next = nx2[b]
               \/ own[b] = SourceChain(p) /\ own2[b] = SourceBlock(p)
    BY DEF SourceStep
  <1>2. ASSUME NEW k \in Key
        PROVE  \/ /\ spot2[k] = spot[k]
                  /\ \A b \in Block : spot[k] = <<"o", b>> /\ own[b] = SourceChain(p) => own2[b] = own[b]
               \/ spot2[k] = BufferOf(p) /\ \E b \in Block : spot[k] = <<"o", b>> /\ own[b] = SourceChain(p)
    BY DEF SourceRead
  \* The groups are as they were.
  <1>3. ASSUME NEW b \in Block, NEW z \in Group, own[b] = GroupChain(z) \/ own2[b] = GroupChain(z)
        PROVE  own2[b] = own[b] /\ nx2[b] = nx[b] /\ overflow'[b] = overflow[b]
    BY <1>1, <1>3, Kinds
  <1>4. ASSUME NEW z \in Group PROVE hd2[GroupChain(z)] = hd[GroupChain(z)] /\ len2[GroupChain(z)] = len[GroupChain(z)]
    <2>1. GroupChain(z) \in Owner /\ GroupChain(z) # Free /\ GroupChain(z) # SourceBlock(p) /\ GroupChain(z) # SourceChain(p)
      BY AllOwners, Kinds
    <2> QED BY <1>s, <2>1
  <1>5. ASSUME NEW q \in Loc, NEW z \in Group
        PROVE  /\ InGroup(own2, q, z) <=> InGroup(own, q, z)
               /\ InGroup(own, q, z) => /\ NextOf(hd2, nx2, q) = NextOf(hd, nx, q)
                                        /\ BlockAt(q)' = BlockAt(q) /\ ct2[q] = ct[q]
    <2>1. InGroup(own2, q, z) <=> InGroup(own, q, z)
      BY <1>3 DEF InGroup
    <2>2. ASSUME InGroup(own, q, z)
          PROVE  /\ NextOf(hd2, nx2, q) = NextOf(hd, nx, q)
                 /\ BlockAt(q)' = BlockAt(q) /\ ct2[q] = ct[q]
      <3>1. CASE q = <<"p", z>>
        <4>1. ct2[q] = ct[q]
          BY <3>1 DEF SourceRead, Spot, BufferOf
        <4> QED BY <1>4, <1>s, <3>1, <4>1 DEF NextOf, BlockAt
      <3>2. CASE q # <<"p", z>>
        <4>1. PICK b \in Block : q = <<"o", b>> /\ own[b] = GroupChain(z)
          BY <2>2, <3>2 DEF InGroup
        <4>2. own2[b] = own[b] /\ nx2[b] = nx[b] /\ overflow'[b] = overflow[b]
          BY <1>3, <4>1
        <4>3. q \in Spot /\ q # BufferOf(p) /\ \A c \in Block : q = <<"o", c>> => own2[c] = own[c]
          BY <4>1, <4>2 DEF Spot, BufferOf
        <4>4. ct2[q] = ct[q]
          BY <4>3 DEF SourceRead
        <4> QED BY <4>1, <4>2, <4>4 DEF NextOf, BlockAt
      <3> QED BY <3>1, <3>2
    <2> QED BY <2>1, <2>2
  \* What MoveFrame asks for.
  <1>6. MovesOn(p, g, h, j, o)
    BY <1>s, <1>g DEF MovesOn, MoveKeepsAll, LikeMove
  <1>7. MoveChains(p, g, h, own, len, hd, nx, own2, len2, hd2, nx2)
    <2>1. \A w \in Owner : ~MoveChain(p, g, h, w) => len2[w] = len[w] /\ hd2[w] = hd[w]
      BY <1>s DEF MoveChain
    <2>2. ASSUME NEW b \in Block
          PROVE  IF MoveChain(p, g, h, own[b]) THEN MoveChain(p, g, h, own2[b])
                 ELSE own2[b] = own[b] /\ nx2[b] = nx[b] /\ overflow'[b] = overflow[b]
      BY <1>1 DEF MoveChain
    <2> QED BY <2>1, <2>2 DEF MoveChains
  <1>8. MoveReseats(p, g, h, own, ct, spot, own2, ct2, spot2)
    <2>1. \A m \in Spot : ct2[m] = ct[m] \/ MoveSpot(p, g, h, own, m)
      BY DEF SourceRead, MoveSpot, MoveChain
    <2>2. ASSUME NEW k \in Key, NEW b \in Block, spot[k] = <<"o", b>>, own[b] # SourceChain(p) PROVE own2[b] = own[b]
      <3>1. IsAt(spot, [key |-> k], <<"o", b>>)
        BY <2>2 DEF IsAt
      <3>2. own[b] # SourceBlock(p)
        BY <3>1, HasRecords, Kinds
      <3> QED BY <1>1, <2>2, <3>2
    <2>3. ASSUME NEW k \in Key
          PROVE  \/ spot2[k] = spot[k] /\ \A b \in Block : spot[k] = <<"o", b>> => own2[b] = own[b]
                 \/ spot2[k] = BufferOf(p) /\ \E b \in Block : spot[k] = <<"o", b>> /\ own[b] = SourceChain(p)
      BY <1>2, <2>2
    <2> QED BY <2>1, <2>3 DEF MoveReseats
  <1>9. SpaceOK(jb2, own2, len2, hd2)'
    <2>1. KeepsFree(own, own2, len2, hd2)
      <3>1. \A b \in Block : own2[b] = NoOne <=> own[b] = NoOne
        BY <1>1, Kinds
      <3>2. \A b \in Block : own[b] = Free => own2[b] = Free
        BY <1>1, Kinds
      <3>3. len2[Spare] = 0
        <4>1. Spare \in Owner /\ Spare \notin {Free, SourceBlock(p), SourceChain(p)}
          BY AllOwners, Kinds
        <4> QED BY <1>g, <1>s, <4>1
      <3>4. \A z \in Group : z > modulus => len2[GroupChain(z)] = 0
        BY <1>4, <1>g DEF SpaceOK
      <3> QED BY <1>s, <3>1, <3>2, <3>3, <3>4 DEF KeepsFree, MoveKeepsAll
    <2>2. job[p].at # "flush"
      BY <1>m
    <2> QED BY <1>g, <2>1, <2>2, SpaceStep
  <1>10. Held(o) = Held(j)
    BY <1>m DEF Held, LikeMove, Working
  <1>11. ResizeBlocks(p, g, h, o, own2, hd2, nx2, ct2)
    <2>1. ASSUME NEW q \in Loc, NEW z \in {g, h}, z \in 1..modulus', InGroup(own2, q, z), q \notin Held(o)
          PROVE  BlockAt(q)' = GroupBlock(ct2[q], NextOf(hd2, nx2, q))
      <3>1. InGroup(own, q, z) /\ q \notin Held(j) /\ z \in 1..modulus
        BY <1>5, <1>10, <2>1 DEF MoveKeepsAll
      <3>2. BlockAt(q) = GroupBlock(ct[q], NextOf(hd, nx, q))
        BY <1>m, <2>1, <3>1
      <3> QED BY <1>5, <2>1, <3>1, <3>2
    <2>2. ASSUME NEW b \in Block, own2[b] = Free PROVE overflow'[b].next = nx2[b]
      BY <1>1, <1>g, <2>2, Kinds DEF DiskIs
    <2>3. ASSUME NEW b \in Block, own2[b] = SourceChain(p)
          PROVE  overflow'[b] = GroupBlock(ct2[<<"o", b>>], nx2[b])
      <3>1. own2[b] = own[b] /\ nx2[b] = nx[b] /\ overflow'[b] = overflow[b]
        BY <1>1, <2>3, Kinds
      <3>2. <<"o", b>> \in Spot /\ <<"o", b>> # BufferOf(p) /\ \A c \in Block : <<"o", b>> = <<"o", c>> => c = b
        BY DEF Spot, Loc, BufferOf
      <3>3. ct2[<<"o", b>>] = ct[<<"o", b>>]
        BY <3>1, <3>2 DEF SourceRead
      <3>4. overflow[b] = GroupBlock(ct[<<"o", b>>], nx[b])
        BY <1>g, <2>3, <3>1 DEF DiskIs
      <3> QED BY <3>1, <3>3, <3>4
    <2> QED BY <2>1, <2>2, <2>3 DEF ResizeBlocks
  <1>12. MoveOK(jb2, p, own2, len2, hd2, nx2, ct2, base)'
    <2>1. ASSUME NEW i \in 1..Len(o.tgt)
          PROVE  /\ InGroup(own2, o.tgt[i].loc, GoalAt(g, h, i))
                 /\ o.tgt[i].buff = GroupBlock(ct2[o.tgt[i].loc], 0)
                 /\ NextOf(hd2, nx2, o.tgt[i].loc) = 0
      <3>1. GoalAt(g, h, i) \in Group /\ i \in 1..Len(j.tgt) /\ o.tgt[i] = j.tgt[i]
        BY <2>1 DEF GoalAt
      <3> QED BY <1>5, <1>m, <3>1
    <2>2. TargetsAre(o, g, h, own2, hd2, nx2, ct2)
      BY <2>1 DEF TargetsAre
    <2>3. modulus' = modulus
      BY DEF MoveKeepsAll
    <2> QED BY <1>g, <2>2, <2>3, MoveGoesOn
  <1>13. Good(jb2, own2, len2, hd2, nx2, ct2, spot2, rec, base)'
    BY <1>s, <1>6, <1>7, <1>8, <1>9, <1>11, <1>12, MoveFrame
  <1> QED BY <1>13 DEF GoodAfter

\* The block that was read last is freed, if it is an overflow block.
SourceGone(p, own, len, hd, nx, own1, len1, hd1, nx1) ==
  /\ Chained(own1, len1, hd1, nx1)
  /\ \A b \in Block :
       \/ own1[b] = own[b] /\ nx1[b] = nx[b] /\ overflow'[b] = overflow[b]
       \/ own[b] = SourceBlock(p) /\ own1[b] = Free /\ overflow'[b].next = nx1[b]
  /\ len1[SourceBlock(p)] = 0 /\ hd1[SourceBlock(p)] = 0
  /\ \A w \in Owner : w \notin {Free, SourceBlock(p)} => len1[w] = len[w] /\ hd1[w] = hd[w]
  /\ freeChain' = hd1[Free] /\ primary' = primary /\ DOMAIN overflow' = Block
  /\ extent' = extent /\ flushed' = flushed
SourceFreed(j) ==
  \/ j.src[1] = "o" /\ FreeOverflow(j.src[2])
  \/ j.src[1] = "p" /\ UNCHANGED <<blocks, space>>
LEMMA SourceGoes ==
  ASSUME NEW own, NEW len, NEW hd, NEW nx, NEW ct, NEW spot, NEW rec, NEW base,
         NEW p \in Proc, NEW j \in MoveJob, NEW g \in Group, NEW h \in Group,
         Good(job, own, len, hd, nx, ct, spot, rec, base),
         AtMove(p, j, g, h, own, len, hd, nx, ct, spot, base), SourceFreed(j)
  PROVE  \E own1, len1, hd1, nx1 : SourceGone(p, own, len, hd, nx, own1, len1, hd1, nx1)
  <1>g. /\ Chained(own, len, hd, nx)
        /\ DOMAIN primary = Group /\ DOMAIN overflow = Block /\ freeChain = hd[Free]
    BY GoodFacts DEF SpaceOK
  <1>m. IF j.src[1] = "o" THEN hd[SourceBlock(p)] = j.src[2] /\ len[SourceBlock(p)] = 1
        ELSE len[SourceBlock(p)] = 0
    BY DEF AtMove
  <1>1. PICK A : A = SourceBlock(p) /\ A \in Owner /\ A # Free /\ A # NoOne
    <2>1. SourceBlock(p) \in Owner /\ SourceBlock(p) # Free /\ SourceBlock(p) # NoOne
      BY AllOwners, Kinds
    <2> QED BY <2>1
  <1>2. CASE j.src[1] = "p" /\ UNCHANGED <<blocks, space>>
    <2>1. len[A] = 0
      BY <1>1, <1>2, <1>m
    <2>2. hd[A] = 0
      BY <1>1, <1>g, <2>1, ChainFacts
    <2>3. SourceGone(p, own, len, hd, nx, own, len, hd, nx)
      BY <1>1, <1>2, <1>g, <2>1, <2>2 DEF SourceGone, blocks, space
    <2> QED BY <2>3
  <1>3. CASE j.src[1] = "o" /\ FreeOverflow(j.src[2])
    <2>1. PICK s : s = hd[A]
      OBVIOUS
    <2>2. s = j.src[2] /\ len[A] = 1
      BY <1>1, <1>3, <1>m, <2>1
    <2>3. hd[A] # 0
      BY <1>1, <1>g, <2>2, ChainFacts
    <2>4. Free \in Owner
      BY AllOwners
    <2>5. hd[A] \in Block /\ own[hd[A]] = A /\ \E own1, len1, hd1, nx1 :
              /\ Chained(own1, len1, hd1, nx1)
              /\ \A b \in Block : own1[b] = IF b = hd[A] THEN Free ELSE own[b]
              /\ \A b \in Block : nx1[b] = IF b = hd[A] THEN hd[Free] ELSE nx[b]
              /\ len1[A] = len[A] - 1 /\ len1[Free] = len[Free] + 1
              /\ hd1[A] = nx[hd[A]] /\ hd1[Free] = hd[A]
              /\ \A o \in Owner : o # A /\ o # Free => len1[o] = len[o] /\ hd1[o] = hd[o]
      BY ONLY <1>1, <1>g, <2>3, <2>4, PassFirst
    <2>6. PICK own1, len1, hd1, nx1 :
              /\ Chained(own1, len1, hd1, nx1)
              /\ \A b \in Block : own1[b] = IF b = hd[A] THEN Free ELSE own[b]
              /\ \A b \in Block : nx1[b] = IF b = hd[A] THEN hd[Free] ELSE nx[b]
              /\ len1[A] = len[A] - 1 /\ len1[Free] = len[Free] + 1
              /\ hd1[A] = nx[hd[A]] /\ hd1[Free] = hd[A]
              /\ \A o \in Owner : o # A /\ o # Free => len1[o] = len[o] /\ hd1[o] = hd[o]
      BY <2>5
    <2>7. s \in Block /\ own[s] = A
      BY <2>1, <2>5
    <2>8. len1[A] = 0 /\ hd1[A] = 0
      <3>1. len1[A] = 0
        BY <2>2, <2>6
      <3>2. Chained(own1, len1, hd1, nx1)
        BY <2>6
      <3>3. \A o \in Owner : hd1[o] = 0 <=> len1[o] = 0
        BY ONLY <3>2, ChainFacts
      <3> QED BY <1>1, <3>1, <3>3
    <2>9. WroteAt(<<"o", s>>, GroupBlock(<<>>, freeChain))
      <3>1. <<"o", s>> \in Loc
        BY <2>7 DEF Loc
      <3>2. Write(<<"o", s>>, GroupBlock(<<>>, freeChain))
        BY <1>3, <2>2 DEF FreeOverflow
      <3> QED BY <1>g, <3>1, <3>2, WriteIs
    <2>10. /\ overflow'[s] = GroupBlock(<<>>, freeChain) /\ DOMAIN overflow' = Block
           /\ \A b \in Block : b # s => overflow'[b] = overflow[b]
      BY <2>9 DEF WroteAt, BlockAt
    <2>11. primary' = primary /\ freeChain' = s /\ extent' = extent /\ flushed' = flushed
      BY <1>3, <2>2 DEF FreeOverflow, Write
    <2>12. ASSUME NEW b \in Block
           PROVE  \/ own1[b] = own[b] /\ nx1[b] = nx[b] /\ overflow'[b] = overflow[b]
                  \/ own[b] = A /\ own1[b] = Free /\ overflow'[b].next = nx1[b]
      <3>1. CASE b = s
        BY <1>g, <2>1, <2>6, <2>7, <2>10, <3>1 DEF GroupBlock
      <3>2. CASE b # s
        BY <2>1, <2>6, <2>10, <3>2
      <3> QED BY <3>1, <3>2
    <2>13. SourceGone(p, own, len, hd, nx, own1, len1, hd1, nx1)
      BY <1>1, <2>1, <2>6, <2>8, <2>10, <2>11, <2>12 DEF SourceGone
    <2> QED BY <2>13
  <1> QED BY <1>2, <1>3 DEF SourceFreed

LEMMA NextSourceStep ==
  ASSUME IInv, NEW p \in Proc, NextSource(p)
  PROVE  IInv'
  <1>1. PICK own, len, hd, nx, ct, spot, rec, base : Good(job, own, len, hd, nx, ct, spot, rec, base)
    BY DEF IInv
  <1>2. PICK jb2 : jb2 = job'
    OBVIOUS
  <1>g. /\ Chained(own, len, hd, nx) /\ Placed(ct, spot, rec) /\ job \in [Proc -> Job]
        /\ DiskIs(own, nx, ct)
    BY <1>1, GoodFacts, DiskFacts
  <1>3. job[p].at = "move" /\ job[p].buff.recs = <<>> /\ job[p].buff.next # 0 /\ MoveKeepsAll
    BY DEF NextSource, At, MoveKeepsAll
  <1>4. PICK j \in MoveJob, g \in Group, h \in Group : AtMove(p, j, g, h, own, len, hd, nx, ct, spot, base)
    BY <1>1, <1>3, MoveFacts
  <1>5. /\ j = job[p] /\ j.at = "move"
        /\ j.buff = GroupBlock(ct[BufferOf(p)], hd[SourceChain(p)])
    BY <1>4 DEF AtMove
  <1>6. PICK A, B, y : A = SourceChain(p) /\ B = SourceBlock(p) /\ y = BufferOf(p)
    OBVIOUS
  <1>7. /\ A \in Owner /\ B \in Owner /\ Free \in Owner /\ A # B /\ A # Free /\ B # Free
        /\ A # NoOne /\ B # NoOne
    BY <1>6, AllOwners, Kinds
  <1>8. PICK n : n = hd[A]
    OBVIOUS
  <1>9. n # 0 /\ n = job[p].buff.next /\ ct[y] = <<>>
    BY <1>3, <1>5, <1>6, <1>8 DEF GroupBlock
  <1>10. n \in Block /\ own[n] = A
    <2>1. \A w \in Owner : hd[w] # 0 => hd[w] \in Block /\ own[hd[w]] = w
      BY ONLY <1>g, ChainFacts
    <2> QED BY <1>7, <1>8, <1>9, <2>1
  <1>11. SourceFreed(j) /\ Do(p, [job[p] EXCEPT !.src = <<"o", n>>, !.buff = overflow[n]])
    BY <1>5, <1>9 DEF NextSource, SourceFreed
  <1>12. PICK own1, len1, hd1, nx1 : SourceGone(p, own, len, hd, nx, own1, len1, hd1, nx1)
    BY ONLY p \in Proc, j \in MoveJob, g \in Group, h \in Group, <1>1, <1>4, <1>11, SourceGoes
  <1>13. /\ Chained(own1, len1, hd1, nx1)
         /\ len1[B] = 0 /\ hd1[B] = 0
         /\ \A w \in Owner : w \notin {Free, B} => len1[w] = len[w] /\ hd1[w] = hd[w]
         /\ freeChain' = hd1[Free] /\ primary' = primary /\ DOMAIN overflow' = Block
         /\ extent' = extent /\ flushed' = flushed
    BY <1>6, <1>12 DEF SourceGone
  <1>14. ASSUME NEW b \in Block
         PROVE  \/ own1[b] = own[b] /\ nx1[b] = nx[b] /\ overflow'[b] = overflow[b]
                \/ own[b] = B /\ own1[b] = Free /\ overflow'[b].next = nx1[b]
    BY <1>6, <1>12 DEF SourceGone
  <1>15. hd1[A] = n /\ hd1[A] # 0
    BY <1>7, <1>8, <1>9, <1>13
  <1>16. \E own2, len2, hd2, nx2 :
              /\ Chained(own2, len2, hd2, nx2)
              /\ \A b \in Block : own2[b] = IF b = hd1[A] THEN B ELSE own1[b]
              /\ \A b \in Block : nx2[b] = IF b = hd1[A] THEN hd1[B] ELSE nx1[b]
              /\ len2[A] = len1[A] - 1 /\ len2[B] = len1[B] + 1
              /\ hd2[A] = nx1[hd1[A]] /\ hd2[B] = hd1[A]
              /\ \A o \in Owner : o # A /\ o # B => len2[o] = len1[o] /\ hd2[o] = hd1[o]
    BY ONLY <1>7, <1>13, <1>15, PassFirst
  <1>17. PICK own2, len2, hd2, nx2 :
              /\ Chained(own2, len2, hd2, nx2)
              /\ \A b \in Block : own2[b] = IF b = n THEN B ELSE own1[b]
              /\ \A b \in Block : nx2[b] = IF b = n THEN hd1[B] ELSE nx1[b]
              /\ len2[B] = len1[B] + 1
              /\ hd2[A] = nx1[n] /\ hd2[B] = n
              /\ \A o \in Owner : o # A /\ o # B => len2[o] = len1[o] /\ hd2[o] = hd1[o]
    BY <1>15, <1>16
  <1>18. nx1[n] = nx[n] /\ overflow'[n] = overflow[n]
    BY <1>7, <1>10, <1>14
  <1>19. SourceStep(p, own, len, hd, nx, own2, len2, hd2, nx2)
    <2>1. ASSUME NEW b \in Block
          PROVE  \/ own2[b] = own[b] /\ nx2[b] = nx[b] /\ overflow'[b] = overflow[b]
                 \/ own[b] = B /\ own2[b] = Free /\ overflow'[b].next = nx2[b]
                 \/ own[b] = A /\ own2[b] = B
      BY <1>10, <1>14, <1>17
    <2>2. \A w \in Owner : w \notin {Free, B, A} => len2[w] = len[w] /\ hd2[w] = hd[w]
      BY <1>13, <1>17
    <2>3. freeChain' = hd2[Free]
      BY <1>7, <1>13, <1>17
    <2> QED BY <1>6, <1>13, <1>17, <2>1, <2>2, <2>3 DEF SourceStep
  \* The records.
  <1>20. PICK m : m = <<"o", n>> /\ m \in Spot /\ m \in Loc /\ m # y
    <2>1. <<"o", n>> \in Spot /\ <<"o", n>> \in Loc /\ <<"o", n>> # BufferOf(p)
      BY <1>10 DEF Spot, Loc, BufferOf
    <2> QED BY <1>6, <2>1
  <1>21. y \in Spot
    BY <1>6 DEF Spot, BufferOf
  <1>22. ct[m] \in Seq(Record) /\ Len(ct[m]) \in 0..Len(ct[m])
    BY <1>20, <1>g, PlacedFacts
  <1>23. PICK e, f : PourIs(ct, y, m, Len(ct[m]), e, f)
    BY DEF PourIs
  <1>24. e = ct[m]
    <2>1. e = <<>> \o SubSeq(ct[m], 1, Len(ct[m]))
      BY <1>9, <1>23 DEF PourIs
    <2>2. SubSeq(ct[m], 1, Len(ct[m])) = ct[m]
      BY <1>22
    <2> QED BY <1>22, <2>1, <2>2
  <1>25. PICK ct2, spot2 : Pours(ct, spot, rec, ct2, spot2, y, m, Len(ct[m]), e, f)
    BY ONLY <1>20, <1>21, <1>22, <1>23, <1>g, PourRecords
  <1>26. /\ Placed(ct2, spot2, rec) /\ ct2[y] = ct[m]
         /\ \A q \in Spot : q # y /\ q # m => ct2[q] = ct[q]
         /\ \A k \in Key : spot2[k] = spot[k] \/ (spot[k] = m /\ spot2[k] = y)
         /\ \A k \in Key : spot2[k] # m
    BY <1>24, <1>25 DEF Pours
  <1>27. SourceRead(p, own, ct, spot, own2, ct2, spot2)
    <2>1. own2[n] # own[n]
      BY <1>7, <1>10, <1>17
    <2>2. \A q \in Spot : \/ ct2[q] = ct[q] \/ q = y
                          \/ \E b \in Block : q = <<"o", b>> /\ own[b] = A /\ own2[b] # own[b]
      BY <1>10, <1>20, <1>26, <2>1
    <2>3. \A b \in Block : b # n /\ own[b] = A => own2[b] = own[b]
      BY <1>7, <1>14, <1>17
    <2>4. ASSUME NEW k \in Key
          PROVE  \/ /\ spot2[k] = spot[k]
                    /\ \A b \in Block : spot[k] = <<"o", b>> /\ own[b] = A => own2[b] = own[b]
                 \/ spot2[k] = y /\ \E b \in Block : spot[k] = <<"o", b>> /\ own[b] = A
      <3>1. CASE spot2[k] = spot[k]
        <4>1. \A b \in Block : spot[k] = <<"o", b>> => b # n
          BY <1>20, <1>26, <3>1
        <4> QED BY <2>3, <3>1, <4>1
      <3>2. CASE spot[k] = m /\ spot2[k] = y
        BY <1>10, <1>20, <3>2
      <3> QED BY <1>26, <3>1, <3>2
    <2> QED BY <1>6, <2>2, <2>4 DEF SourceRead
  <1>28. overflow[n] = GroupBlock(ct[m], nx[n])
    BY <1>6, <1>10, <1>20, <1>g DEF DiskIs
  <1>29. PICK o : o = [j EXCEPT !.src = <<"o", n>>, !.buff = overflow[n]]
    OBVIOUS
  <1>30. /\ o \in MoveJob /\ o.at = "move" /\ o.op = j.op /\ o.new = j.new /\ o.tgt = j.tgt
         /\ o.src = m /\ o.buff = GroupBlock(ct[m], nx[n])
    <2>1. nx[n] \in Nat
      BY <1>10, <1>g, ChainFacts
    <2>2. overflow[n] \in BlockType
      BY <1>22, <1>28, <2>1 DEF GroupBlock, BlockType
    <2> QED BY <1>20, <1>28, <1>29, <2>2 DEF MoveJob
  <1>31. Becomes(job, jb2, p, o)
    BY <1>2, <1>5, <1>11, <1>29, <1>30, <1>g DEF Becomes, Do, Job
  <1>32. LikeMove(j, o)
    BY <1>30 DEF LikeMove
  <1>33. SourceIs(p, o, len2, hd2, ct2)
    <2>1. len2[B] = 1 /\ hd2[B] = n /\ hd2[A] = nx[n] /\ ct2[y] = ct[m]
      BY <1>13, <1>17, <1>18, <1>26
    <2>2. o.src[1] = "o" /\ o.src[2] = n
      BY <1>20, <1>30
    <2> QED BY <1>6, <1>30, <2>1, <2>2 DEF SourceIs
  <1>34. GoodAfter(jb2)
    BY ONLY p \in Proc, j \in MoveJob, g \in Group, h \in Group, <1>1, <1>3, <1>4, <1>19, <1>26, <1>27,
            <1>30, <1>31, <1>32, <1>33, SourceFrame
  <1> QED BY <1>2, <1>34, AfterIs

LEMMA LastSourceStep ==
  ASSUME IInv, NEW p \in Proc, LastSource(p)
  PROVE  IInv'
  <1>1. PICK own, len, hd, nx, ct, spot, rec, base : Good(job, own, len, hd, nx, ct, spot, rec, base)
    BY DEF IInv
  <1>2. PICK jb2 : jb2 = job'
    OBVIOUS
  <1>g. /\ Chained(own, len, hd, nx) /\ Placed(ct, spot, rec) /\ job \in [Proc -> Job]
    BY <1>1, GoodFacts
  <1>3. job[p].at = "move" /\ job[p].buff = EmptyBlock /\ job[p].src[1] = "o" /\ MoveKeepsAll
    BY DEF LastSource, At, MoveKeepsAll
  <1>4. PICK j \in MoveJob, g \in Group, h \in Group : AtMove(p, j, g, h, own, len, hd, nx, ct, spot, base)
    BY <1>1, <1>3, MoveFacts
  <1>5. /\ j = job[p] /\ j.at = "move"
        /\ j.buff = GroupBlock(ct[BufferOf(p)], hd[SourceChain(p)])
    BY <1>4 DEF AtMove
  <1>6. SourceFreed(j) /\ Do(p, [job[p] EXCEPT !.src = <<"p", job[p].new>>])
    BY <1>3, <1>5 DEF LastSource, SourceFreed
  <1>7. PICK own2, len2, hd2, nx2 : SourceGone(p, own, len, hd, nx, own2, len2, hd2, nx2)
    BY ONLY p \in Proc, j \in MoveJob, g \in Group, h \in Group, <1>1, <1>4, <1>6, SourceGoes
  <1>8. SourceStep(p, own, len, hd, nx, own2, len2, hd2, nx2)
    BY <1>7 DEF SourceGone, SourceStep
  <1>9. SourceRead(p, own, ct, spot, own2, ct, spot)
    <2>1. \A b \in Block : own[b] = SourceChain(p) => own2[b] = own[b]
      BY <1>7, Kinds DEF SourceGone
    <2> QED BY <2>1 DEF SourceRead
  <1>10. PICK o : o = [j EXCEPT !.src = <<"p", j.new>>]
    OBVIOUS
  <1>11. /\ o \in MoveJob /\ o.at = "move" /\ o.op = j.op /\ o.new = j.new /\ o.tgt = j.tgt
         /\ o.src = <<"p", j.new>> /\ o.buff = j.buff
    BY <1>10 DEF MoveJob, Loc
  <1>12. Becomes(job, jb2, p, o)
    BY <1>2, <1>5, <1>6, <1>10, <1>11, <1>g DEF Becomes, Do, Job
  <1>13. LikeMove(j, o)
    BY <1>11 DEF LikeMove
  <1>14. SourceIs(p, o, len2, hd2, ct)
    <2>1. SourceChain(p) \in Owner /\ SourceChain(p) # Free /\ SourceChain(p) # SourceBlock(p)
      BY AllOwners, Kinds
    <2>2. hd2[SourceChain(p)] = hd[SourceChain(p)] /\ len2[SourceBlock(p)] = 0
      BY <1>7, <2>1 DEF SourceGone
    <2> QED BY <1>5, <1>11, <2>2 DEF SourceIs
  <1>15. GoodAfter(jb2)
    BY ONLY p \in Proc, j \in MoveJob, g \in Group, h \in Group, <1>1, <1>3, <1>4, <1>8, <1>9, <1>g,
            <1>11, <1>12, <1>13, <1>14, SourceFrame
  <1> QED BY <1>2, <1>15, AfterIs

\* The blocks of group s become the source of a move, and the records of the
\* first one go to the buffer.
MoveBegins(p, s, own, len, hd, nx, ct, spot, rec, own2, len2, hd2, ct2, spot2) ==
  /\ Chained(own2, len2, hd2, nx) /\ Placed(ct2, spot2, rec)
  /\ \A b \in Block : own2[b] = IF own[b] = GroupChain(s) THEN SourceChain(p) ELSE own[b]
  /\ \A b \in Block : own[b] # SourceChain(p)
  /\ len2[GroupChain(s)] = 0 /\ hd2[GroupChain(s)] = 0
  /\ \A w \in Owner : w \notin {GroupChain(s), SourceChain(p)} => len2[w] = len[w] /\ hd2[w] = hd[w]
  /\ primary[s] = GroupBlock(ct2[BufferOf(p)], hd2[SourceChain(p)]) /\ len2[SourceBlock(p)] = 0
  /\ ct2[<<"p", s>>] = <<>> /\ primary[s] \in BlockType
  /\ \A m \in Spot : m # <<"p", s>> /\ m # BufferOf(p) => ct2[m] = ct[m]
  /\ \A b \in Block : own2[b] = SourceChain(p) => overflow[b] = GroupBlock(ct2[<<"o", b>>], nx[b])
  /\ \A k \in Key : Home(k) = s =>
       /\ \/ spot2[k] = Nowhere \/ spot2[k] = BufferOf(p)
          \/ \E b \in Block : spot2[k] = <<"o", b>> /\ own2[b] = SourceChain(p)
       /\ spot2[k] = Nowhere <=> spot[k] = Nowhere
  /\ \A k \in Key : Home(k) # s => spot2[k] = spot[k]
MayBegin(p, s) == job[p].at = "idle" /\ NoResize /\ s \in 1..modulus /\ Unlocked(s)
LEMMA MoveBegin ==
  ASSUME NEW own, NEW len, NEW hd, NEW nx, NEW ct, NEW spot, NEW rec, NEW base,
         Good(job, own, len, hd, nx, ct, spot, rec, base), NEW p \in Proc, NEW s \in Group, MayBegin(p, s)
  PROVE  \E own2, len2, hd2, ct2, spot2 :
           MoveBegins(p, s, own, len, hd, nx, ct, spot, rec, own2, len2, hd2, ct2, spot2)
  <1>g. /\ Chained(own, len, hd, nx) /\ Placed(ct, spot, rec) /\ DiskIs(own, nx, ct)
        /\ \A k \in Key : Home(k) \in 1..modulus /\ Home(k) \in Group
        /\ \A k \in Key : HomeOK(job, k, own, spot, base)
        /\ None \notin Proc
        /\ JobOK(job, p, own, len, hd, nx, ct, spot, rec, base)
    BY GoodFacts, DiskFacts
  <1>1. job[p].at = "idle" /\ s \in 1..modulus /\ locked[s] = None /\ \A q \in Proc : ~Moving(job, q)
    BY DEF MayBegin, NoResize, At, Moving, Unlocked
  <1>2. len[SourceChain(p)] = 0 /\ len[SourceBlock(p)] = 0
    BY <1>1, <1>g DEF JobOK, MoveOK
  <1>3. Made(s) /\ Along(Places(s), s, own, hd, nx, ct)
    BY <1>1, GroupPlaces
  <1>4. PICK x, y, A, B : x = BufferOf(p) /\ y = <<"p", s>> /\ A = GroupChain(s) /\ B = SourceChain(p)
    OBVIOUS
  <1>5. x \in Spot /\ y \in Spot /\ y \in Loc /\ x # y /\ x # Nowhere /\ x \notin Loc
    BY <1>4 DEF BufferOf, Spot, Loc, Nowhere
  <1>6. A \in Owner /\ B \in Owner /\ A # B /\ A # NoOne /\ B # NoOne
    BY <1>4, AllOwners, Kinds
  \* The chains.
  <1>7. len[B] = 0
    BY <1>2, <1>4
  <1>8. PICK own2, len2, hd2 :
           /\ Chained(own2, len2, hd2, nx)
           /\ \A b \in Block : own2[b] = IF own[b] = A THEN B ELSE own[b]
           /\ len2[A] = 0 /\ hd2[A] = 0 /\ len2[B] = len[A] /\ hd2[B] = hd[A]
           /\ \A o \in Owner : o # A /\ o # B => len2[o] = len[o] /\ hd2[o] = hd[o]
    BY ONLY <1>6, <1>7, <1>g, Handover
  <1>9. \A b \in Block : own[b] # B
    <2>1. \A b \in Block : own[b] # NoOne => len[own[b]] # 0
      BY ONLY <1>g, ChainFacts
    <2> QED BY <1>6, <1>7, <2>1
  \* The records.
  <1>10. \A k \in Key : spot[k] = Nowhere \/ (spot[k] \in Loc /\ InGroup(own, spot[k], Home(k)))
    <2>1. SUFFICES ASSUME NEW k \in Key
                   PROVE  spot[k] = Nowhere \/ (spot[k] \in Loc /\ InGroup(own, spot[k], Home(k)))
      OBVIOUS
    <2>2. HomeOK(job, k, own, spot, base) /\ Home(k) \in Group
      BY <1>g
    <2>3. spot[k] = Nowhere \/ InGroup(own, spot[k], Home(k))
      BY <1>1, <2>2 DEF HomeOK
    <2> QED BY <2>2, <2>3 DEF InGroup, Loc
  <1>11. ct[x] = <<>>
    <2>1. \A i \in 1..Len(ct[x]) : FALSE
      <3>1. \A i \in 1..Len(ct[x]) : ct[x][i].key \in Key /\ spot[ct[x][i].key] = x
        BY <1>5, <1>g, PlacedFacts
      <3> QED BY <1>5, <1>10, <3>1
    <2>2. ct[x] \in Seq(Record)
      BY <1>5, <1>g, PlacedFacts
    <2> QED BY <2>1, <2>2
  <1>12. ct[y] \in Seq(Record) /\ Len(ct[y]) \in 0..Len(ct[y])
    BY <1>5, <1>g, PlacedFacts
  <1>13. PICK e, f : PourIs(ct, x, y, Len(ct[y]), e, f)
    BY DEF PourIs
  <1>14. e = ct[y] /\ f = <<>>
    <2>1. e = <<>> \o SubSeq(ct[y], 1, Len(ct[y])) /\ f = SubSeq(ct[y], Len(ct[y]) + 1, Len(ct[y]))
      BY <1>11, <1>13 DEF PourIs
    <2>2. SubSeq(ct[y], 1, Len(ct[y])) = ct[y]
      BY <1>12
    <2> QED BY <1>12, <2>1, <2>2
  <1>15. PICK ct2, spot2 : Pours(ct, spot, rec, ct2, spot2, x, y, Len(ct[y]), e, f)
    BY ONLY <1>5, <1>12, <1>13, <1>g, PourRecords
  <1>16. /\ Placed(ct2, spot2, rec) /\ ct2[x] = ct[y] /\ ct2[y] = <<>>
         /\ \A q \in Spot : q # x /\ q # y => ct2[q] = ct[q]
         /\ \A k \in Key : spot2[k] = spot[k] \/ (spot[k] = y /\ spot2[k] = x)
         /\ \A k \in Key : spot2[k] # y
    BY <1>14, <1>15 DEF Pours
  <1>17. primary[s] = GroupBlock(ct[y], hd[A])
    <2>1. 1 \in 1..Len(Places(s)) /\ Places(s)[1] = y
      BY <1>3, <1>4 DEF Along
    <2>2. BlockAt(y) = GroupBlock(ct[y], NextOf(hd, nx, y))
      BY <1>3, <2>1 DEF Along
    <2> QED BY <1>4, <2>2 DEF BlockAt, NextOf
  <1>18. primary[s] \in BlockType
    <2>1. hd[A] \in Nat
      BY <1>6, <1>g, ChainFacts
    <2> QED BY <1>12, <1>17, <2>1 DEF GroupBlock, BlockType
  <1>19. ASSUME NEW b \in Block, own2[b] = B PROVE overflow[b] = GroupBlock(ct2[<<"o", b>>], nx[b])
    <2>1. own[b] = A
      BY <1>8, <1>9, <1>19
    <2>2. <<"o", b>> \in Loc /\ <<"o", b>> \in Spot /\ <<"o", b>> # x /\ <<"o", b>> # y
      BY <1>4, <1>5 DEF Loc, Spot
    <2>3. Written(job, <<"o", b>>)
      <3>1. SUFFICES ASSUME NEW q \in Proc, <<"o", b>> \in Held(job[q]) PROVE FALSE
        BY DEF Written
      <3>2. PICK z \in Group : locked[z] = q /\ InGroup(own, <<"o", b>>, z)
        BY <3>1, HeldIsLocked
      <3>3. InGroup(own, <<"o", b>>, s)
        BY <1>4, <2>1 DEF InGroup
      <3>4. z = s
        BY <3>2, <3>3, InOneGroup
      <3> QED BY <1>1, <1>g, <3>2, <3>4
    <2>4. overflow[b] = GroupBlock(ct[<<"o", b>>], nx[b])
      BY <1>4, <1>g, <2>1, <2>3 DEF DiskIs
    <2> QED BY <1>16, <2>2, <2>4
  <1>20. ASSUME NEW k \in Key, Home(k) = s
         PROVE  /\ \/ spot2[k] = Nowhere \/ spot2[k] = x
                   \/ \E b \in Block : spot2[k] = <<"o", b>> /\ own2[b] = B
                /\ spot2[k] = Nowhere <=> spot[k] = Nowhere
    <2>1. spot2[k] = Nowhere <=> spot[k] = Nowhere
      <3>1. y # Nowhere
        BY <1>4 DEF Nowhere
      <3> QED BY <1>5, <1>16, <3>1
    <2>2. CASE spot[k] = Nowhere
      BY <2>1, <2>2
    <2>3. CASE spot[k] = y
      BY <1>16, <2>1, <2>3
    <2>4. CASE spot[k] # Nowhere /\ spot[k] # y
      <3>1. PICK b \in Block : spot[k] = <<"o", b>> /\ own[b] = A
        BY <1>4, <1>10, <1>20, <2>4 DEF InGroup
      <3> QED BY <1>8, <1>16, <2>1, <2>4, <3>1
    <2> QED BY <2>1, <2>2, <2>3, <2>4
  <1>21. ASSUME NEW k \in Key, Home(k) # s PROVE spot2[k] = spot[k]
    <2>1. SUFFICES ASSUME spot[k] = y PROVE FALSE
      BY <1>16
    <2>2. InGroup(own, y, Home(k)) /\ InGroup(own, y, s)
      <3>1. y # Nowhere
        BY <1>4 DEF Nowhere
      <3> QED BY <1>4, <1>10, <2>1, <3>1 DEF InGroup
    <2> QED BY <1>21, <2>2, InOneGroup
  <1>22. len2[SourceBlock(p)] = 0
    <2>1. SourceBlock(p) \in Owner /\ SourceBlock(p) # A /\ SourceBlock(p) # B
      BY <1>4, AllOwners, Kinds
    <2> QED BY <1>2, <1>8, <2>1
  <1>23. primary[s] = GroupBlock(ct2[x], hd2[B])
    BY <1>8, <1>16, <1>17
  <1>24. MoveBegins(p, s, own, len, hd, nx, ct, spot, rec, own2, len2, hd2, ct2, spot2)
    BY <1>4, <1>8, <1>9, <1>16, <1>18, <1>19, <1>20, <1>21, <1>22, <1>23 DEF MoveBegins
  <1> QED BY <1>24

\* A process that was idle begins to move the records of group s.
MoveStarts(p, s, g, h, o) ==
  /\ blocks' = blocks /\ space' = space /\ header' = header /\ store' = store
  /\ g # h /\ s \in {g, h} /\ locked[g] = None /\ locked[h] = None
  /\ locked' = [locked EXCEPT ![g] = p, ![h] = p]
  /\ ParamsOK(modulus, modValue)' /\ modulus' \in MinMod..MaxMod
  /\ g \in 1..modulus'
  /\ h = IF o.op = "split" THEN modulus' ELSE modulus' + 1
  /\ o.op = "split" \/ h = s
  /\ \A x \in Group : x \notin {g, h} => (x \in 1..modulus' <=> x \in 1..modulus)
  /\ o \in MoveJob /\ o.at = "move" /\ o.op \in {"split", "merge"} /\ o.new = h
  /\ o.src = <<"p", s>> /\ o.buff = primary[s]
  /\ Len(o.tgt) = IF o.op = "split" THEN 2 ELSE 1
HomesMove(s, g, h, o) ==
  \A k \in Key : IF Home(k) = s THEN Home(k)' \in (IF o.op = "split" THEN {g, h} ELSE {g})
                 ELSE Home(k)' = Home(k)
TargetsRead(g, h, o, own, hd, nx, ct) ==
  \A l \in Loc : \A x \in {g, h} : x \in 1..modulus' /\ InGroup(own, l, x) /\ l \notin Held(o) =>
    BlockAt(l) = GroupBlock(ct[l], NextOf(hd, nx, l))

LEMMA StartFrame ==
  ASSUME NEW own, NEW len, NEW hd, NEW nx, NEW ct, NEW spot, NEW rec, NEW base,
         NEW own2, NEW len2, NEW hd2, NEW ct2, NEW spot2, NEW jb2, NEW o,
         NEW p \in Proc, NEW s \in Group, NEW g \in Group, NEW h \in Group,
         Good(job, own, len, hd, nx, ct, spot, rec, base), MayBegin(p, s),
         MoveBegins(p, s, own, len, hd, nx, ct, spot, rec, own2, len2, hd2, ct2, spot2),
         Becomes(job, jb2, p, o), MoveStarts(p, s, g, h, o), HomesMove(s, g, h, o),
         TargetsAre(o, g, h, own2, hd2, nx, ct2), TargetsRead(g, h, o, own2, hd2, nx, ct2)
  PROVE  GoodAfter(jb2)
  <1>g. /\ Chained(own, len, hd, nx) /\ Placed(ct, spot, rec)
        /\ DOMAIN primary = Group /\ DOMAIN overflow = Block
        /\ modulus \in MinMod..MaxMod /\ MinMod \in Nat \ {0} /\ MaxMod \in Nat
        /\ locked \in [Group -> Proc \cup {None}] /\ None \notin Proc /\ job \in [Proc -> Job]
        /\ SpaceOK(job, own, len, hd)
        /\ \A k \in Key : HomeOK(job, k, own, spot, base)
        /\ LocksOK(job, p, base)
    BY GoodFacts DEF JobOK
  <1>i. job[p].at = "idle" /\ s \in 1..modulus /\ locked[s] = None /\ \A q \in Proc : ~Moving(job, q)
    BY DEF MayBegin, NoResize, At, Moving, Unlocked
  <1>s. /\ blocks' = blocks /\ space' = space /\ header' = header /\ store' = store
        /\ g # h /\ s \in {g, h} /\ locked[g] = None /\ locked[h] = None
        /\ locked' = [locked EXCEPT ![g] = p, ![h] = p]
        /\ ParamsOK(modulus, modValue)' /\ modulus' \in MinMod..MaxMod
        /\ g \in 1..modulus'
        /\ h = IF o.op = "split" THEN modulus' ELSE modulus' + 1
        /\ o.op = "split" \/ h = s
        /\ \A x \in Group : x \notin {g, h} => (x \in 1..modulus' <=> x \in 1..modulus)
        /\ o \in MoveJob /\ o.at = "move" /\ o.op \in {"split", "merge"} /\ o.new = h
        /\ o.src = <<"p", s>> /\ o.buff = primary[s]
        /\ Len(o.tgt) = IF o.op = "split" THEN 2 ELSE 1
    BY DEF MoveStarts
  <1>m. /\ Chained(own2, len2, hd2, nx) /\ Placed(ct2, spot2, rec)
        /\ \A b \in Block : own2[b] = IF own[b] = GroupChain(s) THEN SourceChain(p) ELSE own[b]
        /\ len2[GroupChain(s)] = 0 /\ hd2[GroupChain(s)] = 0
        /\ \A w \in Owner : w \notin {GroupChain(s), SourceChain(p)} => len2[w] = len[w] /\ hd2[w] = hd[w]
        /\ primary[s] = GroupBlock(ct2[BufferOf(p)], hd2[SourceChain(p)]) /\ len2[SourceBlock(p)] = 0
        /\ \A m \in Spot : m # <<"p", s>> /\ m # BufferOf(p) => ct2[m] = ct[m]
        /\ \A b \in Block : own2[b] = SourceChain(p) => overflow[b] = GroupBlock(ct2[<<"o", b>>], nx[b])
        /\ \A k \in Key : Home(k) # s => spot2[k] = spot[k]
    BY DEF MoveBegins
  <1>k. \A k \in Key : Home(k) = s =>
          /\ \/ spot2[k] = Nowhere \/ spot2[k] = BufferOf(p)
             \/ \E b \in Block : spot2[k] = <<"o", b>> /\ own2[b] = SourceChain(p)
          /\ spot2[k] = Nowhere <=> spot[k] = Nowhere
    BY DEF MoveBegins
  <1>b. jb2 \in [Proc -> Job] /\ jb2[p] = o /\ \A q \in Proc : q # p => jb2[q] = job[q]
    BY DEF Becomes
  <1>1. PICK base2 : base2 = [q \in Proc |-> IF q = p THEN g ELSE base[q]]
    OBVIOUS
  <1>2. base2[p] = g /\ \A q \in Proc : q # p => base2[q] = base[q]
    BY <1>1
  <1>3. \A x \in Group : locked[x] # p
    BY <1>i, <1>g DEF LocksOK, Moving, Working
  <1>4. \A x \in Group : locked'[x] = IF x \in {g, h} THEN p ELSE locked[x]
    BY <1>s, <1>g
  <1>5. ResizeLocks(p, g, h, jb2, o, base, base2)
    <2>1. \A x \in Group : Touched(p, x) <=> x \in {g, h}
      BY <1>3, <1>4 DEF Touched
    <2>2. \A x \in Group : IF x \in {g, h} THEN locked[x] \in {p, None} /\ locked'[x] \in {p, None}
                      ELSE locked'[x] = locked[x] /\ (x \in 1..modulus' <=> x \in 1..modulus)
      BY <1>s, <1>4
    <2>3. locked' \in [Group -> Proc \cup {None}]
      BY <1>s, <1>g
    <2>4. \A k \in Key : Home(k) \notin {g, h} => Home(k)' = Home(k)
      BY <1>s DEF HomesMove
    <2>5. LocksOK(jb2, p, base2)'
      <3>1. ASSUME NEW x \in Group
            PROVE  locked'[x] = p <=> Moving(jb2, p) /\ x \in {base2[p], jb2[p].new}
        <4>1. Moving(jb2, p) /\ jb2[p].new = h
          BY <1>b, <1>s DEF Moving
        <4>2. locked[x] # p /\ locked'[x] = IF x \in {g, h} THEN p ELSE locked[x]
          BY <1>3, <1>4
        <4> QED BY ONLY <4>1, <4>2, <1>2
      <3>2. jb2[p].at \notin Working
        BY <1>b, <1>s DEF Working
      <3> QED BY <3>1, <3>2 DEF LocksOK, Moving
    <2>6. job[p].at \in {"idle", "move"} /\ o.at \in {"idle", "move"}
      BY <1>i, <1>s
    <2>7. \A q \in Proc : q # p => ~Moving(job, q) /\ base2[q] = base[q]
      BY <1>i, <1>2
    <2> QED BY <1>s, <2>1, <2>2, <2>3, <2>4, <2>5, <2>6, <2>7 DEF ResizeLocks
  <1>6. GroupChain(s) \in Owner /\ SourceChain(p) \in Owner /\ GroupChain(s) # NoOne /\ SourceChain(p) # NoOne
    BY AllOwners, Kinds
  <1>7. MoveChain(p, g, h, GroupChain(s)) /\ MoveChain(p, g, h, SourceChain(p))
    BY <1>s DEF MoveChain
  <1>8. ResizeSame(p, g, h, own, len, hd, nx, ct, spot, own2, len2, hd2, nx, ct2, spot2)
    <2>1. primary' = primary /\ overflow' = overflow
      BY <1>s DEF blocks
    <2>2. ASSUME NEW x \in Group, x \notin {g, h} PROVE ct2[<<"p", x>>] = ct[<<"p", x>>]
      <3>1. <<"p", x>> \in Spot /\ <<"p", x>> # <<"p", s>> /\ <<"p", x>> # BufferOf(p)
        BY <1>s, <2>2 DEF Spot, Loc, BufferOf
      <3> QED BY <1>m, <3>1
    <2>3. \A w \in Owner : ~MoveChain(p, g, h, w) => len2[w] = len[w] /\ hd2[w] = hd[w]
      BY <1>m, <1>7
    <2>4. ASSUME NEW b \in Block
          PROVE  IF MoveChain(p, g, h, own[b]) THEN MoveChain(p, g, h, own2[b])
                 ELSE own2[b] = own[b] /\ ct2[<<"o", b>>] = ct[<<"o", b>>]
      <3>1. <<"o", b>> \in Spot /\ <<"o", b>> # <<"p", s>> /\ <<"o", b>> # BufferOf(p)
        BY DEF Spot, Loc, BufferOf
      <3>2. ct2[<<"o", b>>] = ct[<<"o", b>>]
        BY <1>m, <3>1
      <3>3. own2[b] = IF own[b] = GroupChain(s) THEN SourceChain(p) ELSE own[b]
        BY <1>m
      <3> QED BY <1>7, <3>2, <3>3
    <2>5. ASSUME NEW q \in Proc, q # p PROVE ct2[BufferOf(q)] = ct[BufferOf(q)]
      <3>1. BufferOf(q) \in Spot /\ BufferOf(q) # <<"p", s>> /\ BufferOf(q) # BufferOf(p)
        BY <2>5 DEF Spot, BufferOf
      <3> QED BY <1>m, <3>1
    <2>6. \A k \in Key : Home(k) \notin {g, h} => spot2[k] = spot[k]
      BY <1>m, <1>s
    <2> QED BY <1>g, <2>1, <2>2, <2>3, <2>4, <2>5, <2>6 DEF ResizeSame
  <1>9. SpaceOK(jb2, own2, len2, hd2)'
    <2>1. /\ extent \in 0..MaxBlock /\ freeChain = hd[Free] /\ len[Spare] = 0
          /\ \A b \in Block : own[b] = NoOne <=> b > extent
          /\ \A x \in Group : x > modulus => len[GroupChain(x)] = 0
          /\ HeaderOK(job, own)
      BY <1>g DEF SpaceOK
    <2>2. extent' = extent /\ freeChain' = freeChain /\ flushed' = flushed
      BY <1>s DEF space
    <2>3. /\ Free \in Owner /\ Free # GroupChain(s) /\ Free # SourceChain(p)
          /\ Spare \in Owner /\ Spare # GroupChain(s) /\ Spare # SourceChain(p)
      BY AllOwners, Kinds
    <2>4. freeChain' = hd2[Free] /\ len2[Spare] = 0
      BY <1>m, <2>1, <2>2, <2>3
    <2>5. \A b \in Block : own2[b] = NoOne <=> own[b] = NoOne
      BY <1>m, <1>6
    <2>6. ASSUME NEW x \in Group, x > modulus' PROVE len2[GroupChain(x)] = 0
      <3>1. CASE x = s
        BY <1>m, <3>1
      <3>2. CASE x # s
        <4>1. x \in Nat \ {0} /\ modulus \in Nat /\ modulus' \in Nat
          BY <1>g, <1>s DEF Group
        <4>2. x \notin {g, h}
          <5>1. g \in 1..modulus' /\ (h = modulus' \/ h = s)
            BY <1>s
          <5> QED BY ONLY <2>6, <3>2, <4>1, <5>1
        <4>3. x > modulus
          <5>1. x \in 1..modulus' <=> x \in 1..modulus
            BY <1>s, <4>2
          <5> QED BY ONLY <2>6, <4>1, <5>1
        <4>4. GroupChain(x) \in Owner /\ GroupChain(x) # GroupChain(s) /\ GroupChain(x) # SourceChain(p)
          BY <3>2, AllOwners, Kinds
        <4> QED BY <1>m, <2>1, <4>3, <4>4
      <3> QED BY <3>1, <3>2
    <2>7. ASSUME NEW q \in Proc, job[q].at = "flush" PROVE jb2[q].at = "flush"
      BY <1>b, <1>i, <2>7
    <2>8. \A b \in Block : own[b] = Free => own2[b] = Free
      BY <1>m, <2>3
    <2>9. HeaderOK(jb2, own2)'
      BY <2>1, <2>2, <2>7, <2>8, HeaderKept
    <2> QED BY <2>1, <2>2, <2>4, <2>5, <2>6, <2>9 DEF SpaceOK
  <1>10. ResizeBlocks(p, g, h, o, own2, hd2, nx, ct2)
    <2>1. primary' = primary /\ overflow' = overflow
      BY <1>s DEF blocks
    <2>2. ASSUME NEW l \in Loc, NEW x \in {g, h}, x \in 1..modulus', InGroup(own2, l, x), l \notin Held(o)
          PROVE  BlockAt(l)' = GroupBlock(ct2[l], NextOf(hd2, nx, l))
      <3>1. BlockAt(l) = GroupBlock(ct2[l], NextOf(hd2, nx, l))
        BY <2>2 DEF TargetsRead
      <3> QED BY <2>1, <3>1 DEF BlockAt
    <2>3. ASSUME NEW b \in Block, own2[b] = Free PROVE overflow'[b].next = nx[b]
      <3>1. own[b] = Free
        <4>1. SourceChain(p) # Free
          BY Kinds
        <4> QED BY <1>m, <2>3, <4>1
      <3> QED BY <2>1, <3>1, DiskFacts DEF DiskIs
    <2> QED BY <1>m, <2>1, <2>2, <2>3 DEF ResizeBlocks
  <1>11. ResizeKeys(g, h, jb2, own2, spot, spot2, base2)
    <2>1. SUFFICES ASSUME NEW k \in Key
                   PROVE  (spot2[k] = Nowhere <=> spot[k] = Nowhere) /\ HomeOK(jb2, k, own2, spot2, base2)'
      BY DEF ResizeKeys
    <2>2. CASE Home(k) = s
      <3>1. /\ \/ spot2[k] = Nowhere \/ spot2[k] = BufferOf(p)
               \/ \E b \in Block : spot2[k] = <<"o", b>> /\ own2[b] = SourceChain(p)
            /\ spot2[k] = Nowhere <=> spot[k] = Nowhere
        BY <1>k, <2>2
      <3>2. Home(k)' \in Goals(jb2, p, base2)
        <4>1. Home(k)' \in (IF o.op = "split" THEN {g, h} ELSE {g})
          BY <2>2 DEF HomesMove
        <4> QED BY <1>2, <1>b, <1>s, <4>1 DEF Goals
      <3>3. Moving(jb2, p)
        BY <1>b, <1>s DEF Moving
      <3> QED BY <3>1, <3>2, <3>3 DEF HomeOK, Goals, Moving
    <2>3. CASE Home(k) # s
      <3>1. spot2[k] = spot[k] /\ Home(k)' = Home(k)
        BY <1>m, <2>3 DEF HomesMove
      <3>2. spot[k] = Nowhere \/ InGroup(own, spot[k], Home(k))
        BY <1>g, <1>i DEF HomeOK
      <3>3. InGroup(own, spot[k], Home(k)) => InGroup(own2, spot[k], Home(k))
        <4>1. GroupChain(Home(k)) # GroupChain(s)
          BY <2>3, Kinds
        <4> QED BY <1>m, <4>1 DEF InGroup
      <3> QED BY <3>1, <3>2, <3>3 DEF HomeOK
    <2> QED BY <2>2, <2>3
  <1>12. MoveOK(jb2, p, own2, len2, hd2, nx, ct2, base2)'
    <2>1. \A i \in 1..Len(o.tgt) :
            /\ InGroup(own2, o.tgt[i].loc, IF i = 1 THEN base2[p] ELSE o.new)
            /\ o.tgt[i].buff = GroupBlock(ct2[o.tgt[i].loc], 0)
            /\ NextOf(hd2, nx, o.tgt[i].loc) = 0
      BY <1>2, <1>s DEF TargetsAre, GoalAt
    <2>2. /\ o.buff = GroupBlock(ct2[BufferOf(p)], hd2[SourceChain(p)])
          /\ o.src[1] # "o" /\ len2[SourceBlock(p)] = 0
      BY <1>m, <1>s
    <2>3. base2[p] \in 1..modulus' /\ base2[p] # o.new
      BY <1>2, <1>s
    <2> QED BY <1>b, <1>s, <2>1, <2>2, <2>3 DEF MoveOK, Moving
  <1>13. Good(jb2, own2, len2, hd2, nx, ct2, spot2, rec, base2)'
    BY ONLY p \in Proc, g \in Group, h \in Group, Good(job, own, len, hd, nx, ct, spot, rec, base),
            Becomes(job, jb2, p, o), <1>m, <1>5, <1>8, <1>9, <1>10, <1>11, <1>12, ResizeFrame
  <1> QED BY <1>13 DEF GoodAfter

\* The blocks of the other groups are as before.
LEMMA BesideMove ==
  ASSUME NEW own, NEW len, NEW hd, NEW nx, NEW ct, NEW spot, NEW rec,
         NEW own2, NEW len2, NEW hd2, NEW ct2, NEW spot2, NEW p \in Proc, NEW s \in Group,
         MoveBegins(p, s, own, len, hd, nx, ct, spot, rec, own2, len2, hd2, ct2, spot2),
         NEW l \in Loc, NEW x \in Group, x # s, InGroup(own, l, x) \/ InGroup(own2, l, x)
  PROVE  /\ InGroup(own, l, x) /\ InGroup(own2, l, x) /\ ct2[l] = ct[l]
         /\ NextOf(hd2, nx, l) = NextOf(hd, nx, l)
  <1>m. /\ \A b \in Block : own2[b] = IF own[b] = GroupChain(s) THEN SourceChain(p) ELSE own[b]
        /\ \A w \in Owner : w \notin {GroupChain(s), SourceChain(p)} => len2[w] = len[w] /\ hd2[w] = hd[w]
        /\ \A m \in Spot : m # <<"p", s>> /\ m # BufferOf(p) => ct2[m] = ct[m]
    BY DEF MoveBegins
  <1>1. GroupChain(x) \in Owner /\ GroupChain(x) # GroupChain(s) /\ GroupChain(x) # SourceChain(p)
    BY AllOwners, Kinds
  <1>2. InGroup(own, l, x) /\ InGroup(own2, l, x)
    BY <1>m, <1>1 DEF InGroup
  <1>3. l # <<"p", s>>
    <2>1. InGroup(own, <<"p", s>>, s)
      BY DEF InGroup
    <2> QED BY <1>2, <2>1, InOneGroup
  <1>4. l \in Spot /\ l # BufferOf(p)
    BY DEF Spot, Loc, BufferOf
  <1>5. NextOf(hd2, nx, l) = NextOf(hd, nx, l)
    <2>1. CASE l = <<"p", x>>
      BY <1>m, <1>1, <2>1 DEF NextOf
    <2>2. CASE l # <<"p", x>>
      <3>1. l[1] # "p"
        BY <1>2, <2>2 DEF InGroup
      <3> QED BY <3>1 DEF NextOf
    <2> QED BY <2>1, <2>2
  <1> QED BY <1>m, <1>2, <1>3, <1>4, <1>5

TwoTargets(g, h) == <<[loc |-> <<"p", g>>, buff |-> EmptyBlock], [loc |-> <<"p", h>>, buff |-> EmptyBlock]>>
SplitJob(g, h) == [at |-> "move", op |-> "split", new |-> h, src |-> <<"p", g>>, buff |-> primary[g],
                   tgt |-> TwoTargets(g, h)]
LEMMA SplitStep ==
  ASSUME IInv, NEW p \in Proc, Split(p)
  PROVE  IInv'
  <1>1. PICK own, len, hd, nx, ct, spot, rec, base : Good(job, own, len, hd, nx, ct, spot, rec, base)
    BY DEF IInv
  <1>2. PICK jb2 : jb2 = job'
    OBVIOUS
  <1>g. /\ Chained(own, len, hd, nx) /\ Placed(ct, spot, rec)
        /\ ParamsOK(modulus, modValue) /\ modulus \in MinMod..MaxMod /\ modulus \in Group
        /\ MinMod \in Nat \ {0} /\ MaxMod \in Nat /\ job \in [Proc -> Job]
        /\ \A k \in Key : Home(k) \in 1..modulus
        /\ \A k \in Key : HomeOK(job, k, own, spot, base)
        /\ \A x \in Group : x > modulus => len[GroupChain(x)] = 0
    BY <1>1, GoodFacts DEF SpaceOK
  <1>3. PICK g, h : g = SplitSource(modulus, modValue) /\ h = modulus + 1
    OBVIOUS
  <1>4. /\ job[p].at = "idle" /\ NoResize /\ modulus < MaxMod
        /\ locked[g] = None /\ locked[h] = None /\ locked' = [locked EXCEPT ![g] = p, ![h] = p]
        /\ modulus' = h /\ modValue' = SplitModValue(modulus, modValue)
        /\ blocks' = blocks /\ space' = space /\ header' = header /\ store' = store
    BY <1>3 DEF Split, At, LockTwo
  <1>5. Do(p, SplitJob(g, h))
    BY <1>3 DEF Split, SplitJob, TwoTargets
  <1>6. /\ ParamsOK(modulus + 1, SplitModValue(modulus, modValue)) /\ g \in 1..modulus
        /\ \A x \in Nat :
             LET y == GroupOf(x, modulus + 1, SplitModValue(modulus, modValue)) IN
             y = GroupOf(x, modulus, modValue) \/ (y = modulus + 1 /\ GroupOf(x, modulus, modValue) = g)
    BY <1>g, <1>3, SplitMoves
  <1>7. /\ g \in Group /\ h \in Group /\ g # h /\ modulus' \in MinMod..MaxMod /\ modulus' \in Nat
        /\ g \in 1..modulus' /\ h > modulus /\ h \notin 1..modulus
        /\ \A x \in Group : x \notin {g, h} => (x \in 1..modulus' <=> x \in 1..modulus)
    BY <1>g, <1>3, <1>4, <1>6 DEF Group
  <1>8. MayBegin(p, g)
    BY <1>4, <1>6 DEF MayBegin, Unlocked
  <1>9. PICK own2, len2, hd2, ct2, spot2 :
          MoveBegins(p, g, own, len, hd, nx, ct, spot, rec, own2, len2, hd2, ct2, spot2)
    BY <1>1, <1>7, <1>8, MoveBegin
  <1>m. /\ Chained(own2, len2, hd2, nx)
        /\ len2[GroupChain(g)] = 0 /\ hd2[GroupChain(g)] = 0 /\ ct2[<<"p", g>>] = <<>>
        /\ \A w \in Owner : w \notin {GroupChain(g), SourceChain(p)} => len2[w] = len[w] /\ hd2[w] = hd[w]
        /\ primary[g] \in BlockType
        /\ \A m \in Spot : m # <<"p", g>> /\ m # BufferOf(p) => ct2[m] = ct[m]
    BY <1>9 DEF MoveBegins
  \* The new group is empty.
  <1>10. len2[GroupChain(h)] = 0 /\ hd2[GroupChain(h)] = 0
    <2>1. GroupChain(h) \in Owner /\ GroupChain(h) # GroupChain(g) /\ GroupChain(h) # SourceChain(p)
      BY <1>7, AllOwners, Kinds
    <2>2. len2[GroupChain(h)] = 0
      BY <1>g, <1>7, <1>m, <2>1
    <2>3. \A w \in Owner : hd2[w] = 0 <=> len2[w] = 0
      BY ONLY <1>m, ChainFacts
    <2> QED BY <2>1, <2>2, <2>3
  <1>11. ct2[<<"p", h>>] = <<>>
    <2>1. PICK y : y = <<"p", h>> /\ y \in Spot /\ y # <<"p", g>> /\ y # BufferOf(p)
      <3>1. <<"p", h>> \in Spot /\ <<"p", h>> # <<"p", g>> /\ <<"p", h>> # BufferOf(p)
        BY <1>7 DEF Spot, Loc, BufferOf
      <3> QED BY <3>1
    <2>2. ct2[y] = ct[y]
      BY <1>m, <2>1
    <2>3. ASSUME NEW k \in Key, spot[k] = y PROVE FALSE
      <3>1. HomeOK(job, k, own, spot, base) /\ \A q \in Proc : ~Moving(job, q)
        BY <1>g, <1>4 DEF NoResize, At, Moving
      <3>2. InGroup(own, y, Home(k))
        BY <2>1, <2>3, <3>1 DEF HomeOK, Nowhere
      <3>3. Home(k) = h
        BY <2>1, <3>2 DEF InGroup
      <3> QED BY <1>g, <1>7, <3>3
    <2>4. \A i \in 1..Len(ct[y]) : ct[y][i].key \in Key /\ spot[ct[y][i].key] = y
      <3>1. Placed(ct, spot, rec)
        BY <1>g
      <3>2. \A m \in Spot : \A i \in 1..Len(ct[m]) : ct[m][i].key \in Key /\ spot[ct[m][i].key] = m
        BY ONLY <3>1, PlacedFacts
      <3> QED BY <2>1, <3>2
    <2>5. \A i \in 1..Len(ct[y]) : FALSE
      BY <2>3, <2>4
    <2>6. ct[y] \in Seq(Record)
      BY <2>1, <1>g, PlacedFacts
    <2>7. ct[y] = <<>>
      BY ONLY <2>5, <2>6
    <2> QED BY <2>1, <2>2, <2>7
  <1>12. PICK o : o = SplitJob(g, h)
    OBVIOUS
  <1>13. /\ o.at = "move" /\ o.op = "split" /\ o.new = h /\ o.src = <<"p", g>> /\ o.buff = primary[g]
         /\ Len(o.tgt) = 2 /\ o.tgt[1].loc = <<"p", g>> /\ o.tgt[1].buff = EmptyBlock
         /\ o.tgt[2].loc = <<"p", h>> /\ o.tgt[2].buff = EmptyBlock
    BY <1>12 DEF SplitJob, TwoTargets
  <1>14. o \in MoveJob
    <2>1. EmptyBlock \in BlockType
      BY DEF EmptyBlock, GroupBlock, BlockType
    <2>2. <<"p", g>> \in Loc /\ <<"p", h>> \in Loc
      BY <1>7 DEF Loc
    <2>3. TwoTargets(g, h) \in Seq([loc : Loc, buff : BlockType])
      BY <2>1, <2>2 DEF TwoTargets
    <2> QED BY <1>7, <1>12, <1>m, <2>2, <2>3 DEF SplitJob, MoveJob
  <1>15. Becomes(job, jb2, p, o)
    BY <1>2, <1>5, <1>12, <1>14, <1>g DEF Becomes, Do, Job
  <1>16. MoveStarts(p, g, g, h, o)
    <2>1. ParamsOK(modulus, modValue)'
      BY <1>3, <1>4, <1>6
    <2> QED BY <1>4, <1>7, <1>13, <1>14, <2>1 DEF MoveStarts
  <1>17. HomesMove(g, g, h, o)
    <2>1. SUFFICES ASSUME NEW k \in Key
                   PROVE  IF Home(k) = g THEN Home(k)' \in {g, h} ELSE Home(k)' = Home(k)
      BY <1>13 DEF HomesMove
    <2>2. HashOf[k] \in Nat
      BY DHBlocksAssumption
    <2>3. Home(k)' = Home(k) \/ (Home(k)' = h /\ Home(k) = g)
      BY <1>3, <1>4, <1>6, <2>2 DEF Home
    <2> QED BY <2>3
  <1>18. TargetsAre(o, g, h, own2, hd2, nx, ct2)
    <2>1. NextOf(hd2, nx, <<"p", g>>) = 0 /\ NextOf(hd2, nx, <<"p", h>>) = 0
      BY <1>10, <1>m DEF NextOf
    <2>2. EmptyBlock = GroupBlock(ct2[<<"p", g>>], 0) /\ EmptyBlock = GroupBlock(ct2[<<"p", h>>], 0)
      BY <1>11, <1>m DEF EmptyBlock
    <2>3. InGroup(own2, <<"p", g>>, g) /\ InGroup(own2, <<"p", h>>, h)
      BY DEF InGroup
    <2>4. \A i \in 1..Len(o.tgt) : i = 1 \/ i = 2
      BY <1>13
    <2> QED BY <1>13, <2>1, <2>2, <2>3, <2>4 DEF TargetsAre, GoalAt
  <1>19. TargetsRead(g, h, o, own2, hd2, nx, ct2)
    <2>1. SUFFICES ASSUME NEW l \in Loc, NEW x \in {g, h}, InGroup(own2, l, x), l \notin Held(o) PROVE FALSE
      BY DEF TargetsRead
    <2>2. <<"p", g>> \in Held(o) /\ <<"p", h>> \in Held(o)
      <3>1. 1 \in 1..Len(o.tgt) /\ 2 \in 1..Len(o.tgt)
        BY <1>13
      <3> QED BY <1>13, <3>1 DEF Held, Working
    <2>3. PICK b \in Block : own2[b] = GroupChain(x)
      BY <2>1, <2>2 DEF InGroup
    <2>4. \A c \in Block : own2[c] # NoOne => len2[own2[c]] # 0
      BY ONLY <1>m, ChainFacts
    <2>5. GroupChain(x) # NoOne /\ len2[GroupChain(x)] = 0
      BY <1>10, <1>m, <2>1, Kinds
    <2> QED BY <2>3, <2>4, <2>5
  <1>20. GoodAfter(jb2)
    BY ONLY p \in Proc, <1>7, <1>1, <1>8, <1>9, <1>15, <1>16, <1>17, <1>18, <1>19, StartFrame
  <1> QED BY <1>2, <1>20, AfterIs

OneTarget(l) == <<[loc |-> l, buff |-> BlockAt(l)]>>
MergeJob(l, s) == [at |-> "move", op |-> "merge", new |-> s, src |-> <<"p", s>>, buff |-> primary[s],
                   tgt |-> OneTarget(l)]
LEMMA MergeStep ==
  ASSUME IInv, NEW p \in Proc, Merge(p)
  PROVE  IInv'
  <1>1. PICK own, len, hd, nx, ct, spot, rec, base : Good(job, own, len, hd, nx, ct, spot, rec, base)
    BY DEF IInv
  <1>2. PICK jb2 : jb2 = job'
    OBVIOUS
  <1>g. /\ Chained(own, len, hd, nx) /\ Placed(ct, spot, rec)
        /\ ParamsOK(modulus, modValue) /\ modulus \in MinMod..MaxMod /\ modulus \in Group
        /\ MinMod \in Nat \ {0} /\ MaxMod \in Nat /\ job \in [Proc -> Job]
        /\ \A k \in Key : Home(k) \in 1..modulus
    BY <1>1, GoodFacts
  <1>3. PICK g, s, l : g = MergeTarget(modulus, modValue) /\ s = modulus /\ l = Last(Places(g))
    OBVIOUS
  <1>4. /\ job[p].at = "idle" /\ NoResize /\ modulus > MinMod
        /\ locked[g] = None /\ locked[s] = None /\ locked' = [locked EXCEPT ![g] = p, ![s] = p]
        /\ modulus' = modulus - 1 /\ modValue' = MergeModValue(modulus, modValue)
        /\ blocks' = blocks /\ space' = space /\ header' = header /\ store' = store
    BY <1>3 DEF Merge, At, LockTwo
  <1>5. Do(p, MergeJob(l, s))
    BY <1>3 DEF Merge, MergeJob, OneTarget
  <1>6. /\ ParamsOK(modulus - 1, MergeModValue(modulus, modValue)) /\ g \in 1..modulus - 1
        /\ \A x \in Nat :
             LET y == GroupOf(x, modulus - 1, MergeModValue(modulus, modValue)) IN
             GroupOf(x, modulus, modValue) = y \/ (GroupOf(x, modulus, modValue) = modulus /\ y = g)
    <2>1. modulus > 1
      BY <1>g, <1>4
    <2> QED BY <1>g, <1>3, <2>1, MergeMoves
  <1>7. /\ g \in Group /\ s \in Group /\ g # s /\ modulus' \in MinMod..MaxMod /\ modulus' \in Nat
        /\ g \in 1..modulus' /\ g \in 1..modulus /\ s \in 1..modulus /\ s \notin 1..modulus' /\ s = modulus' + 1
        /\ \A x \in Group : x \notin {g, s} => (x \in 1..modulus' <=> x \in 1..modulus)
    BY <1>g, <1>3, <1>4, <1>6 DEF Group
  <1>8. MayBegin(p, s)
    BY <1>4, <1>7 DEF MayBegin, Unlocked
  <1>9. PICK own2, len2, hd2, ct2, spot2 :
          MoveBegins(p, s, own, len, hd, nx, ct, spot, rec, own2, len2, hd2, ct2, spot2)
    BY <1>1, <1>7, <1>8, MoveBegin
  <1>m. primary[s] \in BlockType
    BY <1>9 DEF MoveBegins
  <1>10. Along(Places(g), g, own, hd, nx, ct)
    BY <1>1, <1>4, <1>7, GroupPlaces
  <1>11. /\ l \in Loc /\ InGroup(own, l, g) /\ NextOf(hd, nx, l) = 0
         /\ BlockAt(l) = GroupBlock(ct[l], 0)
    <2>1. l = Places(g)[Len(Places(g))] /\ Len(Places(g)) \in 1..Len(Places(g))
      BY <1>3, <1>10 DEF Along, Last
    <2> QED BY <1>10, <2>1 DEF Along
  <1>12. PICK o : o = MergeJob(l, s)
    OBVIOUS
  <1>13. /\ o.at = "move" /\ o.op = "merge" /\ o.new = s /\ o.src = <<"p", s>> /\ o.buff = primary[s]
         /\ Len(o.tgt) = 1 /\ o.tgt[1].loc = l /\ o.tgt[1].buff = BlockAt(l)
    BY <1>12 DEF MergeJob, OneTarget
  <1>14. o \in MoveJob
    <2>1. BlockAt(l) \in BlockType
      <3>1. ct[l] \in Seq(Record)
        BY <1>g, <1>11, PlacedFacts DEF Spot
      <3> QED BY <1>11, <3>1 DEF GroupBlock, BlockType
    <2>2. <<"p", s>> \in Loc
      BY <1>7 DEF Loc
    <2>3. OneTarget(l) \in Seq([loc : Loc, buff : BlockType])
      BY <1>11, <2>1 DEF OneTarget
    <2> QED BY <1>7, <1>12, <1>m, <2>2, <2>3 DEF MergeJob, MoveJob
  <1>15. Becomes(job, jb2, p, o)
    BY <1>2, <1>5, <1>12, <1>14, <1>g DEF Becomes, Do, Job
  <1>16. MoveStarts(p, s, g, s, o)
    <2>1. ParamsOK(modulus, modValue)'
      BY <1>4, <1>6
    <2> QED BY <1>4, <1>7, <1>13, <1>14, <2>1 DEF MoveStarts
  <1>17. HomesMove(s, g, s, o)
    <2>1. SUFFICES ASSUME NEW k \in Key
                   PROVE  IF Home(k) = s THEN Home(k)' = g ELSE Home(k)' = Home(k)
      BY <1>13 DEF HomesMove
    <2>2. HashOf[k] \in Nat
      BY DHBlocksAssumption
    <2>3. Home(k)' = Home(k) \/ (Home(k)' = g /\ Home(k) = s)
      BY <1>3, <1>4, <1>6, <2>2 DEF Home
    <2>4. Home(k)' # s
      <3>1. Home(k)' = GroupOf(HashOf[k], modulus - 1, MergeModValue(modulus, modValue))
        BY <1>4 DEF Home
      <3>2. GroupOf(HashOf[k], modulus - 1, MergeModValue(modulus, modValue)) \in 1..modulus - 1
        BY <1>6, <2>2, HashInFile
      <3> QED BY <1>4, <1>7, <3>1, <3>2
    <2> QED BY <2>3, <2>4
  <1>18. TargetsAre(o, g, s, own2, hd2, nx, ct2)
    <2>1. InGroup(own2, l, g) /\ ct2[l] = ct[l] /\ NextOf(hd2, nx, l) = NextOf(hd, nx, l)
      BY ONLY p \in Proc, <1>7, <1>9, <1>11, BesideMove
    <2>2. \A i \in 1..Len(o.tgt) : i = 1
      BY <1>13
    <2> QED BY <1>11, <1>13, <2>1, <2>2 DEF TargetsAre, GoalAt
  <1>19. TargetsRead(g, s, o, own2, hd2, nx, ct2)
    <2>1. SUFFICES ASSUME NEW m \in Loc, InGroup(own2, m, g)
                   PROVE  BlockAt(m) = GroupBlock(ct2[m], NextOf(hd2, nx, m))
      BY <1>7 DEF TargetsRead
    <2>2. InGroup(own, m, g) /\ ct2[m] = ct[m] /\ NextOf(hd2, nx, m) = NextOf(hd, nx, m)
      BY ONLY p \in Proc, <1>7, <1>9, <2>1, BesideMove
    <2>3. PICK i \in 1..Len(Places(g)) : Places(g)[i] = m
      BY <1>10, <2>2 DEF Along
    <2>4. BlockAt(m) = GroupBlock(ct[m], NextOf(hd, nx, m))
      BY <1>10, <2>3 DEF Along
    <2> QED BY <2>2, <2>4
  <1>20. GoodAfter(jb2)
    BY ONLY p \in Proc, <1>7, <1>1, <1>8, <1>9, <1>15, <1>16, <1>17, <1>18, <1>19, StartFrame
  <1> QED BY <1>2, <1>20, AfterIs

\* The blocks that the end of a split or merge writes.
EndBlocks(j) ==
  Range(j.tgt) \cup (IF j.op = "merge" THEN {[loc |-> <<"p", j.new>>, buff |-> Unmade]} ELSE {})
EndsWith(j, l, b) == IF \E w \in EndBlocks(j) : w.loc = l
                     THEN (CHOOSE w \in EndBlocks(j) : w.loc = l).buff ELSE b
WriteEnd(j) ==
  /\ primary' = [g \in Group |-> EndsWith(j, <<"p", g>>, primary[g])]
  /\ overflow' = [b \in Block |-> EndsWith(j, <<"o", b>>, overflow[b])]
EndWritten(j) ==
  /\ DOMAIN primary' = Group /\ DOMAIN overflow' = Block
  /\ \A l \in Loc : l \notin Held(j) => BlockAt(l)' = BlockAt(l)
  /\ \A i \in 1..Len(j.tgt) : BlockAt(j.tgt[i].loc)' = j.tgt[i].buff
LEMMA EndWrites ==
  ASSUME NEW own, NEW len, NEW hd, NEW nx, NEW ct, NEW spot, NEW base,
         NEW p \in Proc, NEW j \in MoveJob, NEW g \in Group, NEW h \in Group,
         AtMove(p, j, g, h, own, len, hd, nx, ct, spot, base), WriteEnd(j)
  PROVE  EndWritten(j)
  <1>m. /\ j.at = "move" /\ h = j.new /\ g # h /\ j.op \in {"split", "merge"}
        /\ Len(j.tgt) = IF j.op = "split" THEN 2 ELSE 1
        /\ \A i \in 1..Len(j.tgt) :
             j.tgt[i].loc \in Loc /\ InGroup(own, j.tgt[i].loc, GoalAt(g, h, i))
    BY DEF AtMove
  <1>1. j.tgt \in Seq([loc : Loc, buff : BlockType])
    BY DEF MoveJob
  <1>2. Range(j.tgt) = {j.tgt[i] : i \in 1..Len(j.tgt)}
    BY <1>1 DEF Range
  <1>3. \A l : (\E w \in EndBlocks(j) : w.loc = l) <=> l \in Held(j)
    <2>1. Held(j) = {j.tgt[i].loc : i \in 1..Len(j.tgt)} \cup (IF j.op = "merge" THEN {<<"p", j.new>>} ELSE {})
      BY <1>m DEF Held, Working
    <2>2. ASSUME NEW l, NEW w \in EndBlocks(j), w.loc = l PROVE l \in Held(j)
      <3>1. CASE w \in Range(j.tgt)
        BY <1>2, <2>1, <2>2, <3>1
      <3>2. CASE j.op = "merge" /\ w = [loc |-> <<"p", j.new>>, buff |-> Unmade]
        BY <2>1, <2>2, <3>2
      <3> QED BY <3>1, <3>2 DEF EndBlocks
    <2>3. ASSUME NEW l, l \in Held(j) PROVE \E w \in EndBlocks(j) : w.loc = l
      <3>1. CASE \E i \in 1..Len(j.tgt) : l = j.tgt[i].loc
        <4>1. PICK i \in 1..Len(j.tgt) : l = j.tgt[i].loc
          BY <3>1
        <4>2. j.tgt[i] \in EndBlocks(j)
          BY <1>2 DEF EndBlocks
        <4> QED BY <4>1, <4>2
      <3>2. CASE j.op = "merge" /\ l = <<"p", j.new>>
        <4>1. [loc |-> <<"p", j.new>>, buff |-> Unmade] \in EndBlocks(j)
          BY <3>2 DEF EndBlocks
        <4> QED BY <3>2, <4>1
      <3> QED BY <2>1, <2>3, <3>1, <3>2
    <2> QED BY <2>2, <2>3
  <1>4. \A l \in Loc : BlockAt(l)' = EndsWith(j, l, BlockAt(l))
    <2>1. SUFFICES ASSUME NEW l \in Loc PROVE BlockAt(l)' = EndsWith(j, l, BlockAt(l))
      OBVIOUS
    <2>2. CASE \E x \in Group : l = <<"p", x>>
      BY <2>2 DEF WriteEnd, BlockAt
    <2>3. CASE \E b \in Block : l = <<"o", b>>
      BY <2>3 DEF WriteEnd, BlockAt
    <2> QED BY <2>1, <2>2, <2>3 DEF Loc
  <1>5. \A l \in Loc : l \notin Held(j) => BlockAt(l)' = BlockAt(l)
    BY <1>3, <1>4 DEF EndsWith
  <1>6. ASSUME NEW i \in 1..Len(j.tgt) PROVE BlockAt(j.tgt[i].loc)' = j.tgt[i].buff
    <2>1. j.tgt[i] \in EndBlocks(j)
      BY <1>2 DEF EndBlocks
    <2>2. ASSUME NEW w \in EndBlocks(j), w.loc = j.tgt[i].loc PROVE w = j.tgt[i]
      <3>1. InGroup(own, j.tgt[i].loc, GoalAt(g, h, i))
        BY <1>m
      <3>2. ASSUME NEW n \in 1..Len(j.tgt), w = j.tgt[n] PROVE w = j.tgt[i]
        <4>1. InGroup(own, j.tgt[i].loc, GoalAt(g, h, n))
          BY <1>m, <2>2, <3>2
        <4>2. GoalAt(g, h, n) = GoalAt(g, h, i)
          BY <3>1, <4>1, InOneGroup
        <4>3. n = 1 \/ n = 2
          BY <1>m
        <4>4. i = 1 \/ i = 2
          BY <1>m
        <4>5. n = i
          BY <1>m, <4>2, <4>3, <4>4 DEF GoalAt
        <4> QED BY <3>2, <4>5
      <3>3. ASSUME j.op = "merge", w = [loc |-> <<"p", j.new>>, buff |-> Unmade] PROVE FALSE
        <4>1. i = 1 /\ w.loc = <<"p", h>>
          BY <1>m, <3>3
        <4>2. InGroup(own, j.tgt[i].loc, g)
          BY <3>1, <4>1 DEF GoalAt
        <4>3. InGroup(own, j.tgt[i].loc, h)
          BY <2>2, <4>1 DEF InGroup
        <4> QED BY <1>m, <4>2, <4>3, InOneGroup
      <3>4. w \in Range(j.tgt) \/ (j.op = "merge" /\ w = [loc |-> <<"p", j.new>>, buff |-> Unmade])
        BY <2>2 DEF EndBlocks
      <3> QED BY <1>2, <3>2, <3>3, <3>4
    <2>3. (CHOOSE w \in EndBlocks(j) : w.loc = j.tgt[i].loc) = j.tgt[i]
      BY <2>1, <2>2
    <2>4. EndsWith(j, j.tgt[i].loc, BlockAt(j.tgt[i].loc)) = j.tgt[i].buff
      BY <2>1, <2>3 DEF EndsWith
    <2> QED BY <1>4, <1>m, <2>4
  <1>7. DOMAIN primary' = Group /\ DOMAIN overflow' = Block
    BY DEF WriteEnd
  <1> QED BY <1>5, <1>6, <1>7 DEF EndWritten

LEMMA EndResizeStep ==
  ASSUME IInv, NEW p \in Proc, EndResize(p)
  PROVE  IInv'
  <1>1. PICK own, len, hd, nx, ct, spot, rec, base : Good(job, own, len, hd, nx, ct, spot, rec, base)
    BY DEF IInv
  <1>2. PICK jb2 : jb2 = job'
    OBVIOUS
  <1>g. /\ Chained(own, len, hd, nx) /\ Placed(ct, spot, rec) /\ job \in [Proc -> Job]
        /\ ParamsOK(modulus, modValue) /\ modulus \in MinMod..MaxMod
        /\ MinMod \in Nat \ {0} /\ MaxMod \in Nat
        /\ locked \in [Group -> Proc \cup {None}] /\ None \notin Proc
        /\ DiskIs(own, nx, ct)
        /\ extent \in 0..MaxBlock /\ freeChain = hd[Free] /\ len[Spare] = 0
        /\ \A b \in Block : own[b] = NoOne <=> b > extent
        /\ \A x \in Group : x > modulus => len[GroupChain(x)] = 0
        /\ HeaderOK(job, own)
    BY <1>1, GoodFacts, DiskFacts DEF SpaceOK
  <1>3. /\ job[p].at = "move" /\ job[p].buff = EmptyBlock /\ job[p].src[1] = "p"
        /\ Unlock(p) /\ Do(p, Idle) /\ PutHeader(p)
        /\ UNCHANGED <<modulus, modValue, extent, freeChain, header, store>>
    BY DEF EndResize, Resized, At
  <1>4. PICK j \in MoveJob, g \in Group, h \in Group : AtMove(p, j, g, h, own, len, hd, nx, ct, spot, base)
    BY <1>1, <1>3, MoveFacts
  <1>m. /\ j = job[p] /\ j.at = "move" /\ g = base[p] /\ h = j.new /\ g # h
        /\ g \in 1..modulus /\ h = IF j.op = "split" THEN modulus ELSE modulus + 1
        /\ j.op \in {"split", "merge"}
        /\ \A x \in Group : locked[x] = p <=> x \in {g, h}
        /\ \A q \in Proc : q # p => ~Moving(job, q)
        /\ j.buff = GroupBlock(ct[BufferOf(p)], hd[SourceChain(p)])
        /\ IF j.src[1] = "o" THEN hd[SourceBlock(p)] = j.src[2] /\ len[SourceBlock(p)] = 1
           ELSE len[SourceBlock(p)] = 0
        /\ \A i \in 1..Len(j.tgt) :
             /\ j.tgt[i].loc \in Loc /\ InGroup(own, j.tgt[i].loc, GoalAt(g, h, i))
             /\ j.tgt[i].buff = GroupBlock(ct[j.tgt[i].loc], 0)
             /\ NextOf(hd, nx, j.tgt[i].loc) = 0
        /\ \A l \in Loc : \A x \in {g, h} : x \in 1..modulus /\ InGroup(own, l, x) /\ l \notin Held(j) =>
             BlockAt(l) = GroupBlock(ct[l], NextOf(hd, nx, l))
    BY <1>4 DEF AtMove
  <1>k. \A k \in Key :
          \/ spot[k] = Nowhere
          \/ spot[k] \in Loc /\ InGroup(own, spot[k], Home(k))
          \/ /\ Home(k) \in {g, h}
             /\ \/ spot[k] = BufferOf(p)
                \/ \E b \in Block : spot[k] = <<"o", b>> /\ own[b] = SourceChain(p)
    BY <1>4 DEF AtMove
  <1>5. WriteEnd(j)
    BY <1>m DEF EndResize, WriteEnd, EndsWith, EndBlocks
  <1>6. EndWritten(j)
    BY ONLY p \in Proc, j \in MoveJob, g \in Group, h \in Group, <1>4, <1>5, EndWrites
  <1>w. /\ DOMAIN primary' = Group /\ DOMAIN overflow' = Block
        /\ \A l \in Loc : l \notin Held(j) => BlockAt(l)' = BlockAt(l)
        /\ \A i \in 1..Len(j.tgt) : BlockAt(j.tgt[i].loc)' = j.tgt[i].buff
    BY <1>6 DEF EndWritten
  \* What is written is of the two groups.
  <1>7. \A l \in Held(j) : \/ InGroup(own, l, g) \/ InGroup(own, l, h)
    <2>1. \A i \in 1..Len(j.tgt) : InGroup(own, j.tgt[i].loc, g) \/ InGroup(own, j.tgt[i].loc, h)
      BY <1>m DEF GoalAt
    <2>2. InGroup(own, <<"p", h>>, h)
      BY DEF InGroup
    <2> QED BY <1>m, <2>1, <2>2 DEF Held, Working
  <1>8. \A b \in Block : own[b] # GroupChain(g) /\ own[b] # GroupChain(h) => overflow'[b] = overflow[b]
    <2>1. SUFFICES ASSUME NEW b \in Block, own[b] # GroupChain(g), own[b] # GroupChain(h)
                   PROVE  overflow'[b] = overflow[b]
      OBVIOUS
    <2>2. <<"o", b>> \in Loc /\ <<"o", b>> \notin Held(j)
      BY <1>7, <2>1 DEF Loc, InGroup
    <2>3. BlockAt(<<"o", b>>)' = BlockAt(<<"o", b>>)
      BY <1>w, <2>2
    <2> QED BY <2>3 DEF BlockAt
  <1>9. \A x \in Group : x \notin {g, h} => primary'[x] = primary[x]
    <2>1. SUFFICES ASSUME NEW x \in Group, x \notin {g, h} PROVE primary'[x] = primary[x]
      OBVIOUS
    <2>2. <<"p", x>> \in Loc /\ <<"p", x>> \notin Held(j)
      BY <1>7, <2>1 DEF Loc, InGroup
    <2>3. BlockAt(<<"p", x>>)' = BlockAt(<<"p", x>>)
      BY <1>w, <2>2
    <2> QED BY <2>3 DEF BlockAt
  \* The source is empty.
  <1>10. ct[BufferOf(p)] = <<>> /\ hd[SourceChain(p)] = 0
    BY <1>3, <1>m DEF EmptyBlock, GroupBlock
  <1>11. len[SourceChain(p)] = 0 /\ len[SourceBlock(p)] = 0
    <2>1. \A w \in Owner : hd[w] = 0 <=> len[w] = 0
      BY ONLY <1>g, ChainFacts
    <2> QED BY <1>3, <1>m, <1>10, <2>1, AllOwners
  <1>12. \A b \in Block : own[b] # SourceChain(p)
    <2>1. \A b \in Block : own[b] # NoOne => len[own[b]] # 0
      BY ONLY <1>g, ChainFacts
    <2>2. SourceChain(p) # NoOne
      BY Kinds
    <2> QED BY <1>11, <2>1, <2>2
  <1>13. \A k \in Key : spot[k] # BufferOf(p)
    <2>1. SUFFICES ASSUME NEW k \in Key, spot[k] = BufferOf(p) PROVE FALSE
      OBVIOUS
    <2>2. BufferOf(p) # Nowhere
      BY DEF BufferOf, Nowhere
    <2>3. \E i \in 1..Len(ct[spot[k]]) : ct[spot[k]][i].key = k
      BY <1>g, <2>1, <2>2 DEF Placed
    <2> QED BY <1>10, <2>1, <2>3
  <1>14. Becomes(job, jb2, p, Idle)
    BY <1>2, <1>3, <1>g DEF Becomes, Do, Job
  <1>15. jb2[p] = Idle /\ \A q \in Proc : q # p => jb2[q] = job[q]
    BY <1>14, <1>g DEF Becomes
  <1>16. \A x \in Group : locked'[x] = IF x \in {g, h} THEN None ELSE locked[x]
    BY <1>3, <1>m DEF Unlock
  <1>17. ResizeLocks(p, g, h, jb2, Idle, base, base)
    <2>1. \A x \in Group : Touched(p, x) <=> x \in {g, h}
      BY <1>m, <1>16, <1>g DEF Touched
    <2>2. \A x \in Group : IF x \in {g, h} THEN locked[x] \in {p, None} /\ locked'[x] \in {p, None}
                      ELSE locked'[x] = locked[x] /\ (x \in 1..modulus' <=> x \in 1..modulus)
      BY <1>3, <1>m, <1>16
    <2>3. locked' \in [Group -> Proc \cup {None}]
      BY <1>3, <1>g DEF Unlock
    <2>4. ParamsOK(modulus, modValue)' /\ modulus' \in MinMod..MaxMod
      BY <1>3, <1>g
    <2>5. \A k \in Key : Home(k)' = Home(k)
      BY <1>3 DEF Home
    <2>6. LocksOK(jb2, p, base)'
      <3>1. jb2[p].at = "idle"
        BY <1>15 DEF Idle
      <3>2. \A x \in Group : locked'[x] # p
        BY <1>m, <1>16, <1>g
      <3> QED BY <3>1, <3>2 DEF LocksOK, Working, Moving
    <2> QED BY <1>3, <1>m, <2>1, <2>2, <2>3, <2>4, <2>5, <2>6 DEF ResizeLocks, Idle
  <1>18. ResizeSame(p, g, h, own, len, hd, nx, ct, spot, own, len, hd, nx, ct, spot)
    BY <1>w, <1>8, <1>9 DEF ResizeSame, MoveChain
  <1>19. SpaceOK(jb2, own, len, hd)'
    <2>1. freeChain' = hd[Free] /\ extent' = extent /\ modulus' = modulus
      BY <1>3, <1>g
    <2>2. HeaderOK(jb2, own)'
      <3>1. NamesFree(freeChain, own)
        BY ONLY <1>g, HeadFree
      <3> QED BY ONLY p \in Proc, <1>3, <1>g, <3>1, HeaderPut
    <2> QED BY <1>g, <2>1, <2>2 DEF SpaceOK
  <1>20. ResizeBlocks(p, g, h, Idle, own, hd, nx, ct)
    <2>1. ASSUME NEW l \in Loc, NEW x \in {g, h}, x \in 1..modulus', InGroup(own, l, x)
          PROVE  BlockAt(l)' = GroupBlock(ct[l], NextOf(hd, nx, l))
      <3>1. x \in 1..modulus
        BY <1>3, <2>1
      <3>2. CASE l \notin Held(j)
        <4>1. BlockAt(l) = GroupBlock(ct[l], NextOf(hd, nx, l))
          BY <1>m, <2>1, <3>1, <3>2
        <4>2. BlockAt(l)' = BlockAt(l)
          BY <1>w, <3>2
        <4> QED BY <4>1, <4>2
      <3>3. CASE \E i \in 1..Len(j.tgt) : l = j.tgt[i].loc
        <4>1. PICK i \in 1..Len(j.tgt) : l = j.tgt[i].loc
          BY <3>3
        <4>2. j.tgt[i].buff = GroupBlock(ct[j.tgt[i].loc], 0) /\ NextOf(hd, nx, j.tgt[i].loc) = 0
          BY <1>m
        <4>3. BlockAt(j.tgt[i].loc)' = j.tgt[i].buff
          BY <1>w
        <4> QED BY <4>1, <4>2, <4>3
      <3>4. CASE j.op = "merge" /\ l = <<"p", h>>
        <4>1. x = h
          BY <2>1, <3>4 DEF InGroup
        <4>2. h = modulus + 1 /\ modulus \in Nat
          BY <1>m, <1>g, <3>4
        <4> QED BY <3>1, <4>1, <4>2
      <3> QED BY <1>m, <3>2, <3>3, <3>4 DEF Held, Working
    <2>2. ASSUME NEW b \in Block, own[b] = Free PROVE overflow'[b].next = nx[b]
      <3>1. own[b] # GroupChain(g) /\ own[b] # GroupChain(h)
        BY <2>2, Kinds
      <3>2. overflow[b].next = nx[b]
        BY <1>g, <2>2 DEF DiskIs
      <3> QED BY <1>8, <3>1, <3>2
    <2> QED BY <1>12, <2>1, <2>2 DEF ResizeBlocks
  <1>21. ResizeKeys(g, h, jb2, own, spot, spot, base)
    <2>1. SUFFICES ASSUME NEW k \in Key PROVE HomeOK(jb2, k, own, spot, base)'
      BY DEF ResizeKeys
    <2>2. spot[k] = Nowhere \/ InGroup(own, spot[k], Home(k))
      BY <1>k, <1>12, <1>13
    <2>3. Home(k)' = Home(k)
      BY <1>3 DEF Home
    <2> QED BY <2>2, <2>3 DEF HomeOK
  <1>22. MoveOK(jb2, p, own, len, hd, nx, ct, base)'
    BY <1>11, <1>15 DEF MoveOK, Moving, Idle
  <1>23. Good(jb2, own, len, hd, nx, ct, spot, rec, base)'
    BY ONLY p \in Proc, g \in Group, h \in Group, <1>1, <1>14, <1>17, <1>18, <1>g, <1>19, <1>20, <1>21, <1>22,
            ResizeFrame
  <1>24. GoodAfter(jb2)
    BY <1>23 DEF GoodAfter
  <1> QED BY <1>2, <1>24, AfterIs

-----------------------------------------------------------------------------
(* The invariant holds                                                      *)

NothingOwned == [b \in Block |-> NoOne]
NoLength == [o \in Owner |-> 0]
NoNext == [b \in Block |-> 0]
NoContents == [l \in Spot |-> <<>>]
NoSpot == [k \in Key |-> Nowhere]
SomeRecord == [k \in Key |-> [key |-> k, size |-> LargeSize, head |-> 0]]
LEMMA InitGood ==
  ASSUME Init
  PROVE  IInv
  <1>1. PICK own, len, nx, ct, spot, rec :
          /\ own = NothingOwned /\ len = NoLength /\ nx = NoNext /\ ct = NoContents
          /\ spot = NoSpot /\ rec = SomeRecord
    OBVIOUS
  <1>2. /\ \A b \in Block : own[b] = NoOne /\ nx[b] = 0
        /\ \A o \in Owner : len[o] = 0
        /\ \A l \in Spot : ct[l] = <<>>
        /\ \A k \in Key : spot[k] = Nowhere
    BY <1>1 DEF NothingOwned, NoLength, NoNext, NoContents, NoSpot
  <1>3. /\ MinMod \in Nat \ {0} /\ MaxMod \in Nat /\ MinMod <= MaxMod /\ MaxBlock \in Nat
        /\ LargeSize \in Size /\ None \notin Proc
    BY DHBlocksAssumption
  <1>4. Chained(own, len, len, nx)
    <2>1. own \in [Block -> Owner \cup {NoOne}] /\ len \in [Owner -> Nat] /\ nx \in [Block -> Nat]
      BY <1>1 DEF NothingOwned, NoLength, NoNext
    <2>2. Positions(own, len, len, nx, nx)
      BY <1>2 DEF Positions
    <2> QED BY <2>1, <2>2 DEF Chained
  <1>5. Placed(ct, spot, rec)
    <2>1. ct \in [Spot -> Seq(Record)] /\ spot \in [Key -> Spot \cup {Nowhere}]
      BY <1>1 DEF NoContents, NoSpot
    <2>2. rec \in [Key -> Record]
      BY <1>1, <1>3 DEF SomeRecord, Record
    <2> QED BY <1>2, <2>1, <2>2 DEF Placed
  <1>6. /\ modulus = MinMod /\ modValue \in MinMod..2 * MinMod - 1 /\ PowerOfTwo(modValue)
        /\ primary = [g \in Group |-> IF g <= MinMod THEN EmptyBlock ELSE Unmade]
        /\ overflow = [b \in Block |-> EmptyBlock]
        /\ extent = 0 /\ freeChain = 0 /\ onDisk = 0
        /\ image = [p \in Proc |-> NoImage]
        /\ locked = [g \in Group |-> None] /\ header = None
        /\ job = [p \in Proc |-> Idle] /\ store = [k \in Key |-> Absent]
    BY DEF Init
  <1>7. ParamsOK(modulus, modValue)
    <2>1. PICK d : d = modValue \div 2
      OBVIOUS
    <2>2. modValue \in Nat /\ d \in Int /\ 2 * d <= modValue
      BY <1>3, <1>6, <2>1
    <2>3. d < modulus /\ modulus <= modValue
      BY <1>3, <1>6, <2>2
    <2> QED BY <1>3, <1>6, <2>1, <2>3 DEF ParamsOK
  <1>8. FixedOK(job)
    <2>1. Idle \in Job
      BY DEF Job
    <2>2. job \in [Proc -> Job] /\ locked \in [Group -> Proc \cup {None}]
      BY <1>6, <2>1
    <2>3. store \in [Key -> [size : Nat, data : Nat]]
      BY <1>6 DEF Absent
    <2> QED BY <1>3, <1>6, <1>7, <2>2, <2>3 DEF FixedOK
  <1>9. \A p \in Proc : job[p] = Idle /\ job[p].at = "idle"
    BY <1>6 DEF Idle
  <1>10. OneMover(job)
    BY <1>9 DEF OneMover, Moving
  <1>11. SpaceOK(job, own, len, len)
    <2>1. \A b \in Block : own[b] = NoOne <=> b > extent
      BY <1>2, <1>6 DEF Block
    <2>2. \A g \in Group : g > modulus => len[GroupChain(g)] = 0
      BY <1>2, AllOwners
    <2>3. HeaderOK(job, own)
      BY <1>6 DEF HeaderOK, NamesFree
    <2> QED BY <1>2, <1>3, <1>6, <2>1, <2>2, <2>3, AllOwners DEF SpaceOK
  <1>12. \A g \in 1..modulus : GroupOnDisk(job, g, len, ct)
    <2>1. SUFFICES ASSUME NEW g \in 1..modulus PROVE primary[g] = GroupBlock(ct[<<"p", g>>], len[GroupChain(g)])
      BY DEF GroupOnDisk
    <2>2. g \in Group /\ g <= MinMod
      BY <1>3, <1>6 DEF Group
    <2>3. <<"p", g>> \in Spot
      BY <2>2 DEF Spot, Loc
    <2>4. ct[<<"p", g>>] = <<>> /\ len[GroupChain(g)] = 0
      BY <1>2, <2>2, <2>3, AllOwners
    <2> QED BY <1>6, <2>2, <2>4 DEF EmptyBlock
  <1>13. \A b \in Block : BlockOnDisk(job, b, own, nx, ct)
    BY <1>2, Kinds DEF BlockOnDisk
  <1>14. \A k \in Key : HomeOK(job, k, own, spot, len) /\ StoreOK(job, k, len, len, spot, rec)
    <2>1. SUFFICES ASSUME NEW k \in Key
                   PROVE  HomeOK(job, k, own, spot, len) /\ StoreOK(job, k, len, len, spot, rec)
      OBVIOUS
    <2>2. spot[k] = Nowhere /\ len[DataChain(k)] = 0 /\ store[k] = Absent
      BY <1>2, <1>6, AllOwners
    <2> QED BY <2>2 DEF HomeOK, StoreOK
  <1>15. \A p \in Proc : JobOK(job, p, own, len, len, nx, ct, spot, rec, len)
    <2>1. SUFFICES ASSUME NEW p \in Proc PROVE JobOK(job, p, own, len, len, nx, ct, spot, rec, len)
      OBVIOUS
    <2>2. job[p].at = "idle" /\ job[p].at \notin Working /\ ~Moving(job, p)
      BY <1>9 DEF Working, Moving
    <2>3. \A g \in Group : locked[g] # p
      BY <1>3, <1>6
    <2>4. /\ len[NewChain(p)] = 0 /\ len[OldChain(p)] = 0
          /\ len[SourceChain(p)] = 0 /\ len[SourceBlock(p)] = 0
      BY <1>2, AllOwners
    <2>5. LocksOK(job, p, len)
      BY <2>2, <2>3 DEF LocksOK
    <2>6. NewOK(job, p, len, len) /\ OldOK(job, p, len, len)
      BY <2>2, <2>4 DEF NewOK, OldOK
    <2>7. WorkOK(job, p, own, len, len, nx, ct, spot, rec)
      BY <2>2 DEF WorkOK
    <2>8. MoveOK(job, p, own, len, len, nx, ct, len)
      BY <2>2, <2>4 DEF MoveOK
    <2> QED BY <2>5, <2>6, <2>7, <2>8 DEF JobOK
  <1>16. Good(job, own, len, len, nx, ct, spot, rec, len)
    BY <1>4, <1>5, <1>8, <1>10, <1>11, <1>12, <1>13, <1>14, <1>15 DEF Good
  <1> QED BY <1>16 DEF IInv

\* Nothing changes but the header on the disk, or the copies of it.
LEMMA HeaderStep ==
  ASSUME IInv,
         UNCHANGED <<modulus, modValue, blocks, extent, freeChain, locked, header, job, store>>,
         \A own : HeaderOK(job, own) /\ NamesFree(freeChain, own) => HeaderOK(job, own)'
  PROVE  IInv'
  <1>1. PICK own, len, hd, nx, ct, spot, rec, base : Good(job, own, len, hd, nx, ct, spot, rec, base)
    BY DEF IInv
  <1>2. /\ modulus' = modulus /\ modValue' = modValue /\ primary' = primary /\ overflow' = overflow
        /\ extent' = extent /\ freeChain' = freeChain
        /\ locked' = locked /\ header' = header /\ job' = job /\ store' = store
    BY DEF blocks
  <1>3. Chained(own, len, hd, nx) /\ Placed(ct, spot, rec) /\ OneMover(job)
    BY <1>1 DEF Good
  <1>4. FixedOK(job)' /\ SpaceOK(job, own, len, hd)'
    <2>1. HeaderOK(job, own)'
      BY <1>1, <1>3, HeadFree DEF Good, SpaceOK
    <2> QED BY <1>1, <1>2, <2>1 DEF Good, FixedOK, SpaceOK
  <1>5. OneMover(job)'
    BY <1>2, <1>3 DEF OneMover, Moving
  <1>6. (\A g \in 1..modulus : GroupOnDisk(job, g, hd, ct))'
    BY <1>1, <1>2 DEF Good, GroupOnDisk, Written
  <1>7. (\A b \in Block : BlockOnDisk(job, b, own, nx, ct))'
    BY <1>1, <1>2 DEF Good, BlockOnDisk, Written
  <1>8. \A k \in Key : HomeOK(job, k, own, spot, base)' /\ StoreOK(job, k, len, hd, spot, rec)'
    <2>1. SUFFICES ASSUME NEW k \in Key
                   PROVE  HomeOK(job, k, own, spot, base)' /\ StoreOK(job, k, len, hd, spot, rec)'
      OBVIOUS
    <2>2. HomeOK(job, k, own, spot, base) /\ StoreOK(job, k, len, hd, spot, rec)
      BY <1>1 DEF Good
    <2>3. Home(k)' = Home(k)
      BY <1>2 DEF Home
    <2>4. HomeOK(job, k, own, spot, base)'
      BY <1>2, <2>2, <2>3 DEF HomeOK, Moving, Goals
    <2>5. StoreOK(job, k, len, hd, spot, rec)'
      BY <1>2, <2>2 DEF StoreOK, Busy
    <2> QED BY <2>4, <2>5
  <1>9. \A p \in Proc : JobOK(job, p, own, len, hd, nx, ct, spot, rec, base)'
    <2>1. SUFFICES ASSUME NEW p \in Proc PROVE JobOK(job, p, own, len, hd, nx, ct, spot, rec, base)'
      OBVIOUS
    <2>2. JobOK(job, p, own, len, hd, nx, ct, spot, rec, base)
      BY <1>1 DEF Good
    <2>3. \A k : Home(k)' = Home(k)
      BY <1>2 DEF Home
    <2>4. \A l : BlockAt(l)' = BlockAt(l)
      BY <1>2 DEF BlockAt
    <2>5. LocksOK(job, p, base)'
      BY <1>2, <2>2, <2>3 DEF JobOK, LocksOK, Moving
    <2>6. NewOK(job, p, len, hd)' /\ OldOK(job, p, len, hd)'
      BY <1>2, <2>2 DEF JobOK, NewOK, OldOK
    <2>7. WorkOK(job, p, own, len, hd, nx, ct, spot, rec)'
      BY <1>2, <2>2, <2>3, <2>4 DEF JobOK, WorkOK
    <2>8. MoveOK(job, p, own, len, hd, nx, ct, base)'
      BY <1>2, <2>2 DEF JobOK, MoveOK, Moving
    <2> QED BY <2>5, <2>6, <2>7, <2>8 DEF JobOK
  <1>10. Good(job, own, len, hd, nx, ct, spot, rec, base)'
    BY <1>3, <1>4, <1>5, <1>6, <1>7, <1>8, <1>9 DEF Good
  <1>11. GoodAfter(job)
    BY <1>2, <1>10 DEF GoodAfter
  <1> QED BY <1>2, <1>11, AfterIs

LEMMA CopyHeaderStep ==
  ASSUME IInv, NEW p \in Proc, CopyHeader(p)
  PROVE  IInv'
  <1>1. /\ UNCHANGED <<modulus, modValue, blocks, extent, freeChain, locked, header, job, store>>
        /\ UNCHANGED <<onDisk, late, stale>> /\ image' = [image EXCEPT ![p] = freeChain]
    BY DEF CopyHeader
  <1>2. ASSUME NEW own, HeaderOK(job, own), NamesFree(freeChain, own)
        PROVE  HeaderOK(job, own)'
    <2>1. ASSUME NEW q \in Proc
          PROVE  image'[q] = NoImage \/ q \in late' \/ NamesFree(image[q], own)'
      <3>1. image'[q] = IF q = p THEN freeChain ELSE image[q]
        BY <1>1, <1>2 DEF HeaderOK
      <3> QED BY <1>1, <1>2, <3>1 DEF HeaderOK, NamesFree
    <2>2. DOMAIN image' = Proc
      BY <1>1, <1>2 DEF HeaderOK
    <2>3. NamesFree(onDisk, own)' \/ stale' \/ \E q \in Proc : job'[q].at = "flush"
      BY <1>1, <1>2 DEF HeaderOK, NamesFree
    <2> QED BY <2>1, <2>2, <2>3 DEF HeaderOK
  <1> QED BY <1>1, <1>2, HeaderStep

LEMMA NextGood ==
  ASSUME NeverFull, IInv, [Next]_vars
  PROVE  IInv'
  <1>1. CASE UNCHANGED vars
    <2>1. /\ UNCHANGED <<modulus, modValue, blocks, extent, freeChain, locked, header, job, store>>
          /\ onDisk' = onDisk /\ image' = image /\ late' = late /\ stale' = stale /\ job' = job
      BY <1>1 DEF vars, space, flushed
    <2>2. ASSUME NEW own, HeaderOK(job, own)
          PROVE  HeaderOK(job, own)'
      BY <2>1, <2>2 DEF HeaderOK, NamesFree
    <2> QED BY <2>1, <2>2, HeaderStep
  <1>2. CASE Next
    <2>1. PICK p \in Proc :
            \/ \E k \in Key, s \in Size : WriteRecord(p, k, s)
            \/ \E k \in Key, n \in Data : WriteData(p, k, LargeSize, n)
            \/ \E n \in Data : DataFails(p, n)
            \/ CopyHeader(p) \/ CloseFile(p) \/ LeaveFile(p)
            \/ FlushHeader(p) \/ PlaceLarge(p)
            \/ \E k \in Key : Delete(p, k)
            \/ Unchain(p) \/ Compact(p) \/ Add(p) \/ AddFails(p) \/ WriteLast(p) \/ FreeOldData(p)
            \/ Split(p) \/ Merge(p) \/ Move(p) \/ MoveFails(p)
            \/ NextSource(p) \/ LastSource(p) \/ EndResize(p)
      BY <1>2 DEF Next
    <2>2. ~MoveFails(p)
      BY DEF MoveFails, NeverFull
    <2>3. CASE \E k \in Key, s \in Size : WriteRecord(p, k, s)
      BY <2>3, WriteRecordStep
    <2>4. CASE \E k \in Key, n \in Data : WriteData(p, k, LargeSize, n)
      BY <2>4, WriteDataStep
    <2>5. CASE \E n \in Data : DataFails(p, n)
      BY <2>5, DataFailsStep
    <2>12. CASE CopyHeader(p) \/ CloseFile(p) \/ LeaveFile(p)
      BY <2>12, CopyHeaderStep, CloseFileStep, LeaveFileStep
    <2>6. CASE FlushHeader(p) \/ PlaceLarge(p)
      BY <2>6, FlushHeaderStep, PlaceLargeStep
    <2>7. CASE \E k \in Key : Delete(p, k)
      BY <2>7, DeleteStep
    <2>8. CASE Unchain(p) \/ Compact(p) \/ Add(p)
      BY <2>8, UnchainStep, CompactStep, AddStep
    <2>9. CASE AddFails(p) \/ WriteLast(p) \/ FreeOldData(p)
      BY <2>9, AddFailsStep, WriteLastStep, FreeOldDataStep
    <2>10. CASE Split(p) \/ Merge(p) \/ Move(p)
      BY <2>10, SplitStep, MergeStep, MoveStep
    <2>11. CASE NextSource(p) \/ LastSource(p) \/ EndResize(p)
      BY <2>11, NextSourceStep, LastSourceStep, EndResizeStep
    <2> QED BY <2>1, <2>2, <2>3, <2>4, <2>5, <2>6, <2>7, <2>8, <2>9, <2>10, <2>11, <2>12
  <1> QED BY <1>1, <1>2

\* The inductive invariant: between any two of the steps that dh_write(),
\* dh_delete(), dh_split() and dh_merge() write blocks in, every block is in its
\* place of one chain, each record in one place, and what is not on the disk yet is in
\* the buffer of the process that will write it.
THEOREM BlocksInvariant ==
  ASSUME NeverFull
  PROVE  Spec => []IInv
  <1>1. Init => IInv
    BY InitGood
  <1>2. IInv /\ [Next]_vars => IInv'
    BY NextGood
  <1> QED BY <1>1, <1>2, PTL DEF Spec

-----------------------------------------------------------------------------
(* What the invariant says of the file                                      *)

\* From any block of a chain on, Chain() stays in that chain.
LEMMA ChainInside ==
  ASSUME NEW own, NEW len, NEW hd, NEW nx, Chained(own, len, hd, nx), NEW o \in Owner,
         \A b \in Block : own[b] = o => overflow[b].next = nx[b],
         NEW a, a = 0 \/ (a \in Block /\ own[a] = o)
  PROVE  \A b \in Range(Chain(a)) : b \in Block /\ own[b] = o
  <1>1. PICK w : w = Walk(a)
    OBVIOUS
  <1>2. w = [n \in 0..MaxBlock |-> IF n = 0 THEN a ELSE After(w[n - 1])]
    BY <1>1, WalkIs
  <1>3. MaxBlock \in Nat /\ 0 \notin Block /\ o # NoOne
    BY DHBlocksAssumption, BlockNat, AllOwners
  <1>4. \A b \in Block : own[b] = o => nx[b] = 0 \/ (nx[b] \in Block /\ own[nx[b]] = o)
    <2>1. \A b \in Block : own[b] # NoOne /\ nx[b] # 0 => nx[b] \in Block /\ own[nx[b]] = own[b] /\ nx[b] # b
      BY ChainFacts
    <2> QED BY <1>3, <2>1
  <1> DEFINE In(x) == x = 0 \/ (x \in Block /\ own[x] = o)
             I == {n \in Nat : n <= MaxBlock => In(w[n])}
  <1>5. \A n \in 0..MaxBlock : In(w[n])
    <2>1. 0 \in I
      BY <1>2, <1>3
    <2>2. ASSUME NEW n \in Nat, n \in I PROVE n + 1 \in I
      <3>1. SUFFICES ASSUME n + 1 <= MaxBlock PROVE In(w[n + 1])
        OBVIOUS
      <3>2. In(w[n]) /\ w[n + 1] = After(w[n])
        BY <1>2, <1>3, <2>2, <3>1
      <3> QED BY <1>3, <1>4, <3>2 DEF After
    <2> HIDE DEF In
    <2>3. I \in SUBSET Nat
      OBVIOUS
    <2>4. I = Nat
      <3> HIDE DEF I
      <3> QED BY <2>1, <2>2, <2>3, NatSteps
    <2> QED BY <1>3, <2>4
  \* Once it has come to 0 it stays there.
  <1>6. \A n \in 0..MaxBlock - 1 : w[n] = 0 => w[n + 1] = 0
    BY <1>2, <1>3 DEF After
  <1>7. \E n \in 0..MaxBlock + 1 : \A i \in 0..MaxBlock : w[i] # 0 <=> i < n
    <2>1. CASE \A i \in 0..MaxBlock : w[i] # 0
      <3>1. MaxBlock + 1 \in 0..MaxBlock + 1 /\ \A i \in 0..MaxBlock : i < MaxBlock + 1
        BY <1>3
      <3> QED BY <2>1, <3>1
    <2>2. CASE \E i \in 0..MaxBlock : w[i] = 0
      <3>1. PICK Z : Z = {i \in 0..MaxBlock : w[i] = 0}
        OBVIOUS
      <3>2. Z \in SUBSET Nat /\ Z # {}
        BY <1>3, <2>2, <3>1
      <3>3. PICK z \in Z : \A i \in Z : z <= i
        BY <3>2, LeastNat
      <3>4. z \in 0..MaxBlock /\ w[z] = 0 /\ \A i \in 0..MaxBlock : w[i] = 0 => z <= i
        BY <3>1, <3>3
      <3> DEFINE J == {n \in Nat : n >= z /\ n <= MaxBlock => w[n] = 0}
      <3>5. J = Nat
        <4>1. 0 \in J
          BY <1>3, <3>4
        <4>2. ASSUME NEW n \in Nat, n \in J PROVE n + 1 \in J
          <5>1. SUFFICES ASSUME n + 1 >= z, n + 1 <= MaxBlock PROVE w[n + 1] = 0
            OBVIOUS
          <5>2. CASE n + 1 = z
            BY <3>4, <5>2
          <5>3. CASE n + 1 # z
            <6>1. n >= z /\ n <= MaxBlock /\ n \in 0..MaxBlock - 1
              BY <1>3, <3>4, <5>1, <5>3
            <6> QED BY <1>6, <4>2, <6>1
          <5> QED BY <5>2, <5>3
        <4>3. J \in SUBSET Nat
          OBVIOUS
        <4> HIDE DEF J
        <4> QED BY <4>1, <4>2, <4>3, NatSteps
      <3>6. \A i \in 0..MaxBlock : w[i] # 0 <=> i < z
        <4>1. SUFFICES ASSUME NEW i \in 0..MaxBlock PROVE w[i] # 0 <=> i < z
          OBVIOUS
        <4>2. i \in Nat /\ i <= MaxBlock /\ i \in J
          BY <1>3, <3>5
        <4> QED BY <3>4, <4>2
      <3>7. z \in 0..MaxBlock + 1
        BY <1>3, <3>4
      <3> QED BY <3>6, <3>7
    <2> QED BY <2>1, <2>2
  <1>8. PICK N : N = CHOOSE n \in 0..MaxBlock + 1 : \A i \in 0..MaxBlock : w[i] # 0 <=> i < n
    OBVIOUS
  <1>9. N \in 0..MaxBlock + 1 /\ \A i \in 0..MaxBlock : w[i] # 0 <=> i < N
    BY <1>7, <1>8
  <1>10. Chain(a) = [i \in 1..N |-> w[i - 1]]
    BY <1>1, <1>8 DEF Chain
  <1>11. SUFFICES ASSUME NEW b \in Range(Chain(a)) PROVE b \in Block /\ own[b] = o
    OBVIOUS
  <1>12. PICK i \in 1..N : b = w[i - 1]
    BY <1>10 DEF Range
  <1>13. i - 1 \in 0..MaxBlock /\ i - 1 < N
    BY <1>3, <1>9
  <1> QED BY <1>5, <1>9, <1>12, <1>13

\* The records in the slots of a group that nobody has locked.
SlotsHold(g, spot, rec) ==
  /\ \A s \in Slots(g) : \E k \in Key :
       /\ Home(k) = g /\ spot[k] # Nowhere /\ InSlot(g, s) = rec[k] /\ rec[k].key = k
       /\ spot[k] = Places(g)[s[1]]
  /\ \A s, t \in Slots(g) : InSlot(g, s).key = InSlot(g, t).key => s = t
  /\ \A k \in Key : Home(k) = g /\ spot[k] # Nowhere =>
       \E s \in Slots(g) : InSlot(g, s) = rec[k] /\ rec[k].key = k
SlotAt(s, ls, ct, i, j) == i \in 1..Len(ls) /\ j \in 1..Len(ct[ls[i]]) /\ s = <<i, j>>
LEMMA SlotRecords ==
  ASSUME NEW own, NEW len, NEW hd, NEW nx, NEW ct, NEW spot, NEW rec, NEW base,
         Good(job, own, len, hd, nx, ct, spot, rec, base), NEW g \in 1..modulus, Unlocked(g)
  PROVE  SlotsHold(g, spot, rec)
  <1>1. PICK ls : ls = Places(g)
    OBVIOUS
  <1>2. Along(ls, g, own, hd, nx, ct)
    BY <1>1, GroupPlaces DEF Unlocked
  <1>3. /\ ls \in Seq(Loc) /\ Len(ls) \in Nat
        /\ \A i \in 1..Len(ls) : ls[i] \in Loc /\ ls[i] \in Spot /\ InGroup(own, ls[i], g)
        /\ \A i \in 1..Len(ls) : BlockAt(ls[i]) = GroupBlock(ct[ls[i]], NextOf(hd, nx, ls[i]))
        /\ \A l \in Loc : InGroup(own, l, g) => \E i \in 1..Len(ls) : ls[i] = l
        /\ \A i, j \in 1..Len(ls) : ls[i] = ls[j] => i = j
    BY <1>2 DEF Along, Spot
  <1>4. \A i \in 1..Len(ls) : RecordsAt(ls[i]) = ct[ls[i]]
    <2>1. \A x, n : "recs" \in DOMAIN GroupBlock(x, n) /\ GroupBlock(x, n).recs = x
      BY DEF GroupBlock
    <2>2. SUFFICES ASSUME NEW i \in 1..Len(ls) PROVE RecordsAt(ls[i]) = ct[ls[i]]
      OBVIOUS
    <2>3. BlockAt(ls[i]) = GroupBlock(ct[ls[i]], NextOf(hd, nx, ls[i]))
      BY <1>3
    <2> QED BY <2>1, <2>3 DEF RecordsAt, OfGroup
  <1>5. \A s : s \in Slots(g) <=> \E i, j : SlotAt(s, ls, ct, i, j)
    <2>1. SUFFICES ASSUME NEW s PROVE s \in Slots(g) <=> \E i, j : SlotAt(s, ls, ct, i, j)
      OBVIOUS
    <2>2. s \in Slots(g) <=> \E i \in 1..Len(ls) : s \in {i} \X (1..Len(RecordsAt(ls[i])))
      BY <1>1 DEF Slots
    <2>3. \A i \in 1..Len(ls) :
            s \in {i} \X (1..Len(RecordsAt(ls[i]))) <=> \E j \in 1..Len(ct[ls[i]]) : s = <<i, j>>
      BY <1>4
    <2> QED BY <2>2, <2>3 DEF SlotAt
  <1>6. \A i \in 1..Len(ls) : \A j \in 1..Len(ct[ls[i]]) : InSlot(g, <<i, j>>) = ct[ls[i]][j]
    BY <1>1, <1>4 DEF InSlot
  <1>7. /\ Placed(ct, spot, rec)
        /\ \A k \in Key : HomeOK(job, k, own, spot, base)
    BY GoodFacts
  <1>8. ASSUME NEW i \in 1..Len(ls), NEW j \in 1..Len(ct[ls[i]])
        PROVE  \E k \in Key :
                 /\ k = ct[ls[i]][j].key /\ spot[k] = ls[i] /\ rec[k] = ct[ls[i]][j] /\ spot[k] # Nowhere
                 /\ Home(k) = g
    <2>1. PICK l \in Spot : l = ls[i]
      BY <1>3
    <2>2. l # Nowhere /\ \A n \in 1..Len(ct[l]) : ct[l][n].key \in Key /\ spot[ct[l][n].key] = l
      BY <1>7, <2>1, PlacedFacts
    <2>3. PICK k \in Key : k = ct[l][j].key /\ spot[k] = l
      BY <2>1, <2>2
    <2>4. rec[k] = ct[l][j]
      BY <1>7, <2>1, <2>3 DEF Placed
    <2>5. l \in Loc /\ InGroup(own, l, g)
      BY <1>3, <2>1
    <2>6. InGroup(own, l, Home(k))
      <3>1. \A q : l # BufferOf(q)
        BY <2>5 DEF Loc, BufferOf
      <3>2. ASSUME NEW q, NEW b \in Block, l = <<"o", b>>, own[b] = SourceChain(q) PROVE FALSE
        <4>1. own[b] = GroupChain(g)
          BY <2>5, <3>2 DEF InGroup
        <4>2. GroupChain(g)[1] = "group" /\ SourceChain(q)[1] = "source"
          BY Kinds
        <4> QED BY <3>2, <4>1, <4>2
      <3> QED BY <1>7, <2>2, <2>3, <3>1, <3>2 DEF HomeOK
    <2>7. Home(k) = g
      BY <2>5, <2>6, InOneGroup
    <2> QED BY <2>1, <2>2, <2>3, <2>4, <2>7
  <1>9. ASSUME NEW s \in Slots(g)
        PROVE  \E k \in Key :
                 /\ Home(k) = g /\ spot[k] # Nowhere /\ InSlot(g, s) = rec[k] /\ rec[k].key = k
                 /\ spot[k] = Places(g)[s[1]]
    <2>1. PICK i, j : i \in 1..Len(ls) /\ j \in 1..Len(ct[ls[i]]) /\ s = <<i, j>>
      BY <1>5 DEF SlotAt
    <2>2. PICK k \in Key :
            /\ k = ct[ls[i]][j].key /\ spot[k] = ls[i] /\ rec[k] = ct[ls[i]][j] /\ spot[k] # Nowhere
            /\ Home(k) = g
      BY <1>8, <2>1
    <2>3. InSlot(g, s) = rec[k] /\ s[1] = i
      BY <1>6, <2>1, <2>2
    <2> QED BY <1>1, <2>2, <2>3
  <1>10. ASSUME NEW s \in Slots(g), NEW t \in Slots(g), InSlot(g, s).key = InSlot(g, t).key
         PROVE  s = t
    <2>1. PICK i, j : i \in 1..Len(ls) /\ j \in 1..Len(ct[ls[i]]) /\ s = <<i, j>>
      BY <1>5 DEF SlotAt
    <2>2. PICK m, n : m \in 1..Len(ls) /\ n \in 1..Len(ct[ls[m]]) /\ t = <<m, n>>
      BY <1>5 DEF SlotAt
    <2>3. ct[ls[i]][j].key = ct[ls[m]][n].key
      BY <1>6, <1>10, <2>1, <2>2
    <2>4. spot[ct[ls[i]][j].key] = ls[i] /\ spot[ct[ls[m]][n].key] = ls[m]
      <3>1. spot[ct[ls[i]][j].key] = ls[i]
        BY <1>8, <2>1
      <3>2. spot[ct[ls[m]][n].key] = ls[m]
        BY <1>8, <2>2
      <3> QED BY <3>1, <3>2
    <2>5. i = m
      <3>1. ls[i] = ls[m]
        BY <2>3, <2>4
      <3> QED BY <1>3, <2>1, <2>2, <3>1
    <2>6. ls[i] \in Spot /\ n \in 1..Len(ct[ls[i]]) /\ ct[ls[i]][j].key = ct[ls[i]][n].key
      BY <1>3, <2>1, <2>2, <2>3, <2>5
    <2>7. j = n
      BY <1>7, <2>1, <2>6 DEF Placed
    <2> QED BY <2>1, <2>2, <2>5, <2>7
  <1>11. ASSUME NEW k \in Key, Home(k) = g, spot[k] # Nowhere
         PROVE  \E s \in Slots(g) : InSlot(g, s) = rec[k] /\ rec[k].key = k
    <2>1. spot[k] \in Loc /\ InGroup(own, spot[k], g)
      BY <1>11, HomeFree DEF Unlocked
    <2>2. PICK i \in 1..Len(ls) : ls[i] = spot[k]
      BY <1>3, <2>1
    <2>3. PICK j \in 1..Len(ct[ls[i]]) : ct[ls[i]][j].key = k
      BY <1>7, <1>11, <2>2 DEF Placed
    <2>4. rec[k] = ct[ls[i]][j]
      BY <1>8, <2>3
    <2>5. <<i, j>> \in Slots(g) /\ InSlot(g, <<i, j>>) = rec[k]
      <3>1. SlotAt(<<i, j>>, ls, ct, i, j)
        BY DEF SlotAt
      <3> QED BY <1>5, <1>6, <2>4, <3>1
    <2> QED BY <2>3, <2>4, <2>5
  <1> QED BY <1>9, <1>10, <1>11 DEF SlotsHold

\* A group that nobody has locked holds exactly the records that were written to it.
LEMMA GoodIntact ==
  ASSUME IInv
  PROVE  GroupsIntact
  <1>1. PICK own, len, hd, nx, ct, spot, rec, base : Good(job, own, len, hd, nx, ct, spot, rec, base)
    BY DEF IInv
  <1>g. Chained(own, len, hd, nx) /\ Placed(ct, spot, rec) /\ DiskIs(own, nx, ct)
    BY <1>1, GoodFacts, DiskFacts
  <1>2. SUFFICES ASSUME NEW g \in 1..modulus, locked[g] = None
                 PROVE  /\ Len(Places(g)) <= MaxBlock + 1
                        /\ Made(g) => \A i \in 1..Len(Places(g)) : OfGroup(BlockAt(Places(g)[i]))
                        /\ \A s, t \in Slots(g) : InSlot(g, s).key = InSlot(g, t).key => s = t
                        /\ {InSlot(g, s).key : s \in Slots(g)} = {k \in Key : store[k] # Absent /\ Home(k) = g}
                        /\ \A s \in Slots(g) :
                             LET r == InSlot(g, s)
                                 c == Chain(r.head)
                             IN /\ r.size = store[r.key].size
                                /\ Len(c) = store[r.key].data
                                /\ \A j \in 1..Len(c) : overflow[c[j]] = DataBlock(r.key, overflow[c[j]].next)
    BY DEF GroupsIntact
  <1>3. Unlocked(g)
    BY <1>2 DEF Unlocked
  <1>4. Along(Places(g), g, own, hd, nx, ct)
    BY <1>1, <1>2, GroupPlaces
  <1>5. Len(Places(g)) <= MaxBlock + 1
    <2>1. Len(Places(g)) \in 1..MaxBlock + 1 /\ MaxBlock \in Nat
      BY <1>4, DHBlocksAssumption DEF Along
    <2> QED BY <2>1
  <1>6. \A i \in 1..Len(Places(g)) : OfGroup(BlockAt(Places(g)[i]))
    <2>1. \A x, n : OfGroup(GroupBlock(x, n))
      BY DEF GroupBlock, OfGroup
    <2> QED BY <1>4, <2>1 DEF Along
  <1>7. SlotsHold(g, spot, rec)
    BY <1>1, <1>3, SlotRecords
  <1>8. /\ \A s \in Slots(g) : \E k \in Key :
             Home(k) = g /\ spot[k] # Nowhere /\ InSlot(g, s) = rec[k] /\ rec[k].key = k
        /\ \A s, t \in Slots(g) : InSlot(g, s).key = InSlot(g, t).key => s = t
        /\ \A k \in Key : Home(k) = g /\ spot[k] # Nowhere =>
             \E s \in Slots(g) : InSlot(g, s) = rec[k] /\ rec[k].key = k
    BY <1>7 DEF SlotsHold
  <1>9. ASSUME NEW k \in Key, Home(k) = g
        PROVE  /\ store[k] = IF spot[k] = Nowhere THEN Absent
                             ELSE [size |-> rec[k].size, data |-> len[DataChain(k)]]
               /\ DataIs(k, len, hd, spot, rec)
    BY <1>1, <1>3, <1>9, HomeFree
  <1>10. \A k \in Key : rec[k].size \in Size /\ 0 \notin Size
    <2>1. \A k \in Key : rec[k] \in Record
      BY <1>g DEF Placed
    <2>2. 0 \notin Size
      BY DHBlocksAssumption
    <2> QED BY <2>1, <2>2 DEF Record
  <1>11. \A k \in Key : Home(k) = g => (store[k] # Absent <=> spot[k] # Nowhere)
    <2>1. SUFFICES ASSUME NEW k \in Key, Home(k) = g PROVE store[k] # Absent <=> spot[k] # Nowhere
      OBVIOUS
    <2>2. store[k] = IF spot[k] = Nowhere THEN Absent
                     ELSE [size |-> rec[k].size, data |-> len[DataChain(k)]]
      BY <1>9, <2>1
    <2>3. [size |-> rec[k].size, data |-> len[DataChain(k)]].size # Absent.size
      BY <1>10 DEF Absent
    <2> QED BY <2>2, <2>3
  <1>12. {InSlot(g, s).key : s \in Slots(g)} = {k \in Key : store[k] # Absent /\ Home(k) = g}
    <2>1. ASSUME NEW s \in Slots(g)
          PROVE  InSlot(g, s).key \in {k \in Key : store[k] # Absent /\ Home(k) = g}
      <3>1. PICK k \in Key : Home(k) = g /\ spot[k] # Nowhere /\ InSlot(g, s) = rec[k] /\ rec[k].key = k
        BY <1>8
      <3> QED BY <1>11, <3>1
    <2>2. ASSUME NEW k \in Key, store[k] # Absent, Home(k) = g
          PROVE  \E s \in Slots(g) : k = InSlot(g, s).key
      <3>1. spot[k] # Nowhere
        BY <1>11, <2>2
      <3>2. PICK s \in Slots(g) : InSlot(g, s) = rec[k] /\ rec[k].key = k
        BY <1>8, <2>2, <3>1
      <3> QED BY <3>2
    <2> QED BY <2>1, <2>2
  <1>13. ASSUME NEW s \in Slots(g), NEW r, r = InSlot(g, s), NEW c, c = Chain(r.head)
         PROVE  /\ r.size = store[r.key].size
                /\ Len(c) = store[r.key].data
                /\ \A j \in 1..Len(c) : overflow[c[j]] = DataBlock(r.key, overflow[c[j]].next)
    <2>1. PICK k \in Key : Home(k) = g /\ spot[k] # Nowhere /\ r = rec[k] /\ rec[k].key = k
      BY <1>8, <1>13
    <2>2. store[k] = [size |-> rec[k].size, data |-> len[DataChain(k)]] /\ hd[DataChain(k)] = rec[k].head
      BY <1>9, <2>1 DEF DataIs
    <2>3. \A b \in Block : own[b] = DataChain(k) => overflow[b] = DataBlock(k, nx[b])
      BY <1>g DEF DiskIs
    <2>4. \A b \in Block : own[b] = DataChain(k) => overflow[b].next = nx[b]
      <3>1. \A n : DataBlock(k, n).next = n
        BY DEF DataBlock
      <3> QED BY <2>3, <3>1
    <2>5. PICK o \in Owner : o = DataChain(k)
      BY AllOwners
    <2>6. \A b \in Block : own[b] = o => overflow[b].next = nx[b]
      BY <2>4, <2>5
    <2>7. Enumerates(Chain(hd[o]), o, own, len, hd, nx)
      BY <1>g, <2>6, ChainSeq
    <2>8. Enumerates(c, o, own, len, hd, nx)
      BY <1>13, <2>1, <2>2, <2>5, <2>7
    <2>9. Len(c) = len[o] /\ \A i \in 1..Len(c) : c[i] \in Block /\ own[c[i]] = o
      BY <2>8 DEF Enumerates
    <2>10. \A j \in 1..Len(c) : overflow[c[j]] = DataBlock(k, nx[c[j]]) /\ overflow[c[j]].next = nx[c[j]]
      BY <2>3, <2>4, <2>5, <2>9
    <2> QED BY <2>1, <2>2, <2>5, <2>9, <2>10
  <1> QED BY <1>5, <1>6, <1>8, <1>12, <1>13

\* What there is when nothing is being done.
QuietIs(own, len, hd, nx, spot, rec) ==
  /\ \A g \in Group : locked[g] = None
  /\ \A b \in Block : own[b] # NoOne =>
       /\ overflow[b].next = nx[b]
       /\ \/ own[b] = Free
          \/ \E g \in 1..modulus : own[b] = GroupChain(g)
          \/ \E k \in Key : own[b] = DataChain(k) /\ spot[k] # Nowhere
  /\ \A g \in 1..modulus : g \in Group /\ primary[g].next = hd[GroupChain(g)]
  /\ freeChain = hd[Free]
  /\ \A k \in Key : spot[k] # Nowhere => hd[DataChain(k)] = rec[k].head
  /\ stale \/ NamesFree(onDisk, own)
LEMMA WhenQuiet ==
  ASSUME NEW own, NEW len, NEW hd, NEW nx, NEW ct, NEW spot, NEW rec, NEW base,
         Good(job, own, len, hd, nx, ct, spot, rec, base), Quiet
  PROVE  QuietIs(own, len, hd, nx, spot, rec)
  <1>g. /\ Chained(own, len, hd, nx) /\ DiskIs(own, nx, ct)
        /\ locked \in [Group -> Proc \cup {None}]
        /\ modulus \in MinMod..MaxMod /\ MinMod \in Nat \ {0} /\ MaxMod \in Nat
        /\ SpaceOK(job, own, len, hd)
        /\ \A k \in Key : StoreOK(job, k, len, hd, spot, rec)
        /\ \A p \in Proc : JobOK(job, p, own, len, hd, nx, ct, spot, rec, base)
    BY GoodFacts, DiskFacts
  <1>1. \A p \in Proc : job[p].at = "idle"
    BY DEF Quiet, At
  <1>2. \A p \in Proc : job[p].at \notin Working /\ ~Moving(job, p)
    BY <1>1 DEF Working, Moving
  <1>3. \A g \in Group : locked[g] = None
    <2>1. SUFFICES ASSUME NEW g \in Group, NEW p \in Proc, locked[g] = p PROVE FALSE
      BY <1>g
    <2>2. LocksOK(job, p, base)
      BY <1>g DEF JobOK
    <2> QED BY <1>2, <2>1, <2>2 DEF LocksOK
  <1>4. /\ freeChain = hd[Free] /\ len[Spare] = 0
        /\ \A g \in Group : g > modulus => len[GroupChain(g)] = 0
        /\ stale \/ NamesFree(onDisk, own)
    BY <1>1, <1>g DEF SpaceOK, HeaderOK
  <1>5. \A p \in Proc : /\ len[NewChain(p)] = 0 /\ len[OldChain(p)] = 0
                        /\ len[SourceChain(p)] = 0 /\ len[SourceBlock(p)] = 0
    <2>1. SUFFICES ASSUME NEW p \in Proc
                   PROVE  /\ len[NewChain(p)] = 0 /\ len[OldChain(p)] = 0
                          /\ len[SourceChain(p)] = 0 /\ len[SourceBlock(p)] = 0
      OBVIOUS
    <2>2. NewOK(job, p, len, hd) /\ OldOK(job, p, len, hd) /\ MoveOK(job, p, own, len, hd, nx, ct, base)
      BY <1>g DEF JobOK
    <2> QED BY <1>1, <1>2, <2>2 DEF NewOK, OldOK, MoveOK
  <1>6. \A k \in Key : IF spot[k] = Nowhere THEN len[DataChain(k)] = 0 ELSE hd[DataChain(k)] = rec[k].head
    BY <1>g DEF StoreOK
  <1>7. \A g \in 1..modulus : g \in Group /\ primary[g].next = hd[GroupChain(g)]
    <2>1. SUFFICES ASSUME NEW g \in 1..modulus PROVE g \in Group /\ primary[g].next = hd[GroupChain(g)]
      OBVIOUS
    <2>2. g \in Group
      BY <1>g DEF Group
    <2>3. Along(Places(g), g, own, hd, nx, ct)
      BY <1>3, <2>2, GroupPlaces
    <2>4. /\ 1 \in 1..Len(Places(g)) /\ Places(g)[1] = <<"p", g>>
          /\ BlockAt(Places(g)[1]) = GroupBlock(ct[Places(g)[1]], NextOf(hd, nx, Places(g)[1]))
      <3>1. Len(Places(g)) \in 1..MaxBlock + 1
        BY <2>3 DEF Along
      <3>2. 1 \in 1..Len(Places(g))
        BY <3>1
      <3> QED BY <2>3, <3>2 DEF Along
    <2>5. primary[g] = GroupBlock(ct[<<"p", g>>], hd[GroupChain(g)])
      BY <2>4 DEF BlockAt, NextOf
    <2> QED BY <2>2, <2>5 DEF GroupBlock
  <1>8. ASSUME NEW b \in Block, own[b] # NoOne
        PROVE  /\ overflow[b].next = nx[b]
               /\ \/ own[b] = Free
                  \/ \E g \in 1..modulus : own[b] = GroupChain(g)
                  \/ \E k \in Key : own[b] = DataChain(k) /\ spot[k] # Nowhere
    <2>1. own[b] \in Owner /\ len[own[b]] # 0
      <3>1. \A c \in Block : own[c] # NoOne => own[c] \in Owner /\ len[own[c]] # 0 /\ hd[own[c]] # 0
        BY ONLY <1>g, ChainFacts
      <3> QED BY <1>8, <3>1
    <2>2. \/ own[b] = Free \/ own[b] = Spare
          \/ \E g \in Group : own[b] = GroupChain(g)
          \/ \E k \in Key : own[b] = DataChain(k)
          \/ \E p \in Proc : own[b] \in {SourceChain(p), SourceBlock(p), NewChain(p), OldChain(p)}
      BY <2>1 DEF Owner, Free, Spare, GroupChain, DataChain, SourceChain, SourceBlock, NewChain, OldChain
    <2>3. CASE own[b] = Free
      BY <1>g, <2>3 DEF DiskIs
    <2>4. CASE own[b] = Spare
      BY <1>4, <2>1, <2>4
    <2>5. ASSUME NEW g \in Group, own[b] = GroupChain(g)
          PROVE  overflow[b].next = nx[b] /\ g \in 1..modulus
      <3>1. Written(job, <<"o", b>>)
        BY <1>2 DEF Written, Held, Moving
      <3>2. overflow[b] = GroupBlock(ct[<<"o", b>>], nx[b])
        BY <1>g, <2>5, <3>1 DEF DiskIs
      <3>3. g \in Nat \ {0} /\ modulus \in Nat /\ ~(g > modulus)
        BY <1>g, <1>4, <2>1, <2>5 DEF Group
      <3> QED BY <3>2, <3>3 DEF GroupBlock
    <2>6. ASSUME NEW k \in Key, own[b] = DataChain(k)
          PROVE  overflow[b].next = nx[b] /\ spot[k] # Nowhere
      <3>1. overflow[b] = DataBlock(k, nx[b])
        BY <1>g, <2>6 DEF DiskIs
      <3> QED BY <1>6, <2>1, <2>6, <3>1 DEF DataBlock
    <2>7. ASSUME NEW p \in Proc, own[b] \in {SourceChain(p), SourceBlock(p), NewChain(p), OldChain(p)}
          PROVE  FALSE
      BY <1>5, <2>1, <2>7
    <2> QED BY <2>2, <2>3, <2>4, <2>5, <2>6, <2>7
  <1> QED BY <1>3, <1>4, <1>6, <1>7, <1>8 DEF QuietIs

\* What the header on the disk says is free is free.
LEMMA GoodOnDisk ==
  ASSUME IInv
  PROVE  FreeOnDisk
  <1>1. PICK own, len, hd, nx, ct, spot, rec, base : Good(job, own, len, hd, nx, ct, spot, rec, base)
    BY DEF IInv
  <1>2. SUFFICES ASSUME ~stale, Quiet PROVE Range(Chain(onDisk)) \subseteq Range(Chain(freeChain))
    BY DEF FreeOnDisk, DiskNamesFree
  <1>3. Chained(own, len, hd, nx) /\ QuietIs(own, len, hd, nx, spot, rec)
    BY <1>1, <1>2, GoodFacts, WhenQuiet
  <1>4. PICK o \in Owner : o = Free
    BY AllOwners
  <1>5. /\ \A b \in Block : own[b] = o => overflow[b].next = nx[b]
        /\ freeChain = hd[o]
        /\ onDisk = 0 \/ (onDisk \in Block /\ own[onDisk] = o)
    BY <1>2, <1>3, <1>4, AllOwners DEF QuietIs, NamesFree
  <1>6. \A b \in Range(Chain(onDisk)) : b \in Block /\ own[b] = o
    BY <1>3, <1>5, ChainInside
  <1>7. Enumerates(Chain(hd[o]), o, own, len, hd, nx)
    BY <1>3, <1>5, ChainSeq
  <1>8. \A b \in Block : own[b] = o => b \in Range(Chain(freeChain))
    <2>1. PICK c : c = Chain(hd[o])
      OBVIOUS
    <2>2. c \in Seq(Block) /\ \A b \in Block : own[b] = o => \E i \in 1..Len(c) : c[i] = b
      BY <1>7, <2>1 DEF Enumerates
    <2>3. \A i \in 1..Len(c) : c[i] \in Range(c)
      BY <2>2 DEF Range
    <2> QED BY <1>5, <2>1, <2>2, <2>3
  <1> QED BY <1>6, <1>8

\* The first blocks of the chains.
Heads == {primary[g].next : g \in 1..modulus} \cup {freeChain}
         \cup UNION {{InSlot(g, s).head : s \in Slots(g)} : g \in 1..modulus}
ChainsOf(b) == {h \in Heads : b \in Range(Chain(h))}
\* Each is the first of the chain of an owner; and each chain is from one of them.
HeadOf(h, o, own, hd, nx) ==
  /\ o \in Owner /\ h = hd[o]
  /\ \A b \in Block : own[b] = o => overflow[b].next = nx[b]
LEMMA HeadsAre ==
  ASSUME NEW own, NEW len, NEW hd, NEW nx, NEW ct, NEW spot, NEW rec, NEW base,
         Good(job, own, len, hd, nx, ct, spot, rec, base), Quiet
  PROVE  /\ \A h \in Heads : \E o : HeadOf(h, o, own, hd, nx)
         /\ \A b \in Block : own[b] # NoOne => hd[own[b]] \in Heads /\ HeadOf(hd[own[b]], own[b], own, hd, nx)
  <1>1. Chained(own, len, hd, nx) /\ QuietIs(own, len, hd, nx, spot, rec)
    BY GoodFacts, WhenQuiet
  <1>2. /\ \A g \in Group : locked[g] = None
        /\ \A b \in Block : own[b] # NoOne =>
             /\ overflow[b].next = nx[b]
             /\ \/ own[b] = Free
                \/ \E g \in 1..modulus : own[b] = GroupChain(g)
                \/ \E k \in Key : own[b] = DataChain(k) /\ spot[k] # Nowhere
        /\ \A g \in 1..modulus : g \in Group /\ primary[g].next = hd[GroupChain(g)]
        /\ freeChain = hd[Free]
        /\ \A k \in Key : spot[k] # Nowhere => hd[DataChain(k)] = rec[k].head
    BY <1>1 DEF QuietIs
  <1>3. \A o \in Owner : HeadOf(hd[o], o, own, hd, nx)
    BY <1>2, AllOwners DEF HeadOf
  <1>4. \A g \in 1..modulus : SlotsHold(g, spot, rec)
    <2>1. \A g \in 1..modulus : Unlocked(g)
      BY <1>2 DEF Unlocked
    <2> QED BY <2>1, SlotRecords
  <1>5. ASSUME NEW h \in Heads PROVE \E o : HeadOf(h, o, own, hd, nx)
    <2>1. CASE \E g \in 1..modulus : h = primary[g].next
      BY <1>2, <1>3, <2>1, AllOwners
    <2>2. CASE h = freeChain
      BY <1>2, <1>3, <2>2, AllOwners
    <2>3. ASSUME NEW g \in 1..modulus, NEW s \in Slots(g), h = InSlot(g, s).head
          PROVE  \E o : HeadOf(h, o, own, hd, nx)
      <3>1. PICK k \in Key : spot[k] # Nowhere /\ InSlot(g, s) = rec[k]
        BY <1>4 DEF SlotsHold
      <3>2. h = hd[DataChain(k)]
        BY <1>2, <2>3, <3>1
      <3> QED BY <1>3, <3>2, AllOwners
    <2> QED BY <1>5, <2>1, <2>2, <2>3 DEF Heads
  <1>6. ASSUME NEW b \in Block, own[b] # NoOne PROVE own[b] \in Owner /\ hd[own[b]] \in Heads
    <2>1. own[b] \in Owner
      <3>1. own \in [Block -> Owner \cup {NoOne}]
        BY <1>1, ChainFacts
      <3> QED BY <1>6, <3>1
    <2>2. CASE own[b] = Free
      BY <1>2, <2>1, <2>2 DEF Heads
    <2>3. CASE \E g \in 1..modulus : own[b] = GroupChain(g)
      BY <1>2, <2>1, <2>3 DEF Heads
    <2>4. ASSUME NEW k \in Key, own[b] = DataChain(k), spot[k] # Nowhere PROVE hd[own[b]] \in Heads
      <3>1. PICK g \in 1..modulus : g = Home(k)
        BY GoodFacts
      <3>2. PICK s \in Slots(g) : InSlot(g, s) = rec[k]
        BY <1>4, <2>4, <3>1 DEF SlotsHold
      <3>3. hd[own[b]] = InSlot(g, s).head
        BY <1>2, <2>4, <3>2
      <3> QED BY <3>3 DEF Heads
    <2> QED BY <1>2, <1>6, <2>1, <2>2, <2>3, <2>4
  <1> QED BY <1>3, <1>5, <1>6

\* Every block that has been made is in one chain.
LEMMA GoodAccounted ==
  ASSUME IInv
  PROVE  SpaceAccounted
  <1>1. PICK own, len, hd, nx, ct, spot, rec, base : Good(job, own, len, hd, nx, ct, spot, rec, base)
    BY DEF IInv
  <1>2. SUFFICES ASSUME Quiet
                 PROVE  /\ \A b \in 1..extent : Cardinality(ChainsOf(b)) = 1
                        /\ \A b \in Block : b > extent => ChainsOf(b) = {}
                        /\ \A g, h \in 1..modulus : primary[g].next = primary[h].next =>
                             g = h \/ primary[g].next = 0
    BY DEF SpaceAccounted, Heads, ChainsOf
  <1>3. /\ Chained(own, len, hd, nx) /\ QuietIs(own, len, hd, nx, spot, rec)
        /\ SpaceOK(job, own, len, hd) /\ MaxBlock \in Nat
    BY <1>1, <1>2, GoodFacts, WhenQuiet
  <1>4. /\ \A h \in Heads : \E o : HeadOf(h, o, own, hd, nx)
        /\ \A b \in Block : own[b] # NoOne => hd[own[b]] \in Heads /\ HeadOf(hd[own[b]], own[b], own, hd, nx)
    BY <1>1, <1>2, HeadsAre
  <1>5. ASSUME NEW h, NEW o, HeadOf(h, o, own, hd, nx), NEW b
        PROVE  b \in Range(Chain(h)) <=> b \in Block /\ own[b] = o
    <2>1. o \in Owner /\ h = hd[o] /\ \A c \in Block : own[c] = o => overflow[c].next = nx[c]
      BY <1>5 DEF HeadOf
    <2>2. Enumerates(Chain(hd[o]), o, own, len, hd, nx)
      BY <1>3, <2>1, ChainSeq
    <2>3. PICK c : c = Chain(h)
      OBVIOUS
    <2>4. /\ c \in Seq(Block) /\ \A i \in 1..Len(c) : c[i] \in Block /\ own[c[i]] = o
          /\ \A a \in Block : own[a] = o => \E i \in 1..Len(c) : c[i] = a
      BY <2>1, <2>2, <2>3 DEF Enumerates
    <2>5. b \in Range(c) <=> \E i \in 1..Len(c) : c[i] = b
      BY <2>4 DEF Range
    <2> QED BY <2>3, <2>4, <2>5
  <1>6. \A b \in Block : own[b] = NoOne <=> b > extent
    BY <1>3 DEF SpaceOK
  <1>7. ASSUME NEW b \in 1..extent PROVE Cardinality(ChainsOf(b)) = 1
    <2>1. b \in Block /\ own[b] # NoOne
      <3>1. extent \in 0..MaxBlock
        BY <1>3 DEF SpaceOK
      <3>2. b \in Block /\ ~(b > extent)
        BY <1>3, <3>1 DEF Block
      <3> QED BY <1>6, <3>2
    <2>2. hd[own[b]] \in Heads /\ HeadOf(hd[own[b]], own[b], own, hd, nx)
      BY <1>4, <2>1
    <2>3. b \in Range(Chain(hd[own[b]]))
      BY <1>5, <2>1, <2>2
    <2>4. ASSUME NEW h \in Heads, b \in Range(Chain(h)) PROVE h = hd[own[b]]
      <3>1. PICK o : HeadOf(h, o, own, hd, nx)
        BY <1>4
      <3>2. own[b] = o
        BY <1>5, <2>4, <3>1
      <3> QED BY <3>1, <3>2 DEF HeadOf
    <2>5. ChainsOf(b) = {hd[own[b]]}
      BY <2>2, <2>3, <2>4 DEF ChainsOf
    <2> QED BY <2>5, FS_Singleton
  <1>8. ASSUME NEW b \in Block, b > extent PROVE ChainsOf(b) = {}
    <2>1. own[b] = NoOne
      BY <1>6, <1>8
    <2>2. SUFFICES ASSUME NEW h \in Heads, b \in Range(Chain(h)) PROVE FALSE
      BY DEF ChainsOf
    <2>3. PICK o : HeadOf(h, o, own, hd, nx)
      BY <1>4
    <2>4. own[b] = o /\ o \in Owner
      BY <1>5, <2>2, <2>3 DEF HeadOf
    <2> QED BY <2>1, <2>4, AllOwners
  <1>9. ASSUME NEW g \in 1..modulus, NEW h \in 1..modulus, primary[g].next = primary[h].next,
               primary[g].next # 0
        PROVE  g = h
    <2>1. PICK o \in Owner, w \in Owner : o = GroupChain(g) /\ w = GroupChain(h)
      BY <1>3, AllOwners DEF QuietIs
    <2>2. hd[o] = hd[w] /\ hd[o] # 0
      BY <1>3, <1>9, <2>1 DEF QuietIs
    <2>3. own[hd[o]] = o /\ own[hd[w]] = w
      <3>1. \A x \in Owner : hd[x] # 0 => hd[x] \in Block /\ own[hd[x]] = x
        BY ONLY <1>3, ChainFacts
      <3> QED BY <2>2, <3>1
    <2>4. GroupChain(g) = GroupChain(h)
      BY <2>1, <2>2, <2>3
    <2>5. GroupChain(g)[2] = g /\ GroupChain(h)[2] = h
      BY Kinds
    <2> QED BY <2>4, <2>5
  <1> QED BY <1>7, <1>8, <1>9

-----------------------------------------------------------------------------
(* The theorems                                                             *)

\* A group that nobody has locked holds exactly the records that were written
\* to it, each once and with all of its data: dh_write(), dh_delete() and the
\* splits and merges of dh_split.c lose and double none of them.
THEOREM RecordsIntact ==
  ASSUME NeverFull
  PROVE  Spec => []GroupsIntact
  <1>1. Spec => []IInv
    BY BlocksInvariant
  <1>2. IInv => GroupsIntact
    BY GoodIntact
  <1> QED BY <1>1, <1>2, PTL

\* When nothing is being done, each overflow block is in one chain and in one
\* place of it: dh_get_overflow() and dh_free_overflow() lose no block and
\* give none away twice.
THEOREM BlocksAccounted ==
  ASSUME NeverFull
  PROVE  Spec => []SpaceAccounted
  <1>1. Spec => []IInv
    BY BlocksInvariant
  <1>2. IInv => SpaceAccounted
    BY GoodAccounted
  <1> QED BY <1>1, <1>2, PTL

\* When nothing is being done, the free chain that the header on the disk names
\* has only blocks that are free, unless the last dh_flush_header() wrote a copy
\* from before another process took a block: it is called where it matters.
THEOREM DiskChainFree ==
  ASSUME NeverFull
  PROVE  Spec => []FreeOnDisk
  <1>1. Spec => []IInv
    BY BlocksInvariant
  <1>2. IInv => FreeOnDisk
    BY GoodOnDisk
  <1> QED BY <1>1, <1>2, PTL
=============================================================================
