------------------------------- MODULE DHFile -------------------------------
(***************************************************************************)
(* A hashed (dynamic) file shared by several processes: dh_read.c,         *)
(* dh_write.c, dh_del.c, dh_exist.c, dh_split.c and dh_selct.c.            *)
(*                                                                         *)
(* A process hashes the record id and waits for the lock of the group      *)
(* while it holds the semaphore FILE_TABLE_LOCK (ftl); the group is then   *)
(* read or rewritten under its lock alone.  After a write or delete the    *)
(* load is adjusted under ftl, and the process may go on to split or merge *)
(* a group.  inhibit counts the splits, merges and selects in progress.    *)
(*                                                                         *)
(* A critical section in which the code waits for nothing is one action.   *)
(* A group is a function from ids to values: its blocks, the overflow      *)
(* space and the lock of the header are not modelled here, nor are         *)
(* CLEARFILE, AK indices, the record cache and failing input or output.    *)
(* Every record has size 1, so that load stands for load_bytes and for     *)
(* record_count.                                                           *)
(***************************************************************************)
EXTENDS LinearHash, FiniteSets

CONSTANTS
  Proc,       \* processes
  Id, Val,    \* record ids and record data
  HashOf,     \* hash() of each id
  MinMod,     \* params.min_modulus
  MaxMod,     \* groups that fit in a file (2 Gb before file version 2)
  GroupSize,  \* records in a full group
  SplitLoad, MergeLoad,  \* params.split_load and merge_load, percent
  Ops,        \* the operations that the programs under study use
  None        \* no record, no process

Operation == {"read", "write", "delete", "select", "readlist", "quit"}
Group == 1..MaxMod

ASSUME DHFileAssumption ==
  /\ MinMod \in Nat \ {0} /\ MaxMod \in Nat /\ MinMod <= MaxMod
  /\ HashOf \in [Id -> Nat]
  /\ GroupSize \in Nat \ {0} /\ SplitLoad \in Nat /\ MergeLoad \in Nat
  /\ Ops \subseteq Operation
  /\ None \notin Val /\ None \notin Proc
  /\ IsFiniteSet(Id) /\ IsFiniteSet(Proc)

VARIABLES
  modulus, modValue,  \* params.modulus, params.mod_value
  load,      \* params.load_bytes
  inhibit,   \* inhibit_count
  data,      \* data[g][id]: what group g holds for id
  ftl,       \* the process that holds FILE_TABLE_LOCK
  readers,   \* readers of each group lock
  writer,    \* writer of each group lock
  pc,        \* where each process is
  op,        \* the request it works on
  grp,       \* the group it works on
  other,     \* the new group of its split, the target of its merge
  old,       \* the record it found
  sel        \* its select list

params == <<modulus, modValue>>
locks  == <<ftl, readers, writer>>
local  == <<op, grp, other, old>>
vars   == <<params, load, inhibit, data, locks, pc, local, sel>>

Request == [kind : {"read", "delete"} \cap Ops, id : Id, val : {None}]
             \cup [kind : {"write"} \cap Ops, id : Id, val : Val]

\* "wait" is a reply of KVStore, None no operation of a process.
ASSUME RequestAssumption == None \notin Request /\ "wait" \notin Val \cup {None}

PC == {"idle", "hash", "lock", "access", "account", "check", "return",
       "split", "newlock", "splitsrc", "splitmove",
       "merge", "mergetgt", "mergesrc", "mergemove", "freeother", "resized",
       "select", "selgroup", "sellock", "selread", "selsave", "seldone"}

\* A select list: the group to read next (0 if there is no select), how often
\* each id is listed, their number (rec_ct), whether the file has been updated
\* since the start (upd_ct), and whether the rest of the list is being read at
\* once, with what success.  touched and splitting are history: the records
\* changed since the start, and whether the source of a split was still to be
\* locked then.
NoSelect == [next |-> 0, list |-> [i \in Id |-> 0], recs |-> 0,
             updated |-> FALSE, all |-> FALSE, found |-> FALSE,
             touched |-> {}, splitting |-> FALSE]
SelectList == [next : 0..MaxMod + 1, list : [Id -> Nat], recs : Nat,
               updated : BOOLEAN, all : BOOLEAN, found : BOOLEAN,
               touched : SUBSET Id, splitting : BOOLEAN]

TypeOK ==
  /\ modulus \in Group /\ modValue \in Nat
  /\ load \in Nat /\ inhibit \in Int
  /\ data \in [Group -> [Id -> Val \cup {None}]]
  /\ ftl \in Proc \cup {None}
  /\ readers \in [Group -> SUBSET Proc]
  /\ writer \in [Group -> Proc \cup {None}]
  /\ pc \in [Proc -> PC]
  /\ op \in [Proc -> Request \cup {None}]
  /\ grp \in [Proc -> 0..MaxMod] /\ other \in [Proc -> 0..MaxMod]
  /\ old \in [Proc -> Val \cup {None}]
  /\ sel \in [Proc -> SelectList]

Init ==
  /\ modulus = MinMod
  /\ modValue \in MinMod..2 * MinMod - 1 /\ PowerOfTwo(modValue)
  /\ load = 0 /\ inhibit = 0
  /\ data = [g \in Group |-> [id \in Id |-> None]]
  /\ ftl = None
  /\ readers = [g \in Group |-> {}] /\ writer = [g \in Group |-> None]
  /\ pc = [p \in Proc |-> "idle"]
  /\ op = [p \in Proc |-> None]
  /\ grp = [p \in Proc |-> 0] /\ other = [p \in Proc |-> 0]
  /\ old = [p \in Proc |-> None]
  /\ sel = [p \in Proc |-> NoSelect]

-----------------------------------------------------------------------------
Home(id) == GroupOf(HashOf[id], modulus, modValue)
RecordsIn(g) == {id \in Id : data[g][id] # None}
Empty == [id \in Id |-> None]
DHLoad(l, m) == (l * 100) \div (GroupSize * m)
NeedsSplit == DHLoad(load, modulus) > SplitLoad \/ modulus < MinMod
NeedsMerge == DHLoad(load, modulus) < MergeLoad /\ modulus > MinMod

At(p, l) == pc[p] = l
Goto(p, l) == pc' = [pc EXCEPT ![p] = l]

\* FILE_TABLE_LOCK, taken to be kept over a wait for a group lock.
TakeTable(p) == ftl = None /\ ftl' = p
\* A short critical section under FILE_TABLE_LOCK.
WithTable == ftl = None /\ UNCHANGED ftl

\* dh_get_group_lock() and dh_free_group_lock()
ReadLock(p, g)  == /\ writer[g] = None
                   /\ readers' = [readers EXCEPT ![g] = @ \cup {p}]
                   /\ UNCHANGED writer
WriteLock(p, g) == /\ writer[g] = None /\ readers[g] = {}
                   /\ writer' = [writer EXCEPT ![g] = p]
                   /\ UNCHANGED readers
FreeRead(p, g)  == /\ readers' = [readers EXCEPT ![g] = @ \ {p}]
                   /\ UNCHANGED writer
FreeWrite(g)    == /\ writer' = [writer EXCEPT ![g] = None]
                   /\ UNCHANGED readers

-----------------------------------------------------------------------------
(* dh_read(), dh_exists(), dh_write(), dh_delete() *)

Call(p, r) ==
  /\ At(p, "idle")
  /\ op' = [op EXCEPT ![p] = r]
  /\ Goto(p, "hash")
  /\ UNCHANGED <<params, load, inhibit, data, locks, grp, other, old, sel>>

\* The id is hashed under FILE_TABLE_LOCK, which is kept ...
HashId(p) ==
  /\ At(p, "hash")
  /\ TakeTable(p)
  /\ grp' = [grp EXCEPT ![p] = Home(op[p].id)]
  /\ Goto(p, "lock")
  /\ UNCHANGED <<params, load, inhibit, data, readers, writer, op, other, old,
                 sel>>

\* ... until the group is locked.  A write or delete increments upd_ct.
LockGroup(p) ==
  /\ At(p, "lock")
  /\ IF op[p].kind = "read"
     THEN ReadLock(p, grp[p]) /\ UNCHANGED sel
     ELSE /\ WriteLock(p, grp[p])
          /\ sel' = [q \in Proc |-> [sel[q] EXCEPT !.updated = @ \/ sel[q].next # 0]]
  /\ ftl' = None
  /\ Goto(p, "access")
  /\ UNCHANGED <<params, load, inhibit, data, local>>

ReadRecord(p) ==
  /\ At(p, "access") /\ op[p].kind = "read"
  /\ old' = [old EXCEPT ![p] = data[grp[p]][op[p].id]]
  /\ FreeRead(p, grp[p])
  /\ Goto(p, "return")
  /\ UNCHANGED <<params, load, inhibit, data, ftl, op, grp, other, sel>>

WriteRecord(p) ==
  LET id == op[p].id IN
  /\ At(p, "access") /\ op[p].kind # "read"
  /\ old' = [old EXCEPT ![p] = data[grp[p]][id]]
  /\ data' = [data EXCEPT ![grp[p]][id] =
                IF op[p].kind = "write" THEN op[p].val ELSE None]
  /\ sel' = [q \in Proc |->
       IF sel[q].next = 0 THEN sel[q]
       ELSE [sel[q] EXCEPT !.touched = @ \cup {id}]]
  /\ FreeWrite(grp[p])
  /\ Goto(p, "account")
  /\ UNCHANGED <<params, load, inhibit, ftl, op, grp, other>>

\* Mutant: a delete counts whether it has found the record or not.
AccountAlways(p) ==
  /\ At(p, "account")
  /\ WithTable
  /\ load' = CASE op[p].kind = "write" /\ old[p] = None -> load + 1
               [] op[p].kind = "delete" -> IF load >= 1 THEN load - 1 ELSE 0
               [] OTHER -> load
  /\ Goto(p, "check")
  /\ UNCHANGED <<params, inhibit, data, readers, writer, local, sel>>

Account(p) ==
  /\ At(p, "account")
  /\ WithTable
  /\ load' = CASE op[p].kind = "write" /\ old[p] = None  -> load + 1
               [] op[p].kind = "delete" /\ old[p] # None -> IF load >= 1 THEN load - 1 ELSE 0
               [] OTHER -> load
  /\ Goto(p, "check")
  /\ UNCHANGED <<params, inhibit, data, readers, writer, local, sel>>

\* Without any lock; dh_split() and dh_merge() check again.
CheckLoad(p) ==
  /\ At(p, "check")
  /\ Goto(p, IF inhibit # 0 THEN "return"
             ELSE IF NeedsSplit THEN "split"
             ELSE IF NeedsMerge /\ DHLoad(load, modulus - 1) < SplitLoad
                  THEN "merge" ELSE "return")
  /\ UNCHANGED <<params, load, inhibit, data, locks, local, sel>>

Return(p) ==
  /\ At(p, "return")
  /\ op' = [op EXCEPT ![p] = None]
  /\ grp' = [grp EXCEPT ![p] = 0]
  /\ other' = [other EXCEPT ![p] = 0]
  /\ old' = [old EXCEPT ![p] = None]
  /\ Goto(p, "idle")
  /\ UNCHANGED <<params, load, inhibit, data, locks, sel>>

-----------------------------------------------------------------------------
(* dh_split() *)

\* Beaten to it, held off, or the file would be too large.
NoSplit(p) ==
  /\ At(p, "split")
  /\ WithTable
  /\ inhibit # 0 \/ ~NeedsSplit \/ modulus + 1 > MaxMod
  /\ Goto(p, "return")
  /\ UNCHANGED <<params, load, inhibit, data, readers, writer, local, sel>>

\* Mutant: FILE_TABLE_LOCK is not kept until the new group is locked.
SplitBeginUnlocked(p) ==
  /\ At(p, "split")
  /\ inhibit = 0 /\ NeedsSplit /\ modulus + 1 <= MaxMod
  /\ WithTable
  /\ modulus' = modulus + 1
  /\ modValue' = SplitModValue(modulus, modValue)
  /\ grp' = [grp EXCEPT ![p] = SplitSource(modulus, modValue)]
  /\ other' = [other EXCEPT ![p] = modulus + 1]
  /\ Goto(p, "newlock")
  /\ UNCHANGED <<load, inhibit, data, readers, writer, op, old, sel>>

\* Mutant: a select does not hold off a split that was decided on before.
SplitBeginAlways(p) ==
  /\ At(p, "split")
  /\ NeedsSplit /\ modulus + 1 <= MaxMod
  /\ TakeTable(p)
  /\ modulus' = modulus + 1
  /\ modValue' = SplitModValue(modulus, modValue)
  /\ grp' = [grp EXCEPT ![p] = SplitSource(modulus, modValue)]
  /\ other' = [other EXCEPT ![p] = modulus + 1]
  /\ Goto(p, "newlock")
  /\ UNCHANGED <<load, inhibit, data, readers, writer, op, old, sel>>

\* The file grows while FILE_TABLE_LOCK is held ...
SplitBegin(p) ==
  /\ At(p, "split")
  /\ inhibit = 0 /\ NeedsSplit /\ modulus + 1 <= MaxMod
  /\ TakeTable(p)
  /\ modulus' = modulus + 1
  /\ modValue' = SplitModValue(modulus, modValue)
  /\ grp' = [grp EXCEPT ![p] = SplitSource(modulus, modValue)]
  /\ other' = [other EXCEPT ![p] = modulus + 1]
  /\ Goto(p, "newlock")
  /\ UNCHANGED <<load, inhibit, data, readers, writer, op, old, sel>>

\* ... until the new group is locked, so that nobody looks into it before it
\* has been made.
SplitLockNew(p) ==
  /\ At(p, "newlock")
  /\ WriteLock(p, other[p])
  /\ inhibit' = inhibit + 1
  /\ ftl' = None
  /\ Goto(p, "splitsrc")
  /\ UNCHANGED <<params, load, data, local, sel>>

SplitLockSource(p) ==
  /\ At(p, "splitsrc")
  /\ WriteLock(p, grp[p])
  /\ Goto(p, "splitmove")
  /\ UNCHANGED <<params, load, inhibit, data, ftl, local, sel>>

\* Mutant: the records moved to the new group stay in the old one as well.
SplitCopy(p) ==
  LET moved == {id \in RecordsIn(grp[p]) : Home(id) = other[p]} IN
  /\ At(p, "splitmove")
  /\ data' = [data EXCEPT
       ![other[p]] = [id \in Id |-> IF id \in moved THEN data[grp[p]][id] ELSE None]]
  /\ FreeWrite(grp[p])
  /\ Goto(p, "freeother")
  /\ UNCHANGED <<params, load, inhibit, ftl, local, sel>>

SplitMove(p) ==
  LET moved == {id \in RecordsIn(grp[p]) : Home(id) = other[p]} IN
  /\ At(p, "splitmove")
  /\ data' = [data EXCEPT
       ![grp[p]]   = [id \in Id |-> IF id \in moved THEN None ELSE @[id]],
       ![other[p]] = [id \in Id |-> IF id \in moved THEN data[grp[p]][id] ELSE None]]
  /\ FreeWrite(grp[p])
  /\ Goto(p, "freeother")
  /\ UNCHANGED <<params, load, inhibit, ftl, local, sel>>

FreeOther(p) ==
  /\ At(p, "freeother")
  /\ FreeWrite(other[p])
  /\ Goto(p, "resized")
  /\ UNCHANGED <<params, load, inhibit, data, ftl, local, sel>>

ResizeEnd(p) ==
  /\ At(p, "resized")
  /\ WithTable
  /\ inhibit' = inhibit - 1
  /\ Goto(p, "return")
  /\ UNCHANGED <<params, load, data, readers, writer, local, sel>>

-----------------------------------------------------------------------------
(* dh_merge() *)

NoMerge(p) ==
  /\ At(p, "merge")
  /\ WithTable
  /\ inhibit # 0 \/ ~NeedsMerge
  /\ Goto(p, "return")
  /\ UNCHANGED <<params, load, inhibit, data, readers, writer, local, sel>>

MergeBegin(p) ==
  /\ At(p, "merge")
  /\ inhibit = 0 /\ NeedsMerge
  /\ TakeTable(p)
  /\ grp' = [grp EXCEPT ![p] = modulus]
  /\ other' = [other EXCEPT ![p] = MergeTarget(modulus, modValue)]
  /\ Goto(p, "mergetgt")
  /\ UNCHANGED <<params, load, inhibit, data, readers, writer, op, old, sel>>

MergeLockTarget(p) ==
  /\ At(p, "mergetgt")
  /\ WriteLock(p, other[p])
  /\ Goto(p, "mergesrc")
  /\ UNCHANGED <<params, load, inhibit, data, ftl, local, sel>>

\* The file shrinks before FILE_TABLE_LOCK is given up, so that nobody waits
\* for the lock of the group that goes away.
MergeLockSource(p) ==
  /\ At(p, "mergesrc")
  /\ WriteLock(p, grp[p])
  /\ inhibit' = inhibit + 1
  /\ modulus' = modulus - 1
  /\ modValue' = MergeModValue(modulus, modValue)
  /\ ftl' = None
  /\ Goto(p, "mergemove")
  /\ UNCHANGED <<load, data, local, sel>>

MergeMove(p) ==
  LET moved == RecordsIn(grp[p]) IN
  /\ At(p, "mergemove")
  /\ data' = [data EXCEPT
       ![grp[p]]   = Empty,
       ![other[p]] = [id \in Id |-> IF id \in moved THEN data[grp[p]][id] ELSE @[id]]]
  /\ FreeWrite(grp[p])
  /\ Goto(p, "freeother")
  /\ UNCHANGED <<params, load, inhibit, ftl, local, sel>>

-----------------------------------------------------------------------------
(* dh_select(), dh_select_group(), dh_complete_select(), dh_end_select() *)

Select(p) ==
  /\ At(p, "idle") /\ "select" \in Ops /\ sel[p].next = 0
  /\ Goto(p, "select")
  /\ UNCHANGED <<params, load, inhibit, data, locks, local, sel>>

SelectBegin(p) ==
  /\ At(p, "select")
  /\ WithTable
  /\ inhibit' = inhibit + 1
  /\ sel' = [sel EXCEPT ![p] =
       [NoSelect EXCEPT !.next = 1, !.splitting = \E q \in Proc : At(q, "splitsrc")]]
  /\ Goto(p, "selgroup")
  /\ UNCHANGED <<params, load, data, readers, writer, local>>

\* READNEXT when the ids read so far are used up.
SelectMore(p) ==
  /\ At(p, "idle") /\ sel[p].next # 0
  /\ Goto(p, "selgroup")
  /\ UNCHANGED <<params, load, inhibit, data, locks, local, sel>>

\* READLIST: the rest of the list at once.
SelectAll(p) ==
  /\ At(p, "idle") /\ "readlist" \in Ops /\ sel[p].next # 0
  /\ sel' = [sel EXCEPT ![p].all = TRUE]
  /\ Goto(p, "selgroup")
  /\ UNCHANGED <<params, load, inhibit, data, locks, local>>

SelectGroup(p) ==
  /\ At(p, "selgroup") /\ sel[p].next <= modulus
  /\ TakeTable(p)
  /\ grp' = [grp EXCEPT ![p] = sel[p].next]
  /\ sel' = [sel EXCEPT ![p].next = @ + 1]
  /\ Goto(p, "sellock")
  /\ UNCHANGED <<params, load, inhibit, data, readers, writer, op, other, old>>

SelectLock(p) ==
  /\ At(p, "sellock")
  /\ ReadLock(p, grp[p])
  /\ ftl' = None
  /\ Goto(p, "selread")
  /\ UNCHANGED <<params, load, inhibit, data, local, sel>>

\* A select list with the records found in one more group.
Listed(s, found) ==
  [s EXCEPT !.list = [id \in Id |-> IF id \in found THEN @[id] + 1 ELSE @[id]],
            !.recs = @ + Cardinality(found),
            !.found = (@ \/ found # {}) /\ s.all]

\* An empty group is passed over; so is the way back to the program after the
\* last one, where the select ends.
SelectRead(p) ==
  LET found == RecordsIn(grp[p]) IN
  /\ At(p, "selread")
  /\ sel' = [sel EXCEPT ![p] = Listed(@, found)]
  /\ FreeRead(p, grp[p])
  /\ grp' = [grp EXCEPT ![p] = 0]
  /\ Goto(p, IF sel[p].all \/ found = {} \/ sel[p].next > modulus
             THEN "selgroup" ELSE "idle")
  /\ UNCHANGED <<params, load, inhibit, data, ftl, op, other, old>>

\* All groups are read; if nobody has updated the file since the start, its
\* load is corrected.
SelectEnd(p) ==
  /\ At(p, "selgroup") /\ sel[p].next > modulus /\ ~sel[p].all
  /\ WithTable
  /\ load' = IF sel[p].updated THEN load ELSE sel[p].recs
  /\ inhibit' = inhibit - 1
  /\ sel' = [sel EXCEPT ![p] = NoSelect]
  /\ Goto(p, "idle")
  /\ UNCHANGED <<params, data, readers, writer, local>>

\* dh_complete_select() corrects the load without FILE_TABLE_LOCK, if it read
\* any record, and also when the user quits or is logged out on the way.
SelectCheck(p) ==
  /\ At(p, "selgroup") /\ sel[p].all
  /\ sel[p].next > modulus \/ "quit" \in Ops
  /\ Goto(p, IF sel[p].found /\ ~sel[p].updated THEN "selsave" ELSE "seldone")
  /\ UNCHANGED <<params, load, inhibit, data, locks, local, sel>>

\* The new load is lost if Account has read the old one and not written it yet.
SelectSave(p) ==
  /\ At(p, "selsave")
  /\ load' \in {sel[p].recs} \cup (IF \E q \in Proc : At(q, "account") THEN {load} ELSE {})
  /\ Goto(p, "seldone")
  /\ UNCHANGED <<params, inhibit, data, locks, local, sel>>

SelectDone(p) ==
  /\ At(p, "seldone")
  /\ WithTable
  /\ inhibit' = inhibit - 1
  /\ sel' = [sel EXCEPT ![p] = NoSelect]
  /\ Goto(p, "idle")
  /\ UNCHANGED <<params, load, data, readers, writer, local>>

\* Mutant: the end of a select does not give its inhibit_count back.
EndSelectKept(p) ==
  /\ At(p, "idle") /\ sel[p].next # 0
  /\ WithTable
  /\ sel' = [sel EXCEPT ![p] = NoSelect]
  /\ UNCHANGED <<params, load, inhibit, data, readers, writer, pc, local>>

\* CLEARSELECT, or the file is closed.
EndSelect(p) ==
  /\ At(p, "idle") /\ sel[p].next # 0
  /\ WithTable
  /\ inhibit' = inhibit - 1
  /\ sel' = [sel EXCEPT ![p] = NoSelect]
  /\ UNCHANGED <<params, load, data, readers, writer, pc, local>>

-----------------------------------------------------------------------------
Step(p) ==
  \/ HashId(p) \/ LockGroup(p) \/ ReadRecord(p) \/ WriteRecord(p)
  \/ Account(p) \/ CheckLoad(p) \/ Return(p)
  \/ NoSplit(p) \/ SplitBegin(p) \/ SplitLockNew(p) \/ SplitLockSource(p)
  \/ SplitMove(p) \/ FreeOther(p) \/ ResizeEnd(p)
  \/ NoMerge(p) \/ MergeBegin(p) \/ MergeLockTarget(p) \/ MergeLockSource(p)
  \/ MergeMove(p)
  \/ SelectBegin(p) \/ SelectGroup(p) \/ SelectLock(p)
  \/ SelectRead(p) \/ SelectEnd(p)
  \/ SelectCheck(p) \/ SelectSave(p) \/ SelectDone(p)

\* What a program does of its own accord.
Program(p) ==
  \/ \E r \in Request : Call(p, r)
  \/ Select(p) \/ SelectMore(p) \/ SelectAll(p) \/ EndSelect(p)

Next == \E p \in Proc : Step(p) \/ Program(p)

Spec == Init /\ [][Next]_vars

-----------------------------------------------------------------------------
(* Properties *)

\* A split or merge under way: the group it takes records from, still to be
\* moved, and where they belong.
Moving(p, g, h) ==
  /\ pc[p] \in {"newlock", "splitsrc", "splitmove", "mergemove"}
  /\ grp[p] = g /\ other[p] = h

\* Every record is in the group its id hashes to, where dh_read() looks for
\* it, or in the one group that a split or merge is about to take it from.
RecordsAtHome ==
  \A g \in Group : \A id \in RecordsIn(g) :
    g = Home(id) \/ \E p \in Proc : Moving(p, g, Home(id))

Stored == UNION {RecordsIn(g) : g \in Group}

\* No record is stored twice.
RecordsOnce ==
  \A g, h \in Group : g # h => RecordsIn(g) \cap RecordsIn(h) = {}

\* When nobody is in the middle of an operation the load is not less than
\* the records in the file, so that a file that is too full gets split: the
\* accounts come late and in any order, and are cut off at zero.
LoadCovers ==
  (\A p \in Proc : At(p, "idle"))
    => load >= Cardinality(Stored)

\* inhibit_count: "Count of reasons to hold off split/merge".
Resizing(p) == pc[p] \in {"splitsrc", "splitmove", "mergemove", "freeother", "resized"}
InhibitExact ==
  inhibit = Cardinality({p \in Proc : Resizing(p)})
            + Cardinality({p \in Proc : sel[p].next # 0})

\* A complete select lists every record that existed all the time, once; but
\* if a split was waiting for its source group at the start, the records it
\* moves may be listed twice.
SelectExact ==
  \A p \in Proc : At(p, "selgroup") /\ sel[p].next > modulus =>
    \A id \in Id \ sel[p].touched :
      IF id \in Stored
      THEN sel[p].list[id] >= 1 /\ (~sel[p].splitting => sel[p].list[id] = 1)
      ELSE sel[p].list[id] = 0

\* The load is about to be corrected by a select during which nobody updated
\* the file ...
Correcting(p) ==
  /\ At(p, "selsave") \/ (At(p, "selgroup") /\ sel[p].next > modulus)
  /\ ~sel[p].updated

\* ... with the number of records in the file, as dh_select() says: "We can use
\* the select as a way to correct any error in the file header record count
\* and load bytes so long as the file is not updated during the select.  When
\* the select completes, we can check if there have been any updates and, if
\* not, we can save the new values".
SelectCorrects == \A p \in Proc : Correcting(p) => sel[p].recs = Cardinality(Stored)

\* The file as its users see it.
Store == [id \in Id |->
  IF id \in Stored
  THEN data[CHOOSE g \in Group : id \in RecordsIn(g)][id] ELSE None]
Replies == [p \in Proc |->
  IF op[p] = None \/ pc[p] \in {"hash", "lock", "access"} THEN "wait" ELSE old[p]]
KV == INSTANCE KVStore WITH store <- Store, call <- op, reply <- Replies

\* Reads, writes and deletes are atomic, whatever is split, merged or
\* selected meanwhile.
ImplementsKVStore == KV!StoreSpec
=============================================================================
