------------------------------ MODULE DHBlocks ------------------------------
(***************************************************************************)
(* The blocks of a hashed file: dh_get_overflow() and dh_free_overflow()   *)
(* of dh_file.c, and what dh_write.c, dh_del.c and dh_split.c do to the    *)
(* blocks of the groups that they have locked.                             *)
(*                                                                         *)
(* A group is a chain of blocks: a primary block and overflow blocks.  A   *)
(* large record has its data in a chain of overflow blocks of its own, and *)
(* free overflow blocks form a chain from params.free_chain.               *)
(*                                                                         *)
(* Each block that a process writes to its groups is one action.  What it  *)
(* does with the header locked is one action too: only one process can be  *)
(* there.  dh_flush_header() is called without that lock as well, and is   *)
(* then two actions if "overlap" is in Ops: the header is copied, and the  *)
(* copy is written.  How a process gets the locks of groups is modelled in *)
(* DHFile and GroupLocks; reads, which change no block, are left out.      *)
(*                                                                         *)
(* A record is its key, the space that it takes in its group, and the head *)
(* of the chain of its data, 0 unless it is large.                         *)
(***************************************************************************)
EXTENDS LinearHash, Sequences, SequencesExt, FiniteSets

CONSTANTS
  Proc,
  Key,
  HashOf,     \* hash() of each key
  MinMod, MaxMod,
  MaxBlock,   \* overflow blocks for which there is room on the disk
  Space,      \* space for records in a block
  Size,       \* the sizes of records
  LargeSize,  \* what a large record takes in its group
  Data,       \* the numbers of blocks with the data of a large record
  Ops,
  None

Operation == {"write", "delete", "resize", "close", "overlap", "full", "fullsplit",
              "fullreplace", "fullresize", "fulldata"}
Block == 1..MaxBlock
Group == 1..MaxMod

ASSUME DHBlocksAssumption ==
  /\ MinMod \in Nat \ {0} /\ MaxMod \in Nat /\ MinMod <= MaxMod
  /\ HashOf \in [Key -> Nat]
  /\ MaxBlock \in Nat /\ Data \subseteq Nat \ {0}
  /\ Space \in Nat /\ Size \subseteq 1..Space /\ LargeSize \in Size
  /\ Ops \subseteq Operation
  /\ None \notin Proc

VARIABLES
  modulus, modValue,
  primary,    \* the primary blocks
  overflow,   \* the overflow blocks on the disk
  extent,     \* the number of overflow blocks that have been made
  freeChain,  \* params.free_chain
  onDisk,     \* the free chain in the header on the disk
  image,      \* that in the header which each process is about to write
  late,       \* history: processes with an image from before a block was taken
  stale,      \* history: the header on the disk was such an image
  locked,     \* the process that has locked each group
  header,     \* a process that holds the header for good
  job,        \* what each process does
  store       \* history: size and data blocks of each record, as written

blocks == <<primary, overflow>>
flushed == <<onDisk, image, late, stale>>
space == <<extent, freeChain, flushed>>
vars == <<modulus, modValue, blocks, space, locked, header, job, store>>

Absent == [size |-> 0, data |-> 0]
Contents == {Absent} \cup [size : Size, data : {0} \cup Data]
Record == [key : Key, size : Size, head : 0..MaxBlock]

\* A block of a group, also what a free block looks like; one of a large record.
GroupBlock(rs, n) == [recs |-> rs, next |-> n]
EmptyBlock == GroupBlock(<<>>, 0)
DataBlock(k, n) == [data |-> k, next |-> n]
\* A primary block past the end of the file, or cleared by a merge.
Unmade == [made |-> FALSE, next |-> 0]

\* Where a block is: <<"p", group>> or <<"o", block>>.
Loc == ({"p"} \X Group) \cup ({"o"} \X Block)
BlockAt(l) == IF l[1] = "p" THEN primary[l[2]] ELSE overflow[l[2]]
Write(l, b) ==
  /\ primary' = IF l[1] = "p" THEN [primary EXCEPT ![l[2]] = b] ELSE primary
  /\ overflow' = IF l[1] = "o" THEN [overflow EXCEPT ![l[2]] = b] ELSE overflow

Idle == [at |-> "idle"]
NoImage == -1

Init ==
  /\ modulus = MinMod
  /\ modValue \in MinMod..2 * MinMod - 1 /\ PowerOfTwo(modValue)
  /\ primary = [g \in Group |-> IF g <= MinMod THEN EmptyBlock ELSE Unmade]
  /\ overflow = [b \in Block |-> EmptyBlock]
  /\ extent = 0 /\ freeChain = 0 /\ onDisk = 0
  /\ image = [p \in Proc |-> NoImage] /\ late = {} /\ stale = FALSE
  /\ locked = [g \in Group |-> None]
  /\ header = None
  /\ job = [p \in Proc |-> Idle]
  /\ store = [k \in Key |-> Absent]

-----------------------------------------------------------------------------
(* Blocks and chains *)

Home(k) == GroupOf(HashOf[k], modulus, modValue)

\* The block after b; and the blocks from b on, with 0 after the last.
After(b) == IF b = 0 THEN 0 ELSE overflow[b].next
Walk(b) == LET at[n \in 0..MaxBlock] == IF n = 0 THEN b ELSE After(at[n - 1])
           IN at
\* The overflow blocks from b on; longer than MaxBlock if it is a ring.
Chain(b) ==
  LET at == Walk(b)
      n == CHOOSE n \in 0..MaxBlock + 1 : \A i \in 0..MaxBlock : at[i] # 0 <=> i < n
  IN [i \in 1..n |-> at[i - 1]]

\* The places of the blocks of group g.
Places(g) == LET c == Chain(primary[g].next)
             IN <<<<"p", g>>>> \o [i \in 1..Len(c) |-> <<"o", c[i]>>]

Taken(rs) == FoldLeft(LAMBDA n, r : n + r.size, 0, rs)
Fits(r, b) == Taken(b.recs) + r.size <= Space
Holds(b, k) == \E i \in 1..Len(b.recs) : b.recs[i].key = k
SlotOf(b, k) == CHOOSE i \in 1..Len(b.recs) : b.recs[i].key = k
RecordOf(b, k) == b.recs[SlotOf(b, k)]
Without(b, k) == [b EXCEPT !.recs = RemoveAt(@, SlotOf(b, k))]

\* The compaction loop: n records of rs, from its head, are all that fit into b.
Movable(b, rs, n) ==
  /\ n = 0 \/ Taken(b.recs \o SubSeq(rs, 1, n)) <= Space
  /\ n < Len(rs) => ~Fits(rs[n + 1], [b EXCEPT !.recs = @ \o SubSeq(rs, 1, n)])

-----------------------------------------------------------------------------
(* The free chain *)

HeaderFree == header = None
NoSpace == freeChain = 0 /\ extent = MaxBlock

\* A block is taken: the images that there are may name it.
Copied == {p \in Proc : image[p] # NoImage}
Outdated == late' = Copied

\* Mutant: the header is not written.
GetUnflushed(b) ==
  /\ HeaderFree /\ ~NoSpace
  /\ b = IF freeChain # 0 THEN freeChain ELSE extent + 1
  /\ freeChain' = IF freeChain # 0 THEN overflow[b].next ELSE 0
  /\ extent' = IF freeChain # 0 THEN extent ELSE b
  /\ Outdated /\ UNCHANGED <<onDisk, image, stale>>
\* dh_get_overflow() returns b, with dh_flush_header(), all with the header
\* locked.
GetOverflow(b) ==
  /\ HeaderFree /\ ~NoSpace
  /\ b = IF freeChain # 0 THEN freeChain ELSE extent + 1
  /\ freeChain' = IF freeChain # 0 THEN overflow[b].next ELSE 0
  /\ extent' = IF freeChain # 0 THEN extent ELSE b
  /\ onDisk' = freeChain' /\ stale' = FALSE
  /\ Outdated /\ UNCHANGED image

\* dh_free_overflow(); only the header in memory changes.
FreeOverflow(b) ==
  /\ HeaderFree
  /\ Write(<<"o", b>>, GroupBlock(<<>>, freeChain))
  /\ freeChain' = b
  /\ UNCHANGED <<extent, flushed>>

\* Mutant: the rest of the free chain is cut off.
FreeDataCut(h) ==
  LET c == Chain(h)
  IN /\ HeaderFree
     /\ overflow' = [b \in Block |->
          IF b \in Range(c) THEN GroupBlock(<<>>, overflow[b].next) ELSE overflow[b]]
     /\ freeChain' = h
     /\ UNCHANGED <<primary, extent, flushed>>
\* dh_free_big_rec(): the chain at h goes in front of the free chain.
FreeData(h) ==
  LET c == Chain(h)
  IN /\ HeaderFree
     /\ overflow' = [b \in Block |->
          IF b \in Range(c)
          THEN GroupBlock(<<>>, IF b = Last(c) THEN freeChain ELSE overflow[b].next)
          ELSE overflow[b]]
     /\ freeChain' = h
     /\ UNCHANGED <<primary, extent, flushed>>

-----------------------------------------------------------------------------
(* dh_flush_header() of a process that does not hold the header lock *)

At(p, l) == job[p].at = l
Do(p, j) == job' = [job EXCEPT ![p] = j]

\* At the end of a split or merge, with both groups still locked.
Resized(p) == At(p, "move") /\ job[p].buff = EmptyBlock /\ job[p].src[1] = "p"

\* The header is read, and its parameters set from those in memory.
CopyHeader(p) ==
  /\ "overlap" \in Ops
  /\ At(p, "flush") \/ At(p, "leave") \/ Resized(p)
  /\ image[p] = NoImage
  /\ image' = [image EXCEPT ![p] = freeChain]
  /\ UNCHANGED <<modulus, modValue, blocks, extent, freeChain, onDisk, late, stale,
                 locked, header, job, store>>

\* The copy is written, or one that is made at once.
PutHeader(p) ==
  /\ onDisk' = (IF image[p] = NoImage THEN freeChain ELSE image[p])
  /\ stale' = (p \in late)
  /\ image' = [image EXCEPT ![p] = NoImage]
  /\ late' = late \ {p}

\* dh_close() and dh_configure() flush the header, if the process has updated the
\* file or statistics are kept, and do nothing else here.
CloseFile(p) ==
  /\ "close" \in Ops /\ At(p, "idle")
  /\ Do(p, [at |-> "leave"])
  /\ UNCHANGED <<modulus, modValue, blocks, space, locked, header, store>>

LeaveFile(p) ==
  /\ At(p, "leave")
  /\ PutHeader(p)
  /\ Do(p, Idle)
  /\ UNCHANGED <<modulus, modValue, blocks, extent, freeChain, locked, header, store>>

-----------------------------------------------------------------------------
(* dh_write() and dh_delete() *)

Unlock(p) == locked' = [g \in Group |-> IF locked[g] = p THEN None ELSE locked[g]]

\* The group of key k is locked and searched.
FoundAt(k, i) == LET ls == Places(Home(k))
                 IN i \in 1..Len(ls) /\ Holds(BlockAt(ls[i]), k)
\* What comes of using a group that a failed split left unmade is undefined:
\* dh_read_group() takes a read of no bytes for success.  It is not modelled.
Made(g) == primary[g] # Unmade
LockHome(p, k) ==
  /\ Made(Home(k))
  /\ locked[Home(k)] = None
  /\ locked' = [locked EXCEPT ![Home(k)] = p]

\* What follows when the buffer b is as it should be: there may be more blocks
\* to compact; a new record goes into the buffer if there is room.
Onward(j, b) ==
  IF b.next # 0 THEN [j EXCEPT !.at = "compact", !.buff = b]
  ELSE IF j.op = "delete" THEN [j EXCEPT !.at = "last", !.buff = b]
  ELSE IF Fits(j.rec, b) THEN [j EXCEPT !.at = "last", !.buff.recs = Append(b.recs, j.rec),
                                        !.buff.next = 0]
  ELSE [j EXCEPT !.at = "add", !.buff = b]

\* dh_write() of w from its group lock on.  A record of the same size is
\* replaced where it is; any other is taken out first.
Place(p, w) ==
  /\ LockHome(p, w.key)
  /\ LET ls == Places(Home(w.key))
         rec == [key |-> w.key, size |-> w.size, head |-> w.head]
         found == {i \in 1..Len(ls) : FoundAt(w.key, i)}
         Job(i, old) ==
           [at |-> "last", op |-> "write", key |-> w.key, size |-> w.size, data |-> w.data,
            rec |-> rec, loc |-> ls[i], buff |-> BlockAt(ls[i]), old |-> old,
            found |-> found # {}]
     IN \/ /\ found = {}
           /\ Do(p, Onward(Job(Len(ls), 0), BlockAt(Last(ls))))
        \/ \E i \in found :
             LET b == BlockAt(ls[i])
                 old == RecordOf(b, w.key)
             IN \/ /\ old.size = w.size
                   /\ Do(p, [Job(i, old.head) EXCEPT !.buff.recs =
                        [j \in DOMAIN @ |-> IF @[j].key = w.key THEN rec ELSE @[j]]])
                \/ /\ old.size # w.size
                   /\ Do(p, Onward(Job(i, old.head), Without(b, w.key)))
  /\ UNCHANGED <<modulus, modValue, blocks, space, header, store>>

WriteRecord(p, k, s) ==
  /\ "write" \in Ops /\ At(p, "idle")
  /\ Place(p, [key |-> k, size |-> s, data |-> 0, head |-> 0])

\* dh_write_big_rec(), with the header locked throughout.
BlocksLeft == Len(Chain(freeChain)) + (MaxBlock - extent)
WriteData(p, k, s, n) ==
  /\ "write" \in Ops /\ At(p, "idle") /\ HeaderFree
  /\ n <= BlocksLeft
  /\ LET spare == Chain(freeChain)
         got == [i \in 1..n |-> IF i <= Len(spare) THEN spare[i]
                                ELSE extent + i - Len(spare)]
         next(i) == IF i < n THEN got[i + 1] ELSE 0
     IN /\ overflow' = [b \in Block |->
             IF b \in Range(got)
             THEN DataBlock(k, next(CHOOSE i \in 1..n : got[i] = b))
             ELSE overflow[b]]
        /\ freeChain' = IF n < Len(spare) THEN spare[n + 1] ELSE 0
        /\ extent' = IF n > Len(spare) THEN extent + n - Len(spare) ELSE extent
        /\ Do(p, [at |-> "flush", key |-> k, size |-> s, data |-> n, head |-> got[1]])
  /\ Outdated
  /\ UNCHANGED <<modulus, modValue, primary, onDisk, image, stale, locked, header, store>>

\* No block for the next part of the data.  The first block that was got and
\* not written stays out of every chain; and dh_free_overflow(), called for
\* blocks that were written, waits for the header lock that p has.
DataFails(p, n) ==
  /\ At(p, "idle") /\ HeaderFree /\ BlocksLeft < n
  /\ IF BlocksLeft = 0 THEN "full" \in Ops ELSE "fulldata" \in Ops
  /\ freeChain' = 0 /\ extent' = MaxBlock
  /\ \/ /\ BlocksLeft <= 1
        /\ Do(p, [at |-> "leave"])
        /\ UNCHANGED header
     \/ /\ BlocksLeft > 1
        /\ header' = p
        /\ Do(p, [at |-> "stuck"])
  /\ IF BlocksLeft = 0 THEN UNCHANGED late ELSE Outdated
  /\ UNCHANGED <<modulus, modValue, blocks, onDisk, image, stale, locked, store>>

\* dh_flush_header() once the header is unlocked; then the group is locked.
FlushHeader(p) ==
  /\ At(p, "flush")
  /\ PutHeader(p)
  /\ Do(p, [job[p] EXCEPT !.at = "place"])
  /\ UNCHANGED <<modulus, modValue, blocks, extent, freeChain, locked, header, store>>

PlaceLarge(p) == At(p, "place") /\ Place(p, job[p])

Delete(p, k) ==
  /\ "delete" \in Ops /\ At(p, "idle")
  /\ LockHome(p, k)
  /\ LET ls == Places(Home(k))
     IN \E i \in 1..Len(ls) :
          /\ FoundAt(k, i)
          /\ LET b == Without(BlockAt(ls[i]), k)
                 j == [at |-> "unchain", op |-> "delete", key |-> k,
                       loc |-> ls[i], buff |-> b, prev |-> ls[IF i > 1 THEN i - 1 ELSE 1],
                       old |-> RecordOf(BlockAt(ls[i]), k).head]
             IN Do(p, IF b.recs = <<>> /\ i > 1 THEN j ELSE Onward(j, b))
  /\ UNCHANGED <<modulus, modValue, blocks, space, header, store>>

\* Mutant: the block before it is written as it was read.
UnchainForgotten(p) ==
  /\ At(p, "unchain")
  /\ FreeOverflow(job[p].loc[2])
  /\ Do(p, [job[p] EXCEPT !.at = "last", !.loc = job[p].prev,
              !.buff = BlockAt(job[p].prev)])
  /\ UNCHANGED <<modulus, modValue, locked, header, store>>
\* An overflow block without records is freed, and then the one before it,
\* read again, is made to point past it.
Unchain(p) ==
  /\ At(p, "unchain")
  /\ FreeOverflow(job[p].loc[2])
  /\ Do(p, [job[p] EXCEPT !.at = "last", !.loc = job[p].prev,
              !.buff = [BlockAt(job[p].prev) EXCEPT !.next = job[p].buff.next]])
  /\ UNCHANGED <<modulus, modValue, locked, header, store>>

\* Compaction: records of the next block move to this one.  An emptied block is
\* freed; if the next one is not emptied this one is written.
Compact(p) ==
  LET b == job[p].buff
      n == b.next
      rs == overflow[n].recs
      Full(m) == b.recs \o SubSeq(rs, 1, m)
  IN /\ At(p, "compact")
     /\ \E m \in 0..Len(rs) :
          /\ Movable(b, rs, m)
          /\ \/ /\ m = Len(rs)
                /\ FreeOverflow(n)
                /\ Do(p, Onward(job[p], GroupBlock(Full(m), overflow[n].next)))
             \/ /\ m < Len(rs)
                /\ Write(job[p].loc, GroupBlock(Full(m), n))
                /\ Do(p, Onward([job[p] EXCEPT !.loc = <<"o", n>>],
                             GroupBlock(SubSeq(rs, m + 1, Len(rs)), overflow[n].next)))
                /\ UNCHANGED space
     /\ UNCHANGED <<modulus, modValue, locked, header, store>>

\* The new record goes into a new block.
Add(p) ==
  /\ At(p, "add")
  /\ \E o \in Block :
       /\ GetOverflow(o)
       /\ Write(job[p].loc, [job[p].buff EXCEPT !.next = o])
       /\ Do(p, [job[p] EXCEPT !.at = "last", !.loc = <<"o", o>>,
                   !.buff = GroupBlock(<<job[p].rec>>, 0)])
  /\ UNCHANGED <<modulus, modValue, locked, header, store>>

\* dh_get_overflow() fails: the data of a large record is given away.
AddFails(p) ==
  /\ At(p, "add") /\ NoSpace
  /\ IF job[p].found THEN "fullreplace" \in Ops ELSE "full" \in Ops
  /\ \/ job[p].rec.head # 0 /\ FreeData(job[p].rec.head)
     \/ job[p].rec.head = 0 /\ UNCHANGED <<blocks, space>>
  /\ Unlock(p) /\ Do(p, Idle)
  /\ UNCHANGED <<modulus, modValue, header, store>>

\* The last block is written; the data of the old record goes after the lock.
WriteLast(p) ==
  /\ At(p, "last")
  /\ Write(job[p].loc, job[p].buff)
  /\ store' = [store EXCEPT ![job[p].key] =
       IF job[p].op = "write" THEN [size |-> job[p].size, data |-> job[p].data] ELSE Absent]
  /\ Unlock(p)
  /\ Do(p, IF job[p].old = 0 THEN Idle ELSE [at |-> "freedata", old |-> job[p].old])
  /\ UNCHANGED <<modulus, modValue, space, header>>

FreeOldData(p) ==
  /\ At(p, "freedata")
  /\ FreeData(job[p].old)
  /\ Do(p, Idle)
  /\ UNCHANGED <<modulus, modValue, locked, header, store>>

-----------------------------------------------------------------------------
(* dh_split() and dh_merge() *)

\* inhibit_count
NoResize == \A p \in Proc : ~At(p, "move")
LockTwo(p, g, h) ==
  /\ locked[g] = None /\ locked[h] = None
  /\ locked' = [locked EXCEPT ![g] = p, ![h] = p]

\* The records of src go to two target buffers; the first replaces src.
Split(p) ==
  LET new == modulus + 1
      src == SplitSource(modulus, modValue)
  IN /\ "resize" \in Ops /\ At(p, "idle") /\ NoResize /\ modulus < MaxMod
     /\ Made(src)
     /\ LockTwo(p, src, new)
     /\ modulus' = new /\ modValue' = SplitModValue(modulus, modValue)
     /\ Do(p, [at |-> "move", op |-> "split", new |-> new,
               src |-> <<"p", src>>, buff |-> primary[src],
               tgt |-> <<[loc |-> <<"p", src>>, buff |-> EmptyBlock],
                         [loc |-> <<"p", new>>, buff |-> EmptyBlock]>>])
     /\ UNCHANGED <<blocks, space, header, store>>

\* The records of the last group go to the end of another.
Merge(p) ==
  LET src == modulus
      end == Last(Places(MergeTarget(modulus, modValue)))
  IN /\ "resize" \in Ops /\ At(p, "idle") /\ NoResize /\ modulus > MinMod
     /\ Made(src) /\ Made(MergeTarget(modulus, modValue))
     /\ LockTwo(p, MergeTarget(modulus, modValue), src)
     /\ modulus' = modulus - 1 /\ modValue' = MergeModValue(modulus, modValue)
     /\ Do(p, [at |-> "move", op |-> "merge", new |-> src,
               src |-> <<"p", src>>, buff |-> primary[src],
               tgt |-> <<[loc |-> end, buff |-> BlockAt(end)]>>])
     /\ UNCHANGED <<blocks, space, header, store>>

TargetOf(p, r) == IF job[p].op = "split" /\ Home(r.key) = job[p].new THEN 2 ELSE 1

\* One record of the source buffer.
Move(p) ==
  /\ At(p, "move") /\ job[p].buff.recs # <<>>
  /\ LET r == Head(job[p].buff.recs)
         t == TargetOf(p, r)
         Moved(tgt) == Do(p, [job[p] EXCEPT !.buff.recs = Tail(@), !.tgt[t] = tgt])
         b == job[p].tgt[t].buff
         l == job[p].tgt[t].loc
     IN \/ /\ Fits(r, b)
           /\ Moved([loc |-> l, buff |-> [b EXCEPT !.recs = Append(@, r)]])
           /\ UNCHANGED <<blocks, space>>
        \/ /\ ~Fits(r, b)
           /\ \E o \in Block :
                /\ GetOverflow(o)
                /\ Write(l, [b EXCEPT !.next = o])
                /\ Moved([loc |-> <<"o", o>>, buff |-> GroupBlock(<<r>>, 0)])
  /\ UNCHANGED <<modulus, modValue, locked, header, store>>

\* Nothing has been written or freed, and no record belongs to the new group.
NothingToMove(p) ==
  /\ job[p].op = "split" /\ job[p].tgt[1].loc[1] = "p"
  /\ job[p].src[1] = "o" => job[p].src[2] = primary[job[p].tgt[1].loc[2]].next
  /\ \A k \in Key : Home(k) = job[p].new => store[k] = Absent

\* dh_get_overflow() fails: "goto exit_dh_split".  The modulus stays changed.
MoveFails(p) ==
  /\ NoSpace
  /\ At(p, "move") /\ job[p].buff.recs # <<>>
  /\ IF NothingToMove(p) THEN "fullsplit" \in Ops ELSE "fullresize" \in Ops
  /\ LET r == Head(job[p].buff.recs) IN ~Fits(r, job[p].tgt[TargetOf(p, r)].buff)
  /\ Unlock(p) /\ Do(p, Idle)
  /\ UNCHANGED <<modulus, modValue, blocks, space, header, store>>

\* The source block is done with: an overflow block is freed.
NextSource(p) ==
  LET n == job[p].buff.next
  IN /\ At(p, "move") /\ job[p].buff.recs = <<>> /\ n # 0
     /\ \/ job[p].src[1] = "o" /\ FreeOverflow(job[p].src[2])
        \/ job[p].src[1] = "p" /\ UNCHANGED <<blocks, space>>
     /\ Do(p, [job[p] EXCEPT !.src = <<"o", n>>, !.buff = overflow[n]])
     /\ UNCHANGED <<modulus, modValue, locked, header, store>>

LastSource(p) ==
  /\ At(p, "move") /\ job[p].buff = EmptyBlock /\ job[p].src[1] = "o"
  /\ FreeOverflow(job[p].src[2])
  /\ Do(p, [job[p] EXCEPT !.src = <<"p", job[p].new>>])
  /\ UNCHANGED <<modulus, modValue, locked, header, store>>

\* The target buffers are written, after a merge also the cleared source, and
\* the header.  The buffers are written before that, to
\* groups that stay locked: no other process can tell.
EndResize(p) ==
  /\ Resized(p)
  /\ LET W == Range(job[p].tgt) \cup
              (IF job[p].op = "merge" THEN {[loc |-> <<"p", job[p].new>>, buff |-> Unmade]}
               ELSE {})
         Written(l, b) == IF \E w \in W : w.loc = l
                          THEN (CHOOSE w \in W : w.loc = l).buff ELSE b
     IN /\ primary' = [g \in Group |-> Written(<<"p", g>>, primary[g])]
        /\ overflow' = [b \in Block |-> Written(<<"o", b>>, overflow[b])]
  /\ PutHeader(p)
  /\ Unlock(p) /\ Do(p, Idle)
  /\ UNCHANGED <<modulus, modValue, extent, freeChain, header, store>>

-----------------------------------------------------------------------------

Next ==
  \E p \in Proc :
    \/ \E k \in Key, s \in Size : WriteRecord(p, k, s)
    \/ \E k \in Key, n \in Data : WriteData(p, k, LargeSize, n)
    \/ \E n \in Data : DataFails(p, n)
    \/ CopyHeader(p)
    \/ FlushHeader(p)
    \/ CloseFile(p)
    \/ LeaveFile(p)
    \/ PlaceLarge(p)
    \/ \E k \in Key : Delete(p, k)
    \/ Unchain(p)
    \/ Compact(p)
    \/ Add(p)
    \/ AddFails(p)
    \/ WriteLast(p)
    \/ FreeOldData(p)
    \/ Split(p)
    \/ Merge(p)
    \/ Move(p)
    \/ MoveFails(p)
    \/ NextSource(p)
    \/ LastSource(p)
    \/ EndResize(p)

Spec == Init /\ [][Next]_vars

-----------------------------------------------------------------------------
(* Properties *)

Quiet == \A p \in Proc : At(p, "idle")

OfGroup(b) == "recs" \in DOMAIN b

\* What a job has beside "at" is in step with it.  No block is over-full.
TypeOK ==
  /\ modulus \in Group /\ modValue \in Nat
  /\ \A l \in Loc :
       IF OfGroup(BlockAt(l))
       THEN BlockAt(l) \in [recs : Seq(Record), next : 0..MaxBlock] /\ Taken(BlockAt(l).recs) <= Space
       ELSE IF l[1] = "p" THEN BlockAt(l) = Unmade
       ELSE BlockAt(l) \in [data : Key, next : 0..MaxBlock]
  /\ extent \in 0..MaxBlock /\ freeChain \in 0..MaxBlock /\ onDisk \in 0..MaxBlock
  /\ image \in [Proc -> {NoImage} \cup 0..MaxBlock] /\ late \subseteq Copied /\ stale \in BOOLEAN
  /\ locked \in [Group -> Proc \cup {None}] /\ header \in Proc \cup {None}
  /\ \A p \in Proc : job[p].at \in {"idle", "flush", "leave", "place", "add", "compact", "unchain",
                                   "last", "freedata", "move", "stuck"}
  /\ store \in [Key -> Contents]

\* The records at place l; and where records are in group g: a block and a slot of it.
RecordsAt(l) == IF OfGroup(BlockAt(l)) THEN BlockAt(l).recs ELSE <<>>
Slots(g) == UNION {{i} \X (1..Len(RecordsAt(Places(g)[i]))) : i \in 1..Len(Places(g))}
InSlot(g, s) == RecordsAt(Places(g)[s[1]])[s[2]]

\* A group that nobody has locked holds exactly the records that were written
\* to it, each once, with all of its data and with nothing else in its blocks:
\* whatever moves records between blocks, and blocks between chains, loses none.
GroupsIntact ==
  \A g \in 1..modulus : locked[g] = None =>
    /\ Len(Places(g)) <= MaxBlock + 1
    /\ Made(g) => \A i \in 1..Len(Places(g)) : OfGroup(BlockAt(Places(g)[i]))
    /\ \A s, t \in Slots(g) : InSlot(g, s).key = InSlot(g, t).key => s = t
    /\ {InSlot(g, s).key : s \in Slots(g)} = {k \in Key : store[k] # Absent /\ Home(k) = g}
    /\ \A s \in Slots(g) :
         LET r == InSlot(g, s)
             c == Chain(r.head)
         IN /\ r.size = store[r.key].size
            /\ Len(c) = store[r.key].data
            /\ \A j \in 1..Len(c) : overflow[c[j]] = DataBlock(r.key, overflow[c[j]].next)

\* When nothing is being done every overflow block is in one chain, and in one
\* place of it: none is lost, and none will be given to two records.
SpaceAccounted ==
  Quiet =>
    LET heads == {primary[g].next : g \in 1..modulus} \cup {freeChain}
                 \cup UNION {{InSlot(g, s).head : s \in Slots(g)} : g \in 1..modulus}
        InChain(b) == {h \in heads : b \in Range(Chain(h))}
    IN /\ \A b \in 1..extent : Cardinality(InChain(b)) = 1
       /\ \A b \in Block : b > extent => InChain(b) = {}
       /\ \A g, h \in 1..modulus : primary[g].next = primary[h].next => g = h \/ primary[g].next = 0

\* dh_file.c takes the free chain in the header to be "protected by the group
\* lock on group 0": when nothing is being done, that on the disk has only free
\* blocks, and a system that stops then uses no block twice.
DiskNamesFree == Quiet => Range(Chain(onDisk)) \subseteq Range(Chain(freeChain))

\* That is so unless the last header was written by a process that had copied
\* it, without the lock, before another one took a block.
FreeOnDisk == ~stale => DiskNamesFree
=============================================================================
