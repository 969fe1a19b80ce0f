----------------------------- MODULE GroupLocks -----------------------------
(***************************************************************************)
(* The shared table of group locks (dh_get_group_lock() and                *)
(* dh_free_group_lock() of dh_file.c, GLOCK_ENTRY of locks.h) and how the  *)
(* hashed file code asks for its locks.                                    *)
(*                                                                         *)
(* A lock lives in a cell found by cyclic probing from the hash of its     *)
(* group; count[h] says how many locks hash to h and ends the scans.  Each *)
(* scan is one action, as it holds GROUP_LOCK_SEM; a process that is       *)
(* refused sleeps and scans again.  The first lock of an operation is      *)
(* awaited while FILE_TABLE_LOCK (ftl) is held, the others are not.        *)
(*                                                                         *)
(* A "group" is a pair of file and group number; the header of a file is   *)
(* its group 0.  Not modelled: the pseudo groups that lock AK trees, which *)
(* are acquired before a header in the same way, and the statistics.       *)
(***************************************************************************)
EXTENDS Integers, Sequences, FiniteSets

CONSTANTS
  User,      \* processes
  Group,     \* groups of all files, headers included
  HeaderOf,  \* the header of the file of each group
  HashOf,    \* GLockHash() of each group
  MaxAsk,    \* bound on the operations each process starts
  None

\* "num_glocks = max_users * 3", in sysseg.c.
NumLocks == 3 * Cardinality(User)
Cell == 1..NumLocks
Header == {HeaderOf[g] : g \in Group}

ASSUME GroupLocksAssumption ==
  /\ IsFiniteSet(User) /\ User # {} /\ None \notin User /\ None \notin Group
  /\ HeaderOf \in [Group -> Group]
  /\ \A g \in Group : HeaderOf[HeaderOf[g]] = HeaderOf[g]
  /\ HashOf \in [Group -> Cell]
  /\ MaxAsk \in [User -> Nat]

VARIABLES
  cell,    \* the cells: hash, owner, group, grp_count
  count,   \* the counts that end the scans
  ftl,     \* the process inside FILE_TABLE_LOCK, or None
  held,    \* the locks that each process has: group, write, and its slot
  want,    \* the locks it is still to get for what it does, the next first
  work,    \* the file that it splits or merges, which has inhibit_count set
  asks     \* the operations it has started

lockVars == <<cell, count, ftl, held, want, work, asks>>

Free == [hash |-> 0]
Busy == [hash : Cell, owner : User, group : Group, readers : Int]
\* inside: asked for within FILE_TABLE_LOCK.
Request == [group : Group, write : BOOLEAN, inside : BOOLEAN]
Holding == [group : Group, write : BOOLEAN, slot : Cell]

LocksTypeOK ==
  /\ cell \in [Cell -> Busy \cup {Free}]
  /\ count \in [Cell -> Nat]
  /\ ftl \in User \cup {None}
  /\ held \in [User -> Seq(Holding)]
  /\ want \in [User -> Seq(Request)]
  /\ work \in [User -> Header \cup {None}]
  /\ asks \in [User -> Nat]

LocksInit ==
  /\ cell = [c \in Cell |-> Free]
  /\ count = [c \in Cell |-> 0]
  /\ ftl = None
  /\ held = [u \in User |-> <<>>]
  /\ want = [u \in User |-> <<>>]
  /\ work = [u \in User |-> None]
  /\ asks = [u \in User |-> 0]

-----------------------------------------------------------------------------
(* The table *)

Used(c) == cell[c] # Free
Dist(i, c) == (c - i + NumLocks) % NumLocks
Chain(i) == {c \in Cell : Used(c) /\ cell[c].hash = i}

\* The cells in which the scan from i meets a lock before it has counted
\* count[i] of them.
Seen(i) == {c \in Chain(i) :
              Cardinality({d \in Chain(i) : Dist(i, d) < Dist(i, c)}) < count[i]}
Vacant(i) == {c \in Cell : ~Used(c) /\ \A d \in Cell : Dist(i, d) < Dist(i, c) => Used(d)}

\* The scan comes round to i before it knows: locks it has counted on are not
\* there, the last one is in the cell before i, or no cell is free.
ComesRound(i) ==
  \/ Cardinality(Chain(i)) < count[i]
  \/ \E c \in Seen(i) : Dist(i, c) = NumLocks - 1
  \/ Vacant(i) = {}

Locking(g) == {c \in Seen(HashOf[g]) : cell[c].group = g}

\* The scan of dh_get_group_lock(u) for a request r ends with the lock in slot c.
NewLock(u, r, c) ==
  LET i == HashOf[r.group]
  IN /\ Locking(r.group) = {} /\ ~ComesRound(i) /\ c \in Vacant(i)
     /\ cell' = [cell EXCEPT ![c] =
          [hash |-> i, owner |-> u, group |-> r.group,
           readers |-> IF r.write THEN -1 ELSE 1]]
     /\ count' = [count EXCEPT ![i] = @ + 1]

ShareLock(u, r, c) ==
  /\ c \in Locking(r.group) /\ ~r.write /\ cell[c].readers >= 0
  /\ cell' = [cell EXCEPT ![c].readers = @ + 1, ![c].owner = u]
  /\ UNCHANGED count

\* Mutant: the count of a write lock stays.
FreeUncounted(c) ==
  /\ Used(c)
  /\ \/ /\ cell[c].readers < 0
        /\ cell' = [cell EXCEPT ![c] = Free]
        /\ UNCHANGED count
     \/ /\ cell[c].readers > 1
        /\ cell' = [cell EXCEPT ![c].readers = @ - 1]
        /\ UNCHANGED count
     \/ /\ cell[c].readers = 1
        /\ cell' = [cell EXCEPT ![c] = Free]
        /\ count' = [count EXCEPT ![cell[c].hash] = @ - 1]
\* Mutant: a reader that leaves frees the cell.
FreeForAll(c) ==
  /\ Used(c)
  /\ cell' = [cell EXCEPT ![c] = Free]
  /\ count' = [count EXCEPT ![cell[c].hash] = @ - 1]
\* dh_free_group_lock().  To free a lock that is gone would change what lies
\* before the table; the model stops short of it.
FreeLock(c) ==
  /\ Used(c)
  /\ \/ /\ cell[c].readers < 0 \/ cell[c].readers = 1
        /\ cell' = [cell EXCEPT ![c] = Free]
        /\ count' = [count EXCEPT ![cell[c].hash] = @ - 1]
     \/ /\ cell[c].readers > 1
        /\ cell' = [cell EXCEPT ![c].readers = @ - 1]
        /\ UNCHANGED count

\* Mutant: the wrong counts are lowered.
RemoveLocksMiscounted(u) ==
  LET R == {c \in Cell : Used(c) /\ cell[c].owner = u}
  IN /\ cell' = [c \in Cell |-> IF c \in R THEN Free ELSE cell[c]]
     /\ count' = [h \in Cell |-> count[h] - Cardinality(R \cap {h})]
\* remove_user(): a dead user's cells.
RemoveLocks(u) ==
  LET R == {c \in Cell : Used(c) /\ cell[c].owner = u}
  IN /\ cell' = [c \in Cell |-> IF c \in R THEN Free ELSE cell[c]]
     /\ count' = [h \in Cell |-> count[h] - Cardinality({c \in R : cell[c].hash = h})]

-----------------------------------------------------------------------------
(* Operations on files *)

Waits(u) == want[u] # <<>>
Quiet(u) == held[u] = <<>> /\ want[u] = <<>> /\ work[u] = None
Asks(u) == asks[u] < MaxAsk[u] /\ asks' = [asks EXCEPT ![u] = @ + 1]

\* dh_read(), dh_write(), dh_delete()...: the group of the record.
Access(u, g, write) ==
  /\ Quiet(u) /\ Asks(u) /\ g \notin Header /\ ftl = None
  /\ ftl' = u
  /\ want' = [want EXCEPT ![u] = <<[group |-> g, write |-> write, inside |-> TRUE]>>]
  /\ UNCHANGED <<cell, count, held, work>>

\* dh_split() and dh_merge(), one at a time in a file: a split awaits the lock
\* of the group that it divides after it has left FILE_TABLE_LOCK.
Resize(u, first, second, split) ==
  /\ Quiet(u) /\ Asks(u) /\ ftl = None
  /\ {first, second} \cap Header = {} /\ first # second
  /\ HeaderOf[first] = HeaderOf[second]
  /\ \A w \in User : work[w] # HeaderOf[first]
  /\ ftl' = u /\ work' = [work EXCEPT ![u] = HeaderOf[first]]
  /\ want' = [want EXCEPT ![u] =
       <<[group |-> first, write |-> TRUE, inside |-> TRUE],
         [group |-> second, write |-> TRUE, inside |-> ~split]>>]
  /\ UNCHANGED <<cell, count, held>>

\* dh_get_overflow(), dh_free_overflow(): within an update or before it, for
\* the data of a large record.
LockHeader(u, h) ==
  /\ want[u] = <<>> /\ Asks(u) /\ ftl # u /\ h \in Header
  /\ held[u] = <<>> => work[u] = None
  /\ \A i \in 1..Len(held[u]) : held[u][i].write /\ held[u][i].group # h
                                  /\ HeaderOf[held[u][i].group] = h
  /\ want' = [want EXCEPT ![u] = <<[group |-> h, write |-> TRUE, inside |-> FALSE]>>]
  /\ UNCHANGED <<cell, count, ftl, held, work>>

\* A scan that finds what the process waits for.
Get(u) ==
  /\ Waits(u)
  /\ LET r == Head(want[u])
     IN \E c \in Cell :
          /\ NewLock(u, r, c) \/ ShareLock(u, r, c)
          /\ held' = [held EXCEPT ![u] =
               Append(@, [group |-> r.group, write |-> r.write, slot |-> c])]
  /\ want' = [want EXCEPT ![u] = Tail(@)]
  /\ ftl' = IF ftl = u /\ ~(\E i \in 2..Len(want[u]) : want[u][i].inside)
            THEN None ELSE ftl
  /\ UNCHANGED <<work, asks>>

\* The locks are given up in the reverse of the order they were taken in.
GiveUp(u) ==
  /\ ~Waits(u) /\ held[u] # <<>>
  /\ LET n == Len(held[u])
     IN /\ FreeLock(held[u][n].slot)
        /\ held' = [held EXCEPT ![u] = SubSeq(@, 1, n - 1)]
  /\ UNCHANGED <<ftl, want, work, asks>>

\* The end of a split or merge: inhibit_count is lowered.
Resized(u) ==
  /\ held[u] = <<>> /\ ~Waits(u) /\ work[u] # None /\ ftl = None
  /\ work' = [work EXCEPT ![u] = None]
  /\ UNCHANGED <<cell, count, ftl, held, want, asks>>

LocksStep(u) ==
  \/ \E g \in Group, write \in BOOLEAN : Access(u, g, write)
  \/ \E g, h \in Group, split \in BOOLEAN : Resize(u, g, h, split)
  \/ \E h \in Header : LockHeader(u, h)
  \/ Get(u)
  \/ GiveUp(u)
  \/ Resized(u)

-----------------------------------------------------------------------------
(* Properties *)

\* A process that writes a group is alone in it; readers share it.
GroupExclusion ==
  \A u, v \in User : u # v =>
    \A i \in 1..Len(held[u]), j \in 1..Len(held[v]) :
      held[u][i].group = held[v][j].group => ~held[u][i].write /\ ~held[v][j].write

\* The slot that each process will pass to dh_free_group_lock() is the cell of
\* its lock, with as many readers as hold it; and count is exact, so that no
\* scan misses a lock or comes round for one that is gone.
HoldersOf(c) == {x \in User \X (1..3) : x[2] <= Len(held[x[1]]) /\ held[x[1]][x[2]].slot = c}
TableExact ==
  /\ \A h \in Cell : count[h] = Cardinality(Chain(h))
  /\ \A c \in Cell : IF Used(c)
       THEN /\ \A x \in HoldersOf(c) : held[x[1]][x[2]].group = cell[c].group
            /\ Cardinality(HoldersOf(c)) = IF cell[c].readers < 0 THEN 1 ELSE cell[c].readers
       ELSE HoldersOf(c) = {}

\* "Worst case in split, src, tgt, grp 0": whoever waits, the table has room.
RoomForAll == \A u \in User : Waits(u) => \E c \in Cell : ~Used(c)
=============================================================================
