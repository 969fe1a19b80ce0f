---------------------------- MODULE RecordLocks ----------------------------
(***************************************************************************)
(* The record and file locks of op_lock.c.                                 *)
(*                                                                         *)
(* Record locks live in a cyclic hash table in the shared segment: a lock  *)
(* on key k sits in any cell, count[i] says how many locks hash to i, and  *)
(* a scan from cell i stops when it has met count[i] of them.  File locks  *)
(* are a word of the file table entry.  Both are protected by the          *)
(* semaphore REC_LOCK_SEM, so each operation that holds it is one action;  *)
(* what the code does outside the semaphore is an action of its own.       *)
(* A blocked opcode backs up its program counter and repeats, leaving      *)
(* behind only the user's lockwait_index; req[u] is the opcode repeated.   *)
(*                                                                         *)
(* Each process also keeps a private local lock table (LLT), a list of the *)
(* locks it took; order matters in it only between entries of one key, so  *)
(* it is a sequence of file variables, newest first, for each key.         *)
(*                                                                         *)
(* Not modelled: the LOCKED clause (a refused request then changes         *)
(* nothing), network files, triggers, folding of record ids, statistics.   *)
(***************************************************************************)
EXTENDS Integers, Sequences, FiniteSets

CONSTANTS
  User,      \* user numbers
  File,      \* file table indices
  Id,        \* record ids
  Fvar,      \* file variables (instances of an open file) of each process
  FileOf,    \* the file a file variable refers to
  NonTxn,    \* file variables set non-transactional (FV_NON_TXN)
  NumLocks,  \* cells in the record lock table (sysseg->numlocks)
  HashOf,    \* RLockHash of a key: the cell its scan starts from
  Deadlock,  \* configuration parameter DEADLOCK
  Ops,       \* optional commands that the programs under study issue
  MaxTxn,    \* bound on the transactions started
  MaxWait,   \* bound on the waiters count of a lock, which may drift upwards
  MaxLLT,    \* bound on the LLT entries of a key, some stale, of any two users
  None       \* no user, no file variable

Cell == 1..NumLocks
Key  == File \X Id
Command == {"filelock", "clear", "trigger", "txn", "quit", "admin", "die"}

ASSUME RecordLocksAssumption ==
  /\ IsFiniteSet(User) /\ IsFiniteSet(File)
  /\ NumLocks \in Nat \ {0}
  /\ FileOf \in [Fvar -> File]
  /\ NonTxn \subseteq Fvar
  /\ HashOf \in [Key -> Cell]
  /\ Deadlock \in BOOLEAN
  /\ Ops \subseteq Command
  /\ MaxTxn \in Nat /\ MaxWait \in Nat /\ MaxLLT \in Nat
  /\ None \notin User \cup Fvar

VARIABLES
  cell,       \* the record lock table
  count,      \* count[i]: locks whose scan starts from cell i
  lockCount,  \* record locks of each file (FILE_ENTRY.lock_count)
  fileLock,   \* file lock of each file (FILE_ENTRY.file_lock)
  lockwait,   \* what each user waits for (USER_ENTRY.lockwait_index)
  llt,        \* the local lock table of each process
  req,        \* the opcode each process is inside or repeats
  txn,        \* current transaction of each process, 0 if none
  nextTxn,    \* sysseg->next_txn_id
  rebuild,    \* processes with EVT_REBUILD_LLT raised
  stuck       \* a process died or spins inside REC_LOCK_SEM

tables == <<cell, count, lockCount, fileLock>>
vars == <<tables, lockwait, llt, req, txn, nextTxn, rebuild, stuck>>

FreeCell == [hash |-> 0]
LockEntry == [key : Key, owner : User, waiters : Nat, type : {"U", "S"},
              fvar : Fvar, txn : Nat]
FileEntry == [owner : User \cup {None}, clearing : BOOLEAN,
              fvar : Fvar \cup {None}, txn : Nat]

NotWaiting == [kind |-> "none"]
OnCell(c)  == [kind |-> "record", cell |-> c]
OnFile(f)  == [kind |-> "file", file |-> f]
Wait == {NotWaiting} \cup {OnCell(c) : c \in Cell} \cup {OnFile(f) : f \in File}

Idle == [op |-> "idle"]
LockRecReq(fv, id, upd) ==
  [op |-> "lockrec", fvar |-> fv, id |-> id, update |-> upd]
FileLockReq(fv) == [op |-> "filelock", fvar |-> fv]
\* Closing the file variables S; flock is the one whose file lock is to be
\* released, next what follows the closes.
Closing(S, flock, next) ==
  [op |-> "closing", fvars |-> S, flock |-> flock, next |-> next]
Request ==
  [op : {"idle", "abort", "stop", "rollback", "prompt", "dead"}]
    \cup [op : {"lockrec"}, fvar : Fvar, id : Id, update : BOOLEAN]
    \cup [op : {"filelock", "flunlock"}, fvar : Fvar]
    \cup [op : {"clear"}, fvar : Fvar, took : BOOLEAN]
    \cup [op : {"closing"}, fvars : SUBSET Fvar, flock : Fvar \cup {None},
          next : {"idle", "prompt"}]

TypeOK ==
  /\ cell \in [Cell -> LockEntry \cup {FreeCell}]
  /\ count \in [Cell -> Nat]
  /\ lockCount \in [File -> Nat]
  /\ fileLock \in [File -> FileEntry]
  /\ lockwait \in [User -> Wait]
  /\ llt \in [User -> [Key -> Seq(Fvar)]]
  /\ req \in [User -> Request]
  /\ txn \in [User -> Nat]
  /\ nextTxn \in Nat
  /\ rebuild \subseteq User
  /\ stuck \in BOOLEAN

Init ==
  /\ cell = [c \in Cell |-> FreeCell]
  /\ count = [c \in Cell |-> 0]
  /\ lockCount = [f \in File |-> 0]
  /\ fileLock = [f \in File |-> [owner |-> None, clearing |-> FALSE,
                                 fvar |-> None, txn |-> 0]]
  /\ lockwait = [u \in User |-> NotWaiting]
  /\ llt = [u \in User |-> [k \in Key |-> <<>>]]
  /\ req = [u \in User |-> Idle]
  /\ txn = [u \in User |-> 0]
  /\ nextTxn = 1
  /\ rebuild = {}
  /\ stuck = FALSE

-----------------------------------------------------------------------------
(* Scanning the table *)

Used(c) == cell[c] # FreeCell
Dist(i, c) == IF c >= i THEN c - i ELSE c - i + NumLocks
Chain(i) == {c \in Cell : Used(c) /\ HashOf[cell[c].key] = i}

\* The cells a scan from i meets before it has counted count[i] of them.
Seen(i) ==
  LET chain == Chain(i)
  IN {c \in chain :
        Cardinality({d \in chain : Dist(i, d) < Dist(i, c)}) < count[i]}
Matching(k) == {c \in Seen(HashOf[k]) : cell[c].key = k}
OwnMatch(u, k) == {c \in Matching(k) : cell[c].owner = u}
\* Mutant: an update request stops at update locks only.
UpdateOnlyDeciding(u, k, upd) ==
  {c \in Matching(k) :
     IF cell[c].owner = u THEN cell[c].type = "U" \/ ~upd
                          ELSE cell[c].type = "U"}

\* The locks at which the scan of lock_record() stops: one of ours that need
\* not be strengthened, one of another user that is in the way.
Deciding(u, k, upd) ==
  {c \in Matching(k) :
     IF cell[c].owner = u THEN cell[c].type = "U" \/ ~upd
                          ELSE cell[c].type = "U" \/ upd}
IsFirst(c, S, i) == c \in S /\ \A d \in S : Dist(i, c) <= Dist(i, d)

CellsOf(u) == {c \in Cell : Used(c) /\ cell[c].owner = u}

\* Mutant: file_lock is compared without abs().
SignedLockedByOther(u, f) ==
  fileLock[f].owner \notin {u, None} /\ ~fileLock[f].clearing

\* A file lock of another user, or a CLEARFILE of one, is in force.
LockedByOther(u, f) == fileLock[f].owner \notin {u, None}
HasFileLock(u, f) == fileLock[f].owner = u /\ ~fileLock[f].clearing
FvarFileLock(u, fv) == /\ fileLock[FileOf[fv]].owner = u
                       /\ fileLock[FileOf[fv]].fvar = fv
LockTxn(u, fv) == IF fv \in NonTxn THEN 0 ELSE txn[u]

-----------------------------------------------------------------------------
(* Waiting, being woken and releasing *)

Pointing(w) == {u \in User : lockwait[u] = w}

\* Mutant: clear_waiters() is not called.
NobodyWoken(c) == {}

\* clear_waiters() stops as soon as it has counted waiters down to zero.
Woken(c) ==
  LET P == Pointing(OnCell(c))
      w == cell[c].waiters
  IN IF w \in 0..Cardinality(P)
     THEN CHOOSE W \in SUBSET P : Cardinality(W) = w
     ELSE P

WakeAll(R, F) ==
  [u \in User |-> IF \/ \E c \in R : u \in Woken(c)
                     \/ \E f \in F : lockwait[u] = OnFile(f)
                  THEN NotWaiting ELSE lockwait[u]]

\* Mutant: the count of the cell itself is decremented, not that of its hash.
FreeWrongCount(R) ==
  /\ cell' = [c \in Cell |-> IF c \in R THEN FreeCell ELSE cell[c]]
  /\ count' = [i \in Cell |-> IF i \in R THEN count[i] - 1 ELSE count[i]]
  /\ lockCount' = [f \in File |->
       lockCount[f] - Cardinality({c \in R : cell[c].key[1] = f})]

\* The tables without the record locks in the cells R.
Free(R) ==
  /\ cell' = [c \in Cell |-> IF c \in R THEN FreeCell ELSE cell[c]]
  /\ count' = [i \in Cell |-> count[i] - Cardinality(R \cap Chain(i))]
  /\ lockCount' = [f \in File |->
       lockCount[f] - Cardinality({c \in R : cell[c].key[1] = f})]

\* Release the record locks in the cells R and the file locks of the files F.
Release(R, F) ==
  /\ Free(R)
  /\ fileLock' = [f \in File |->
       IF f \in F THEN [fileLock[f] EXCEPT !.owner = None, !.clearing = FALSE]
       ELSE fileLock[f]]
  /\ lockwait' = WakeAll(R, F)

\* unlock_id() removes the newest LLT entry of each lock it frees.
Forget(u, R) ==
  llt' = [llt EXCEPT ![u] = [k \in Key |->
    IF (\E c \in R : cell[c].key = k) /\ @[k] # <<>> THEN Tail(@[k]) ELSE @[k]]]

\* Block on w, keeping an earlier wait of the same opcode if there is one.
StartWait(u, r, w) ==
  /\ req' = [req EXCEPT ![u] = r]
  /\ IF lockwait[u] = NotWaiting
     THEN /\ lockwait' = [lockwait EXCEPT ![u] = w]
          /\ IF w.kind = "record"
             THEN /\ cell[w.cell].waiters < MaxWait
                  /\ cell' = [cell EXCEPT ![w.cell].waiters = @ + 1]
             ELSE UNCHANGED cell
     ELSE UNCHANGED <<lockwait, cell>>
  /\ UNCHANGED <<count, lockCount, fileLock, llt>>

Done(u) ==
  /\ req' = [req EXCEPT ![u] = Idle]
  /\ lockwait' = [lockwait EXCEPT ![u] = NotWaiting]

\* The semaphore is to be had and u runs opcode r, anew or again.
Runs(u, r) == ~stuck /\ req[u] \in {Idle, r}
RunsNew(u) == ~stuck /\ req[u] = Idle

-----------------------------------------------------------------------------
(* Deadlock detection: follow lockwait_index from user to user *)

Blocker(u) == IF lockwait[u].kind = "record" THEN cell[lockwait[u].cell].owner
              ELSE fileLock[lockwait[u].file].owner

\* The users the walk visits, starting from v; None once it has ended.
Trail(v) ==
  LET walk[n \in 0..Cardinality(User)] ==
        IF n = 0 THEN v
        ELSE IF walk[n - 1] = None \/ lockwait[walk[n - 1]] = NotWaiting
             THEN None ELSE Blocker(walk[n - 1])
  IN walk
Steps == 0..Cardinality(User)

\* Mutant: the walk follows the user's own wait, which is not recorded yet.
FindsOwnWait(u, v) == Deadlock /\ \E n \in Steps : n > 0 /\ Trail(u)[n] = u

\* The walk that u starts at v comes back to u ...
FindsDeadlock(u, v) == Deadlock /\ \E n \in Steps : n > 0 /\ Trail(v)[n] = u
\* ... or meets a file waiter whose file nobody locked, and UserPtr(0) ...
WalkCrashes(u, v) ==
  /\ Deadlock /\ ~FindsDeadlock(u, v)
  /\ \E n \in Steps : /\ Trail(v)[n] # None
                      /\ lockwait[Trail(v)[n]] # NotWaiting
                      /\ Blocker(Trail(v)[n]) = None
\* ... or is caught in a cycle that u is not part of.
WalkSpins(u, v) ==
  /\ Deadlock /\ ~FindsDeadlock(u, v)
  /\ Trail(v)[Cardinality(User)] # None

-----------------------------------------------------------------------------
(* lock_record() as called by op_lockrec() and the locking reads *)

LockBlockedByFile(u, fv, id, upd) ==
  /\ Runs(u, LockRecReq(fv, id, upd))
  /\ LockedByOther(u, FileOf[fv])
  /\ StartWait(u, LockRecReq(fv, id, upd), OnFile(FileOf[fv]))
  /\ UNCHANGED <<txn, nextTxn, rebuild, stuck>>

\* The lock is ours already and is not to be strengthened.
LockRefresh(u, fv, id, upd) ==
  LET k == <<FileOf[fv], id>> IN
  /\ Runs(u, LockRecReq(fv, id, upd))
  /\ ~LockedByOther(u, FileOf[fv])
  /\ \E c \in OwnMatch(u, k) :
       /\ IsFirst(c, Deciding(u, k, upd), HashOf[k])
       /\ cell' = [cell EXCEPT ![c].type = IF upd THEN "U" ELSE "S",
                               ![c].fvar = fv,
                               ![c].txn = LockTxn(u, fv)]
  /\ Done(u)
  /\ UNCHANGED <<count, lockCount, fileLock, llt, txn, nextTxn, rebuild, stuck>>

\* A lock of another user is in the way: wait, or find a deadlock, or hang.
LockBlocked(u, fv, id, upd) ==
  LET k == <<FileOf[fv], id>>
      r == LockRecReq(fv, id, upd)
  IN /\ Runs(u, r)
     /\ ~LockedByOther(u, FileOf[fv])
     /\ \E c \in Deciding(u, k, upd) \ OwnMatch(u, k) :
          /\ IsFirst(c, Deciding(u, k, upd), HashOf[k])
          /\ LET v == cell[c].owner IN
             \/ /\ WalkCrashes(u, v) \/ WalkSpins(u, v)
                /\ stuck' = TRUE
                /\ UNCHANGED <<tables, lockwait, llt, req>>
             \/ /\ FindsDeadlock(u, v)
                /\ req' = [req EXCEPT ![u] = [op |-> "abort"]]
                /\ UNCHANGED <<tables, lockwait, llt, stuck>>
             \/ /\ ~FindsDeadlock(u, v) /\ ~WalkCrashes(u, v) /\ ~WalkSpins(u, v)
                /\ StartWait(u, r, OnCell(c))
                /\ UNCHANGED stuck
     /\ UNCHANGED <<txn, nextTxn, rebuild>>

\* Our shared lock becomes an update lock; its file variable and transaction
\* stay what they were.
LockUpgrade(u, fv, id) ==
  LET k == <<FileOf[fv], id>> IN
  /\ Runs(u, LockRecReq(fv, id, TRUE))
  /\ ~LockedByOther(u, FileOf[fv])
  /\ Deciding(u, k, TRUE) = {}
  /\ \E c \in OwnMatch(u, k) : cell' = [cell EXCEPT ![c].type = "U"]
  /\ Done(u)
  /\ UNCHANGED <<count, lockCount, fileLock, llt, txn, nextTxn, rebuild, stuck>>

\* No lock of ours and nobody in the way.
Lockable(u, fv, id, upd) ==
  LET k == <<FileOf[fv], id>> IN
  /\ Runs(u, LockRecReq(fv, id, upd))
  /\ ~LockedByOther(u, FileOf[fv])
  /\ OwnMatch(u, k) = {} /\ Deciding(u, k, upd) = {}

\* The bound on entries, of two users together.
RoomInLLT(u, k) ==
  /\ Len(llt[u][k]) < MaxLLT
  /\ \A w \in User \ {u} : Len(llt[u][k]) + Len(llt[w][k]) < MaxLLT
\* Take the first free cell.
LockNew(u, fv, id, upd) ==
  LET f == FileOf[fv]
      k == <<f, id>>
      i == HashOf[k]
      free == {c \in Cell : ~Used(c)}
  IN /\ Lockable(u, fv, id, upd)
     /\ RoomInLLT(u, k)
     /\ \E c \in free :
          /\ IsFirst(c, free, i)
          /\ cell' = [cell EXCEPT ![c] =
               [key |-> k, owner |-> u, waiters |-> 0,
                type |-> IF upd THEN "U" ELSE "S",
                fvar |-> fv, txn |-> LockTxn(u, fv)]]
     /\ count' = [count EXCEPT ![i] = @ + 1]
     /\ lockCount' = [lockCount EXCEPT ![f] = @ + 1]
     /\ llt' = [llt EXCEPT ![u][k] = <<fv>> \o @]
     /\ Done(u)
     /\ UNCHANGED <<fileLock, txn, nextTxn, rebuild, stuck>>

\* Every cell is in use: the request is repeated, without a lock to wait for.
LockTableFull(u, fv, id, upd) ==
  /\ Lockable(u, fv, id, upd)
  /\ \A c \in Cell : Used(c)
  /\ req' = [req EXCEPT ![u] = LockRecReq(fv, id, upd)]
  /\ lockwait' = [lockwait EXCEPT ![u] = NotWaiting]
  /\ UNCHANGED <<tables, llt, txn, nextTxn, rebuild, stuck>>

LockRecord(u, fv, id, upd) ==
  \/ LockBlockedByFile(u, fv, id, upd)
  \/ LockRefresh(u, fv, id, upd)
  \/ LockBlocked(u, fv, id, upd)
  \/ upd /\ LockUpgrade(u, fv, id)
  \/ LockNew(u, fv, id, upd)
  \/ LockTableFull(u, fv, id, upd)

-----------------------------------------------------------------------------
(* Releasing: unlock_record(), unlock_txn() and their callers *)

\* Mutant: the last lock of a file is not looked for.
UnlockKeysNotLast(u, K, F) ==
  LET R == UNION {OwnMatch(u, k) : k \in {k \in K : lockCount[k[1]] > 1}} IN
  /\ Release(R, F)
  /\ Forget(u, R)

\* unlock_record() by LLT entries: the locks of u on the keys K, which are
\* looked for only where the file has locks at all, and the file locks of F.
UnlockKeys(u, K, F) ==
  LET R == UNION {OwnMatch(u, k) : k \in {k \in K : lockCount[k[1]] # 0}} IN
  /\ Release(R, F)
  /\ Forget(u, R)

\* op_release(): ignored in a transaction.
ReleaseRecord(u, fv, id) ==
  /\ RunsNew(u)
  /\ LockTxn(u, fv) = 0
  /\ UnlockKeys(u, {<<FileOf[fv], id>>}, {})
  /\ UNCHANGED <<req, txn, nextTxn, rebuild, stuck>>

\* The LLT entries that name the file variable, and its file lock.
UnlockFvar(u, fv) ==
  LET f == FileOf[fv] IN
  UnlockKeys(u,
    {k \in Key : k[1] = f /\ \E n \in DOMAIN llt[u][k] : llt[u][k][n] = fv},
    {g \in {f} : HasFileLock(u, g) /\ FvarFileLock(u, fv)})

\* op_rlsfile(): ignored in a transaction.
ReleaseFile(u, fv) ==
  /\ RunsNew(u)
  /\ LockTxn(u, fv) = 0
  /\ UnlockFvar(u, fv)
  /\ UNCHANGED <<req, txn, nextTxn, rebuild, stuck>>

\* op_rlsall(): ignored in a transaction.
ReleaseAll(u) ==
  /\ RunsNew(u)
  /\ txn[u] = 0
  /\ UnlockKeys(u, {k \in Key : llt[u][k] # <<>>},
                {f \in File : HasFileLock(u, f)})
  /\ UNCHANGED <<req, txn, nextTxn, rebuild, stuck>>

TxnBegin(u) ==
  /\ "txn" \in Ops /\ RunsNew(u)
  /\ txn[u] = 0 /\ nextTxn <= MaxTxn
  /\ txn' = [txn EXCEPT ![u] = nextTxn]
  /\ nextTxn' = nextTxn + 1
  /\ UNCHANGED <<tables, lockwait, llt, req, rebuild, stuck>>

\* Mutant: the local lock table is emptied with the transaction.
UnlockTxnEmptying(u) ==
  LET R == {c \in CellsOf(u) : cell[c].txn = txn[u]}
      F == {f \in File : HasFileLock(u, f) /\ fileLock[f].txn = txn[u]}
  IN /\ Free(R)
     /\ fileLock' = [f \in File |->
          IF f \in F THEN [fileLock[f] EXCEPT !.owner = None, !.txn = 0]
          ELSE fileLock[f]]
     /\ lockwait' = WakeAll(R, F)
     /\ txn' = [txn EXCEPT ![u] = 0]
     /\ llt' = [llt EXCEPT ![u] = [k \in Key |-> <<>>]]

\* unlock_txn() scans the shared tables and leaves the LLT as it is.
UnlockTxn(u) ==
  LET R == {c \in CellsOf(u) : cell[c].txn = txn[u]}
      F == {f \in File : HasFileLock(u, f) /\ fileLock[f].txn = txn[u]}
  IN /\ Free(R)
     /\ fileLock' = [f \in File |->
          IF f \in F THEN [fileLock[f] EXCEPT !.owner = None, !.txn = 0]
          ELSE fileLock[f]]
     /\ lockwait' = WakeAll(R, F)
     /\ txn' = [txn EXCEPT ![u] = 0]
     /\ UNCHANGED llt

\* The end of op_txncmt() and of rollback().
TxnEnd(u) ==
  /\ RunsNew(u) /\ txn[u] # 0
  /\ UnlockTxn(u)
  /\ UNCHANGED <<req, nextTxn, rebuild, stuck>>

-----------------------------------------------------------------------------
(* File locks *)

\* Mutant: only update locks are looked at.
VacantOfUpdates(u, f) ==
  /\ fileLock[f].owner = None
  /\ \A c \in Cell : Used(c) /\ cell[c].key[1] = f /\ cell[c].type = "U"
                       => cell[c].owner = u

\* Nobody has a lock on the file and nobody else one of its records.
Vacant(u, f) ==
  /\ fileLock[f].owner = None
  /\ \/ lockCount[f] = 0
     \/ \A c \in Cell : Used(c) /\ cell[c].key[1] = f => cell[c].owner = u

FileLock(u, fv) ==
  LET f == FileOf[fv] IN
     /\ "filelock" \in Ops /\ Runs(u, FileLockReq(fv))
     /\ \/ /\ HasFileLock(u, f)
           /\ fileLock' = [fileLock EXCEPT ![f].txn = txn[u]]
           /\ Done(u)
        \/ /\ Vacant(u, f)
           /\ fileLock' = [fileLock EXCEPT ![f] =
                [owner |-> u, clearing |-> FALSE, fvar |-> fv, txn |-> txn[u]]]
           /\ Done(u)
        \/ /\ ~HasFileLock(u, f) /\ ~Vacant(u, f)
           /\ req' = [req EXCEPT ![u] = FileLockReq(fv)]
           /\ lockwait' = [lockwait EXCEPT ![u] = OnFile(f)]
           /\ UNCHANGED fileLock
     /\ UNCHANGED <<cell, count, lockCount, llt, txn, nextTxn, rebuild, stuck>>

\* op_flunlock() tests the owner before it takes the semaphore.
FileUnlockCheck(u, fv) ==
  /\ RunsNew(u)
  /\ HasFileLock(u, FileOf[fv])
  /\ req' = [req EXCEPT ![u] = [op |-> "flunlock", fvar |-> fv]]
  /\ UNCHANGED <<tables, lockwait, llt, txn, nextTxn, rebuild, stuck>>

FileUnlock(u) ==
  /\ ~stuck /\ req[u].op = "flunlock"
  /\ Release({}, {FileOf[req[u].fvar]})
  /\ req' = [req EXCEPT ![u] = Idle]
  /\ UNCHANGED <<llt, txn, nextTxn, rebuild, stuck>>

\* op_clrfile() marks the file, clears it without the semaphore, unmarks it.
ClearBegin(u, fv) ==
  LET f == FileOf[fv] IN
  /\ "clear" \in Ops /\ RunsNew(u)
  /\ LockTxn(u, fv) = 0
  /\ HasFileLock(u, f) \/ fileLock[f].owner = None
  /\ fileLock' = [fileLock EXCEPT ![f].owner = u, ![f].clearing = TRUE]
  /\ req' = [req EXCEPT ![u] =
       [op |-> "clear", fvar |-> fv, took |-> ~HasFileLock(u, f)]]
  /\ UNCHANGED <<cell, count, lockCount, lockwait, llt, txn, nextTxn,
                 rebuild, stuck>>

ClearEnd(u) ==
  /\ req[u].op = "clear"
  /\ LET f == FileOf[req[u].fvar] IN
     IF req[u].took
     THEN ~stuck /\ Release({}, {f})
     ELSE /\ fileLock' = [fileLock EXCEPT ![f].owner = u, ![f].clearing = FALSE]
          /\ UNCHANGED <<cell, count, lockCount, lockwait>>
  /\ req' = [req EXCEPT ![u] = Idle]
  /\ UNCHANGED <<llt, txn, nextTxn, rebuild, stuck>>

-----------------------------------------------------------------------------
(* Leaving a program.  An abort clears the wait, rolls the transaction back  *)
(* and then drops the programs, which closes their files.  A stop clears the *)
(* wait and drops the programs; in a transaction dio_close() is put off to   *)
(* the rollback that the command prompt makes, where it comes before         *)
(* unlock_txn(), so that here too the closes come first.  A quit through a   *)
(* break handler is a stop that does not clear the wait.  Every way out ends *)
(* at the prompt, whose own rollback finds no transaction after an abort.    *)

\* A run-time error, break or logout; also while waiting, and also inside a
\* trigger function of CLEARFILE.
Leave(u, how) ==
  /\ \/ req[u].op \in {"idle", "lockrec", "filelock"}
     \/ req[u].op = "clear" /\ how = "abort" /\ "trigger" \in Ops
  /\ req' = [req EXCEPT ![u] = [op |-> how]]
  /\ UNCHANGED <<tables, lockwait, llt, txn, nextTxn, rebuild, stuck>>

Quit(u) ==
  /\ "quit" \in Ops /\ req[u].op \in {"idle", "lockrec", "filelock"}
  /\ req' = [req EXCEPT ![u] = Closing(Fvar, None, "prompt")]
  /\ UNCHANGED <<tables, lockwait, llt, txn, nextTxn, rebuild, stuck>>

ClearLockwait(u) ==
  /\ ~stuck /\ req[u].op \in {"abort", "stop"}
  /\ cell' = IF lockwait[u].kind = "record"
             THEN [cell EXCEPT ![lockwait[u].cell].waiters = @ - 1] ELSE cell
  /\ lockwait' = [lockwait EXCEPT ![u] = NotWaiting]
  /\ req' = [req EXCEPT ![u] = IF req[u].op = "abort" THEN [op |-> "rollback"]
                               ELSE Closing(Fvar, None, "prompt")]
  /\ UNCHANGED <<count, lockCount, fileLock, llt, txn, nextTxn, rebuild, stuck>>

\* txn_abort(), and the ROLLBACK of the command processor.
Rollback(u) ==
  /\ ~stuck /\ req[u].op \in {"rollback", "prompt"}
  /\ IF txn[u] = 0 THEN UNCHANGED <<tables, lockwait, llt, txn>>
     ELSE UnlockTxn(u)
  /\ req' = [req EXCEPT ![u] = IF req[u].op = "prompt" THEN Idle
                               ELSE Closing(Fvar, None, "prompt")]
  /\ UNCHANGED <<nextTxn, rebuild, stuck>>

\* dio_close() of one file variable by the program.
Close(u, fv) ==
  /\ RunsNew(u) /\ LockTxn(u, fv) = 0
  /\ req' = [req EXCEPT ![u] = Closing({fv}, None, "idle")]
  /\ UNCHANGED <<tables, lockwait, llt, txn, nextTxn, rebuild, stuck>>

\* dio_close() too tests for a file lock before it takes the semaphore ...
CloseCheck(u, fv) ==
  /\ req[u].op = "closing" /\ fv \in req[u].fvars /\ req[u].flock = None
  /\ FvarFileLock(u, fv)
  /\ req' = [req EXCEPT ![u].flock = fv]
  /\ UNCHANGED <<tables, lockwait, llt, txn, nextTxn, rebuild, stuck>>

CloseFileLock(u) ==
  /\ ~stuck /\ req[u].op = "closing" /\ req[u].flock # None
  /\ Release({}, {FileOf[req[u].flock]})
  /\ req' = [req EXCEPT ![u].flock = None]
  /\ UNCHANGED <<llt, txn, nextTxn, rebuild, stuck>>

\* ... and then calls unlock_record().
CloseFvar(u, fv) ==
  /\ ~stuck /\ req[u].op = "closing" /\ fv \in req[u].fvars
  /\ req[u].flock = None /\ ~FvarFileLock(u, fv)
  /\ UnlockFvar(u, fv)
  /\ req' = [req EXCEPT ![u] =
       IF req[u].fvars = {fv} THEN [op |-> req[u].next]
       ELSE [req[u] EXCEPT !.fvars = @ \ {fv}]]
  /\ UNCHANGED <<txn, nextTxn, rebuild, stuck>>

-----------------------------------------------------------------------------
(* The administrator's UNLOCK command, and the clean-up of dead processes *)

\* op_unlk(): the locks of the users U on the files F and ids I, if there are any.
AdminUnlock(F, U, I) ==
  LET R == {c \in Cell : /\ Used(c) /\ cell[c].owner \in U
                         /\ cell[c].key \in F \X I}
  IN /\ "admin" \in Ops /\ ~stuck /\ R # {}
     /\ Release(R, {})
     /\ rebuild' = rebuild \cup {cell[c].owner : c \in R}
     /\ UNCHANGED <<llt, req, txn, nextTxn, stuck>>

\* op_unlkfl(): the file locks of all users, or of those of U who have any, on the
\* files F.
AdminUnlockFile(F, U) ==
  /\ "admin" \in Ops /\ ~stuck
  /\ U = User \/ \E f \in F : fileLock[f].owner \in U
  /\ Release({}, {f \in F : U = User \/ fileLock[f].owner \in U})
  /\ UNCHANGED <<llt, req, txn, nextTxn, rebuild, stuck>>

\* rebuild_llt(), called by process_events() between opcodes or in a wait.
RebuildLLT(u) ==
  /\ u \in rebuild /\ req[u].op \in {"idle", "lockrec", "filelock"}
  /\ rebuild' = rebuild \ {u}
  /\ llt' = [llt EXCEPT ![u] = [k \in Key |->
       LET own == {c \in CellsOf(u) : cell[c].key = k} IN
       IF own = {} THEN <<>> ELSE <<cell[CHOOSE c \in own : TRUE].fvar>>]]
  /\ UNCHANGED <<tables, lockwait, req, txn, nextTxn, stuck>>

\* The process is killed, outside the semaphore.
Die(u) ==
  /\ "die" \in Ops /\ req[u].op # "dead"
  /\ req' = [req EXCEPT ![u] = [op |-> "dead"]]
  /\ UNCHANGED <<tables, lockwait, llt, txn, nextTxn, rebuild, stuck>>

\* remove_user() of "sd -cleanup"; the user number can then log in again.
CleanUp(u) ==
  LET R == CellsOf(u)
      F == {f \in File : fileLock[f].owner = u}
  IN /\ ~stuck /\ req[u].op = "dead"
     /\ Free(R)
     /\ fileLock' = [f \in File |->
          IF f \in F THEN [fileLock[f] EXCEPT !.owner = None, !.clearing = FALSE]
          ELSE fileLock[f]]
     /\ lockwait' = [WakeAll(R, F) EXCEPT ![u] = NotWaiting]
     /\ llt' = [llt EXCEPT ![u] = [k \in Key |-> <<>>]]
     /\ req' = [req EXCEPT ![u] = Idle]
     /\ txn' = [txn EXCEPT ![u] = 0]
     /\ rebuild' = rebuild \ {u}
     /\ UNCHANGED <<nextTxn, stuck>>

-----------------------------------------------------------------------------
UserStep(u) ==
  \/ \E fv \in Fvar, id \in Id :
       \/ \E upd \in BOOLEAN : LockRecord(u, fv, id, upd)
       \/ ReleaseRecord(u, fv, id)
  \/ \E fv \in Fvar : \/ ReleaseFile(u, fv)
                      \/ FileLock(u, fv)
                      \/ FileUnlockCheck(u, fv)
                      \/ ClearBegin(u, fv)
                      \/ Close(u, fv)
                      \/ CloseCheck(u, fv)
                      \/ CloseFvar(u, fv)
  \/ \E how \in {"abort", "stop"} : Leave(u, how)
  \/ ReleaseAll(u)
  \/ TxnBegin(u)
  \/ TxnEnd(u)
  \/ FileUnlock(u)
  \/ ClearEnd(u)
  \/ Quit(u)
  \/ ClearLockwait(u)
  \/ Rollback(u)
  \/ CloseFileLock(u)
  \/ RebuildLLT(u)
  \/ Die(u)
  \/ CleanUp(u)

OneOrAll(S) == {S} \cup {{s} : s \in S}
AdminStep ==
  \/ \E F \in OneOrAll(File), U \in OneOrAll(User), I \in OneOrAll(Id) :
       AdminUnlock(F, U, I)
  \/ \E F \in OneOrAll(File), U \in OneOrAll(User) : AdminUnlockFile(F, U)

Next == AdminStep \/ \E u \in User : UserStep(u)

Spec == Init /\ [][Next]_vars

-----------------------------------------------------------------------------
(* Properties *)

\* Two locks on one record belong to two users, and both are shared read
\* locks: what lock_record() promises, by a table scan that stops early.
RecordExclusion ==
  \A c, d \in Cell :
    Used(c) /\ Used(d) /\ c # d /\ cell[c].key = cell[d].key
      => cell[c].owner # cell[d].owner /\ cell[c].type = "S" /\ cell[d].type = "S"

\* The count of a cell, which stops every scan of the table, is the number of
\* locks that hash to it, and lock_count, which lets op_filelock() and
\* unlock_id() skip the scan, is the number of record locks in the file.
CountsExact ==
  /\ \A i \in Cell : count[i] = Cardinality(Chain(i))
  /\ \A f \in File :
       lockCount[f] = Cardinality({c \in Cell : Used(c) /\ cell[c].key[1] = f})

\* Nobody is recorded as waiting for a record lock without being counted in
\* its waiters, so the release that frees the cell (which calls
\* clear_waiters() only when waiters is not zero) leaves no pointer into a
\* cell that is free or has been taken again.
WaitersCover ==
  \A c \in Cell : Pointing(OnCell(c)) # {}
    => Used(c) /\ cell[c].waiters >= Cardinality(Pointing(OnCell(c)))

\* While a user has the file lock, nobody else has a record lock in the file
\* (op_filelock() checks it once; lock_record(), CLEARFILE and the two steps
\* of op_flunlock() and dio_close() must keep it).  UNLOCK may break it.
FileLockExclusion ==
  \A u \in User, f \in File : HasFileLock(u, f) =>
    \A c \in Cell : Used(c) /\ cell[c].key[1] = f => cell[c].owner = u

\* The local lock table has an entry for every record lock of its process, so
\* that RELEASE and close, which look nowhere else, find them all.
LLTCovers ==
  \A u \in User : \A c \in CellsOf(u) : llt[u][cell[c].key] # <<>>

\* A process back at the command prompt after an abort, a stop or a quit, its
\* programs' files closed, has no record lock and no file lock left, although
\* the closes find record locks only by LLT entries, of which unlock_txn()
\* leaves some behind.
NothingLeftAtPrompt ==
  \A u \in User : req[u].op = "prompt" =>
    /\ CellsOf(u) = {}
    /\ \A f \in File : fileLock[f].owner # u

\* The waits that deadlock detection walks along form no cycle: the last user
\* of a cycle found it when it was about to wait.
WaitsAcyclic ==
  \A u \in User : ~\E n \in Steps : n > 0 /\ Trail(u)[n] = u

\* Deadlock detection ends, and does not crash the process that runs it with
\* REC_LOCK_SEM taken.
NeverStuck == ~stuck

\* What the tables, the waits and the opcodes implement.
Held == {[user |-> cell[c].owner, key |-> cell[c].key, type |-> cell[c].type] :
           c \in {c \in Cell : Used(c)}}
FileHeld == [f \in File |-> IF fileLock[f].clearing THEN None
                            ELSE fileLock[f].owner]
Waiting == {u \in User : req[u].op \in {"lockrec", "filelock"}}
Service == INSTANCE LockService
             WITH held <- Held, file <- FileHeld, waiting <- Waiting

\* Locks are granted only beside compatible ones, and given up only by a step
\* of their owner that does not wait: no release, scan or reused cell of
\* another user takes a lock away.
ImplementsLockService == Service!ServiceSpec

\* Two processes that wait for each other's record locks have not both been
\* recorded as waiting: one has yet to repeat its request, and finds out.
WaitsFor(u, v) ==
  /\ req[u].op = "lockrec"
  /\ \E c \in Cell : /\ Used(c) /\ cell[c].owner = v
                     /\ cell[c].key = <<FileOf[req[u].fvar], req[u].id>>
                     /\ req[u].update \/ cell[c].type = "U"
DeadlockNoticed ==
  \A u, v \in User : u # v /\ WaitsFor(u, v) /\ WaitsFor(v, u)
    => lockwait[u] = NotWaiting \/ lockwait[v] = NotWaiting

\* dio_close(): "Release all locks on this file".  A lock taken over by
\* another file variable ("Now for this fvar") keeps its old LLT entry.
CloseReleasesLocks ==
  [][\A u \in User, fv \in Fvar :
       /\ req[u].op = "closing" /\ fv \in req[u].fvars
       /\ req'[u].op = "closing" => fv \notin req'[u].fvars
       /\ req'[u].op # "dead"
       => ~\E c \in Cell : cell'[c] # FreeCell /\ cell'[c].owner = u
                            /\ cell'[c].fvar = fv]_vars
=============================================================================
