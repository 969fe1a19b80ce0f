-------------------------------- MODULE Txn --------------------------------
(***************************************************************************)
(* Transactions (txn.c) of programs that share one file.                   *)
(*                                                                         *)
(* Inside a transaction op_write() and op_delete() put the update into a   *)
(* private chain, txn_head; the chains of the transactions around it are   *)
(* on txn_stack.  op_txncmt() applies the chain entry by entry, while      *)
(* other processes run; op_txnend() and aborts throw it away.  A file that *)
(* the program closes is kept open by an entry of the chain, and one that  *)
(* it opens again is taken out of the chain.                               *)
(*                                                                         *)
(* Reading changes nothing here; View is what it returns.                  *)
(*                                                                         *)
(* The record locks are reduced to update locks: owner, the file variable  *)
(* and the transaction they were taken for; RecordLocks has the rest.      *)
(* Not modelled: directory and network files, FV_NON_TXN, MUSTLOCK=0,      *)
(* triggers, fsync, reference counts of strings.                           *)
(***************************************************************************)
EXTENDS Integers, Sequences

CONSTANTS
  User,       \* processes
  Rec,        \* record ids of the file
  Val,        \* contents of records
  Fvar,       \* file variables a process may have at once
  Ops,        \* what the programs do beyond what the transactions can bear
  MaxTxn,     \* bound on the transactions begun
  MaxDepth,   \* bound on the nesting of each process's transactions
  MaxLevel,   \* bound on its command levels (nested EXECUTE)
  Absent, Untouched, None

Habit == {"nestedcommit", "execnest", "relock", "closeouter", "closedlock", "fail"}

ASSUME TxnAssumption ==
  /\ Absent \notin Val /\ Untouched \notin Val \cup {Absent}
  /\ None \notin User
  /\ Ops \subseteq Habit
  /\ MaxTxn \in Nat /\ MaxDepth \in [User -> Nat] /\ MaxLevel \in [User -> Nat]

VARIABLES
  file,     \* the records of the file
  lock,     \* the update lock on each record
  open,     \* file variables that each program has
  txn,      \* process.txn_id, txn_cproc_level and the chain from txn_head
  stack,    \* txn_stack, newest first
  commit,   \* the commit each process is inside
  level,    \* cproc_level
  nextTxn   \* sysseg->next_txn_id

vars == <<file, lock, open, txn, stack, commit, level, nextTxn>>

Content == Val \cup {Absent}
Entry == [kind : {"update"}, fvar : Fvar, rec : Rec, val : Content]
           \cup [kind : {"close"}, fvar : Fvar]
\* begun is the level at which the transaction began, level the one that the
\* code remembers.
Frame == [id : Nat, level : Nat, begun : Nat, cache : Seq(Entry)]
NoTxn == [id |-> 0, level |-> 0, begun |-> 0, cache |-> <<>>]
Unlocked == [owner |-> None]
RecLock == {Unlocked} \cup [owner : User, fvar : Fvar, txn : Nat]
NoCommit == [on |-> FALSE, id |-> 0, left |-> <<>>]

TypeOK ==
  /\ file \in [Rec -> Content]
  /\ lock \in [Rec -> RecLock]
  /\ open \in [User -> SUBSET Fvar]
  /\ txn \in [User -> Frame]
  /\ stack \in [User -> Seq(Frame)]
  /\ commit \in [User -> [on : BOOLEAN, id : Nat, left : Seq(Entry)]]
  /\ level \in [User -> Nat]
  /\ nextTxn \in Nat

Init ==
  /\ file = [r \in Rec |-> Absent]
  /\ lock = [r \in Rec |-> Unlocked]
  /\ open = [u \in User |-> {}]
  /\ txn = [u \in User |-> NoTxn]
  /\ stack = [u \in User |-> <<>>]
  /\ commit = [u \in User |-> NoCommit]
  /\ level = [u \in User |-> 1]
  /\ nextTxn = 1

-----------------------------------------------------------------------------
(* The chains *)

Frames(u) == <<txn[u]>> \o stack[u]

Updates(s) == {i \in 1..Len(s) : s[i].kind = "update"}
Closes(s) == {i \in 1..Len(s) : s[i].kind = "close"}
UpdatesOf(s, r) == {i \in 1..Len(s) : s[i].kind = "update" /\ s[i].rec = r}
ClosedIn(s) == {s[i].fvar : i \in Closes(s)}
ClosedBy(u) == UNION {ClosedIn(Frames(u)[k].cache) : k \in 1..Len(Frames(u))}

\* txn_read() for one chain.
Found(s, r) ==
  LET I == UpdatesOf(s, r)
  IN IF I = {} THEN Untouched ELSE s[CHOOSE i \in I : \A j \in I : i <= j].val

\* Mutant: the transactions around the current one are not searched.
ViewInnermost(u, r) ==
  IF txn[u].id = 0 \/ Found(txn[u].cache, r) = Untouched THEN file[r]
  ELSE Found(txn[u].cache, r)
\* txn_read(): the chain of the transaction, then those around it, and the
\* file if the record is in none; outside a transaction, the file.
Touching(u, r) == {k \in 1..Len(Frames(u)) : Found(Frames(u)[k].cache, r) # Untouched}
View(u, r) ==
  IF txn[u].id = 0 \/ Touching(u, r) = {} THEN file[r]
  ELSE Found(Frames(u)[CHOOSE k \in Touching(u, r) :
                         \A j \in Touching(u, r) : k <= j].cache, r)

\* Mutant: an update of a record that is in the chain is appended.
PutAppends(s, fv, r, v) ==
  Append(s, [kind |-> "update", fvar |-> fv, rec |-> r, val |-> v])
\* txn_write() and txn_delete(): in place of the entry of the record, which
\* keeps its file variable, or at the end.
Put(s, fv, r, v) ==
  IF UpdatesOf(s, r) # {}
    THEN [i \in 1..Len(s) |-> IF i \in UpdatesOf(s, r) THEN [s[i] EXCEPT !.val = v]
                              ELSE s[i]]
    ELSE Append(s, [kind |-> "update", fvar |-> fv, rec |-> r, val |-> v])

\* clear_parent()
Without(s, r) == SelectSeq(s, LAMBDA e : ~(e.kind = "update" /\ e.rec = r))
ClearParents(st, r) ==
  [k \in 1..Len(st) |-> [st[k] EXCEPT !.cache = Without(@, r)]]

\* Mutant: all locks of the process are given up.
ReleasedAll(u, ids, F) ==
  [r \in Rec |-> IF lock[r] # Unlocked /\ lock[r].owner = u THEN Unlocked
                 ELSE lock[r]]
\* unlock_txn() for the transactions ids, and the locks that dio_close() of
\* the file variables F gives up.
Released(u, ids, F) ==
  [r \in Rec |-> IF lock[r] # Unlocked /\ lock[r].owner = u
                      /\ (lock[r].txn \in ids \/ lock[r].fvar \in F)
                 THEN Unlocked ELSE lock[r]]

-----------------------------------------------------------------------------
(* Programs *)

Runs(u) == ~commit[u].on

\* The program has closed, or relocks, what a transaction around the current
\* one relies on.
UsedOutside(u, fv) ==
  \/ \E r \in Rec : lock[r] # Unlocked /\ lock[r].owner = u
                     /\ lock[r].fvar = fv /\ lock[r].txn # txn[u].id
  \/ \E k \in 1..Len(stack[u]) : \E i \in Updates(stack[u][k].cache) :
       stack[u][k].cache[i].fvar = fv

\* op_open(): a file closed in this transaction is taken out of its chain.
Open(u) ==
  LET s == txn[u].cache
  IN /\ Runs(u)
     /\ IF txn[u].id # 0 /\ Closes(s) # {}
        THEN LET i == CHOOSE i \in Closes(s) : \A j \in Closes(s) : i <= j
             IN /\ open' = [open EXCEPT ![u] = @ \cup {s[i].fvar}]
                /\ txn' = [txn EXCEPT ![u].cache =
                              SubSeq(s, 1, i - 1) \o SubSeq(s, i + 1, Len(s))]
        ELSE \E fv \in Fvar \ (open[u] \cup ClosedBy(u)) :
               /\ open' = [open EXCEPT ![u] = @ \cup {fv}]
               /\ UNCHANGED txn
     /\ UNCHANGED <<file, lock, stack, commit, level, nextTxn>>

\* dio_close() of the last reference to a file variable, and txn_close().
Close(u, fv) ==
  /\ Runs(u) /\ fv \in open[u]
  /\ open' = [open EXCEPT ![u] = @ \ {fv}]
  /\ IF txn[u].id # 0
     THEN /\ UsedOutside(u, fv) => "closeouter" \in Ops
          /\ txn' = [txn EXCEPT ![u].cache =
                        Append(@, [kind |-> "close", fvar |-> fv])]
          /\ UNCHANGED lock
     ELSE lock' = Released(u, {}, {fv}) /\ UNCHANGED txn
  /\ UNCHANGED <<file, stack, commit, level, nextTxn>>

\* lock_record() for READU or RECORDLOCKU, when it is not refused; a lock that
\* the program has already passes to this file variable and transaction.
LockRecord(u, fv, r) ==
  /\ Runs(u) /\ fv \in open[u]
  /\ lock[r] # Unlocked => lock[r].owner = u
  /\ lock[r] # Unlocked /\ stack[u] # <<>> /\ lock[r].txn # txn[u].id
       => "relock" \in Ops
  /\ lock' = [lock EXCEPT ![r] = [owner |-> u, fvar |-> fv, txn |-> txn[u].id]]
  /\ UNCHANGED <<file, open, txn, stack, commit, level, nextTxn>>

\* WRITE or DELETE (v = Absent) after check_lock(); outside a transaction it
\* goes to the file, and gives the lock up unless it was WRITEU or DELETEU.
Update(u, fv, r, v) ==
  /\ Runs(u) /\ fv \in open[u]
  /\ lock[r] # Unlocked /\ lock[r].owner = u
  /\ IF txn[u].id # 0
     THEN /\ lock[r].fvar \notin open[u] => "closedlock" \in Ops
          /\ txn' = [txn EXCEPT ![u].cache = Put(@, fv, r, v)]
          /\ UNCHANGED <<file, lock>>
     ELSE /\ file' = [file EXCEPT ![r] = v]
          /\ \/ UNCHANGED lock
             \/ lock' = [lock EXCEPT ![r] = Unlocked]
          /\ UNCHANGED txn
  /\ UNCHANGED <<open, stack, commit, level, nextTxn>>

\* op_release(), which does nothing inside a transaction.
Release(u, r) ==
  /\ Runs(u) /\ txn[u].id = 0
  /\ lock[r] # Unlocked /\ lock[r].owner = u
  /\ lock' = [lock EXCEPT ![r] = Unlocked]
  /\ UNCHANGED <<file, open, txn, stack, commit, level, nextTxn>>

\* EXECUTE starts a command processor one level up.
Execute(u) ==
  /\ Runs(u) /\ level[u] < MaxLevel[u]
  /\ level' = [level EXCEPT ![u] = @ + 1]
  /\ UNCHANGED <<file, lock, open, txn, stack, commit, nextTxn>>

-----------------------------------------------------------------------------
(* Transactions *)

\* op_txnbgn()
Begin(u) ==
  /\ Runs(u) /\ nextTxn <= MaxTxn /\ Len(stack[u]) < MaxDepth[u] - 1
  /\ IF txn[u].id # 0
     THEN /\ txn[u].begun # level[u] => "execnest" \in Ops
          /\ stack' = [stack EXCEPT ![u] =
                          <<[txn[u] EXCEPT !.level = level[u]]>> \o @]
          /\ txn' = [txn EXCEPT ![u] = [id |-> nextTxn, level |-> level[u],
                                       begun |-> level[u], cache |-> <<>>]]
     ELSE /\ txn' = [txn EXCEPT ![u] = [id |-> nextTxn, level |-> level[u],
                                       begun |-> level[u], cache |-> @.cache]]
          /\ UNCHANGED stack
  /\ nextTxn' = nextTxn + 1
  /\ UNCHANGED <<file, lock, open, commit, level>>

\* rollback(), n times: the locks taken in the transactions or through the
\* file variables that are now closed are given up.
RollBack(u, n) ==
  LET gone == {Frames(u)[k] : k \in 1..n}
  IN /\ lock' = Released(u, {f.id : f \in gone},
                         UNION {ClosedIn(f.cache) : f \in gone})
     /\ txn' = [txn EXCEPT ![u] = IF n <= Len(stack[u]) THEN stack[u][n] ELSE NoTxn]
     /\ stack' = [stack EXCEPT ![u] = SubSeq(@, n + 1, Len(@))]

\* op_txnend(): END TRANSACTION, ROLLBACK, TRANSACTION ABORT.
EndTxn(u) ==
  /\ Runs(u) /\ txn[u].id # 0
  /\ RollBack(u, 1)
  /\ UNCHANGED <<file, open, commit, level, nextTxn>>

\* Mutant: only the innermost transaction is looked at.
AboveInnermost(u) == IF txn[u].id # 0 /\ txn[u].level >= level[u] THEN 1 ELSE 0
\* The transactions begun at this command level or above, as the code knows it.
Above(u) == IF txn[u].id = 0 THEN 0
            ELSE CHOOSE n \in 0..Len(Frames(u)) :
                   /\ \A k \in 1..n : Frames(u)[k].level >= level[u]
                   /\ n < Len(Frames(u)) => Frames(u)[n + 1].level < level[u]
\* A command ends: the command processor issues ROLLBACK ALL (op_txnrbk())
\* and returns to the program that executed the command.
EndCommand(u) ==
  /\ Runs(u) /\ level[u] > 1
  /\ IF Above(u) = 0 THEN UNCHANGED <<lock, txn, stack>> ELSE RollBack(u, Above(u))
  /\ level' = [level EXCEPT ![u] = @ - 1]
  /\ UNCHANGED <<file, open, commit, nextTxn>>

\* k_error() or an ABORT: txn_abort() rolls back all transactions, then the
\* programs up to the command processor that catches the abort are left, and
\* the file variables that are in no common block are closed.
Abort(u) ==
  /\ Runs(u)
  /\ \E keep \in SUBSET open[u], l \in 1..level[u] :
       LET n == IF txn[u].id = 0 THEN 0 ELSE Len(Frames(u))
           gone == {Frames(u)[k] : k \in 1..n}
       IN /\ open' = [open EXCEPT ![u] = keep]
          /\ level' = [level EXCEPT ![u] = l]
          /\ lock' = Released(u, {f.id : f \in gone}, (open[u] \ keep)
                               \cup UNION {ClosedIn(f.cache) : f \in gone})
          /\ IF n = 0 THEN UNCHANGED <<txn, stack>>
             ELSE /\ txn' = [txn EXCEPT ![u] = NoTxn]
                  /\ stack' = [stack EXCEPT ![u] = <<>>]
  /\ UNCHANGED <<file, commit, nextTxn>>

\* op_txncmt() clears process.txn_id and then works through the chain.
StartCommit(u) ==
  /\ Runs(u)
  /\ stack[u] # <<>> => "nestedcommit" \in Ops
  /\ commit' = [commit EXCEPT ![u] = [on |-> TRUE, id |-> txn[u].id,
                                     left |-> txn[u].cache]]
  /\ txn' = [txn EXCEPT ![u].id = 0]
  /\ UNCHANGED <<file, lock, open, stack, level, nextTxn>>

\* One entry.  dio_close() now really closes.  A write that fails is a
\* k_error(): the programs are left, but txn_abort() finds no transaction and
\* the chain stays.  Only a failing first entry is modelled; after it some
\* entry of the chain has been freed.
CommitEntry(u) ==
  LET e == Head(commit[u].left)
      first == commit[u].left = txn[u].cache
  IN /\ commit[u].on /\ commit[u].left # <<>>
     /\ \E fails \in IF "fail" \in Ops /\ first /\ e.kind = "update"
                     THEN BOOLEAN ELSE {FALSE} :
          IF fails
          THEN /\ commit' = [commit EXCEPT ![u] = NoCommit]
               /\ open' = [open EXCEPT ![u] = {}]
               /\ lock' = Released(u, {}, open[u])
               /\ UNCHANGED <<file, stack>>
          ELSE /\ commit' = [commit EXCEPT ![u].left = Tail(@)]
               /\ IF e.kind = "update"
                  THEN /\ file' = [file EXCEPT ![e.rec] = e.val]
                       /\ stack' = [stack EXCEPT ![u] = ClearParents(@, e.rec)]
                       /\ UNCHANGED lock
                  ELSE /\ lock' = Released(u, {}, {e.fvar})
                       /\ UNCHANGED <<file, stack>>
               /\ UNCHANGED open
     /\ UNCHANGED <<txn, level, nextTxn>>

\* The rest of op_txncmt() after the chain.
CommitEnd(u) ==
  /\ commit[u].on /\ commit[u].left = <<>>
  /\ lock' = Released(u, {commit[u].id}, {})
  /\ commit' = [commit EXCEPT ![u] = NoCommit]
  /\ txn' = [txn EXCEPT ![u] = NoTxn]
  /\ UNCHANGED <<file, open, stack, level, nextTxn>>

ProgramStep(u) ==
  \/ Open(u)
  \/ \E fv \in Fvar : Close(u, fv)
  \/ \E fv \in Fvar, r \in Rec : LockRecord(u, fv, r)
  \/ \E fv \in Fvar, r \in Rec, v \in Content : Update(u, fv, r, v)
  \/ \E r \in Rec : Release(u, r)
  \/ Execute(u)
TxnStep(u) ==
  \/ Begin(u)
  \/ EndTxn(u)
  \/ EndCommand(u)
  \/ Abort(u)
  \/ StartCommit(u)
  \/ CommitEntry(u)
  \/ CommitEnd(u)

Next == \E u \in User : ProgramStep(u) \/ TxnStep(u)

Spec == Init /\ [][Next]_vars

-----------------------------------------------------------------------------
(* Properties *)

\* Every update that waits in a chain, or is about to be applied by a commit,
\* is still covered by the update lock that check_lock() found: neither
\* rollback() of an inner transaction, nor a file closed in one, nor the
\* commit itself gives the lock up first.
Chains(u) == {Frames(u)[k].cache : k \in 2..Len(Frames(u))}
               \cup {IF commit[u].on THEN commit[u].left ELSE txn[u].cache}
CachedUpdatesLocked ==
  \A u \in User : \A s \in Chains(u) : \A i \in Updates(s) :
    lock[s[i].rec] # Unlocked /\ lock[s[i].rec].owner = u

\* An update in a chain refers to a file variable that has not been freed:
\* the program has it, or an entry that closes it comes later.
CachedFilesOpen ==
  \A u \in User : \A s \in Chains(u) : \A i \in Updates(s) :
    \/ s[i].fvar \in open[u]
    \/ \E t \in Chains(u) : s[i].fvar \in ClosedIn(t)

\* Outside a transaction nothing is left of one: no chain, no transaction to
\* go back to, no lock taken in one.
OutsideTxnClean ==
  \A u \in User : Runs(u) /\ txn[u].id = 0 =>
    /\ txn[u].cache = <<>> /\ stack[u] = <<>>
    /\ \A r \in Rec : lock[r] # Unlocked /\ lock[r].owner = u => lock[r].txn = 0

\* No transaction outlives the command it was begun in: ROLLBACK ALL of a
\* command that ends takes them all, however transactions and commands nest,
\* though it goes by levels that op_txnbgn() does not store as they were.
NoTxnOutlivesCommand ==
  \A u \in User : txn[u].id # 0 =>
    \A k \in 1..Len(Frames(u)) : Frames(u)[k].begun <= level[u]

\* "Rollback transactions at this or higher command level": a command that
\* ends leaves the transaction of the program that executed it.
RollbackAllKeepsOuter ==
  [][\A u \in User : EndCommand(u) =>
       \A k \in 1..Len(Frames(u)) : Frames(u)[k].begun < level[u] =>
         \E j \in 1..Len(Frames(u)') : Frames(u)'[j].id = Frames(u)[k].id]_vars

\* Committed transactions are atomic for programs that read under update
\* locks: every step is one of Transactions, in which a commit is one step,
\* and a program that reads a record which it has locked finds what it would
\* find there.
Pending(u, r) == IF commit[u].on THEN Found(commit[u].left, r) ELSE Untouched
Base == [r \in Rec |->
  IF \E u \in User : Pending(u, r) # Untouched
  THEN Pending(CHOOSE u \in User : Pending(u, r) # Untouched, r)
  ELSE file[r]]
Overlays == [u \in User |->
  IF txn[u].id = 0 THEN <<>>
  ELSE LET F == Frames(u)
       IN [k \in 1..Len(F) |-> [r \in Rec |-> Found(F[k].cache, r)]]]
Held == [u \in User |-> {r \in Rec : lock[r] # Unlocked /\ lock[r].owner = u}]
Committing == {u \in User : commit[u].on}
Promise == INSTANCE Transactions WITH
  base <- Base, overlays <- Overlays, held <- Held, busy <- Committing
ImplementsTransactions == Promise!PromiseSpec
LockedReadsAgree ==
  \A u \in User, r \in Rec :
    Runs(u) /\ lock[r] # Unlocked /\ lock[r].owner = u => Promise!Sees(u, r, View(u, r))
=============================================================================
