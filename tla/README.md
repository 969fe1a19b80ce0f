# sd64: a verification project

sd64 is a multi-user, multi-value database: a byte-code machine (`kernel.c`,
the `op_*.c` opcodes) that runs compiled BASIC programs, one process for each
user, over linearly hashed files (`dh_*.c`). The processes share one memory
segment (`sysseg.c`) with the tables of users, open files, record locks and
group locks, protected by six System V semaphores (`sdsem.c`). There is no
server process: every process works on the files and the tables itself. What can
go wrong between processes is therefore in the tables, the semaphores and the
file blocks, and that is what this project is about.

## Inventory

| Component | State | Operations | Interacts with | Hard behaviour | What makes it correct |
|---|---|---|---|---|---|
| Record and file locks (`op_lock.c`, `locks.h`) | shared: cyclic hash table of locks, counts per hash cell, file lock word, lock count per file, each user's wait; private: local lock table (LLT) | lock, upgrade, release by id, file or all, FILELOCK, CLEARFILE mark, UNLOCK | transactions, close, abort, clean-up, events | repeated requests, waits, deadlock, administrator and dead processes, tests outside the semaphore | exclusion, exact counts, no lost wake-up, no cycle of waits, all released on exit |
| Transactions (`txn.c`) | cache of writes and deletes, stack of outer transactions, transaction id | begin, read, write, delete, close, commit, roll back | locks, files | nesting, failing commit, abort | reads see own writes, commit applies all in order, rollback none |
| Hashed files (`dh_read.c`, `dh_write.c`, `dh_del.c`, `dh_split.c`, `dh_hash.c`) | modulus, minimum modulus, load, groups of records | read, write, delete, split, merge, clear | group locks, file table lock, overflow space | readers during a split, load driven splits | a key-value map; each record in the group its id hashes to |
| Group locks, overflow blocks (`dh_file.c`) | shared table of group locks; free chain in the header | get, release; allocate, free | all file operations | shared and exclusive waits, table size, a dead owner, a full disk | exclusion, exact table, no leak of blocks |
| File table (`dh_open.c`, `dh_close.c`, `dh_creat.c`) | reference counts, file map of each user, exclusive mark; header on the disk | open, close, exclusive access, flush, delete | clean-up, all file operations | open racing close and flush, dead owner | counts exact, no change of a header lost |
| Select (`dh_selct.c`) | list under construction, split inhibit counter | start, next group, end | split, merge | updates during a select | every untouched record listed once |
| Alternate key indices (`dh_ak.c`) | B-tree nodes in a subfile, free chain, scan positions | read, write, delete, clear, scan | write, delete | splits and removals up the tree, a position that is stale | ordered, complete, all nodes accounted for |
| Record cache (`reccache.c`) | private cache stamped with the file's update count | scan, insert | read, write | stale stamp | a hit is the current record |
| Kernel (`kernel.c`, `k_error.c`) | event mask of each user, exit cause, program stack | raise, process, abort, stop, log out | all | events raised while processed, exits in the middle of an opcode | no event lost, no resource left |
| Users and clean-up (`clopts.c`, `sysseg.c`, `sd.c`) | user table, licences | log in, log out, remove dead user | locks, file table | a dead owner | nothing of a dead user stays |
| Sorts (`op_sort.c`) | tree in memory, sorted work files, one sort for all programs of a process | begin, add, next, all, clear | returns and aborts of programs | where memory ends and how often files are merged, exits at any depth | every entry once and in order, nothing left behind |
| B-tree variables, strings, conversions, interpreter, terminal, network, utilities, BASIC library | private | | | | listed in PROJECT.json, not planned |

The code hazards, each at its line, are listed in `PROJECT.json` under
"hazards", with the properties that would catch them.

## Plan

The most shared and least testable part first.

1. `RecordLocks`, `LockService`, `RecordLocks_proofs`: done.
2. `LinearHash`, `DHFile`, `KVStore`, `DHFile_proofs`: done.
3. `DHBlocks`, `DHBlocks_invariant`, `DHBlocks_proofs`: done, without crashes between
   two writes.
4. `Txn`, `Transactions`, `Txn_proofs`: done.
5. `GroupLocks`, `Users`, `Users_proofs`: done.
6. `FileTable` with the record cache, `FileTable_proofs`: done. To come: creation and
   deletion of files.
7. `AKTree` and `OrderedIndex`: done for one index. To come: the program `_AK`, which
   maintains several indices under the pseudo locks of `AKRlock()`, with writers
   of the file.
8. `KeyOrder`, `SearchTree`, `Sort` with `SortedList`: done.

Which module rests on which: `Users` extends `GroupLocks`; `DHFile` and `DHBlocks`
extend `LinearHash`; `Sort` extends `SearchTree`, which extends `KeyOrder`.
`RecordLocks`, `Txn`, `DHFile`, `AKTree` and `Sort` instantiate their
abstract specifications `LockService`, `Transactions`, `KVStore`, `OrderedIndex` and
`SortedList`.

Every module about more than one thing names, in the constant `Ops`, what the
processes do beside the ordinary. Some of these are *habits*: sequences of
steps that the code allows and that break the properties (see Findings). A run
that excludes a habit shows that the properties hold without it; adding
it to `Ops` shows the counterexample.

## The modules

### RecordLocks — `op_lock.c` and its callers

State. `cell` is the table of `RLOCK_ENTRY`s; the member `count` of an entry,
which belongs to the position and not to the lock in it, is the function
`count`. `lockCount` and `fileLock` are members of `FILE_ENTRY`: the sign of
`file_lock` is `clearing`. `lockwait` is `lockwait_index`: zero, a cell, or a
negative file number. `llt` is the private local lock table; it is one list,
but it is only searched by key and only the order of entries of one key can
matter, so it is a sequence for each key. `txn`, `nextTxn` and `rebuild` are
`process.txn_id`, `next_txn_id` and the event `EVT_REBUILD_LLT`. `stuck` says
that a process has crashed or loops with `REC_LOCK_SEM` taken: nobody gets the
semaphore any more.

`req[u]` is where the process is. A blocked opcode backs up its program
counter, sleeps and is run again, so a request has no state but the opcode
(`lockrec`, `filelock`) and what the last attempt left in `lockwait`.
Operations that drop the semaphore on the way have a value of `req` for the
point between (`flunlock`, `clear`, `closing`), and leaving a program is the
sequence `abort` or `stop`, `rollback`, `closing`, `prompt`.

Actions. Everything done under one hold of `REC_LOCK_SEM` is one action.
`lock_record()` is six: blocked by a file lock, lock refreshed, blocked by a
record lock (waiting, deadlock found, or stuck), shared lock strengthened,
new lock, table full. The others carry the names of the opcodes. The scan of
the hash chain is modelled as it is: it sees the locks of the chain up to the
`count[i]`-th (`Seen`), and stops at the first that decides (`IsFirst`).

Abstractions. Ids are opaque; `RLockHash` is the constant `HashOf`. The LOCKED
clause changes nothing when a request is refused and is left out. Nested
transactions and the closing of a file inside a transaction (put off to its
end) are in `Txn`. `rebuild_llt()` is one step although it scans without
the semaphore. Killed processes die outside the semaphore: the semaphores are
not undone on exit, and a death inside stops the system, which the code does
not handle.

### LockService — the abstract specification

A set of locks, a user for each file lock, a set of waiting users. Locks are
granted beside compatible ones only, and taken away by nobody but the owner,
who does not wait meanwhile. `RecordLocks` implements it (`ImplementsLockService`,
checked in `rl_faults` and proved in `RecordLocks_proofs`): `held` is the set of used cells, `file` the file locks
that are not CLEARFILE marks, `waiting` the users inside a blocked opcode.

### LinearHash — the arithmetic of `dh_hash.c` and `dh_split.c`

Operators only: the group of a hash value in a file of m groups
(`dh_hash_group()`), the group that a split takes records from, the one that
a merge gives them to, and the `mod_value` after either. A shift is a
division or a multiplication by two. `ParamsOK` is what the parameters of a
file satisfy: `mod_value` is the least power of two that is not below the modulus.

### DHFile — `dh_read.c`, `dh_write.c`, `dh_del.c`, `dh_exist.c`, `dh_split.c`, `dh_selct.c`

State. `modulus`, `modValue` and `load` are members of `params` in the
`FILE_ENTRY`, `inhibit` is `inhibit_count`. `data` is the file: a group is a
function from ids to values. `ftl` is the holder of the semaphore
FILE_TABLE_LOCK, `readers` and `writer` the group locks. Of a process there
are its place in the code (`pc`), the request (`op`), `group` and
`new_group` or `tgt_group` (`grp`, `other`), the record found (`old`), and
its select list (`sel`) with `select_group`, `rec_ct`, `load_bytes` and `upd_ct`.

Actions. What is done under one hold of a group lock, or of FILE_TABLE_LOCK
without waiting for a group, is one action. FILE_TABLE_LOCK is kept over the
wait for a group by reads, writes, selects, a merge, and the new group of a
split, so these take two or three actions (`HashId`, `LockGroup`). A wait
is a disabled action: the code polls. dh_write() and dh_delete() go on with
`Account` (the load is adjusted later, under FILE_TABLE_LOCK again),
`CheckLoad` (without any lock), and maybe a split (`NoSplit` or `SplitBegin`,
`SplitLockNew`, `SplitLockSource`, `SplitMove`, `FreeOther`, `ResizeEnd`) or a
merge. A select is read group by group between other operations of the same
process (`SelectMore`, READNEXT), completed at once (`SelectAll`, READLIST) or
given up (`EndSelect`).

Abstractions. Every record has size 1, so `load` is both `load_bytes` and
`record_count`. Ids are opaque and `HashOf` is `hash()`. `upd_ct` is
represented by whether it has changed since the select began.
Left out: overflow blocks and large records, the lock of the header, CLEARFILE
and the waits for it, alternate keys, the record cache, files of type
DHF_NO_RESIZE, input and output errors (one leaves a select active), and
`op_analyse()`, which takes `inhibit_count` like a select.
dh_select() can also clear down a select that is still active on the list
(dh_selct.c:51-57), without FILE_TABLE_LOCK; both callers prevent it,
op_select() by ending the select first (op_dio4.c:686), the other by
completing its list at once (op_dio4.c:907-910), so it is not modelled.
The test of `select_group` against the modulus and the wait for
FILE_TABLE_LOCK that follows are one step: the modulus does not change while
`inhibit_count` counts the select (`InhibitExact`).

History variables. `sel[p].touched` and `sel[p].splitting` record what the
properties of a select speak about: which records have been written since
it began, and whether a split was waiting for its source group then.

### KVStore — the abstract specification of a hashed file

A map from ids to values; each read, write and delete is called, takes effect
at one moment, and returns what it found. `DHFile` implements it
(`ImplementsKVStore`): a request takes effect when its group is read or
written under the group lock.

### DHBlocks — `dh_write.c`, `dh_del.c`, `dh_split.c`, `dh_file.c`, block by block

State. `primary` and `overflow` are the blocks of the two subfiles, with their records and their
forward links; `extent` is the size of the overflow subfile, `freeChain` is `params.free_chain`,
`onDisk` its value in the header on the disk, `image` the one in the copy of the header that a
process is about to write. `job` is where a process is inside a write, delete, split or merge, with
the block that it has in its buffer. History are `store`, what was written, `late`, the processes
whose copy is from before another one took a block, and `stale`: such a copy was the last header
written.

Actions. Each block written is one action: a new record put where it belongs (`WriteRecord`,
`WriteData` for a large one), the compaction of the chain behind a removed record (`Compact`,
`Unchain`), a new overflow block, the large record given back. What is done with the header locked
is one action; nobody else can be there. `dh_flush_header()` runs without that lock after a write,
after a split or merge and in a close (`CloseFile`, `LeaveFile`): there it writes the header in one
action, or, with `"overlap"` in `Ops`, may take a copy before (`CopyHeader`), with whatever others
do in between. A disk with room for `MaxBlock` overflow blocks makes `dh_get_overflow()` fail
(`"full"`), in a split before anything has been freed or written (`"fullsplit"`).

Abstractions. Group locks are in `DHFile` and `GroupLocks`. A record is its key,
its size in units of a block's room, and its chain. Splits and merges are not bound to
the load here.

### GroupLocks — the table of group locks in `dh_file.c`

State. `cell` and `count` are the `GLOCK_ENTRY`s, with the number of readers or -1
and the newest owner; `ftl` is FILE_TABLE_LOCK; `held`, `want` and `work` are what
each process has, will ask for, and has `inhibit_count` set for. Each scan of the
table is one action, a refused one is repeated. The first lock of an operation is asked
for inside FILE_TABLE_LOCK; a split or merge asks for two and a header.

### Users — `kernel.c`, `clopts.c`, task locks

Extends `GroupLocks` with login, logout, the event mask of each user and
`process_events()`: the copy of the events that it works through, the program
that shows a message and in which it can be called again, and the events held back
that it puts back in two steps. Killed processes leave everything where it is, until
`remove_user()`.

Fairness. `Proceeds(u)` (a process that is running finishes what it does
with groups, looks at its events and ends when told to) is weakly fair: the
operating system schedules the process, and its waits are polling loops. Nothing is
assumed about who gets a lock first: `WF` of the whole, with locks that are
handed over only when free, gives a waiter its lock because the others' requests
are bounded (`MaxAsk`); a process can be passed over for as long as others go on
asking. `RemoveUser(None, u)` is weakly fair: that somebody runs
`sd -cleanup` now and then is assumed of the operator, not found in the code.
A user reading a message is assumed to press return.

### Txn and Transactions — `txn.c`

`Txn` has the file, the update locks, the chains of uncommitted updates and the
stack of outer transactions. A commit is applied entry by entry, between steps of
the other processes; a program closes files in a transaction and opens them
again; commands run at deeper levels and ROLLBACK ALL goes back to a level.
`Transactions` promises what programs rely on: an update goes to the
innermost transaction, a commit takes effect at one moment, rolling back leaves
no trace, and a record that an open transaction has updated stays locked. The refinement mapping: `Base` is the file
with the rest of a commit in progress already applied, `Overlays` the chains as functions,
`Held` the owners of the locks, `Committing` the processes in a commit.
That it is a refinement is checked in `txn_ops` and proved in `Txn_proofs`.

### FileTable — `dh_open.c`, `dh_close.c`, `op_dio1.c`, `clopts.c`, `reccache.c`

State. `entry` and `used` are the file table, `fileMap` and `owner` the user
entries, `holds` the `DH_FILE` of each process and file (open for a file variable,
for the cache of open files, or both), `disk` the header on the disk. The
parameters are counted changes: `version` is the number there were, and every copy says
how many it includes. `cache` is the record cache of each process.

Actions. Opening is reading the header, without a semaphore, and
`get_file_entry()` under FILE_TABLE_LOCK (`JoinEntry`, `NewEntry`); a header is flushed
by reading it, setting the parameters, and writing it back (`StartFlush`,
`WriteHeader`); closing is flushing and then dropping the reference. Exclusive
access makes the count negative. Records are read through the record cache.
`remove_user()` subtracts the file map, in 16 bits.

Abstractions. A file has one record. What the map of indices and the
trigger name have in common is one counter, changed only under exclusive access.

### AKTree and OrderedIndex — `dh_ak.c`

State. `node` is the subfile, `free` the chain of its free nodes, `pos` the scan
position of one program: its key, flags, node and offset, and whether `ak_upd`
is still what it was. `store` is history. Operations keep the lock of the index from
start to end, so each is one action, computed on a tree by the operators named
for their functions: `Update` is `update_internal_node()`, with `Halved` for an internal
node that is split and `Compressed` for one that has one child left.

Abstractions. The size of a record counts in units of a node; a node
is split by its children, not by the length of its keys; large records
and I-types are left out. An index is updated by the BASIC program
`_AK`, which reads, changes and writes index records; here the updates are arbitrary.

`OrderedIndex` is a map with a cursor: the refinement says that a scan goes to the nearest
record to the right or to the left of where it was left, whatever was written since.

### KeyOrder and SearchTree — keys and tree of `op_sort.c`

Operators only. `KeyOrder` is the comparison of two keys, part by part, as strings
or as numbers. `SearchTree` is the binary tree: insertion, and the walk to the next node
by the pointers to the parents.

### Sort and SortedList — `op_sort.c`, `k_return()`

State. `tree` and `size` are what is collected in memory, `work` the work files on the
disk, `sortwork` their counter; `ptr` and `rest` the place from which SORTNEXT goes on, in
the tree or in the merged file. `programs` has the flag SORT_ACTIVE of each
program of the process, since all of them share one sort. A work file is the
sequence of its records. Adding an entry that does not fit flushes the tree; the
first SORTNEXT or SORTDATA merges the files, `SortMrg` at a time. Returns, aborts
and failing flushes clear the sort.

`SortedList` takes entries, and gives each back once, in order; of entries with
one unique key it takes one. The refinement maps to its `stock` what the tree or the work
files still have to give.

## The runs

| Run | Instance | Shows |
|---|---|---|
| `rl_sessions` | 2 users, 1 record, 2 instances of the file (one non-transactional), transactions, quit, UNLOCK | types; the local lock table, with stale entries beside others, covers every lock; nothing is left locked at the prompt after an abort, a stop or a quit; two users that block each other are noticed |
| `rl_deadlock` | 3 users, 2 records in one hash chain, 2 cells (the table can be full) | exclusion, acyclic waits |
| `rl_faults` | 2 users, file locks, CLEARFILE with triggers, quit, kill and clean-up | counts exact, no wait left behind, file locks exclude; refinement of LockService |
| `dh_ops` | 2 processes, 2 records, 2 values, 2 to 4 groups | records at home, once; the load covers them; refinement of KVStore |
| `dh_select` | 2 processes, 2 records, 1 or 2 groups, select, READLIST, quit | exact inhibit_count; a select lists every record |
| `blocks` | 2 processes, 3 records of 1 or 2 units, blocks of 2, large records of 1 or 2 blocks, room for 2 overflow blocks, 1 or 2 groups, headers copied and written in two steps | no record lost or doubled in its group, no block lost or in two chains, the header on the disk leads to free blocks unless a late copy was the last one written |
| `txn_ops` | 2 users, 2 records, 3 transactions, one user with nested transactions and commands, with transactions begun in both | cached updates stay locked, a commit is atomic, reads agree, no transaction outlives its command |
| `users_locks` | 2 processes, 2 files, 2 operations each, kill and clean-up | group locks exclude, the table is exact, waiters are served |
| `users_events` | 2 processes, 2 events raised, 1 task lock, kill and clean-up | a session told to end does, messages are shown, no task lock is left |
| `file_table` | 2 processes with caches of 2 records, 2 files, 1 cell, kill and clean-up | reference counts and file maps exact, no change lost, indices known, a cached record is the current one |
| `ak_tree` | 11 keys, nodes of 2 units and 5 children, 3 updates of an empty index, one with a full root, one three nodes high | lookups exact, chain and tree agree, nodes accounted for; refinement of OrderedIndex |
| `sort_ops` | 5 keys of two strings, 4 orders, up to 4 entries, memory for 2 or for all, merges of 2 files, 3 programs | every entry once and in order, nothing left of a sort; refinement of SortedList |

Bounds. Two users suffice for a conflict and for a deadlock, three for a
cycle that is not closed by two, for two shared owners and for a walk of more
than one step. Two records on two cells with one hash position make every scan
wrap and the table fill up. `MaxTxn`, `MaxWait` and `MaxLLT` cut off the
number of transactions, the drift of `waiters` (a waiter that gets its lock is
never subtracted) and the stale LLT entries. It bounds the entries
of a key that two users have together: with two (`rl_deadlock`, `rl_faults`) each has the one that it needs
where nothing makes stale ones; with three (`rl_sessions`) an entry that `unlock_txn()` or an
administrator has left stands beside that of a later lock. `rl_sessions` takes every way
to the prompt: abort, stop and quit. Users are symmetric.
`rl_faults` does not check for deadlock: with trigger aborts, dead processes
and FILELOCK the system may really stop (`stuck`).

In `dh_ops` the file has one record for each group at most, split above 60 per
cent and merged below 40: with two records it grows from two groups to four
(so that the mod_value doubles on the way: 2, then 4) and shrinks again, with
records that move in a split and others that stay. Two values tell an
overwritten record from an old one. In `dh_select` one group splits into two,
enough for a record to be seen before and after it moves; a second process
splits, merges, writes or selects meanwhile. Processes and values
are symmetric; ids are not (they hash differently).
`LoadCovers` is checked without selects: a select that corrects the load
between a delete and its `Account` makes the load too small, which dh.h:70 ("Approximate")
allows. Both runs also check for deadlock.

In `blocks` three records of up to a whole block fill a chain of three blocks, and a large record
takes the blocks that a chain needs: every allocation can fail. Two keys of one group
are symmetric. A header that is copied, overtaken
and written late needs one free block and two processes. The run does not check for deadlock, since
with a full disk all requests can end in failure.

In `txn_ops` nesting of two and two command levels make rollbacks of an inner transaction, of a
command and of everything possible. A ROLLBACK ALL that takes some transactions and keeps others
needs three on one stack: with `MaxDepth` of three the invariants of the run hold too, in a state
space for which the refinement takes too long; `NoTxnOutlivesCommand` is proved for every depth.

In `users_locks` one process can hold the two groups and the header that a split needs while the
other waits; the six cells collide. The `users_` runs do not check for deadlock: the hang below
(`Wreck`) is a real one, and bounded requests come to an end. In `file_table` each change or
reopening happens once for each file, in every order with two processes that come and go. The only
cell of the table goes from one file to the other and can be full; two cells with both files
changing are a state space ten times as large. `RefsExact` and `MapExact` are proved for every
size of the table (see below for the two habits that they exclude). In `ak_tree` three updates
after a prepared tree split and empty nodes on three levels and take third nodes; every one of the
habits is reached with these bounds when it is allowed.

In `sort_ops` four entries, of which one is larger than the smaller limit, make up to four work
files, which take three passes of merges of two; three programs are the command
processor and two that call each other. The keys are in order under every flag: strings, numbers, a number and a
string, null, equal first parts. Records
have data (`HasData = {TRUE}`); without them `CountExact` fails.

The only fairness is that of `Users`. Group locks and record locks are polled, so that
elsewhere a process may be passed over for ever: a split can
starve while others keep locking its source group. No liveness is claimed there.

## Findings

Places where the code does not do what its comments say, or does what a user will not want. Each is
a habit that the runs exclude, or a property that no run lists; the counterexample is
found in seconds by the change given.

Locks.

* `dio_close()` says "Release all locks on this file", and `lock_record()` marks a lock
  "Now for this fvar", but the local lock table keeps the first file variable, and
  `unlock_record()` looks there. A lock taken through one instance of a file
  and asked for again through another survives the close of the second
  (`CloseReleasesLocks` in `rl_sessions`).
* Deadlock detection follows waits for file locks, but
  `op_filelock()` records such a wait also when only record locks are in the
  way. The walk then goes on to user 0 (a null pointer), or round a cycle that
  FILELOCK, which looks for no deadlock, has closed, with the semaphore taken
  (`NeverStuck` with 3 users, 2 files and `"filelock"`).

Files.

* `dh_select()` says that the record count and load of the
  file can be corrected by a select "so long as the file is not updated
  during the select". A split that waits for its source group when the select
  begins (dh_split.c:126) is not an update, and not held off: the records it moves are counted and
  listed in the old and in the new group, and the wrong load is stored
  (`SelectCorrects` in `dh_select`).
* "When the select completes" the counts are saved, but
  also when `dh_complete_select()` leaves its loop because the user quits or is
  logged out, with the counts of the groups read so far (dh_selct.c:149; `SelectCorrects` with 1 process, 3 records,
  3 groups and `"quit"`).
* `"fullreplace"` (dh_write.c:339): "At this stage we haven't done anything to update the main body of
  the group", says the exit for a full disk. If the record replaces one of another size, the
  chain has been compacted on the disk by then: records are in two blocks, or
  lost with a block that is already free (`GroupsIntact`).
* `"fullresize"` (dh_split.c:193): a split or merge that gets no overflow block loses the records
  not yet moved, and those of source blocks that it has freed. `"fulldata"` (dh_write.c:576): a
  large record that does not fit leaves its blocks. `dh_get_overflow()` keeps the header lock if it
  cannot open the subfile (dh_file.c:411).
* `"overlap"`: `dh_flush_header()` reads, changes and writes the header without a lock, so two of
  them at a time leave the older parameters (dh_file.c:492). dh_file.c:386 says "The file table free
  chain item is protected by the group lock on group 0", but the copy of it is made (dh_file.c:531)
  and written without that lock after a write, a split and in a close. A process takes a block and
  flushes in between; the header then names a block in use as free (`DiskNamesFree`, in the
  run `blocks`), until somebody flushes again. `"stalehead"`: `dh_open()` reads the header before
  it locks the file table; by then the last user may have flushed it, or another process has made an
  index (`HeaderCurrent`, `IndicesKnown`). `"dieupdated"`: a killed process takes the parameters
  that it has not flushed with it, if it was the last to have the file open.
* `"handover"` and `"dieshutdown"`: a process gives up its user entry (kernel.c:430) before
  `dh_shutdown()` closes what its cache has open (sd.c:265). A new login that gets the entry meanwhile starts with
  a file map that the old process then counts down; one that is killed there is never
  removed (`RefsExact`, `MapExact`).
* `"latecache"`: `dh_read()` caches the record with the update count of the moment, after
  the group lock has been given up (dh_read.c:154). `"reuse"`: reccache.c:98 says that the
  file number and the count identify a state of the file; a cell of the file table
  that goes to another file starts counting at one again (`CacheCurrent`).

Indices.

* `"lastchild"`: if the last child of an internal node below the root is removed, the
  parent is updated with no key, which removes the whole node and everything below it
  (dh_ak.c:3693; `LookupExact`).
* `"onlychild"`: a node left with one child that is terminal becomes a copy of it; its siblings
  go on linking to the node that is freed (dh_ak.c:3653; `ChainMatches`).
* `"rootsplit"`: when the root is split to update its last child, the place in the new
  root is counted up twice and its last key stays too small; records beyond it
  are not found until the next insertion there (dh_ak.c:3508; `LookupExact`).
* `"edge"`: a scan from the right edge of which the key is gone passes over a record or
  gives one on the wrong side. `"clear"`: `ak_clear()` does not change `ak_upd`, so a
  saved position is used in the empty tree (dh_ak.c:3710; `ImplementsOrderedIndex`).

Sorts.

* SORTDATA "Returns STATUS() as the number of items found" (op_sort.c:465), but it counts a record
  when it skips what is behind its data (op_sort.c:540). SSELECT sorts identifiers by themselves
  and without data: if the last one has an odd length, nothing is behind it in the work
  file, and the select list counts one item less than it has (`CountExact`, with `HasData = {FALSE}`).
* `"fullfirst"`: if the first flush fails its file stays, because work files are deleted only
  if one has been counted (op_sort.c:137; `NothingLeft`). `"uniquedisk"`: an entry with a unique key is compared with
  those in memory only, not with the work files (`ImplementsSortedList`). `"nested"`: a program
  that sorts ends the sort of the programs that called it, whose SORTNEXT then goes on from a
  freed element (kernel.c:645; TLC stops with an error there).
* The order of right justified keys is not transitive: 7 and 10 are compared as
  numbers, either of them and ZZ as strings. With the keys 007, 10 and ZZ the order of a sort depends on the
  order of the additions (`ImplementsSortedList`).

Transactions.

* `"nestedcommit"`: the commit of an inner transaction sets the transaction id to zero
  and never goes back to the outer one (txn.c:209; rollback does, txn.c:579). The program goes on outside any
  transaction, the outer one stays on the stack with its locks (`OutsideTxnClean`).
* `"execnest"`: a transaction begun in a command stacks the level of the command with the outer one
  (txn.c:86), where txn.c:59 says "Command process level of previous transaction". So ROLLBACK ALL
  of the command takes the outer one as well, although txn.c:240 speaks of "this or higher command
  level" (`RollbackAllKeepsOuter` as a property of `txn_ops`). It never takes too little
  (`NoTxnOutlivesCommand`).
* `"relock"`: asking again for a lock inside a transaction gives it to that transaction
  (op_lock.c:1132), whose end takes it from the outer one. `"fail"`: a write that
  fails during a commit leaves the rest of the chain and the stack. `"closeouter"`, `"closedlock"`: a file that an
  outer transaction has updates for is closed, or locked through, in an inner one.
  `txn_write()` replaces an entry without counting the reference to the
  new string (txn.c:469); COMMIT outside a transaction releases every lock with transaction 0.

Users.

* A process waits for its first group lock inside FILE_TABLE_LOCK, and `cleanup()`,
  `recover_users()` and `kill_user()` take that semaphore first (clopts.c:231): a
  lock left by a dead process, with somebody waiting for it, is never removed
  (`Wreck` in the liveness properties).
* `"dieshared"`: a cell of readers names the newest only; removing a dead user frees
  the lock of the others, or leaks its count (clopts.c:337; `GroupExclusion`).
  `"dietask"`, `"recover"`: the task locks that `remove_user()` gives up are those of
  its own process (clopts.c:300; `TaskLocksLive`).
* `"race"`: deferred events are put back by reading and writing the word without a
  semaphore (kernel.c:1061), which loses an event raised in between (`DoomedEnd`).
  `"break"`: leaving the message program by a longjmp keeps EVT_MESSAGE masked and
  drops the events copied (kernel.c:1040; `MessagesShown`).
* The semaphores have no SEM_UNDO, and `inhibit_count` of a process that dies in
  a split or merge stays.

Seen while modelling, without a name: `dh_complete_select()` compares
`upd_ct` and stores the counts without FILE_TABLE_LOCK, so that an adjustment
of the load by another process may be lost (`SelectSave`); `dh_delete()` adjusts
the load also when writing the group has failed; `dh_open()` of a file that the same process has
exclusively frees the `DH_FILE` in use (dh_open.c:104). In the locks:
`unlock_txn()` leaves LLT
entries of the locks it frees; weakening an update lock to a shared one wakes
nobody, so a reader stays recorded as waiting for a lock that no longer blocks
it until it retries, and another user can see a deadlock in it; Quit from a break
handler leaves the wait recorded; `waiters` drifts upwards; a CLEARFILE left
by a trigger's abort leaves its mark if the file's `fvar_index` is another's;
with three users a deadlock behind a shared lock is noticed only when the
owner that is recorded releases it.

## The proofs

`RecordLocks_proofs` proves, for every number of users, files, records, file
variables and cells, every hash function, every subset of the optional
commands and every bound:

* `TypeCorrect`: `Spec => []TypeOK`
* `Exclusion`: `Spec => []RecordExclusion`
* `ExactCounts`: `Spec => []CountsExact`
* `NoLostWakeup`: `Spec => []WaitersCover`
* `NoCircularWaits`: `Spec => []WaitsAcyclic`, if `Deadlock` and `RecordWaits`
* `DetectionEnds`: `Spec => []NeverStuck`, under the same two conditions
* `PairNoticed`: `Spec => []DeadlockNoticed`, if there are, moreover, no more than two users

The assumptions are those of `RecordLocksAssumption`: users and files are
finite, there is at least one cell, the hash is a cell, `None` is neither a
user nor a file variable. TLC evaluates it in every run.

The argument. The inductive invariant is `IInv`: types, exact counts,
covered waits and exclusion together. None of the three is inductive alone:
exclusion holds because a scan that stops after `count[i]` locks has seen the
whole chain (`SeenIsChain`, `MatchingIsAll`), which needs exact counts;
`clear_waiters()` wakes everybody who waits for a cell (`WokenIsPointing`)
only if `waiters` is at least their number; and `waiters` never becomes
negative in `clear_lockwait()` for the same reason. A step has one of six
effects on the table (nothing, freeing cells, a new lock, a changed lock, a
wait begun, a wait given up), each proved to keep the table's part of the
invariant once; one lemma for each action then says which effect it has, and
one which types it keeps.

`RecordWaits` says that FILELOCK and CLEARFILE are not used: FILELOCK looks for no
deadlock, and the finding about `NeverStuck` shows what comes of that. Transactions, quits,
UNLOCK, kills and clean-ups are all allowed. The argument. Paths are replaced by sets: `Acyclic` says that every
set of users has one who waits for nobody of the set. Every step but one only
takes waits away, since a cell that is waited for keeps its owner (`WaitersCover`). The one that
adds a wait, of u for v, has walked from v for as many steps as there are users
without meeting u; had the new wait closed a set in which each waits for
another, the walk would never have left that set (`NewWait`). Nor can a walk be that long,
since it would have come to some user twice (`WalkEnds`, by the pigeonhole
principle). `TrailFacts` shows that the recursive function `Trail` is what its definition says. That
two users are told of a deadlock then follows, for their waits could only be for each other.
With three users it is false: the walk follows one owner of a shared lock.

The arithmetic of `LinearHash`, at the beginning of `DHFile_proofs` (and again of
`DHBlocks_invariant`, since no module has both as its base), is proved for every modulus and power
of two: a record hashes to a group of the file (`HashInFile`); a split moves records only from its
source to the new group (`SplitMoves`); a merge only from the last group to its target
(`MergeMoves`). Powers of two are numbers without an odd divisor; the lemmas derive from that how
halving and doubling act on remainders, since induction over data is out of the prover's reach;
where a proof does need a number to be followed step by step, as in `Trail`, it takes the least
counterexample instead (`LeastNat`).

`DHFile_proofs` proves, for every number of processes, records, values and
groups, every hash function and every load limit:

* `FileTypeCorrect`: `Spec => []TypeOK`
* `AtHome`: `Spec => []RecordsAtHome`
* `StoredOnce`: `Spec => []RecordsOnce`
* `ExactInhibit`: `Spec => []InhibitExact`
* `ExactSelects`: `Spec => []SelectExact`
* `LoadCovered`: `Spec => []LoadCovers`, if `"select" \notin Ops` (see the bounds)

from `DHFileAssumption` (finite sets of ids and processes, at least one group,
the minimum modulus fits in the file). The argument. Records are at home because
there is at most one split or merge at a time (`OneResizer`), which
is begun only when `inhibit_count` is zero and nobody holds FILE_TABLE_LOCK;
that this means that nobody else is at it is `NobodyBusy`, and needs
`InhibitExact` and `TableOK` (who holds FILE_TABLE_LOCK). A writer that has
hashed its id before a split keeps the group locked until it has written, so
the split, which waits for the same group, finds the record there
(`AccessOK`, `LocksOK`); nobody can be in the new group before it is made
(`NewGroupFree`); a merge has locked both groups before the modulus changes
(`ResizeOK`). `SplitMoves` and `MergeMoves` then say that the groups of all other records
stay the same. The conjunction of these parts is `IInv`, which TLC has found to
hold on the instances of the runs. For each part one lemma shows that every
action keeps it; actions that do not touch it are taken together, by operation.
`SelectInv` follows a select: while it lasts the modulus stays (`HeldOff`, from `NobodyBusy`),
it goes through the groups in order (`CursorOK`), the groups that a split or merge holds
are still to be read, save the source of a split that waited for it at the start (`UnreadOK`), and
a record is listed when the select has passed its group (`ListOK`). `LoadOK`
says that the load, with the adjustments that are still to come from writes and deletes, covers the
records; a delete that cuts the load off at zero only makes it greater.

`DHFile_proofs` also proves

* `Refinement`: `Spec => ImplementsKVStore`

under the same assumption and `RequestAssumption` (the values of a write are not
`None`). A request takes effect in the one step in which its group is read or
written. The argument: the record that a process finds in its locked group is the stored one,
because the group is the record's home (`AccessOK`) and a record that is at home
nowhere else cannot be in another group (`RecordsOnce`); writing or
deleting changes the store at that id only; moving the records of a group
in a split or merge changes none; every other step leaves the store, the requests
and the replies alone. The invariant is `RInv`: `IInv` and that a process has
a request exactly as long as it works on one (`RequestOK`).

`DHBlocks_proofs` proves, for every number of processes, records, groups and overflow
blocks, every hash function and all sizes of records:

* `RecordsIntact`: `Spec => []GroupsIntact`
* `BlocksAccounted`: `Spec => []SpaceAccounted`
* `DiskChainFree`: `Spec => []FreeOnDisk`, with `"overlap"` or without

from `DHBlocksAssumption`, if `NeverFull`: the disk may be full for a record that is new to its
group, but not for one that is replaced (`"fullreplace"`), in the middle of a split or merge
(`"fullresize"`) or of the data of a large record (`"fulldata"`), which the findings show to break
them, nor before a split has written anything (`"fullsplit"`), which the run `blocks` includes. The
argument. `DHBlocks_invariant` says what the file will be when the jobs are done. Every overflow
block is in one of the chains (`Chained`): free, of a group, the source of a split or merge, the
block of it that is being read, the data of a record in the file, not yet or no longer in it. Every
record is in one block or buffer (`Placed`). A block that no process has in a buffer (`Held`) is on
the disk as these say (`GroupOnDisk`, `BlockOnDisk`); a block that one has in a buffer is in a group
that it has locked. The blocks that the header on the disk names are free, or the last copy written
was late; the same holds of each copy not yet written (`HeaderOK`). The chains are functions of the
invariant and not of the file, so a step that writes one block is shown to be one of a few
operations on them, each with a lemma: to push, take off, join or rename. That a walk of the links
finds the blocks of a chain is shown by position, without induction (`ChainSeq`, `NatSteps`). One
lemma of each kind of step (`WorkFrame`, `LockFrame`, `GroupFrame`, `ResizeFrame`, `MoveFrame`) says
that it leaves what the other processes know, so that the lemma of an action is about the process
that takes it. Where a write or delete goes on at once with its buffer, the invariant is first shown
with the process ready to go on, and `GoOn` takes it from there. When nobody has a group locked, its
chain has no source and no buffer, and what is left of the invariant are the three properties
(`WhenQuiet`).

`RecordLocks_proofs` also proves, under the same assumptions:

* `LocksCovered`: `Spec => []LLTCovers`
* `FileLockExcludes`: `Spec => []FileLockExclusion`, if `"admin" \notin Ops`
* `LockServiceImplemented`: `Spec => ImplementsLockService`, if `"admin" \notin Ops`
* `PromptHasNothing`: `Spec => []NothingLeftAtPrompt`, if `"trigger" \notin Ops`

UNLOCK FILE by an administrator may give up a file lock while its owner is between finding that the
lock is his own and giving it up, or clears the file; then the owner later frees the lock of
somebody else. `FileInv` says what each user knows of the file locks in these places, and is
inductive without that command. An abort in a trigger of CLEARFILE leaves the mark on the file (see
Findings). `LeavingInv` follows a user on the way to the prompt, after an abort, a stop or a quit:
the file variables that are still to be closed are those of all locks that are left (`Left`), for
which the file variable named in each lock must be an instance of the locked file (`FvarsFit`). For
the refinement one lemma for each effect on the table (locks kept, given up, granted, strengthened,
a wait begun or ended) says which step of `LockService` it is.

`FileTable_proofs` proves, for every number of processes, files, cells, user entries
and every bound:

* `ExactReferences`: `Spec => []RefsExact`
* `ExactMaps`: `Spec => []MapExact`
* `IndicesStayKnown`: `Spec => []IndicesKnown`, if also `"stalehead" \notin Ops`
* `HeaderStaysCurrent`: `Spec => []HeaderCurrent`, if also `Recorded`
* `CacheStaysCurrent`: `Spec => []CacheCurrent`, if also `"latecache"` and `"reuse" \notin Ops`

if `Orderly`, that is without the habits `"dieshutdown"` and `"handover"`, which
the findings show to break both. `FileTableAssumption` has the processes finite and
the user entries numbered in 16 bits, as `usr_tbl` does. The argument. A count is the number of
processes that have the file open (`CountOK`), and changes together with `holds`,
except in `remove_user()`, which subtracts the file map of the user entry. So the
map must have what the process has open (`MapOK`), and the user entry must still be
that of the process (`SlotsOK`); since a process has each file open once, the 16 bits do not overflow. A count
of -1 is one holder, who has the file for a variable only (`HoldsOK`), so nobody joins or
drops it through the cache; a process that is about to give up a reference still
has it (`PlaceOK`); and no file has two cells (`EntryOK`).

The other three are about copies. `Recorded` excludes the habits `"dieupdated"`, `"stalehead"` and
`"overlap"` of the findings. The map of indices in the header changes only under exclusive access,
when no header is being flushed, so a header that was read before a flush still has the map of the
disk when it is written (`MapInv`). The parameters in the table are never older than those on the
disk, and as long as the disk is behind there is a process that has changes to flush, or is writing
the newest (`HeaderInv`, `Pending`); that one header is written at a time is an assumption, not a
lock of the code. `CacheInv` dates what is in a record cache: either `upd_ct` of the file has gone
on since, or the record is that of the file. Each of these is kept by a step of one process if what
others know stays older than what the table has (`TableOlder`), which one lemma shows of every
action.

`Users_proofs` proves, for every number of users, files, groups, tasks and
requests, and every hash of groups to cells:

* `ExactTable`: `Spec => []TableExact`, if `"dieshared" \notin Ops`
* `ExclusiveGroups`: `Spec => []GroupExclusion`, if `"dieshared" \notin Ops`
* `Room`: `Spec => []RoomForAll`, if `"dieshared" \notin Ops`
* `LiveTaskLocks`: `Spec => []TaskLocksLive`, if `"dietask" \notin Ops`

A cell of readers names only the reader who came last, and `remove_user()` frees cells by
the user they name; and it gives up the task locks of the process that runs it: the two conditions
exclude users killed in the wrong place. The argument. `LocksInv` has the
table (`TableInv`: a cell's chain, the counts, and for each cell the slots of the processes
that hold it), where each process is in its operation (`PathsOK`), and that a killed
one has no read lock (`LostOK`). As for record locks, exclusion needs exact counts, since a scan ends after
`count` cells. The order in which a process asks for the
groups is part of it: a process that holds a group to write does not ask for it again.
`Room` says that the `num_glocks = max_users * 3` cells of `sysseg.c` are enough, so that
the scan for a free cell ends: used cells are mapped, one to one, to what the processes hold, and one
who waits holds two at most.

`Txn_proofs` proves, for every number of users, records, values, file
variables, transactions and command levels:

* `LocksUnderUpdates`: `Spec => []CachedUpdatesLocked`
* `LockedReads`: `Spec => []LockedReadsAgree`
* `TransactionsImplemented`: `Spec => ImplementsTransactions`
* `CommandsLeaveNoTxn`: `Spec => []NoTxnOutlivesCommand`, with `"execnest"` or without

if `Disciplined`: none of the habits `"nestedcommit"`, `"relock"`, `"closeouter"`,
`"closedlock"` and `"fail"` of the findings. Programs may nest transactions and roll them back, close and
reopen files in them, execute commands and abort; what they must not do is commit an inner
transaction. The argument. `Live(u)` lists the transactions of a process that are
still to be applied, the one being committed included. They are nested by their
identifiers (`Nested`), every lock was taken outside or in one of them (`Owned`), the lock of
an update was taken in its transaction or one around it, and through a file
variable that is closed, if at all, later in the same chain (`Covered`): otherwise the end of
an inner transaction, or an entry of the commit that closes a file, would give the lock
up before the update is written. That needs that no file variable is
closed twice (`ClosedOnce`); and a chain has one entry for each record (`OnceEach`), without which the rest of
a commit in progress would not say what the record will be. For the refinement,
locked records are in one commit at most (`HeldOnce`), so the file with the rest of
the commits applied, `Base`, is well defined; applying one entry leaves it as it is, and a
program that reads under a lock finds no commit of others in its way
(`BaseLocked`). `NoTxnOutlivesCommand` needs that the level that the code
remembers for a transaction on the stack is never below the one at which it began (`LevelsKnown`): then
a ROLLBACK ALL, which goes by these levels from the top of the stack, stops too late but never too early.

`Sort_proofs` proves, for every number of programs, keys and limits:

* `SortsLeaveNothing`: `Spec => []NothingLeft`, if `"nested"` and `"fullfirst" \notin Ops`

The argument. At most one program of the process has the sort (`ProgramsOK`), so the program that
clears it leaves none; and `sortwork` counts at least one file as long as there is one
(`WorkOK`), which `op_sortclr()` needs to delete any. A merge in passes makes `sortwork` grow, never
zero (`MergeCounts`).

Only model-checked: everything of `AKTree`, which uses RECURSIVE operators, for which the provers have no
backend; that `Sort` implements `SortedList`; `DHBlocks` with a split that finds the disk full, and its
`TypeOK`, which bounds how full blocks are. `DeadlockNoticed` for more than two users is false (see Findings).
Liveness (`DoomedEnd`, `MessagesShown` and `WaitersServed` of `Users`) and properties under ENABLED
are beyond the prover in any case.

## Not modelled

The components marked so in `PROJECT.json`, with the reason: string, number
and conversion opcodes are functions without shared state; terminal, printer
and network code is input and output; the utilities work on closed files; the
BASIC library and compiler are programs of the machine, not part of it.
