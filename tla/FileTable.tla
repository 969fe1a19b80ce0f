----------------------------- MODULE FileTable -----------------------------
(***************************************************************************)
(* The table of open files in shared memory: dh_open.c and dh_close.c, the *)
(* cache of open files of each process and the exclusive access of         *)
(* op_dio1.c and op_dio2.c, dh_flush_header() of dh_file.c, the share of   *)
(* remove_user() of clopts.c and of kernel.c, and the record cache of      *)
(* reccache.c that dh_read() uses.                                         *)
(*                                                                         *)
(* The parameters of a file (modulus, load, free chain) are in the table   *)
(* while it is open and in its header on the disk: they are the number of  *)
(* changes that they include.  So is what is read of a file: it has one    *)
(* record.  "map" stands for what only a process with exclusive access     *)
(* changes in a header: the map of indices and the name of the trigger.    *)
(*                                                                         *)
(* A process has a file open for a file variable, for its DH cache, or for *)
(* both: open_count is the number of these.  It may open a file at any     *)
(* time except while it has exclusive access to it: dh_open() would free   *)
(* the DH_FILE that is in use.                                             *)
(***************************************************************************)
EXTENDS Integers, Sequences, FiniteSets

CONSTANTS
  Proc,
  File,
  MaxCell,     \* numfiles
  MaxSlot,     \* max_users
  MaxChange,   \* bounds on the changes of each file
  MaxMap,      \* and on the changes of its indices and trigger
  CacheSize,   \* RECCACHE, the size of a record cache
  Ops,         \* what processes do beside the ordinary
  None

Cell == 1..MaxCell
Slot == 1..MaxSlot

\* "die": processes are killed.  The others are habits of the code that break
\* the properties:
\* "dieupdated": one is killed that has changed a file since its last flush;
\* "dieshutdown": one is killed after its user entry is given up;
\* "handover": a new login gets that entry before the old process is gone;
\* "stalehead": a file is opened with a header that has changed since;
\* "overlap": the header of a file is flushed by two processes at a time;
\* "latecache": a file changes while a record of it is on the way to a cache;
\* "reuse": a file table cell goes to another file while a cache knows it.
Habit == {"die", "dieupdated", "dieshutdown", "handover", "stalehead", "overlap",
          "latecache", "reuse"}

ASSUME FileTableAssumption ==
  /\ MaxCell \in Nat \ {0} /\ MaxSlot \in Nat \ {0}
  /\ MaxChange \in [File -> Nat] /\ MaxMap \in [File -> Nat] /\ CacheSize \in Nat
  /\ Ops \subseteq Habit
  /\ None \notin Proc \cup File
  /\ IsFiniteSet(Proc)
  /\ MaxSlot <= 32767  \* an int16_t

VARIABLES
  entry,    \* the file table
  used,     \* used_files
  fileMap,  \* file_map of each user entry
  owner,    \* the process with each user entry, None if uid is zero
  slot,     \* my_uptr of each process
  mode,     \* what has become of each process
  at,       \* where each process is in open, close, flush or read
  holds,    \* the DH_FILE of each process and file
  cache,    \* the record caches
  disk,     \* the headers on the disk
  version   \* history: the changes of each file

table == <<entry, used>>
users == <<fileMap, owner, slot>>
vars == <<table, users, mode, at, holds, cache, disk, version>>

Free == [refs |-> 0, file |-> None, params |-> 0, upd |-> 0]
Closed == [for |-> {}, cell |-> 0, map |-> 0, updated |-> FALSE]
Idle == [step |-> "idle"]

Init ==
  /\ entry = [c \in Cell |-> Free] /\ used = 0
  /\ fileMap = [s \in Slot |-> [c \in Cell |-> 0]]
  /\ owner = [s \in Slot |-> None] /\ slot = [p \in Proc |-> 0]
  /\ mode = [p \in Proc |-> "out"]
  /\ at = [p \in Proc |-> Idle]
  /\ holds = [p \in Proc |-> [f \in File |-> Closed]]
  /\ cache = [p \in Proc |-> <<>>]
  /\ disk = [f \in File |-> [params |-> 0, map |-> 0]]
  /\ version = [f \in File |-> 0]

-----------------------------------------------------------------------------

IsOpen(p, f) == holds[p][f] # Closed
EntryOf(p, f) == entry[holds[p][f].cell]
Ready(p) == mode[p] = "run" /\ at[p] = Idle
Exclusive(p, f) == IsOpen(p, f) /\ EntryOf(p, f).refs < 0
Goto(p, a) == at' = [at EXCEPT ![p] = a]
SetHolds(p, f, h) == holds' = [holds EXCEPT ![p][f] = h]

Abs(n) == IF n < 0 THEN -n ELSE n
\* u_int16_t and int16_t
U16(n) == n % 65536
I16(n) == ((n + 32768) % 65536) - 32768

-----------------------------------------------------------------------------
(* dh_open() *)

\* A file that the process has open already, by name or through the DH cache.
OpenAgain(p, f) ==
  /\ Ready(p) /\ IsOpen(p, f) /\ ~Exclusive(p, f)
  /\ "var" \notin holds[p][f].for
  /\ SetHolds(p, f, [holds[p][f] EXCEPT !.for = @ \cup {"var"}])
  /\ UNCHANGED <<table, users, mode, at, cache, disk, version>>

\* The header is read; no semaphore is held.
ReadHeader(p, f) ==
  /\ Ready(p) /\ ~IsOpen(p, f)
  /\ Goto(p, [step |-> "opening", file |-> f, head |-> disk[f]])
  /\ UNCHANGED <<table, users, mode, holds, cache, disk, version>>

Opening(p) == mode[p] = "run" /\ at[p].step = "opening"
\* The cells of file f: the scan passes those with no references.
CellsOf(f) == {c \in 1..used : entry[c].refs # 0 /\ entry[c].file = f}
FirstFree == {c \in 1..used : entry[c].refs = 0
                              /\ \A d \in 1..c - 1 : entry[d].refs # 0}

HeadOf(p) == at[p].head
StaleHead(p) ==
  \/ HeadOf(p).map # disk[at[p].file].map
  \/ CellsOf(at[p].file) = {} /\ HeadOf(p) # disk[at[p].file]

\* "fptr->ref_ct++" and the file map.
Referenced(p, c) ==
  fileMap' = [fileMap EXCEPT ![slot[p]][c] = U16(@ + 1)]

\* The process has the file open now, by name also in its DH cache.
Opened(p, c) ==
  /\ Referenced(p, c)
  /\ \E for \in {{"var"}, {"var", "cache"}} :
       SetHolds(p, at[p].file,
         [for |-> for, cell |-> c, map |-> HeadOf(p).map, updated |-> FALSE])
  /\ Goto(p, Idle)
  /\ UNCHANGED <<owner, slot, mode, cache, disk, version>>

\* get_file_entry(), within FILE_TABLE_LOCK: the file is in the table.
JoinEntry(p) ==
  /\ Opening(p) /\ (StaleHead(p) => "stalehead" \in Ops)
  /\ \E c \in CellsOf(at[p].file) :
       /\ entry[c].refs > 0
       /\ entry' = [entry EXCEPT ![c].refs = @ + 1]
       /\ Opened(p, c)
  /\ UNCHANGED used

\* Records of the file that had this cell are known by it.
Remembered(c) == \E q \in Proc : \E i \in 1..Len(cache[q]) : cache[q][i].cell = c

\* It is not: the first free cell gets the parameters of the header.
NewEntry(p) ==
  /\ Opening(p) /\ CellsOf(at[p].file) = {} /\ (StaleHead(p) => "stalehead" \in Ops)
  /\ \E c \in IF FirstFree # {} THEN FirstFree ELSE {used + 1} \cap Cell :
       /\ Remembered(c) => "reuse" \in Ops
       /\ entry' = [entry EXCEPT ![c] =
            [refs |-> 1, file |-> at[p].file, params |-> HeadOf(p).params, upd |-> 1]]
       /\ Opened(p, c)
       /\ used' = IF c > used THEN c ELSE used

\* Another process has exclusive access, or the table is full; it may also fail
\* for other reasons, like a bad subfile or no memory.
OpenFails(p) ==
  /\ Opening(p)
  /\ Goto(p, Idle)
  /\ UNCHANGED <<table, users, mode, holds, cache, disk, version>>

-----------------------------------------------------------------------------
(* dh_flush_header() and dh_close() *)

Flushing(q, f) == at[q].step = "flush" /\ at[q].file = f
MayFlush(p, f) ==
  "overlap" \in Ops \/ \A q \in Proc \ {p} : mode[q] # "out" => ~Flushing(q, f)

\* The header on the disk is read and gets the parameters of the table; "next"
\* is what the process does when it has been written.
StartFlush(p, f, next) ==
  /\ MayFlush(p, f)
  /\ Goto(p, [step |-> "flush", file |-> f, next |-> next,
              head |-> [disk[f] EXCEPT !.params = EntryOf(p, f).params]])

\* By dh_split(), dh_merge(), dh_get_overflow() and others, after a change.
Flush(p, f) ==
  /\ Ready(p) /\ "var" \in holds[p][f].for /\ holds[p][f].updated
  /\ StartFlush(p, f, Idle)
  /\ UNCHANGED <<table, users, mode, holds, cache, disk, version>>

WriteHeader(p) ==
  /\ mode[p] \in {"run", "shutdown"} /\ at[p].step = "flush"
  /\ disk' = [disk EXCEPT ![at[p].file] = at[p].head]
  /\ Goto(p, at[p].next)
  /\ UNCHANGED <<table, users, mode, holds, cache, version>>

Drop(f) == [step |-> "drop", file |-> f]
\* Entry e of the table with n references: without any it is free.
WithRefs(e, n) == IF n = 0 THEN Free ELSE [e EXCEPT !.refs = n]

\* dh_close(): a file that this process has not changed is not written.  That
\* it has been is assumed as soon as dh_flush_header() has been called.
CloseDH(p, f, next, h) ==
  /\ \/ holds[p][f].updated /\ StartFlush(p, f, next)
     \/ ~holds[p][f].updated /\ Goto(p, next)
  /\ SetHolds(p, f, [h EXCEPT !.updated = TRUE])

\* Mutant: the header is not written if another process has the file open.
CloseVariableLazy(p, f) ==
  /\ Ready(p) /\ "var" \in holds[p][f].for
  /\ entry' = IF Exclusive(p, f) THEN [entry EXCEPT ![holds[p][f].cell].refs = 1] ELSE entry
  /\ IF "cache" \in holds[p][f].for
     THEN CloseDH(p, f, Idle, [holds[p][f] EXCEPT !.for = {"cache"}])
     ELSE IF EntryOf(p, f).refs > 1 THEN Goto(p, Drop(f)) /\ UNCHANGED holds
     ELSE CloseDH(p, f, Drop(f), holds[p][f])
  /\ UNCHANGED <<used, users, mode, cache, disk, version>>
\* dio_close(): exclusive access becomes ordinary first, without a semaphore.
CloseVariable(p, f) ==
  /\ Ready(p) /\ "var" \in holds[p][f].for
  /\ entry' = IF Exclusive(p, f) THEN [entry EXCEPT ![holds[p][f].cell].refs = 1] ELSE entry
  /\ IF "cache" \in holds[p][f].for
     THEN CloseDH(p, f, Idle, [holds[p][f] EXCEPT !.for = {"cache"}])
     ELSE CloseDH(p, f, Drop(f), holds[p][f])
  /\ UNCHANGED <<used, users, mode, cache, disk, version>>

\* A file leaves the DH cache: another took its place, or flush_dh_cache(), of
\* this process or upon the event that another one has raised.
CloseCached(p, f) ==
  /\ Ready(p) /\ "cache" \in holds[p][f].for
  /\ IF "var" \in holds[p][f].for
     THEN CloseDH(p, f, Idle, [holds[p][f] EXCEPT !.for = {"var"}])
     ELSE CloseDH(p, f, Drop(f), holds[p][f])
  /\ UNCHANGED <<table, users, mode, cache, disk, version>>

\* Within FILE_TABLE_LOCK the reference is dropped.
DropReference(p) ==
  /\ mode[p] \in {"run", "shutdown"} /\ at[p].step = "drop"
  /\ LET c == holds[p][at[p].file].cell
     IN /\ entry' = [entry EXCEPT ![c] = WithRefs(@, @.refs - 1)]
        /\ fileMap' = [fileMap EXCEPT ![slot[p]][c] = U16(@ - 1)]
  /\ SetHolds(p, at[p].file, Closed)
  /\ Goto(p, Idle)
  /\ UNCHANGED <<used, owner, slot, mode, cache, disk, version>>

-----------------------------------------------------------------------------
(* Exclusive access *)

\* Mutant: a file that another process is about to close counts as free.
SetExclusiveShared(p, f) ==
  /\ Ready(p) /\ holds[p][f].for = {"var"}
  /\ EntryOf(p, f).refs \in {1, 2}
  /\ entry' = [entry EXCEPT ![holds[p][f].cell].refs = -1]
  /\ UNCHANGED <<used, users, mode, at, holds, cache, disk, version>>
\* FCONTROL with FL_EXCLUSIVE; while it is refused it changes nothing.
SetExclusive(p, f) ==
  /\ Ready(p) /\ holds[p][f].for = {"var"}
  /\ EntryOf(p, f).refs = 1
  /\ entry' = [entry EXCEPT ![holds[p][f].cell].refs = -1]
  /\ UNCHANGED <<used, users, mode, at, holds, cache, disk, version>>

\* create_ak(), op_settrig() and others: the header is rewritten.
ChangeHeader(p, f) ==
  /\ Ready(p) /\ Exclusive(p, f) /\ disk[f].map < MaxMap[f]
  /\ disk' = [disk EXCEPT ![f].map = @ + 1]
  /\ UNCHANGED <<table, users, mode, at, holds, cache, version>>

-----------------------------------------------------------------------------
(* Changes, reads and the record cache *)

\* A record of f is in the hands of a process that will put it into its cache.
Caching(f) == \E p \in Proc : at[p].step = "caching" /\ at[p].file = f

\* Mutant: upd_ct stays as it is.
ChangeUncounted(p, f) ==
  /\ Ready(p) /\ "var" \in holds[p][f].for /\ version[f] < MaxChange[f]
  /\ Caching(f) => "latecache" \in Ops
  /\ version' = [version EXCEPT ![f] = @ + 1]
  /\ entry' = [entry EXCEPT ![holds[p][f].cell].params = @ + 1]
  /\ SetHolds(p, f, [holds[p][f] EXCEPT !.updated = TRUE])
  /\ UNCHANGED <<used, users, mode, at, cache, disk>>
\* dh_write() or dh_delete(): "fptr->upd_ct++" when the group is locked.
Change(p, f) ==
  /\ Ready(p) /\ "var" \in holds[p][f].for /\ version[f] < MaxChange[f]
  /\ Caching(f) => "latecache" \in Ops
  /\ version' = [version EXCEPT ![f] = @ + 1]
  /\ entry' = [entry EXCEPT ![holds[p][f].cell].params = @ + 1,
                            ![holds[p][f].cell].upd = @ + 1]
  /\ SetHolds(p, f, [holds[p][f] EXCEPT !.updated = TRUE])
  /\ UNCHANGED <<used, users, mode, at, cache, disk>>

\* The places of the record cache where scan_record_cache() finds file f.
Matches(p, f) ==
  {i \in 1..Len(cache[p]) : /\ cache[p][i].cell = holds[p][f].cell
                            /\ cache[p][i].upd = EntryOf(p, f).upd}
FirstMatch(p, f) == CHOOSE i \in Matches(p, f) : \A j \in Matches(p, f) : i <= j
ToHead(s, i) == <<s[i]>> \o SubSeq(s, 1, i - 1) \o SubSeq(s, i + 1, Len(s))

\* dh_read(): the record is in the cache, and moves to its head.
ReadCached(p, f) ==
  /\ CacheSize > 0 /\ Ready(p) /\ "var" \in holds[p][f].for
  /\ Matches(p, f) # {}
  /\ cache' = [cache EXCEPT ![p] = ToHead(@, FirstMatch(p, f))]
  /\ UNCHANGED <<table, users, mode, at, holds, disk, version>>

\* It is not, and is read; then the group lock is given up.
Read(p, f) ==
  /\ CacheSize > 0 /\ Ready(p) /\ "var" \in holds[p][f].for
  /\ Matches(p, f) = {}
  /\ Goto(p, [step |-> "caching", file |-> f, value |-> <<f, version[f]>>])
  /\ UNCHANGED <<table, users, mode, holds, cache, disk, version>>

\* cache_record(): the oldest entry makes room, and upd_ct is what it is now.
CacheRecord(p) ==
  /\ mode[p] = "run" /\ at[p].step = "caching"
  /\ LET h == holds[p][at[p].file]
         e == [cell |-> h.cell, upd |-> entry[h.cell].upd, value |-> at[p].value]
     IN cache' = [cache EXCEPT ![p] =
          <<e>> \o SubSeq(@, 1, IF Len(@) = CacheSize THEN CacheSize - 1 ELSE Len(@))]
  /\ Goto(p, Idle)
  /\ UNCHANGED <<table, users, mode, holds, disk, version>>

-----------------------------------------------------------------------------
(* Login, logout, killed processes *)

FreeSlot == {s \in Slot : owner[s] = None /\ \A r \in 1..s - 1 : owner[r] # None}

\* Mutant: the file map stays.
LoginKept(p) ==
  /\ mode[p] = "out"
  /\ \E s \in FreeSlot :
       /\ (\E q \in Proc : mode[q] = "shutdown" /\ slot[q] = s) => "handover" \in Ops
       /\ owner' = [owner EXCEPT ![s] = p]
       /\ slot' = [slot EXCEPT ![p] = s]
       /\ UNCHANGED fileMap
  /\ mode' = [mode EXCEPT ![p] = "run"]
  /\ UNCHANGED <<table, at, holds, cache, disk, version>>
\* The first user entry with no uid; its file map is cleared.
Login(p) ==
  /\ mode[p] = "out"
  /\ \E s \in FreeSlot :
       /\ (\E q \in Proc : mode[q] = "shutdown" /\ slot[q] = s) => "handover" \in Ops
       /\ owner' = [owner EXCEPT ![s] = p]
       /\ slot' = [slot EXCEPT ![p] = s]
       /\ fileMap' = [fileMap EXCEPT ![s] = [c \in Cell |-> 0]]
  /\ mode' = [mode EXCEPT ![p] = "run"]
  /\ UNCHANGED <<table, at, holds, cache, disk, version>>

\* kill_process() of the kernel: the variables are closed; the user entry is
\* given up; what the DH cache has is still open.
Logout(p) ==
  /\ Ready(p) /\ \A f \in File : "var" \notin holds[p][f].for
  /\ owner' = [owner EXCEPT ![slot[p]] = None]
  /\ mode' = [mode EXCEPT ![p] = "shutdown"]
  /\ UNCHANGED <<table, fileMap, slot, at, holds, cache, disk, version>>

\* dh_shutdown()
Shutdown(p, f) ==
  /\ mode[p] = "shutdown" /\ at[p] = Idle /\ IsOpen(p, f)
  /\ CloseDH(p, f, Drop(f), holds[p][f])
  /\ UNCHANGED <<table, users, mode, cache, disk, version>>

Gone(p) ==
  /\ mode' = [mode EXCEPT ![p] = "out"]
  /\ at' = [at EXCEPT ![p] = Idle]
  /\ holds' = [holds EXCEPT ![p] = [f \in File |-> Closed]]
  /\ cache' = [cache EXCEPT ![p] = <<>>]

Exit(p) ==
  /\ mode[p] = "shutdown" /\ at[p] = Idle /\ \A f \in File : ~IsOpen(p, f)
  /\ Gone(p)
  /\ UNCHANGED <<table, users, disk, version>>

Unflushed(p) == \E f \in File : holds[p][f].updated /\ disk[f].params # version[f]

Die(p) ==
  /\ "die" \in Ops
  /\ Unflushed(p) => "dieupdated" \in Ops
  /\ \/ /\ mode[p] = "run"
        /\ mode' = [mode EXCEPT ![p] = "lost"]
        /\ at' = [at EXCEPT ![p] = Idle]
        /\ UNCHANGED <<holds, cache>>
     \/ /\ mode[p] = "shutdown" /\ "dieshutdown" \in Ops
        /\ Gone(p)
  /\ UNCHANGED <<table, users, disk, version>>

\* Mutant: exclusive access is overlooked.
RemoveUserSigned(p) ==
  /\ mode[p] = "lost"
  /\ entry' = [c \in Cell |->
       IF fileMap[slot[p]][c] = 0 THEN entry[c]
       ELSE WithRefs(entry[c], I16(entry[c].refs - fileMap[slot[p]][c]))]
  /\ owner' = [owner EXCEPT ![slot[p]] = None]
  /\ Gone(p)
  /\ UNCHANGED <<used, fileMap, slot, disk, version>>
\* remove_user(): "Give away file table entries".
RemoveUser(p) ==
  /\ mode[p] = "lost"
  /\ entry' = [c \in Cell |->
       IF fileMap[slot[p]][c] = 0 THEN entry[c]
       ELSE WithRefs(entry[c], I16(Abs(entry[c].refs) - fileMap[slot[p]][c]))]
  /\ owner' = [owner EXCEPT ![slot[p]] = None]
  /\ Gone(p)
  /\ UNCHANGED <<used, fileMap, slot, disk, version>>

-----------------------------------------------------------------------------

Next ==
  \E p \in Proc :
    \/ \E f \in File :
         \/ OpenAgain(p, f) \/ ReadHeader(p, f)
         \/ Flush(p, f) \/ CloseVariable(p, f) \/ CloseCached(p, f)
         \/ SetExclusive(p, f) \/ ChangeHeader(p, f)
         \/ Change(p, f) \/ ReadCached(p, f) \/ Read(p, f)
         \/ Shutdown(p, f)
    \/ JoinEntry(p) \/ NewEntry(p) \/ OpenFails(p)
    \/ WriteHeader(p) \/ DropReference(p) \/ CacheRecord(p)
    \/ Login(p) \/ Logout(p) \/ Exit(p)
    \/ Die(p) \/ RemoveUser(p)

Spec == Init /\ [][Next]_vars

-----------------------------------------------------------------------------
(* Properties *)

Holders(f) == {p \in Proc : IsOpen(p, f)}

\* The reference count of a file is the number of processes that have it open,
\* killed ones included until they are removed: it is given a new cell, and
\* exclusive access is given, when and only when nobody uses it.
RefsExact ==
  /\ \A f \in File : Cardinality(CellsOf(f)) <= 1
  /\ \A f \in File : CellsOf(f) = {} => Holders(f) = {}
  /\ \A f \in File : \A c \in CellsOf(f) :
       /\ Abs(entry[c].refs) = Cardinality(Holders(f))
       /\ \A p \in Holders(f) : holds[p][f].cell = c
  /\ \A c \in used + 1..MaxCell : entry[c] = Free

\* The file map of a user entry counts what its process has open: removing a
\* killed process gives up neither more nor less.
MapExact ==
  \A s \in Slot : owner[s] # None =>
    \A c \in Cell : fileMap[s][c] =
      Cardinality({f \in File : IsOpen(owner[s], f) /\ holds[owner[s]][f].cell = c})

\* The parameters of a file include all of its changes, in the table while it
\* is open and on the disk when it is not, in whatever order processes flush
\* the header and drop their references.
HeaderCurrent ==
  \A f \in File :
    IF CellsOf(f) = {} THEN disk[f].params = version[f]
    ELSE \A c \in CellsOf(f) : entry[c].params = version[f]

\* A process that uses a file knows its indices and its trigger: they change
\* only while nobody else has the file open.
IndicesKnown ==
  \A p \in Proc, f \in File :
    mode[p] = "run" /\ IsOpen(p, f) /\ ~Exclusive(p, f) /\ at[p].step \notin {"flush", "drop"}
      => holds[p][f].map = disk[f].map

\* What a read finds in the record cache is the record of that file as it is.
CacheCurrent ==
  \A p \in Proc, f \in File :
    mode[p] = "run" /\ IsOpen(p, f) /\ Matches(p, f) # {} =>
      cache[p][FirstMatch(p, f)].value = <<f, version[f]>>
=============================================================================
