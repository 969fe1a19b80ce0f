-------------------------------- MODULE Sort --------------------------------
(***************************************************************************)
(* The sorts of the query processor: op_sort.c.  Entries are collected in  *)
(* a binary tree; when it would grow past SORTMEM it is flushed to a work  *)
(* file, and the work files are merged, SORTMRG at a time, before the      *)
(* first entry is given back.  The state of a sort is static, one for each *)
(* process, and the programs of the process share it: k_return() of        *)
(* kernel.c clears it when a program leaves that has started a sort.       *)
(*                                                                         *)
(* The data of an entry is the number of its addition.  A work file is the *)
(* sequence of its records.                                                *)
(***************************************************************************)
EXTENDS SearchTree, FiniteSets

CONSTANTS
  HasData,    \* whether entries have data, BT_DATA of the first flag: values of it
  Size,       \* the size of the entry with each key
  SortMem,    \* values of SORTMEM
  SortMrg,    \* SORTMRG
  MaxAdd,     \* bound on the additions to one sort
  MaxDepth,   \* bound on the programs
  Ops         \* what happens beside the ordinary

\* "full": a flush or a merge fails.  The others are habits of the code that
\* break the properties:
\* "fullfirst": the first flush fails;
\* "nested": a program starts a sort while one that called it has one;
\* "uniquedisk": a sort with a unique key grows past SORTMEM.
Habit == {"full", "fullfirst", "nested", "uniquedisk"}

ASSUME SortAssumption ==
  /\ SortMem \subseteq Nat /\ HasData \subseteq BOOLEAN /\ Size \in [Key -> Nat]
  /\ SortMrg \in Nat /\ SortMrg >= 2 /\ MaxAdd \in Nat
  /\ MaxDepth \in Nat \ {0}
  /\ Ops \subseteq Habit

VARIABLES
  flags, hasData,  \* sort_flags and sort_keys, sort_has_data
  sortmem,         \* pcfg.sortmem
  tree, size,      \* sort_tree, sort_size
  work,            \* the work files on the disk
  sortwork,        \* the counter of work files
  sorting,         \* collecting entries
  ptr,             \* sort_ptr
  rest,            \* the records behind the position in sort_fu
  programs,        \* SORT_ACTIVE of each program, from the command processor
  added,           \* history: additions to this sort
  given, count     \* history: the entries given back, and STATUS() of SORTDATA, -1 before

collected == <<tree, size, work, sortwork>>
config == <<flags, hasData, sortmem>>
result == <<given, count>>
vars == <<config, collected, sorting, ptr, rest, programs, added, result>>

Depth == Len(programs)
Active == programs[Depth]

Init ==
  /\ flags \in Order /\ hasData \in HasData /\ sortmem \in SortMem
  /\ tree = NoTree /\ size = 0 /\ work = <<>> /\ sortwork = 0
  /\ sorting = FALSE /\ ptr = 0 /\ rest = <<>>
  /\ programs = <<FALSE>> /\ added = 0 /\ given = <<>> /\ count = -1

\* op_sortclr(): work files are deleted only if there has been one.
Cleared ==
  /\ tree' = NoTree /\ work' = IF sortwork > 0 THEN <<>> ELSE work
  /\ sortwork' = 0 /\ rest' = <<>>

Forgotten == given' = <<>> /\ count' = -1

Unique(o) == \E i \in DOMAIN o : o[i].unique

SortInit(o, data, mem) ==
  /\ Depth > 1
  /\ "nested" \in Ops \/ \A i \in 1..Depth - 1 : ~programs[i]
  /\ "uniquedisk" \in Ops \/ ~Unique(o) \/ \A k \in Key : mem >= MaxAdd * Size[k]
  /\ Cleared
  /\ flags' = o /\ hasData' = data /\ sortmem' = mem
  /\ size' = 0 /\ sorting' = TRUE
  /\ programs' = [programs EXCEPT ![Depth] = TRUE]
  /\ added' = 0 /\ Forgotten
  /\ UNCHANGED ptr

Record(n) == [key |-> n.key, data |-> n.data]
InOrder(t) == LET s == ScanOf(t, First(t)) IN [i \in DOMAIN s |-> Record(t[s[i]])]

\* flush_sort_tree(): work file number sortwork is written anew.
Flushed(files, n) ==
  /\ work' = Append(SubSeq(files, 1, n), InOrder(tree)) /\ sortwork' = n + 1

\* The tree grows, unless the key is unique and there already.
Added(t, k, full) ==
  /\ tree' = Insert(t, k, added + 1, flags)
  /\ size' = (IF full THEN 0 ELSE size) + (IF tree' = t THEN 0 ELSE Size[k])

SortAdd(k) ==
  /\ sorting /\ Active /\ added < MaxAdd
  /\ added' = added + 1
  /\ IF size + Size[k] > sortmem
     THEN Flushed(work, sortwork) /\ Added(NoTree, k, TRUE)
     ELSE UNCHANGED <<work, sortwork>> /\ Added(tree, k, FALSE)
  /\ UNCHANGED <<config, sorting, ptr, rest, programs, result>>

\* The stream to go on with: of equal records that of the later file.
NotBefore(r, s) == MergeVerdict[flags, r.key, s.key] >= 0
Best(streams) ==
  FoldLeft(LAMBDA b, i : IF streams[i] = <<>> THEN b
                         ELSE IF b = 0 \/ NotBefore(Head(streams[b]), Head(streams[i])) THEN i
                         ELSE b,
           0, [i \in DOMAIN streams |-> i])

Records(streams) == FoldLeft(LAMBDA n, s : n + Len(s), 0, streams)

Merged(streams) ==
  LET Give(m, b) == [streams |-> [m.streams EXCEPT ![b] = Tail(@)],
                     out |-> Append(m.out, Head(m.streams[b]))]
  IN FoldLeft(LAMBDA m, i : Give(m, Best(m.streams)), [streams |-> streams, out |-> <<>>],
              [i \in 1..Records(streams) |-> i]).out

\* merge_sort_files(): the first files become a new last one, until there is
\* one.
MergeFiles(files) ==
  LET Pass(q, n) == IF n = 1 THEN q
                    ELSE Append(SubSeq(q, n + 1, Len(q)), Merged(SubSeq(q, 1, n)))
  IN FoldLeft(LAMBDA q, i : Pass(q, IF Len(q) < SortMrg THEN Len(q) ELSE SortMrg), files,
              [i \in 1..Len(files) - 1 |-> i])

\* The number of passes of that is what sortwork grows by, less one.
Passes(n) == (n - 2) \div (SortMrg - 1) + 1

SortMerge ==
  /\ work' = MergeFiles(Append(work, InOrder(tree)))
  /\ sortwork' = sortwork + Passes(sortwork + 1)
  /\ tree' = NoTree /\ size' = 0

\* SORTNEXT from the tree, the first or a later one.
NextInTree ==
  /\ Active /\ sortwork = 0 /\ count = -1
  /\ LET p == IF sorting THEN First(tree) ELSE ptr
     IN IF p = 0 THEN ptr' = 0 /\ UNCHANGED given
        ELSE ptr' = NextNode(tree, p) /\ given' = Append(given, Record(tree[p]))
  /\ sorting' = FALSE
  /\ UNCHANGED <<config, collected, rest, programs, added, count>>

\* SORTNEXT from the work files: the first one merges them.
NextInFile ==
  /\ Active /\ sortwork > 0 /\ count = -1
  /\ IF sorting THEN SortMerge ELSE UNCHANGED collected
  /\ LET r == IF sorting THEN work'[1] ELSE rest
     IN IF r = <<>> THEN rest' = r /\ UNCHANGED given
        ELSE rest' = Tail(r) /\ given' = Append(given, Head(r))
  /\ sorting' = FALSE
  /\ UNCHANGED <<config, ptr, programs, added, count>>

\* SORTDATA, which counts a record when it skips the keys behind the data.
DataInTree ==
  /\ Active /\ sorting /\ sortwork = 0
  /\ given' = InOrder(tree) /\ count' = Len(given')
  /\ sorting' = FALSE
  /\ UNCHANGED <<config, collected, ptr, rest, programs, added>>

\* Nothing is behind the only key of a record without data if the key and its
\* terminator have an even length, or the key is null: with the last record
\* the end of the file comes before the count.
NothingBehind(r) == ~hasData /\ Len(flags) = 1 /\ (r.key[1] = <<>> \/ Len(r.key[1]) % 2 = 1)

DataInFile ==
  /\ Active /\ sorting /\ sortwork > 0
  /\ SortMerge
  /\ given' = work'[1]
  /\ count' = Len(given') - (IF NothingBehind(given'[Len(given')]) THEN 1 ELSE 0)
  /\ sorting' = FALSE /\ rest' = <<>>
  /\ UNCHANGED <<config, ptr, programs, added>>

SortClr ==
  /\ Active
  /\ Cleared /\ Forgotten
  /\ programs' = [programs EXCEPT ![Depth] = FALSE]
  /\ UNCHANGED <<config, size, sorting, ptr, added>>

-----------------------------------------------------------------------------
(* The programs of the process *)

\* k_call() does not give SORT_ACTIVE to the program that is called.
Call ==
  /\ Depth < MaxDepth
  /\ programs' = Append(programs, FALSE)
  /\ UNCHANGED <<config, collected, sorting, ptr, rest, added, result>>

ReturnKept ==
  /\ Depth > 1
  /\ programs' = SubSeq(programs, 1, Depth - 1)
  /\ UNCHANGED <<config, collected, rest, result, sorting, ptr, added>>

\* k_return(): op_sortclr() clears the flag of the program returned to.
Return ==
  /\ Depth > 1
  /\ IF Active
     THEN /\ Cleared /\ Forgotten
          /\ programs' = [SubSeq(programs, 1, Depth - 1) EXCEPT ![Depth - 1] = FALSE]
     ELSE /\ programs' = SubSeq(programs, 1, Depth - 1)
          /\ UNCHANGED <<tree, work, sortwork, rest, result>>
  /\ UNCHANGED <<config, size, sorting, ptr, added>>

\* An abort leaves all programs down to the command processor, which is called
\* again.
Unwound ==
  /\ programs' = <<FALSE>> /\ Forgotten
  /\ UNCHANGED <<config, size, sorting, ptr, added>>

Abort ==
  /\ Depth > 1
  /\ IF \E i \in 1..Depth : programs[i] THEN Cleared
     ELSE UNCHANGED <<tree, work, sortwork, rest>>
  /\ Unwound

\* A flush that fails leaves its file, which sortwork does not count.
FlushFails ==
  /\ sorting /\ Active
  /\ IF sortwork = 0 THEN "fullfirst" \in Ops ELSE "full" \in Ops
  /\ sortwork = 0 => \E k \in Key : size + Size[k] > sortmem
  /\ tree' = NoTree /\ sortwork' = 0 /\ rest' = <<>>
  /\ work' = IF sortwork > 0 THEN <<>> ELSE <<InOrder(tree)>>
  /\ Unwound

Next ==
  \/ \E o \in Order, data \in HasData, mem \in SortMem : SortInit(o, data, mem)
  \/ \E k \in Key : SortAdd(k)
  \/ NextInTree \/ NextInFile \/ DataInTree \/ DataInFile \/ SortClr
  \/ Call \/ Return \/ Abort \/ FlushFails

Spec == Init /\ [][Next]_vars

-----------------------------------------------------------------------------
(* Properties *)

Entries(s) == {s[i] : i \in DOMAIN s}

Nodes == {Record(tree[b]) : b \in DOMAIN tree}

\* The entries that the tree and the work files still have to give.
Stock ==
  IF \A i \in 1..Depth : ~programs[i] THEN {}
  ELSE IF sorting THEN Nodes \cup UNION {Entries(work[i]) : i \in DOMAIN work}
  ELSE IF count >= 0 THEN {}
  ELSE IF sortwork > 0 THEN Entries(rest)
  ELSE Nodes \ Entries(given)

\* Every entry added comes back once, in the order of the keys, whether the
\* sort stayed in memory or went through work files and merges, in one or in
\* several passes, and wherever SORTMEM divided it.
List == INSTANCE SortedList WITH order <- flags, stock <- Stock, given <- given
ImplementsSortedList == List!Spec

\* When no program has a sort, there are no tree, no open work file, and no
\* work files on the disk, however the programs ended.
NothingLeft ==
  (\A i \in 1..Depth : ~programs[i]) =>
    tree = NoTree /\ work = <<>> /\ sortwork = 0 /\ rest = <<>>

\* "Returns STATUS() as the number of items found" (op_sort.c:465).
CountExact == count >= 0 => count = Len(given)
=============================================================================
