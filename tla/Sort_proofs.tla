----------------------------- MODULE Sort_proofs -----------------------------
(***************************************************************************)
(* Proofs about Sort: however the programs of a process start sorts, call  *)
(* each other, return, stop, abort and run out of disk, a process without  *)
(* a sort has no tree and no work file left.                               *)
(***************************************************************************)
EXTENDS Sort, TLAPS

\* What no program of the process has: a sort.
NoSort(progs) == \A i \in 1..Len(progs) : ~progs[i]

\* The programs, of which one at most has the sort.
ProgramsOK ==
  /\ programs \in Seq(BOOLEAN) /\ Depth >= 1
  /\ \A i, j \in 1..Depth : programs[i] /\ programs[j] => i = j

\* Work files are there, and open, only if they are counted.
WorkOK ==
  /\ sortwork \in Nat
  /\ sortwork = 0 => work = <<>> /\ rest = <<>>

SortInv == ProgramsOK /\ WorkOK /\ NothingLeft

\* op_sortclr() leaves nothing, for what it does not count is not there.
LEMMA ClearedIsEmpty ==
  ASSUME WorkOK, Cleared
  PROVE  tree' = NoTree /\ work' = <<>> /\ sortwork' = 0 /\ rest' = <<>>
  BY DEF WorkOK, Cleared

LEMMA ClearedKeeps ==
  ASSUME SortInv, Cleared, ProgramsOK'
  PROVE  SortInv'
  BY ClearedIsEmpty DEF SortInv, WorkOK, NothingLeft

\* Steps of the program that has the sort need only count the work files.
LEMMA ActiveKeeps ==
  ASSUME SortInv, Active, UNCHANGED programs, WorkOK'
  PROVE  SortInv'
  <1>1. Depth \in 1..Depth /\ programs[Depth]
    BY DEF SortInv, ProgramsOK, Depth, Active
  <1>2. ProgramsOK' /\ NothingLeft'
    BY <1>1 DEF SortInv, ProgramsOK, Depth, NothingLeft
  <1> QED BY <1>2 DEF SortInv

\* A merge has at least one pass, so that its outcome is counted.
LEMMA MergeCounts ==
  ASSUME SortInv, sortwork > 0, SortMerge
  PROVE  sortwork' \in Nat /\ sortwork' > 0
  <1>1. sortwork \in Nat
    BY DEF SortInv, WorkOK
  <1>2. SortMrg - 1 \in Nat /\ SortMrg - 1 > 0
    BY SortAssumption
  <1>3. \A m, d \in Nat : d > 0 => m \div d \in Nat
    OBVIOUS
  <1>4. Passes(sortwork + 1) \in Nat /\ Passes(sortwork + 1) > 0
    <2>1. (sortwork + 1) - 2 \in Nat
      BY <1>1
    <2>2. ((sortwork + 1) - 2) \div (SortMrg - 1) \in Nat
      BY <1>2, <1>3, <2>1
    <2> QED BY <2>2 DEF Passes
  <1> HIDE DEF Passes
  <1> QED BY <1>1, <1>4 DEF SortMerge

LEMMA AddKeeps ==
  ASSUME SortInv, NEW k \in Key, SortAdd(k)
  PROVE  SortInv'
  <1>1. /\ sortwork \in Nat
        /\ sortwork = 0 => work = <<>> /\ rest = <<>>
        /\ rest' = rest /\ Active /\ UNCHANGED programs
    BY DEF SortAdd, SortInv, WorkOK
  <1>2. sortwork' = sortwork + 1 \/ UNCHANGED <<work, sortwork>>
    BY DEF SortAdd, Flushed
  <1>3. WorkOK'
    BY <1>1, <1>2 DEF WorkOK
  <1> QED BY <1>1, <1>3, ActiveKeeps

LEMMA GiveKeeps ==
  ASSUME SortInv, NextInTree \/ NextInFile \/ DataInTree \/ DataInFile
  PROVE  SortInv'
  <1>1. CASE NextInTree \/ DataInTree
    <2>1. Active /\ WorkOK' /\ UNCHANGED programs
      BY <1>1 DEF NextInTree, DataInTree, collected, SortInv, WorkOK
    <2> QED BY <2>1, ActiveKeeps
  <1>2. CASE NextInFile \/ DataInFile
    <2>1. SortMerge \/ UNCHANGED sortwork
      BY <1>2 DEF NextInFile, DataInFile, collected
    <2>2. sortwork > 0
      BY <1>2 DEF NextInFile, DataInFile
    <2>3. sortwork' \in Nat /\ sortwork' > 0
      BY <2>1, <2>2, MergeCounts DEF SortInv, WorkOK
    <2>4. Active /\ WorkOK' /\ UNCHANGED programs
      BY <1>2, <2>3 DEF NextInFile, DataInFile, WorkOK
    <2> QED BY <2>4, ActiveKeeps
  <1> QED BY <1>1, <1>2

\* A new sort is the only one: those that called this program have none.
LEMMA InitKeeps ==
  ASSUME SortInv, "nested" \notin Ops, NEW o, NEW data, NEW mem, SortInit(o, data, mem)
  PROVE  SortInv'
  <1>1. programs \in Seq(BOOLEAN) /\ Depth >= 1 /\ Depth = Len(programs)
    BY DEF SortInv, ProgramsOK, Depth
  <1>2. programs' = [programs EXCEPT ![Depth] = TRUE]
    BY DEF SortInit
  <1>3. \A i \in 1..Depth - 1 : ~programs[i]
    BY DEF SortInit
  <1>4. programs' \in Seq(BOOLEAN) /\ Len(programs') = Depth
    BY <1>1, <1>2
  <1>5. \A i \in 1..Depth : programs'[i] => i = Depth
    BY <1>1, <1>2, <1>3
  <1>6. ProgramsOK'
    BY <1>1, <1>4, <1>5 DEF ProgramsOK, Depth
  <1> QED BY <1>6, ClearedKeeps DEF SortInit

LEMMA ClrKeeps ==
  ASSUME SortInv, SortClr
  PROVE  SortInv'
  <1>1. programs \in Seq(BOOLEAN) /\ Depth >= 1 /\ Depth = Len(programs)
    BY DEF SortInv, ProgramsOK, Depth
  <1>2. programs' = [programs EXCEPT ![Depth] = FALSE]
    BY DEF SortClr
  <1>3. programs' \in Seq(BOOLEAN) /\ Len(programs') = Depth
    BY <1>1, <1>2
  <1>4. \A i \in 1..Depth : programs'[i] => programs[i]
    BY <1>1, <1>2
  <1>5. ProgramsOK'
    BY <1>1, <1>3, <1>4 DEF SortInv, ProgramsOK, Depth
  <1> QED BY <1>5, ClearedKeeps DEF SortClr

LEMMA CallKeeps ==
  ASSUME SortInv, Call
  PROVE  SortInv'
  <1>1. programs \in Seq(BOOLEAN) /\ Depth >= 1 /\ Depth = Len(programs)
    BY DEF SortInv, ProgramsOK, Depth
  <1>2. /\ programs' = Append(programs, FALSE)
        /\ UNCHANGED <<tree, work, sortwork, rest>>
    BY DEF Call, collected
  <1>3. /\ programs' \in Seq(BOOLEAN) /\ Len(programs') = Depth + 1
        /\ \A i \in 1..Depth : programs'[i] = programs[i]
        /\ ~programs'[Depth + 1]
    BY <1>1, <1>2
  <1>4. \A i \in 1..Depth + 1 : programs'[i] => i \in 1..Depth /\ programs[i]
    BY <1>1, <1>3
  <1>5. ProgramsOK'
    BY <1>1, <1>3, <1>4 DEF SortInv, ProgramsOK, Depth
  <1>6. NoSort(programs') => NoSort(programs)
    BY <1>1, <1>3 DEF NoSort
  <1>7. NothingLeft' /\ WorkOK'
    BY <1>1, <1>2, <1>3, <1>6 DEF SortInv, NothingLeft, NoSort, Depth, WorkOK
  <1> QED BY <1>5, <1>7 DEF SortInv

LEMMA ReturnKeeps ==
  ASSUME SortInv, Return
  PROVE  SortInv'
  <1>1. programs \in Seq(BOOLEAN) /\ Depth > 1 /\ Depth = Len(programs) /\ Depth \in Nat
    BY DEF SortInv, ProgramsOK, Depth, Return
  <1>2. PICK q : q = SubSeq(programs, 1, Depth - 1)
    OBVIOUS
  <1>3. /\ q \in Seq(BOOLEAN) /\ Len(q) = Depth - 1
        /\ \A i \in 1..Depth - 1 : q[i] = programs[i]
    BY <1>1, <1>2
  <1>4. CASE Active
    <2>1. Cleared /\ programs' = [q EXCEPT ![Depth - 1] = FALSE]
      BY <1>2, <1>4 DEF Return
    <2>2. /\ programs' \in Seq(BOOLEAN) /\ Len(programs') = Depth - 1
          /\ \A i \in 1..Depth - 1 : programs'[i] => programs[i]
      BY <1>1, <1>3, <2>1
    <2>3. ProgramsOK'
      BY <1>1, <2>2 DEF SortInv, ProgramsOK, Depth
    <2> QED BY <2>1, <2>3, ClearedKeeps
  <1>5. CASE ~Active
    <2>1. programs' = q /\ UNCHANGED <<tree, work, sortwork, rest>>
      BY <1>2, <1>5 DEF Return
    <2>2. ProgramsOK'
      BY <1>1, <1>3, <2>1 DEF SortInv, ProgramsOK, Depth
    <2>3. NoSort(q) => NoSort(programs)
      <3>1. \A i \in 1..Depth : i \in 1..Depth - 1 \/ i = Depth
        BY <1>1
      <3> QED BY <1>1, <1>3, <1>5, <3>1 DEF NoSort, Active
    <2>4. NothingLeft' /\ WorkOK'
      BY <1>1, <1>3, <2>1, <2>3 DEF SortInv, NothingLeft, NoSort, Depth, WorkOK
    <2> QED BY <2>2, <2>4 DEF SortInv
  <1> QED BY <1>4, <1>5

LEMMA UnwoundPrograms ==
  ASSUME Unwound
  PROVE  ProgramsOK'
  <1>1. programs' = <<FALSE>>
    BY DEF Unwound
  <1> QED BY <1>1 DEF ProgramsOK, Depth

LEMMA AbortKeeps ==
  ASSUME SortInv, Abort
  PROVE  SortInv'
  <1>1. ProgramsOK'
    BY UnwoundPrograms DEF Abort
  <1>2. CASE Cleared
    BY <1>1, <1>2, ClearedKeeps
  <1>3. CASE ~\E i \in 1..Depth : programs[i]
    BY <1>1, <1>3 DEF Abort, SortInv, NothingLeft, WorkOK
  <1> QED BY <1>2, <1>3 DEF Abort

LEMMA FailKeeps ==
  ASSUME SortInv, "fullfirst" \notin Ops, FlushFails
  PROVE  SortInv'
  <1>1. ProgramsOK'
    BY UnwoundPrograms DEF FlushFails
  <1>2. sortwork # 0
    BY DEF FlushFails
  <1>3. sortwork > 0
    BY <1>2 DEF SortInv, WorkOK
  <1> QED BY <1>1, <1>3 DEF FlushFails, SortInv, NothingLeft, WorkOK

LEMMA SortInvariance ==
  ASSUME Ops \cap {"nested", "fullfirst"} = {}
  PROVE  Spec => []SortInv
  <1>1. Init => SortInv
    BY DEF Init, SortInv, ProgramsOK, WorkOK, NothingLeft, Depth
  <1>2. SortInv /\ [Next]_vars => SortInv'
    <2> SUFFICES ASSUME SortInv, [Next]_vars PROVE SortInv'
      OBVIOUS
    <2>1. CASE UNCHANGED vars
      BY <2>1 DEF vars, collected, SortInv, ProgramsOK, WorkOK, NothingLeft, Depth
    <2>2. CASE Next
      BY <2>2, InitKeeps, AddKeeps, GiveKeeps, ClrKeeps, CallKeeps, ReturnKeeps, AbortKeeps,
         FailKeeps DEF Next
    <2> QED BY <2>1, <2>2
  <1> QED BY <1>1, <1>2, PTL DEF Spec

\* When no program of the process has a sort, there are no tree and no work
\* file, neither open nor on the disk, however the programs ended: as long as
\* no program starts a sort while one that called it has one, and the flush
\* that begins the first work file does not fail.
THEOREM SortsLeaveNothing ==
  ASSUME Ops \cap {"nested", "fullfirst"} = {}
  PROVE  Spec => []NothingLeft
  <1>1. SortInv => NothingLeft
    BY DEF SortInv
  <1> QED BY <1>1, SortInvariance, PTL
=============================================================================
