-------------------------- MODULE FileTable_proofs --------------------------
(***************************************************************************)
(* Proofs about FileTable: for every number of processes, files, cells and *)
(* user entries, the reference count of each file and the file map of each *)
(* user entry are exact, whoever opens, closes, has exclusive access or is *)
(* killed; and, of what a process keeps of a file that others change, that *)
(* the parameters in its header are not overwritten with old ones, that    *)
(* its indices are those of the file, and that a cached record is the      *)
(* record.  The last three hold of programs without the habits of Ops that *)
(* each theorem names, which the code does not defend against.             *)
(***************************************************************************)
EXTENDS FileTable, FiniteSetTheorems, SequenceTheorems, WellFoundedInduction, TLAPS

(* The inductive invariant *)

HeaderRec == [params : Nat, map : Nat]
Entry == [refs : {-1} \cup Nat, file : File \cup {None}, params : Nat, upd : Nat]
Hold == [for : SUBSET {"var", "cache"}, cell : 0..MaxCell, map : Nat, updated : BOOLEAN]
After == {Idle} \cup [step : {"drop"}, file : File]
Place ==
  After \cup [step : {"opening"}, file : File, head : HeaderRec]
        \cup [step : {"flush"}, file : File, next : After, head : HeaderRec]
        \cup [step : {"caching"}, file : File, value : File \X Nat]

TypeOK ==
  /\ entry \in [Cell -> Entry] /\ used \in 0..MaxCell
  /\ fileMap \in [Slot -> [Cell -> Nat]]
  /\ owner \in [Slot -> Proc \cup {None}]
  /\ slot \in [Proc -> 0..MaxSlot]
  /\ mode \in [Proc -> {"out", "run", "shutdown", "lost"}]
  /\ at \in [Proc -> Place]
  /\ holds \in [Proc -> [File -> Hold]]
  /\ disk \in [File -> HeaderRec]
  /\ version \in [File -> Nat]

\* Every process that exists has a user entry of its own, of which it is the
\* owner until it logs out.
SlotsOK ==
  /\ \A p \in Proc : mode[p] # "out" => slot[p] \in Slot
  /\ \A p, q \in Proc :
       mode[p] # "out" /\ mode[q] # "out" /\ slot[p] = slot[q] => p = q
  /\ \A p \in Proc : mode[p] \in {"run", "lost"} => owner[slot[p]] = p
  /\ \A p \in Proc : mode[p] = "shutdown" => owner[slot[p]] = None
  /\ \A s \in Slot : owner[s] # None =>
       mode[owner[s]] \in {"run", "lost"} /\ slot[owner[s]] = s

\* The files that p is about to give up its reference to.
Dropping(p, f) ==
  \/ at[p] = Drop(f)
  \/ at[p].step = "flush" /\ at[p].next = Drop(f)

PlaceGood(p) ==
  /\ mode[p] \in {"out", "lost"} => at[p] = Idle
  /\ mode[p] = "shutdown" => at[p].step \in {"idle", "flush", "drop"}
  /\ at[p].step = "opening" => ~IsOpen(p, at[p].file)
  /\ \A f \in File : Dropping(p, f) => IsOpen(p, f) /\ EntryOf(p, f).refs > 0
PlaceOK == \A p \in Proc : PlaceGood(p)

\* An open file is in the table; with exclusive access it is open for a file
\* variable only.
HoldsGood(p, f) ==
  /\ IsOpen(p, f) =>
       /\ mode[p] # "out"
       /\ holds[p][f].for # {}
       /\ holds[p][f].cell \in CellsOf(f)
       /\ EntryOf(p, f).refs < 0 => holds[p][f].for = {"var"}
  /\ mode[p] = "shutdown" => "var" \notin holds[p][f].for
HoldsOK == \A p \in Proc, f \in File : HoldsGood(p, f)

InUse(c) == entry[c].refs # 0

\* Each file has at most one cell.
EntryOK ==
  /\ \A c \in Cell : c > used => entry[c] = Free
  /\ \A c \in Cell : InUse(c) => entry[c].file \in File
  /\ \A c, d \in Cell : InUse(c) /\ InUse(d) /\ entry[c].file = entry[d].file => c = d

CountOK == \A c \in Cell : InUse(c) =>
  Abs(entry[c].refs) = Cardinality(Holders(entry[c].file))

\* A process has one file at most with each cell.
Keeps(p, c) == \E f \in File : IsOpen(p, f) /\ holds[p][f].cell = c
MapOK == \A p \in Proc : mode[p] # "out" =>
  \A c \in Cell : fileMap[slot[p]][c] = IF Keeps(p, c) THEN 1 ELSE 0

IInv == TypeOK /\ SlotsOK /\ PlaceOK /\ HoldsOK /\ EntryOK /\ CountOK /\ MapOK

-----------------------------------------------------------------------------
(* Lemmas *)

LEMMA PlaceFacts ==
  ASSUME NEW a \in Place
  PROVE  /\ \/ a = Idle
            \/ a.step \in {"opening", "flush", "drop", "caching"} /\ a.file \in File
         /\ a.step = "idle" <=> a = Idle
         /\ a.step = "opening" => a.head \in HeaderRec
         /\ a.step = "flush" => a.next \in After /\ a.head \in HeaderRec
         /\ a.step = "drop" => a = Drop(a.file)
         /\ a.step = "caching" => a.value \in File \X Nat
  <1>1. CASE a = Idle
    BY <1>1 DEF Idle
  <1>2. CASE a \in [step : {"drop"}, file : File]
    BY <1>2 DEF Idle, Drop
  <1>3. CASE a \in [step : {"opening"}, file : File, head : HeaderRec]
    BY <1>3 DEF Idle
  <1>4. CASE a \in [step : {"flush"}, file : File, next : After, head : HeaderRec]
    BY <1>4 DEF Idle
  <1>5. CASE a \in [step : {"caching"}, file : File, value : File \X Nat]
    BY <1>5 DEF Idle
  <1> QED BY <1>1, <1>2, <1>3, <1>4, <1>5 DEF Place, After

\* The processes that have a file open are not more than the user entries.
LEMMA HoldersFinite ==
  ASSUME TypeOK, SlotsOK, HoldsOK, NEW f \in File
  PROVE  /\ IsFiniteSet(Holders(f))
         /\ Cardinality(Holders(f)) \in Nat
         /\ Cardinality(Holders(f)) <= 32767
  <1> DEFINE m == [p \in Holders(f) |-> slot[p]]
  <1>1. \A p \in Holders(f) : p \in Proc /\ mode[p] # "out"
    BY DEF Holders, HoldsOK, HoldsGood
  <1>2. m \in Injection(Holders(f), Slot)
    BY <1>1 DEF SlotsOK, Injection, IsInjective
  <1>3. MaxSlot \in Nat /\ MaxSlot <= 32767
    BY FileTableAssumption
  <1>4. IsFiniteSet(Slot) /\ Cardinality(Slot) = MaxSlot
    BY <1>3, FS_Interval DEF Slot
  <1>5. IsFiniteSet(Holders(f)) /\ Cardinality(Holders(f)) <= Cardinality(Slot)
    BY <1>2, <1>4, FS_Injection
  <1> QED BY <1>3, <1>4, <1>5, FS_CardinalityType

LEMMA CellFacts ==
  ASSUME TypeOK, HoldsOK, NEW p \in Proc, NEW f \in File, IsOpen(p, f)
  PROVE  /\ holds[p][f].cell \in Cell
         /\ InUse(holds[p][f].cell)
         /\ entry[holds[p][f].cell].file = f
         /\ holds[p][f].cell \in 1..used
  <1>1. used \in 0..MaxCell /\ MaxCell \in Nat
    BY FileTableAssumption DEF TypeOK
  <1> QED BY <1>1 DEF HoldsOK, HoldsGood, CellsOf, InUse, Cell

\* The table and the open files, as far as references go, stay as they are.
TableKept ==
  /\ used' = used
  /\ \A c \in Cell :
       /\ Abs(entry'[c].refs) = Abs(entry[c].refs)
       /\ entry'[c].file = entry[c].file
       /\ ~InUse(c) => entry'[c] = entry[c]
HoldsKept ==
  \A p \in Proc, f \in File :
    /\ IsOpen(p, f)' = IsOpen(p, f)
    /\ IsOpen(p, f) => holds'[p][f].cell = holds[p][f].cell

LEMMA AbsZero ==
  ASSUME NEW n \in Int
  PROVE  Abs(n) = 0 <=> n = 0
  BY DEF Abs

LEMMA TableKeptInUse ==
  ASSUME TypeOK, TypeOK', TableKept
  PROVE  /\ \A c \in Cell : InUse(c)' = InUse(c)
         /\ \A f \in File : CellsOf(f)' = CellsOf(f)
  <1>1. ASSUME NEW c \in Cell PROVE entry[c].refs \in Int /\ entry'[c].refs \in Int
    BY DEF TypeOK, Entry
  <1>2. ASSUME NEW c \in Cell PROVE InUse(c)' = InUse(c)
    BY <1>1, AbsZero DEF TableKept, InUse
  <1>3. 1..used \subseteq Cell
    BY FileTableAssumption DEF TypeOK, Cell
  <1>4. ASSUME NEW f \in File PROVE CellsOf(f)' = CellsOf(f)
    <2>1. used' = used /\ \A c \in Cell : entry'[c].file = entry[c].file
      BY DEF TableKept
    <2>2. \A c \in 1..used : entry'[c].refs # 0 <=> entry[c].refs # 0
      BY <1>2, <1>3 DEF InUse
    <2> QED BY <1>3, <2>1, <2>2 DEF CellsOf
  <1> QED BY <1>2, <1>4

LEMMA KeptInv ==
  ASSUME TypeOK, TypeOK', EntryOK, CountOK, MapOK, TableKept, HoldsKept,
         UNCHANGED <<fileMap, slot>>,
         \A p \in Proc : mode'[p] = "out" <=> mode[p] = "out"
  PROVE  EntryOK' /\ CountOK' /\ MapOK'
  <1>1. \A f \in File : Holders(f)' = Holders(f)
    BY DEF HoldsKept, Holders
  <1>2. \A c \in Cell : InUse(c)' = InUse(c)
    BY TableKeptInUse
  <1>3. EntryOK'
    <2>1. ASSUME NEW c \in Cell, c > used' PROVE entry'[c] = Free
      BY <2>1 DEF EntryOK, TableKept, InUse, Free
    <2> QED BY <1>2, <2>1 DEF EntryOK, TableKept
  <1>4. CountOK'
    <2> SUFFICES ASSUME NEW c \in Cell, InUse(c)'
                 PROVE  Abs(entry[c].refs)' = Cardinality(Holders(entry[c].file))'
      BY DEF CountOK
    <2>1. InUse(c) /\ entry'[c].file = entry[c].file /\ Abs(entry'[c].refs) = Abs(entry[c].refs)
      BY <1>2 DEF TableKept
    <2>2. entry[c].file \in File
      BY <2>1 DEF EntryOK
    <2> QED BY <1>1, <2>1, <2>2 DEF CountOK
  <1>5. MapOK'
    <2>1. \A p \in Proc, c \in Cell : Keeps(p, c)' = Keeps(p, c)
      BY DEF Keeps, HoldsKept
    <2> QED BY <2>1 DEF MapOK
  <1> QED BY <1>3, <1>4, <1>5

-----------------------------------------------------------------------------
(* What the parts of actions do *)

LEMMA SetHoldsEffect ==
  ASSUME TypeOK, NEW p \in Proc, NEW f \in File, NEW h \in Hold, SetHolds(p, f, h)
  PROVE  /\ holds' \in [Proc -> [File -> Hold]]
         /\ holds'[p][f] = h
         /\ \A q \in Proc, g \in File : q # p \/ g # f => holds'[q][g] = holds[q][g]
  BY DEF TypeOK, SetHolds

LEMMA GotoEffect ==
  ASSUME TypeOK, NEW p \in Proc, NEW a \in Place, Goto(p, a)
  PROVE  /\ at' \in [Proc -> Place]
         /\ at'[p] = a
         /\ \A q \in Proc : q # p => at'[q] = at[q]
  BY DEF TypeOK, Goto

LEMMA StartFlushEffect ==
  ASSUME TypeOK, HoldsOK, NEW p \in Proc, NEW f \in File, IsOpen(p, f),
         NEW next \in After, StartFlush(p, f, next)
  PROVE  /\ at' \in [Proc -> Place]
         /\ at'[p].step = "flush" /\ at'[p].file = f /\ at'[p].next = next
         /\ \A q \in Proc : q # p => at'[q] = at[q]
  <1> DEFINE a == [step |-> "flush", file |-> f, next |-> next,
                   head |-> [disk[f] EXCEPT !.params = EntryOf(p, f).params]]
  <1>1. entry[holds[p][f].cell] \in Entry /\ disk[f] \in HeaderRec
    BY CellFacts DEF TypeOK
  <1>2. [disk[f] EXCEPT !.params = EntryOf(p, f).params] \in HeaderRec
    BY <1>1 DEF EntryOf, Entry, HeaderRec
  <1>3. a \in Place
    BY <1>2 DEF Place
  <1>4. Goto(p, a)
    BY DEF StartFlush
  <1>5. a.step = "flush" /\ a.file = f /\ a.next = next
    OBVIOUS
  <1> HIDE DEF a
  <1> QED BY <1>3, <1>4, <1>5, GotoEffect

\* dh_close() of file f, up to where the process goes on with next.
Closing(p, f, next) ==
  \/ at'[p] = next
  \/ at'[p].step = "flush" /\ at'[p].file = f /\ at'[p].next = next

LEMMA CloseDHEffect ==
  ASSUME TypeOK, HoldsOK, NEW p \in Proc, NEW f \in File, IsOpen(p, f),
         NEW next \in After, NEW h \in Hold, CloseDH(p, f, next, h)
  PROVE  /\ holds' \in [Proc -> [File -> Hold]]
         /\ holds'[p][f] = [h EXCEPT !.updated = TRUE]
         /\ \A q \in Proc, g \in File : q # p \/ g # f => holds'[q][g] = holds[q][g]
         /\ at' \in [Proc -> Place]
         /\ Closing(p, f, next)
         /\ \A q \in Proc : q # p => at'[q] = at[q]
  <1>1. [h EXCEPT !.updated = TRUE] \in Hold
    BY DEF Hold
  <1>2. SetHolds(p, f, [h EXCEPT !.updated = TRUE])
    BY DEF CloseDH
  <1>3. next \in Place
    BY DEF Place
  <1>4. CASE StartFlush(p, f, next)
    BY <1>1, <1>2, <1>4, SetHoldsEffect, StartFlushEffect DEF Closing
  <1>5. CASE Goto(p, next)
    BY <1>1, <1>2, <1>3, <1>5, SetHoldsEffect, GotoEffect DEF Closing
  <1> QED BY <1>4, <1>5 DEF CloseDH

LEMMA AfterDrop ==
  ASSUME NEW f \in File
  PROVE  Idle \in After /\ Drop(f) \in After /\ Idle \in Place /\ Drop(f) \in Place
  BY DEF After, Drop, Place

LEMMA ClosedIsHold == Closed \in Hold
  BY FileTableAssumption DEF Closed, Hold

\* Counts of 16 bits, as long as they are in their range.
LEMMA ModRange ==
  ASSUME NEW w \in Nat, w > 0, NEW n \in Int
  PROVE  n % w \in Nat
  OBVIOUS

LEMMA ModSmall ==
  ASSUME NEW w \in Nat, NEW n \in Nat, n < w
  PROVE  n % w = n
  OBVIOUS

LEMMA U16Type ==
  ASSUME NEW n \in Int
  PROVE  U16(n) \in Nat
  BY ModRange DEF U16

LEMMA U16Small ==
  ASSUME NEW n \in Nat, n < 65536
  PROVE  U16(n) = n
  BY ModSmall DEF U16

LEMMA I16Small ==
  ASSUME NEW n \in Nat, n < 32768
  PROVE  I16(n) = n
  <1>1. n + 32768 \in Nat /\ n + 32768 < 65536
    OBVIOUS
  <1>2. (n + 32768) % 65536 = n + 32768
    BY <1>1, ModSmall
  <1> QED BY <1>2 DEF I16

-----------------------------------------------------------------------------
(* Steps that move no reference *)

LEMMA IdlePlace ==
  ASSUME NEW p \in Proc, at'[p] = Idle
  PROVE  PlaceGood(p)'
  <1>1. Idle.step = "idle" /\ \A f : Idle # Drop(f)
    BY DEF Idle, Drop
  <1> QED BY <1>1 DEF PlaceGood, Dropping

LEMMA ClosingPlace ==
  ASSUME NEW p \in Proc, NEW f \in File, NEW next \in {Idle, Drop(f)},
         Closing(p, f, next), mode'[p] \in {"run", "shutdown"},
         next = Drop(f) => (IsOpen(p, f) /\ EntryOf(p, f).refs > 0)'
  PROVE  PlaceGood(p)'
  <1>1. /\ Idle.step = "idle" /\ \A g : Idle # Drop(g)
        /\ Drop(f).step = "drop" /\ \A g : Drop(f) = Drop(g) => f = g
    BY DEF Idle, Drop
  <1>2. at'[p].step \in {"idle", "flush", "drop"}
    BY <1>1 DEF Closing
  <1>3. ASSUME NEW g \in File, Dropping(p, g)'
        PROVE  next = Drop(f) /\ g = f
    <2>1. CASE at'[p] = next
      <3>1. at'[p].step # "flush"
        BY <1>1, <2>1
      <3> QED BY <1>1, <1>3, <2>1, <3>1 DEF Dropping
    <2>2. CASE at'[p].step = "flush" /\ at'[p].next = next
      <3>1. \A h : Drop(h).step # "flush"
        BY DEF Drop
      <3> QED BY <1>1, <1>3, <2>2, <3>1 DEF Dropping
    <2> QED BY <2>1, <2>2 DEF Closing
  <1> QED BY <1>2, <1>3 DEF PlaceGood

\* A step of p that concerns file f and moves no reference keeps the invariant
\* if it leaves p in a proper place and file f properly open.
LEMMA LocalStep ==
  ASSUME IInv, TypeOK', NEW p \in Proc, NEW f \in File,
         UNCHANGED <<users, mode>>, TableKept, HoldsKept,
         \A q \in Proc : q # p => at'[q] = at[q],
         \A q \in Proc, g \in File : q # p \/ g # f =>
           /\ holds'[q][g] = holds[q][g]
           /\ IsOpen(q, g) /\ entry'[holds[q][g].cell].refs < 0 =>
                entry[holds[q][g].cell].refs < 0,
         PlaceGood(p)',
         IsOpen(p, f) =>
           /\ holds'[p][f].for # {}
           /\ entry'[holds[p][f].cell].refs < 0 => holds'[p][f].for = {"var"},
         mode[p] = "shutdown" => "var" \notin holds'[p][f].for
  PROVE  IInv'
  <1>1. SlotsOK'
    BY DEF IInv, SlotsOK, users
  <1>2. EntryOK' /\ CountOK' /\ MapOK'
    BY KeptInv DEF IInv, users
  <1>3. \A g \in File : CellsOf(g)' = CellsOf(g)
    BY TableKeptInUse DEF IInv
  <1>4. ASSUME NEW q \in Proc, NEW g \in File PROVE HoldsGood(q, g)'
    <2>1. HoldsGood(q, g) /\ mode' = mode
      BY DEF IInv, HoldsOK
    <2>2. IsOpen(q, g)' = IsOpen(q, g)
          /\ (IsOpen(q, g) => holds'[q][g].cell = holds[q][g].cell)
      BY DEF HoldsKept
    <2>3. CASE q # p \/ g # f
      BY <1>3, <2>1, <2>2, <2>3 DEF HoldsGood, EntryOf
    <2>4. CASE q = p /\ g = f
      BY <1>3, <2>1, <2>2, <2>4 DEF HoldsGood, EntryOf
    <2> QED BY <2>3, <2>4
  <1>5. ASSUME NEW q \in Proc, q # p PROVE PlaceGood(q)'
    <2>1. PlaceGood(q) /\ mode' = mode /\ at'[q] = at[q]
      BY <1>5 DEF IInv, PlaceOK
    <2>2. \A g \in File : IsOpen(q, g)' = IsOpen(q, g) /\ holds'[q][g] = holds[q][g]
      BY <1>5 DEF HoldsKept
    <2>3. ASSUME at[q].step = "opening" PROVE ~IsOpen(q, at[q].file)'
      <3>1. at[q] \in Place
        BY DEF IInv, TypeOK
      <3>2. at[q].file \in File
        BY <2>3, <3>1, PlaceFacts DEF Idle
      <3> QED BY <2>1, <2>2, <2>3, <3>2 DEF PlaceGood
    <2>4. ASSUME NEW g \in File, Dropping(q, g)
          PROVE  IsOpen(q, g)' /\ EntryOf(q, g)'.refs > 0
      <3>1. IsOpen(q, g) /\ EntryOf(q, g).refs > 0
        BY <2>1, <2>4 DEF PlaceGood
      <3> DEFINE c == holds[q][g].cell
      <3>2. c \in Cell
        BY <3>1, CellFacts DEF IInv
      <3>3. entry[c].refs \in Int /\ entry'[c].refs \in Int
        BY <3>2 DEF IInv, TypeOK, Entry
      <3>4. Abs(entry'[c].refs) = Abs(entry[c].refs)
        BY <3>2 DEF TableKept
      <3>5. ~(entry'[c].refs < 0)
        BY <1>5, <3>1, <3>3 DEF EntryOf
      <3>6. entry'[c].refs > 0
        BY <3>1, <3>3, <3>4, <3>5 DEF Abs, EntryOf
      <3> QED BY <2>2, <3>1, <3>6 DEF EntryOf
    <2> QED BY <2>1, <2>3, <2>4 DEF PlaceGood, Dropping
  <1>6. PlaceOK' /\ HoldsOK'
    BY <1>4, <1>5 DEF PlaceOK, HoldsOK
  <1> QED BY <1>1, <1>2, <1>6 DEF IInv

LEMMA TableSame ==
  ASSUME UNCHANGED table
  PROVE  TableKept
  BY DEF table, TableKept

LEMMA HoldsSame ==
  ASSUME UNCHANGED holds
  PROVE  HoldsKept
  BY DEF HoldsKept, IsOpen

\* A step that changes neither the table nor the open files.
LEMMA PlaceStep ==
  ASSUME IInv, TypeOK', NEW p \in Proc, UNCHANGED <<table, users, mode, holds>>,
         \A q \in Proc : q # p => at'[q] = at[q], PlaceGood(p)'
  PROVE  IInv'
  <1>1. CASE File = {}
    <2>1. TableKept /\ HoldsKept
      BY TableSame, HoldsSame
    <2>2. EntryOK' /\ CountOK' /\ MapOK'
      BY <2>1, KeptInv DEF IInv, users
    <2>3. SlotsOK' /\ HoldsOK'
      BY <1>1 DEF IInv, SlotsOK, HoldsOK, users
    <2>4. ASSUME NEW q \in Proc, q # p PROVE PlaceGood(q)'
      <3>1. PlaceGood(q) /\ at'[q] = at[q] /\ at[q] \in Place /\ mode' = mode
        BY <2>4 DEF IInv, PlaceOK, TypeOK
      <3>2. at[q].step # "opening"
        BY <1>1, <3>1, PlaceFacts DEF Idle
      <3> QED BY <1>1, <3>1, <3>2 DEF PlaceGood
    <2> QED BY <2>2, <2>3, <2>4 DEF IInv, PlaceOK
  <1>2. ASSUME NEW f \in File PROVE IInv'
    <2>1. TableKept /\ HoldsKept
      BY TableSame, HoldsSame
    <2>2. holds' = holds /\ entry' = entry /\ HoldsGood(p, f)
      BY DEF IInv, HoldsOK, table
    <2> QED BY <2>1, <2>2, LocalStep DEF HoldsGood, EntryOf
  <1> QED BY <1>1, <1>2

LEMMA ReadyFacts ==
  ASSUME NEW p \in Proc, Ready(p)
  PROVE  mode[p] = "run" /\ at[p] = Idle
  BY DEF Ready

LEMMA ForEffect ==
  ASSUME NEW h \in Hold, NEW S \in SUBSET {"var", "cache"}
  PROVE  /\ [h EXCEPT !.for = S] \in Hold
         /\ [h EXCEPT !.for = S].for = S
         /\ [h EXCEPT !.for = S].cell = h.cell
  BY DEF Hold

\* A file that is open and changed is still open.
LEMMA OpenKept ==
  ASSUME TypeOK, NEW p \in Proc, NEW f \in File, IsOpen(p, f),
         holds'[p][f].for # {}, holds'[p][f].cell = holds[p][f].cell,
         \A q \in Proc, g \in File : q # p \/ g # f => holds'[q][g] = holds[q][g]
  PROVE  HoldsKept
  <1>1. IsOpen(p, f)'
    BY DEF IsOpen, Closed
  <1>2. ASSUME NEW q \in Proc, NEW g \in File, q # p \/ g # f
        PROVE  IsOpen(q, g)' = IsOpen(q, g) /\ holds'[q][g].cell = holds[q][g].cell
    BY <1>2 DEF IsOpen
  <1>3. ASSUME NEW q \in Proc, NEW g \in File
        PROVE  /\ IsOpen(q, g)' = IsOpen(q, g)
               /\ holds'[q][g].cell = holds[q][g].cell
    <2>1. CASE q = p /\ g = f
      BY <1>1, <2>1
    <2>2. CASE q # p \/ g # f
      BY <1>2, <2>2
    <2> QED BY <2>1, <2>2
  <1> QED BY <1>3 DEF HoldsKept

LEMMA OpenAgainInv ==
  ASSUME IInv, NEW p \in Proc, NEW f \in File, OpenAgain(p, f)
  PROVE  IInv'
  <1> DEFINE h == [holds[p][f] EXCEPT !.for = @ \cup {"var"}]
  <1>1. h \in Hold /\ h.for = holds[p][f].for \cup {"var"} /\ h.cell = holds[p][f].cell
    <2>1. holds[p][f] \in Hold
      BY DEF IInv, TypeOK
    <2>2. holds[p][f].for \cup {"var"} \in SUBSET {"var", "cache"}
      BY <2>1 DEF Hold
    <2> QED BY <2>1, <2>2, ForEffect
  <1>2. /\ holds' \in [Proc -> [File -> Hold]] /\ holds'[p][f] = h
        /\ \A q \in Proc, g \in File : q # p \/ g # f => holds'[q][g] = holds[q][g]
    BY <1>1, SetHoldsEffect DEF IInv, OpenAgain
  <1>3. TypeOK'
    BY <1>2 DEF IInv, TypeOK, OpenAgain, table, users
  <1> HIDE DEF h
  <1>4. IsOpen(p, f) /\ ~(entry[holds[p][f].cell].refs < 0) /\ mode[p] = "run" /\ at'[p] = Idle
    BY DEF OpenAgain, Ready, Exclusive, EntryOf
  <1>5. HoldsKept
    BY <1>1, <1>2, <1>4, OpenKept DEF IInv
  <1>6. TableKept /\ entry' = entry /\ UNCHANGED <<users, mode>> /\ at' = at
    BY TableSame DEF OpenAgain, table
  <1>7. PlaceGood(p)'
    BY <1>4, IdlePlace
  <1>8. holds'[p][f].for # {}
    BY <1>1, <1>2
  <1> QED BY <1>2, <1>3, <1>4, <1>5, <1>6, <1>7, <1>8, LocalStep

LEMMA ReadHeaderInv ==
  ASSUME IInv, NEW p \in Proc, NEW f \in File, ReadHeader(p, f)
  PROVE  IInv'
  <1> DEFINE a == [step |-> "opening", file |-> f, head |-> disk[f]]
  <1>1. a \in Place /\ a.step = "opening" /\ a.file = f
    BY DEF IInv, TypeOK, Place
  <1>2. at' \in [Proc -> Place] /\ at'[p] = a /\ \A q \in Proc : q # p => at'[q] = at[q]
    BY <1>1, GotoEffect DEF IInv, ReadHeader
  <1> HIDE DEF a
  <1>3. TypeOK'
    BY <1>2 DEF IInv, TypeOK, ReadHeader, table, users
  <1>4. ~IsOpen(p, f)' /\ mode'[p] = "run"
    BY DEF ReadHeader, Ready, IsOpen
  <1>5. PlaceGood(p)'
    BY <1>1, <1>2, <1>4 DEF PlaceGood, Dropping, Drop
  <1> QED BY <1>2, <1>3, <1>5, PlaceStep DEF ReadHeader

LEMMA OpenFailsInv ==
  ASSUME IInv, NEW p \in Proc, OpenFails(p)
  PROVE  IInv'
  <1>1. at' \in [Proc -> Place] /\ at'[p] = Idle /\ \A q \in Proc : q # p => at'[q] = at[q]
    BY GotoEffect DEF IInv, OpenFails, Place, After
  <1>2. TypeOK'
    BY <1>1 DEF IInv, TypeOK, OpenFails, table, users
  <1> QED BY <1>1, <1>2, IdlePlace, PlaceStep DEF OpenFails

LEMMA FlushInv ==
  ASSUME IInv, NEW p \in Proc, NEW f \in File, Flush(p, f)
  PROVE  IInv'
  <1>1. IsOpen(p, f) /\ mode'[p] = "run"
    BY DEF Flush, IsOpen, Closed, Ready
  <1>2. /\ at' \in [Proc -> Place] /\ Closing(p, f, Idle)
        /\ \A q \in Proc : q # p => at'[q] = at[q]
    BY <1>1, AfterDrop, StartFlushEffect DEF IInv, Flush, Closing
  <1>3. TypeOK'
    BY <1>2 DEF IInv, TypeOK, Flush, table, users
  <1>4. PlaceGood(p)'
    <2>1. Idle # Drop(f)
      BY DEF Idle, Drop
    <2> QED BY <1>1, <1>2, <2>1, ClosingPlace
  <1> QED BY <1>2, <1>3, <1>4, PlaceStep DEF Flush

LEMMA WriteHeaderInv ==
  ASSUME IInv, NEW p \in Proc, WriteHeader(p)
  PROVE  IInv'
  <1>1. at[p] \in Place /\ at[p].step = "flush" /\ at[p].file \in File
        /\ at[p].next \in After /\ at[p].head \in HeaderRec
    BY PlaceFacts DEF IInv, TypeOK, WriteHeader, Idle
  <1>2. at[p].next \in Place
    BY <1>1 DEF Place
  <1>3. at' \in [Proc -> Place] /\ at'[p] = at[p].next /\ \A q \in Proc : q # p => at'[q] = at[q]
    BY <1>2, GotoEffect DEF IInv, WriteHeader
  <1>4. disk' \in [File -> HeaderRec]
    BY <1>1 DEF IInv, TypeOK, WriteHeader
  <1>5. TypeOK'
    BY <1>3, <1>4 DEF IInv, TypeOK, WriteHeader, table, users
  <1>6. UNCHANGED <<table, users, mode, holds>> /\ mode[p] \in {"run", "shutdown"}
    BY DEF WriteHeader
  <1>7. PlaceGood(p)'
    <2>1. CASE at[p].next = Idle
      BY <1>3, <2>1, IdlePlace
    <2>2. ASSUME NEW f \in File, at[p].next = Drop(f) PROVE PlaceGood(p)'
      <3>1. Dropping(p, f)
        BY <1>1, <2>2 DEF Dropping
      <3>2. IsOpen(p, f) /\ EntryOf(p, f).refs > 0
        BY <3>1 DEF IInv, PlaceOK, PlaceGood
      <3>3. (IsOpen(p, f) /\ EntryOf(p, f).refs > 0)'
        BY <1>6, <3>2 DEF IsOpen, EntryOf, table
      <3>4. Closing(p, f, Drop(f)) /\ mode'[p] \in {"run", "shutdown"}
        BY <1>3, <1>6, <2>2 DEF Closing
      <3> QED BY <3>3, <3>4, ClosingPlace
    <2> QED BY <1>1, <2>1, <2>2 DEF After, Drop
  <1> QED BY <1>3, <1>5, <1>6, <1>7, PlaceStep

\* dio_close() ends exclusive access.
LEMMA CloseVariableInv ==
  ASSUME IInv, NEW p \in Proc, NEW f \in File, CloseVariable(p, f)
  PROVE  IInv'
  <1> DEFINE c == holds[p][f].cell
             keep == "cache" \in holds[p][f].for
             h == IF keep THEN [holds[p][f] EXCEPT !.for = {"cache"}] ELSE holds[p][f]
             next == IF keep THEN Idle ELSE Drop(f)
  <1>1. IsOpen(p, f) /\ mode[p] = "run" /\ "var" \in holds[p][f].for
    BY DEF CloseVariable, IsOpen, Closed, Ready
  <1>2. c \in Cell /\ InUse(c) /\ entry[c].file = f /\ holds[p][f] \in Hold
    BY <1>1, CellFacts DEF IInv, TypeOK
  <1>3. h \in Hold /\ h.for # {} /\ h.cell = c /\ next \in After /\ next \in {Idle, Drop(f)}
    <2>1. CASE keep
      <3>1. h = [holds[p][f] EXCEPT !.for = {"cache"}] /\ next = Idle
        BY <2>1
      <3> HIDE DEF h, next
      <3>2. h \in Hold /\ h.for = {"cache"} /\ h.cell = c
        BY <1>2, <3>1, ForEffect
      <3> QED BY <3>1, <3>2, AfterDrop
    <2>2. CASE ~keep
      BY <1>1, <1>2, <2>2, AfterDrop
    <2> QED BY <2>1, <2>2
  <1>4. CloseDH(p, f, next, h)
    BY DEF CloseVariable
  <1> HIDE DEF h, next
  <1>5. /\ holds' \in [Proc -> [File -> Hold]]
        /\ holds'[p][f] = [h EXCEPT !.updated = TRUE]
        /\ \A q \in Proc, g \in File : q # p \/ g # f => holds'[q][g] = holds[q][g]
        /\ at' \in [Proc -> Place] /\ Closing(p, f, next)
        /\ \A q \in Proc : q # p => at'[q] = at[q]
    BY <1>1, <1>3, <1>4, CloseDHEffect DEF IInv
  <1>6. holds'[p][f].for # {} /\ holds'[p][f].cell = c
    BY <1>3, <1>5 DEF Hold
  <1>7. entry' = IF entry[c].refs < 0 THEN [entry EXCEPT ![c].refs = 1] ELSE entry
    BY <1>1 DEF CloseVariable, Exclusive, EntryOf
  <1>8. entry[c] \in Entry /\ (entry[c].refs < 0 => entry[c].refs = -1)
    BY <1>2 DEF IInv, TypeOK, Entry
  <1>9. /\ entry' \in [Cell -> Entry]
        /\ \A d \in Cell : d # c => entry'[d] = entry[d]
        /\ entry'[c].file = entry[c].file
        /\ entry'[c].refs = IF entry[c].refs < 0 THEN 1 ELSE entry[c].refs
    <2>1. entry \in [Cell -> Entry]
      BY DEF IInv, TypeOK
    <2>2. CASE entry[c].refs < 0
      <3>1. entry' = [entry EXCEPT ![c].refs = 1]
        BY <1>7, <2>2
      <3> QED BY <1>2, <1>8, <2>1, <2>2, <3>1 DEF Entry
    <2> QED BY <1>7, <2>1, <2>2
  <1>10. TypeOK'
    BY <1>5, <1>9 DEF IInv, TypeOK, CloseVariable, users
  <1>11. entry[c].refs \in Int /\ entry'[c].refs > 0 /\ Abs(entry'[c].refs) = Abs(entry[c].refs)
    <2>1. entry[c].refs \in {-1} \cup Nat /\ entry[c].refs # 0
      BY <1>2, <1>8 DEF Entry, InUse
    <2> QED BY <1>9, <2>1 DEF Abs
  <1>12. TableKept
    BY <1>2, <1>9, <1>11 DEF TableKept, CloseVariable
  <1>13. HoldsKept
    BY <1>1, <1>5, <1>6, OpenKept DEF IInv
  <1>14. PlaceGood(p)'
    <2>1. IsOpen(p, f)' /\ EntryOf(p, f)'.refs > 0
      BY <1>1, <1>6, <1>11, <1>13 DEF HoldsKept, EntryOf
    <2>2. mode'[p] = "run"
      BY <1>1 DEF CloseVariable
    <2> QED BY <1>3, <1>5, <2>1, <2>2, ClosingPlace
  <1>15. \A q \in Proc, g \in File : IsOpen(q, g) =>
           (entry'[holds[q][g].cell].refs < 0 => entry[holds[q][g].cell].refs < 0)
    <2>1. \A d \in Cell : entry'[d].refs < 0 => entry[d].refs < 0
      BY <1>9, <1>11
    <2> QED BY <2>1, CellFacts DEF IInv
  <1>16. ~(entry'[c].refs < 0)
    BY <1>8, <1>9, <1>11 DEF Entry
  <1>17. UNCHANGED <<users, mode>>
    BY DEF CloseVariable
  <1>18. \A q \in Proc, g \in File : q # p \/ g # f =>
           /\ holds'[q][g] = holds[q][g]
           /\ IsOpen(q, g) /\ entry'[holds[q][g].cell].refs < 0 =>
                entry[holds[q][g].cell].refs < 0
    BY <1>5, <1>15
  <1> HIDE DEF c
  <1>19. mode[p] # "shutdown"
    BY <1>1
  <1>20. entry'[holds[p][f].cell].refs < 0 => FALSE
    BY <1>16 DEF c
  <1> QED
    BY <1>5, <1>6, <1>10, <1>12, <1>13, <1>14, <1>17, <1>18, <1>19, <1>20, LocalStep

\* A close that leaves the table as it is: by the DH cache, or at the end.
LEMMA CloseInv ==
  ASSUME IInv, NEW p \in Proc, NEW f \in File, IsOpen(p, f),
         mode[p] \in {"run", "shutdown"}, holds[p][f].for # {"var"},
         NEW h \in Hold, h.for # {}, h.cell = holds[p][f].cell,
         "var" \in h.for => "var" \in holds[p][f].for /\ mode[p] = "run",
         NEW next \in {Idle, Drop(f)}, CloseDH(p, f, next, h),
         UNCHANGED <<table, users, mode, cache, disk, version>>
  PROVE  IInv'
  <1> DEFINE c == holds[p][f].cell
  <1>1. next \in After
    BY AfterDrop
  <1>2. /\ holds' \in [Proc -> [File -> Hold]]
        /\ holds'[p][f] = [h EXCEPT !.updated = TRUE]
        /\ \A q \in Proc, g \in File : q # p \/ g # f => holds'[q][g] = holds[q][g]
        /\ at' \in [Proc -> Place] /\ Closing(p, f, next)
        /\ \A q \in Proc : q # p => at'[q] = at[q]
    BY <1>1, CloseDHEffect DEF IInv
  <1>3. holds'[p][f].for = h.for /\ holds'[p][f].cell = c
    BY <1>2 DEF Hold
  <1>4. TypeOK'
    BY <1>2 DEF IInv, TypeOK, table, users
  <1>5. TableKept /\ HoldsKept
    BY <1>2, <1>3, TableSame, OpenKept DEF IInv
  <1>6. c \in Cell /\ InUse(c) /\ entry[c] \in Entry
    BY CellFacts DEF IInv, TypeOK
  <1>7. entry[c].refs > 0
    <2>1. ~(entry[c].refs < 0)
      BY DEF IInv, HoldsOK, HoldsGood, EntryOf
    <2> QED BY <1>6, <2>1 DEF Entry, InUse
  <1>8. entry' = entry /\ mode' = mode
    BY DEF table
  <1>9. PlaceGood(p)'
    <2>1. IsOpen(p, f)' /\ EntryOf(p, f)'.refs > 0
      BY <1>3, <1>5, <1>7, <1>8 DEF HoldsKept, EntryOf
    <2> QED BY <1>2, <1>8, <2>1, ClosingPlace
  <1>10. entry[c].refs \in Int /\ ~(entry[c].refs < 0)
    BY <1>6, <1>7 DEF Entry
  <1>11. \A q \in Proc, g \in File : q # p \/ g # f =>
           /\ holds'[q][g] = holds[q][g]
           /\ IsOpen(q, g) /\ entry'[holds[q][g].cell].refs < 0 =>
                entry[holds[q][g].cell].refs < 0
    BY <1>2, <1>8
  <1>12. mode[p] = "shutdown" => "var" \notin holds'[p][f].for
    <2>1. mode[p] = "shutdown" => "var" \notin holds[p][f].for
      BY DEF IInv, HoldsOK, HoldsGood
    <2> QED BY <1>3, <2>1
  <1>13. entry'[holds[p][f].cell].refs < 0 => FALSE
    BY <1>8, <1>10
  <1>14. UNCHANGED <<users, mode>> /\ holds'[p][f].for # {}
    BY <1>3
  <1> HIDE DEF IInv, c
  <1> QED BY <1>2, <1>4, <1>5, <1>9, <1>11, <1>12, <1>13, <1>14, LocalStep

LEMMA CloseCachedInv ==
  ASSUME IInv, NEW p \in Proc, NEW f \in File, CloseCached(p, f)
  PROVE  IInv'
  <1> DEFINE keep == "var" \in holds[p][f].for
             h == IF keep THEN [holds[p][f] EXCEPT !.for = {"var"}] ELSE holds[p][f]
             next == IF keep THEN Idle ELSE Drop(f)
  <1>1. /\ IsOpen(p, f) /\ mode[p] = "run"
        /\ holds[p][f].for # {} /\ holds[p][f].for # {"var"}
    BY DEF CloseCached, IsOpen, Closed, Ready
  <1>2. holds[p][f] \in Hold
    BY DEF IInv, TypeOK
  <1>3. h \in Hold /\ h.for # {} /\ h.cell = holds[p][f].cell /\ ("var" \in h.for => keep)
    <2>1. CASE keep
      <3>1. h = [holds[p][f] EXCEPT !.for = {"var"}]
        BY <2>1
      <3> HIDE DEF h
      <3>2. h \in Hold /\ h.for = {"var"} /\ h.cell = holds[p][f].cell
        BY <1>2, <3>1, ForEffect
      <3> QED BY <2>1, <3>2
    <2>2. CASE ~keep
      BY <1>1, <1>2, <2>2
    <2> QED BY <2>1, <2>2
  <1>4. CloseDH(p, f, next, h) /\ UNCHANGED <<table, users, mode, cache, disk, version>>
    BY DEF CloseCached
  <1>5. next \in {Idle, Drop(f)}
    OBVIOUS
  <1>6. keep => "var" \in holds[p][f].for
    OBVIOUS
  <1> HIDE DEF h, next, keep
  <1> QED BY <1>1, <1>3, <1>4, <1>5, <1>6, CloseInv

LEMMA ShutdownInv ==
  ASSUME IInv, NEW p \in Proc, NEW f \in File, Shutdown(p, f)
  PROVE  IInv'
  <1>1. IsOpen(p, f) /\ mode[p] = "shutdown" /\ CloseDH(p, f, Drop(f), holds[p][f])
        /\ UNCHANGED <<table, users, mode, cache, disk, version>>
    BY DEF Shutdown
  <1>2. holds[p][f] \in Hold /\ holds[p][f].for # {} /\ "var" \notin holds[p][f].for
    BY <1>1 DEF IInv, TypeOK, HoldsOK, HoldsGood
  <1>3. holds[p][f].for # {"var"}
    BY <1>2
  <1> HIDE DEF IInv
  <1> QED BY <1>1, <1>2, <1>3, CloseInv

\* A file with one reference is open in one process.
LEMMA OneHolder ==
  ASSUME IInv, NEW p \in Proc, NEW f \in File, IsOpen(p, f), Abs(EntryOf(p, f).refs) = 1,
         NEW q \in Proc, NEW g \in File, IsOpen(q, g), holds[q][g].cell = holds[p][f].cell
  PROVE  q = p /\ g = f
  <1> DEFINE c == holds[p][f].cell
  <1>1. c \in Cell /\ InUse(c) /\ entry[c].file = f /\ entry[c].file = g
    BY CellFacts DEF IInv
  <1>2. IsFiniteSet(Holders(f)) /\ Abs(entry[c].refs) = Cardinality(Holders(f))
    BY <1>1, HoldersFinite DEF IInv, CountOK
  <1>3. Cardinality(Holders(f)) = 1
    BY <1>2 DEF EntryOf
  <1>4. PICK x : Holders(f) = {x}
    BY <1>2, <1>3, FS_Singleton
  <1>5. p \in Holders(f) /\ q \in Holders(f)
    BY <1>1 DEF Holders
  <1> QED BY <1>1, <1>4, <1>5

LEMMA SetExclusiveInv ==
  ASSUME IInv, NEW p \in Proc, NEW f \in File, SetExclusive(p, f)
  PROVE  IInv'
  <1> DEFINE c == holds[p][f].cell
  <1>1. /\ IsOpen(p, f) /\ mode[p] = "run" /\ holds[p][f].for = {"var"}
        /\ EntryOf(p, f).refs = 1 /\ at'[p] = Idle
    BY DEF SetExclusive, IsOpen, Closed, Ready
  <1>2. c \in Cell /\ InUse(c) /\ entry[c] \in Entry
    BY <1>1, CellFacts DEF IInv, TypeOK
  <1>3. entry[c].refs = 1 /\ entry' = [entry EXCEPT ![c].refs = -1]
    BY <1>1 DEF SetExclusive, EntryOf
  <1>4. /\ entry' \in [Cell -> Entry]
        /\ \A d \in Cell : d # c => entry'[d] = entry[d]
        /\ entry'[c].file = entry[c].file /\ entry'[c].refs = -1
    <2>1. entry \in [Cell -> Entry]
      BY DEF IInv, TypeOK
    <2> QED BY <1>2, <1>3, <2>1 DEF Entry
  <1>5. TypeOK'
    BY <1>4 DEF IInv, TypeOK, SetExclusive, users
  <1>6. TableKept
    BY <1>2, <1>3, <1>4 DEF TableKept, SetExclusive, Abs
  <1>7. HoldsKept /\ holds' = holds /\ at' = at /\ UNCHANGED <<users, mode>>
    BY HoldsSame DEF SetExclusive
  <1>8. ASSUME NEW q \in Proc, NEW g \in File, q # p \/ g # f,
               IsOpen(q, g), entry'[holds[q][g].cell].refs < 0
        PROVE  entry[holds[q][g].cell].refs < 0
    <2>1. holds[q][g].cell # c
      BY <1>1, <1>8, OneHolder DEF Abs
    <2>2. holds[q][g].cell \in Cell
      BY <1>8, CellFacts DEF IInv
    <2> QED BY <1>4, <1>8, <2>1, <2>2
  <1>9. PlaceGood(p)'
    BY <1>1, IdlePlace
  <1> HIDE DEF c
  <1> QED BY <1>1, <1>5, <1>6, <1>7, <1>8, <1>9, LocalStep

LEMMA ChangeHeaderInv ==
  ASSUME IInv, NEW p \in Proc, NEW f \in File, ChangeHeader(p, f)
  PROVE  IInv'
  <1>1. disk[f] \in HeaderRec
    BY DEF IInv, TypeOK
  <1>2. disk' \in [File -> HeaderRec]
    <2> DEFINE r == [disk[f] EXCEPT !.map = @ + 1]
    <2>1. r \in HeaderRec
      BY <1>1 DEF HeaderRec
    <2>2. disk' = [disk EXCEPT ![f] = r]
      BY Zenon DEF ChangeHeader
    <2> HIDE DEF r
    <2> QED BY <2>1, <2>2 DEF IInv, TypeOK
  <1>3. TypeOK'
    BY <1>2 DEF IInv, TypeOK, ChangeHeader, table, users
  <1>4. at' = at /\ at'[p] = Idle
    BY DEF ChangeHeader, Ready
  <1> QED BY <1>3, <1>4, IdlePlace, PlaceStep DEF ChangeHeader

LEMMA CountedEffect ==
  ASSUME NEW e \in Entry, NEW m \in Nat, NEW n \in Nat
  PROVE  /\ [e EXCEPT !.params = m, !.upd = n] \in Entry
         /\ [e EXCEPT !.params = m, !.upd = n].refs = e.refs
         /\ [e EXCEPT !.params = m, !.upd = n].file = e.file
  <1> DEFINE d == [e EXCEPT !.params = m]
  <1>1. d \in Entry /\ d.refs = e.refs /\ d.file = e.file
    BY DEF Entry
  <1> HIDE DEF d
  <1>2. /\ [d EXCEPT !.upd = n] \in Entry
        /\ [d EXCEPT !.upd = n].refs = d.refs /\ [d EXCEPT !.upd = n].file = d.file
    BY <1>1 DEF Entry
  <1> QED BY <1>1, <1>2 DEF d

LEMMA ChangeInv ==
  ASSUME IInv, NEW p \in Proc, NEW f \in File, Change(p, f)
  PROVE  IInv'
  <1> DEFINE c == holds[p][f].cell
             h == [holds[p][f] EXCEPT !.updated = TRUE]
  <1>1. /\ IsOpen(p, f) /\ mode[p] = "run" /\ at'[p] = Idle /\ at' = at
        /\ UNCHANGED <<users, mode>> /\ used' = used
        /\ SetHolds(p, f, h)
    <2>1. Ready(p) /\ "var" \in holds[p][f].for /\ SetHolds(p, f, h)
          /\ UNCHANGED <<used, users, mode, at, cache, disk>>
      BY DEF Change
    <2> HIDE DEF h
    <2> QED BY <2>1 DEF IsOpen, Closed, Ready
  <1>2. c \in Cell /\ InUse(c) /\ entry[c] \in Entry
    BY <1>1, CellFacts DEF IInv, TypeOK
  <1>3. h \in Hold /\ h.for = holds[p][f].for /\ h.cell = c
    <2>1. holds[p][f] \in Hold
      BY DEF IInv, TypeOK
    <2> QED BY <2>1 DEF Hold
  <1>4. /\ holds' \in [Proc -> [File -> Hold]] /\ holds'[p][f] = h
        /\ \A q \in Proc, g \in File : q # p \/ g # f => holds'[q][g] = holds[q][g]
    BY <1>1, <1>3, SetHoldsEffect DEF IInv
  <1> DEFINE e == [entry[c] EXCEPT !.params = @ + 1, !.upd = @ + 1]
  <1>5. e \in Entry /\ e.refs = entry[c].refs /\ e.file = entry[c].file
    <2>1. PICK x \in Entry : x = entry[c]
      BY <1>2
    <2>2. x.params + 1 \in Nat /\ x.upd + 1 \in Nat
      BY DEF Entry
    <2> DEFINE y == [x EXCEPT !.params = x.params + 1, !.upd = x.upd + 1]
    <2>3. y \in Entry /\ y.refs = x.refs /\ y.file = x.file
      BY <2>2, CountedEffect
    <2>4. e = y
      BY <2>1
    <2> HIDE DEF e, y
    <2> QED BY <2>1, <2>3, <2>4
  <1>6. ASSUME NEW d \in Cell PROVE entry'[d] = IF d = c THEN e ELSE entry[d]
    <2> DEFINE e1 == [entry[c] EXCEPT !.params = @ + 1]
               mid == [entry EXCEPT ![c] = e1]
    <2>1. entry' = [mid EXCEPT ![c] = [mid[c] EXCEPT !.upd = @ + 1]]
      BY Zenon DEF Change
    <2>2. e = [e1 EXCEPT !.upd = @ + 1]
      <3>1. e1.upd = entry[c].upd
        BY <1>2 DEF Entry
      <3>2. e = [e1 EXCEPT !.upd = entry[c].upd + 1]
        OBVIOUS
      <3> HIDE DEF e, e1
      <3> QED BY <3>1, <3>2
    <2> HIDE DEF e, e1
    <2>3. DOMAIN entry = Cell
      BY DEF IInv, TypeOK
    <2>4. mid[c] = e1 /\ DOMAIN mid = Cell /\ (d # c => mid[d] = entry[d])
      BY <1>2, <2>3
    <2>5. entry' = [mid EXCEPT ![c] = e]
      BY <2>1, <2>2, <2>4
    <2> HIDE DEF mid
    <2> QED BY <1>2, <2>4, <2>5
  <1> HIDE DEF e, h
  <1>7. /\ entry' \in [Cell -> Entry] /\ entry'[c] = e
        /\ \A d \in Cell : d # c => entry'[d] = entry[d]
    <2>1. entry' = [d \in Cell |-> entry'[d]]
      BY Zenon DEF IInv, TypeOK, Change
    <2>2. \A d \in Cell : entry[d] \in Entry
      BY DEF IInv, TypeOK
    <2> QED BY <1>2, <1>5, <1>6, <2>1, <2>2
  <1>8. version' \in [File -> Nat]
    BY DEF IInv, TypeOK, Change
  <1>9. TypeOK'
    BY <1>4, <1>7, <1>8 DEF IInv, TypeOK, Change, users
  <1>10. TableKept
    BY <1>1, <1>2, <1>5, <1>7 DEF TableKept
  <1>11. /\ IsOpen(p, f) => holds[p][f].for # {}
         /\ EntryOf(p, f).refs < 0 => holds[p][f].for = {"var"}
    BY <1>1 DEF IInv, HoldsOK, HoldsGood
  <1>12. HoldsKept /\ holds'[p][f].for = holds[p][f].for /\ holds'[p][f].cell = c
    BY <1>1, <1>3, <1>4, <1>11, OpenKept DEF IInv
  <1>13. \A d \in Cell : entry'[d].refs = entry[d].refs
    BY <1>5, <1>7
  <1>14. PlaceGood(p)'
    BY <1>1, IdlePlace
  <1>15. \A q \in Proc, g \in File : q # p \/ g # f =>
           /\ holds'[q][g] = holds[q][g]
           /\ IsOpen(q, g) /\ entry'[holds[q][g].cell].refs < 0 =>
                entry[holds[q][g].cell].refs < 0
    BY <1>4, <1>13, CellFacts DEF IInv
  <1>16. entry'[holds[p][f].cell].refs < 0 => holds'[p][f].for = {"var"}
    BY <1>2, <1>11, <1>12, <1>13 DEF EntryOf
  <1> HIDE DEF c
  <1>17. mode[p] # "shutdown" /\ holds'[p][f].for # {}
    BY <1>1, <1>11, <1>12
  <1> QED BY <1>1, <1>9, <1>10, <1>12, <1>14, <1>15, <1>16, <1>17, LocalStep

LEMMA ReadCachedInv ==
  ASSUME IInv, NEW p \in Proc, NEW f \in File, ReadCached(p, f)
  PROVE  IInv'
  <1>1. TypeOK'
    BY DEF IInv, TypeOK, ReadCached, table, users
  <1>2. at' = at /\ at'[p] = Idle
    BY DEF ReadCached, Ready
  <1> QED BY <1>1, <1>2, IdlePlace, PlaceStep DEF ReadCached

LEMMA ReadInv ==
  ASSUME IInv, NEW p \in Proc, NEW f \in File, Read(p, f)
  PROVE  IInv'
  <1> DEFINE a == [step |-> "caching", file |-> f, value |-> <<f, version[f]>>]
  <1>1. a \in Place /\ a.step = "caching"
    BY DEF IInv, TypeOK, Place
  <1>2. at' \in [Proc -> Place] /\ at'[p] = a /\ \A q \in Proc : q # p => at'[q] = at[q]
    BY <1>1, GotoEffect DEF IInv, Read
  <1> HIDE DEF a
  <1>3. TypeOK'
    BY <1>2 DEF IInv, TypeOK, Read, table, users
  <1>4. mode'[p] = "run"
    BY DEF Read, Ready
  <1>5. PlaceGood(p)'
    BY <1>1, <1>2, <1>4 DEF PlaceGood, Dropping, Drop
  <1> QED BY <1>2, <1>3, <1>5, PlaceStep DEF Read

LEMMA CacheRecordInv ==
  ASSUME IInv, NEW p \in Proc, CacheRecord(p)
  PROVE  IInv'
  <1>1. at' \in [Proc -> Place] /\ at'[p] = Idle /\ \A q \in Proc : q # p => at'[q] = at[q]
    BY GotoEffect DEF IInv, CacheRecord, Place, After
  <1>2. TypeOK'
    BY <1>1 DEF IInv, TypeOK, CacheRecord, table, users
  <1> QED BY <1>1, <1>2, IdlePlace, PlaceStep DEF CacheRecord

-----------------------------------------------------------------------------
(* Opening *)

\* Process p gets a reference to file f in cell c.
LEMMA OpenedInv ==
  ASSUME IInv, NEW p \in Proc, NEW f \in File, NEW c \in Cell,
         Opening(p), at[p].file = f, Opened(p, c),
         NEW e \in Entry, e.file = f, e.refs > 0,
         e.refs = Cardinality(Holders(f)) + 1,
         entry' = [entry EXCEPT ![c] = e],
         used' \in 0..MaxCell, used' >= used, c <= used',
         \A d \in Cell : InUse(d) => (entry[d].file = f <=> d = c)
  PROVE  IInv'
  <1>1. ~IsOpen(p, f) /\ mode[p] = "run" /\ at[p].head \in HeaderRec
    BY PlaceFacts DEF IInv, TypeOK, PlaceOK, PlaceGood, Opening
  <1>2. PICK for \in {{"var"}, {"var", "cache"}} :
          SetHolds(p, f, [for |-> for, cell |-> c, map |-> HeadOf(p).map, updated |-> FALSE])
    BY DEF Opened
  <1> DEFINE h == [for |-> for, cell |-> c, map |-> HeadOf(p).map, updated |-> FALSE]
  <1>3. h \in Hold /\ h.for # {} /\ h.cell = c
    <2>1. c \in 0..MaxCell
      BY FileTableAssumption DEF Cell
    <2> QED BY <1>1, <2>1 DEF Hold, HeadOf, HeaderRec
  <1> HIDE DEF h
  <1>4. /\ holds' \in [Proc -> [File -> Hold]] /\ holds'[p][f] = h
        /\ \A q \in Proc, g \in File : q # p \/ g # f => holds'[q][g] = holds[q][g]
    BY <1>2, <1>3, SetHoldsEffect DEF IInv, h
  <1>5. at' \in [Proc -> Place] /\ at'[p] = Idle /\ \A q \in Proc : q # p => at'[q] = at[q]
    BY AfterDrop, GotoEffect DEF IInv, Opened, Place, After
  <1>6. /\ entry' \in [Cell -> Entry] /\ entry'[c] = e
        /\ \A d \in Cell : d # c => entry'[d] = entry[d]
    BY DEF IInv, TypeOK
  <1>7. UNCHANGED <<owner, slot, mode, cache, disk, version>> /\ slot[p] \in Slot
    BY <1>1 DEF Opened, IInv, SlotsOK
  <1>8. ASSUME NEW n, fileMap[slot[p]][c] = n
        PROVE  /\ fileMap' \in [Slot -> [Cell -> Nat]]
               /\ fileMap'[slot[p]][c] = U16(n + 1)
               /\ \A s \in Slot, d \in Cell : s # slot[p] \/ d # c => fileMap'[s][d] = fileMap[s][d]
    <2>1. fileMap \in [Slot -> [Cell -> Nat]] /\ n \in Nat
      BY <1>7, <1>8 DEF IInv, TypeOK
    <2>2. U16(n + 1) \in Nat
      BY <2>1, U16Type
    <2>3. fileMap' = [fileMap EXCEPT ![slot[p]][c] = U16(n + 1)]
      BY <1>8 DEF Opened, Referenced
    <2> HIDE DEF U16
    <2> QED BY <1>7, <2>1, <2>2, <2>3
  <1>9. TypeOK'
    BY <1>4, <1>5, <1>6, <1>7, <1>8 DEF IInv, TypeOK
  <1>10. SlotsOK'
    BY <1>7 DEF IInv, SlotsOK
  <1>11. /\ IsOpen(p, f)'
         /\ \A q \in Proc, g \in File : q # p \/ g # f => IsOpen(q, g)' = IsOpen(q, g)
    BY <1>3, <1>4 DEF IsOpen, Closed
  <1>12. ASSUME NEW q \in Proc, NEW g \in File, IsOpen(q, g)
         PROVE  /\ q # p \/ g # f
                /\ holds[q][g].cell \in CellsOf(g)'
                /\ entry'[holds[q][g].cell].refs < 0 => entry[holds[q][g].cell].refs < 0
                /\ entry[holds[q][g].cell].refs > 0 => entry'[holds[q][g].cell].refs > 0
    <2> DEFINE d == holds[q][g].cell
    <2>1. d \in Cell /\ InUse(d) /\ entry[d].file = g /\ d \in 1..used
      BY <1>12, CellFacts DEF IInv
    <2>2. used \in Nat /\ used' \in Nat /\ e.refs \in Int
      BY FileTableAssumption DEF IInv, TypeOK, Entry
    <2>3. CASE d = c
      <3>1. g = f
        BY <2>1, <2>3
      <3>2. c \in 1..used'
        BY <2>1, <2>2, <2>3
      <3> QED BY <1>1, <1>6, <1>12, <2>2, <2>3, <3>1, <3>2 DEF CellsOf
    <2>4. CASE d # c
      <3>1. g # f
        BY <2>1, <2>4
      <3>2. d \in 1..used' /\ entry'[d] = entry[d]
        BY <1>6, <2>1, <2>2, <2>4
      <3> QED BY <2>1, <3>1, <3>2 DEF CellsOf, InUse
    <2> QED BY <2>3, <2>4
  <1>13. HoldsOK'
    <2>1. HoldsGood(p, f)'
      <3>1. c \in CellsOf(f)'
        BY <1>6 DEF CellsOf, Cell, Entry
      <3>2. ~(entry'[c].refs < 0)
        BY <1>6 DEF Entry
      <3> QED BY <1>1, <1>3, <1>4, <1>7, <3>1, <3>2 DEF HoldsGood, EntryOf
    <2>2. ASSUME NEW q \in Proc, NEW g \in File, q # p \/ g # f PROVE HoldsGood(q, g)'
      <3>1. HoldsGood(q, g) /\ holds'[q][g] = holds[q][g] /\ IsOpen(q, g)' = IsOpen(q, g)
        BY <1>4, <1>11, <2>2 DEF IInv, HoldsOK
      <3> QED BY <1>7, <1>12, <3>1 DEF HoldsGood, EntryOf
    <2> QED BY <2>1, <2>2 DEF HoldsOK
  <1>14. PlaceOK'
    <2>1. PlaceGood(p)'
      BY <1>5, IdlePlace
    <2>2. ASSUME NEW q \in Proc, q # p PROVE PlaceGood(q)'
      <3>1. PlaceGood(q) /\ at'[q] = at[q] /\ mode' = mode /\ at[q] \in Place
        BY <1>5, <1>7, <2>2 DEF IInv, PlaceOK, TypeOK
      <3>2. ASSUME NEW g \in File
            PROVE  /\ IsOpen(q, g)' = IsOpen(q, g)
                   /\ IsOpen(q, g) /\ EntryOf(q, g).refs > 0 => EntryOf(q, g)'.refs > 0
        <4>1. holds'[q][g] = holds[q][g] /\ IsOpen(q, g)' = IsOpen(q, g)
          BY <1>4, <1>11, <2>2
        <4> QED BY <1>12, <4>1 DEF EntryOf
      <3>3. at[q].step = "opening" => at[q].file \in File
        BY <3>1, PlaceFacts DEF Idle
      <3> QED BY <3>1, <3>2, <3>3 DEF PlaceGood, Dropping
    <2> QED BY <2>1, <2>2 DEF PlaceOK
  <1>15. EntryOK'
    <2>1. ASSUME NEW d \in Cell, d > used' PROVE entry'[d] = Free
      <3>1. used \in Int /\ used' \in Int /\ d \in Int /\ d # c
        BY <2>1, FileTableAssumption DEF IInv, TypeOK, Cell
      <3>2. d > used
        BY <2>1, <3>1
      <3> QED BY <1>6, <3>1, <3>2 DEF IInv, EntryOK
    <2>2. ASSUME NEW d \in Cell, InUse(d)' PROVE entry'[d].file \in File /\ (entry'[d].file = f <=> d = c)
      BY <1>6, <2>2 DEF IInv, EntryOK, InUse
    <2>3. ASSUME NEW d \in Cell, NEW b \in Cell, InUse(d)', InUse(b)', entry'[d].file = entry'[b].file
          PROVE  d = b
      BY <1>6, <2>2, <2>3 DEF IInv, EntryOK, InUse
    <2> QED BY <2>1, <2>2, <2>3 DEF EntryOK
  <1>16. CountOK'
    <2>1. Holders(f)' = Holders(f) \cup {p} /\ p \notin Holders(f)
      BY <1>1, <1>11 DEF Holders
    <2>2. \A g \in File : g # f => Holders(g)' = Holders(g)
      BY <1>11 DEF Holders
    <2>3. Cardinality(Holders(f))' = Cardinality(Holders(f)) + 1
      <3>1. IsFiniteSet(Holders(f))
        BY HoldersFinite DEF IInv
      <3>2. Cardinality(Holders(f) \cup {p}) = Cardinality(Holders(f)) + 1
        BY <2>1, <3>1, FS_AddElement
      <3> QED BY <2>1, <3>2
    <2>4. Abs(entry'[c].refs) = Cardinality(Holders(f))'
      BY <1>6, <2>3 DEF Abs, Entry
    <2>5. ASSUME NEW d \in Cell, d # c, InUse(d)'
          PROVE  Abs(entry[d].refs)' = Cardinality(Holders(entry[d].file))'
      <3>1. entry'[d] = entry[d] /\ InUse(d)
        BY <1>6, <2>5 DEF InUse
      <3>2. entry[d].file \in File /\ entry[d].file # f
        BY <2>5, <3>1 DEF IInv, EntryOK
      <3> QED BY <2>2, <3>1, <3>2 DEF IInv, CountOK
    <2> QED BY <1>6, <2>4, <2>5 DEF CountOK
  <1>17. MapOK'
    <2>1. ~Keeps(p, c)
      BY <1>1, CellFacts DEF Keeps, IInv
    <2>2. Keeps(p, c)'
      BY <1>3, <1>4, <1>11 DEF Keeps
    <2>3. \A q \in Proc, d \in Cell : q # p \/ d # c => Keeps(q, d)' = Keeps(q, d)
      BY <1>1, <1>3, <1>4, <1>11 DEF Keeps
    <2>4. fileMap[slot[p]][c] = 0
      BY <1>1, <2>1 DEF IInv, MapOK
    <2>5. fileMap'[slot[p]][c] = 1
      BY <1>8, <2>4, U16Small
    <2>6. ASSUME NEW q \in Proc, mode'[q] # "out", NEW d \in Cell, q # p \/ d # c
          PROVE  fileMap'[slot[q]][d] = fileMap[slot[q]][d] /\ mode[q] # "out"
      <3>1. mode[q] # "out" /\ slot[q] \in Slot /\ (q # p => slot[q] # slot[p])
        BY <1>1, <1>7, <2>6 DEF IInv, SlotsOK
      <3> QED BY <1>7, <1>8, <2>6, <3>1
    <2>7. ASSUME NEW q \in Proc, mode'[q] # "out", NEW d \in Cell
          PROVE  fileMap'[slot'[q]][d] = IF Keeps(q, d)' THEN 1 ELSE 0
      <3>1. CASE q = p /\ d = c
        BY <1>7, <2>2, <2>5, <3>1
      <3>2. CASE q # p \/ d # c
        BY <1>7, <2>3, <2>6, <2>7, <3>2 DEF IInv, MapOK
      <3> QED BY <3>1, <3>2
    <2> QED BY <2>7 DEF MapOK
  <1> QED BY <1>9, <1>10, <1>13, <1>14, <1>15, <1>16, <1>17 DEF IInv

LEMMA JoinEntryInv ==
  ASSUME IInv, NEW p \in Proc, JoinEntry(p)
  PROVE  IInv'
  <1>1. PICK f \in File : f = at[p].file
    BY PlaceFacts DEF IInv, TypeOK, JoinEntry, Opening, Idle
  <1>2. PICK c \in CellsOf(f) :
          /\ entry[c].refs > 0
          /\ entry' = [entry EXCEPT ![c].refs = @ + 1]
          /\ Opened(p, c)
    BY <1>1 DEF JoinEntry
  <1> DEFINE e == [entry[c] EXCEPT !.refs = @ + 1]
  <1>3. c \in Cell /\ c <= used /\ InUse(c) /\ entry[c].file = f /\ entry[c] \in Entry
    <2>1. used \in 0..MaxCell /\ MaxCell \in Nat
      BY FileTableAssumption DEF IInv, TypeOK
    <2> QED BY <1>2, <2>1 DEF CellsOf, InUse, Cell, IInv, TypeOK
  <1>4. e \in Entry /\ e.file = f /\ e.refs = entry[c].refs + 1 /\ e.refs > 0
    BY <1>2, <1>3 DEF Entry
  <1>5. entry' = [entry EXCEPT ![c] = e]
    BY <1>2
  <1>6. entry[c].refs = Cardinality(Holders(f))
    <2>1. Abs(entry[c].refs) = Cardinality(Holders(f))
      BY <1>3 DEF IInv, CountOK
    <2> QED BY <1>2, <1>3, <2>1 DEF Abs, Entry
  <1>7. \A d \in Cell : InUse(d) => (entry[d].file = f <=> d = c)
    BY <1>3 DEF IInv, EntryOK
  <1>8. used' \in 0..MaxCell /\ used' >= used /\ c <= used' /\ Opening(p)
    <2>1. used' = used /\ used \in 0..MaxCell /\ MaxCell \in Nat /\ Opening(p)
      BY FileTableAssumption DEF JoinEntry, IInv, TypeOK
    <2> QED BY <1>3, <2>1
  <1>9. e.refs = Cardinality(Holders(f)) + 1
    BY <1>4, <1>6
  <1> HIDE DEF e, IInv
  <1>10. c \in Cell /\ at[p].file = f /\ Opened(p, c)
    BY <1>1, <1>2, <1>3
  <1> QED BY <1>4, <1>5, <1>7, <1>8, <1>9, <1>10, OpenedInv

LEMMA NewEntryInv ==
  ASSUME IInv, NEW p \in Proc, NewEntry(p)
  PROVE  IInv'
  <1> DEFINE e == [refs |-> 1, file |-> at[p].file, params |-> HeadOf(p).params, upd |-> 1]
  <1>1. PICK f \in File : f = at[p].file /\ at[p].head \in HeaderRec
    BY PlaceFacts DEF IInv, TypeOK, NewEntry, Opening, Idle
  <1>2. PICK c \in (IF FirstFree # {} THEN FirstFree ELSE {used + 1} \cap Cell) :
          /\ entry' = [entry EXCEPT ![c] = e]
          /\ Opened(p, c)
          /\ used' = IF c > used THEN c ELSE used
    BY Zenon DEF NewEntry
  <1>3. e \in Entry /\ e.file = f /\ e.refs = 1
    BY <1>1 DEF Entry, HeadOf, HeaderRec
  <1> HIDE DEF e
  <1>4. used \in 0..MaxCell /\ used \in Nat /\ MaxCell \in Nat
    BY FileTableAssumption DEF IInv, TypeOK
  <1>5. c \in Cell /\ ~InUse(c)
    <2>1. CASE c \in FirstFree
      BY <1>4, <2>1 DEF FirstFree, Cell, InUse
    <2>2. CASE c = used + 1 /\ c \in Cell
      BY <1>4, <2>2 DEF IInv, EntryOK, Free, InUse
    <2> QED BY <1>2, <2>1, <2>2
  <1>6. used' \in 0..MaxCell /\ used' >= used /\ c <= used'
    <2>1. c \in 1..MaxCell
      BY <1>5 DEF Cell
    <2> QED BY <1>2, <1>4, <2>1
  <1>7. CellsOf(f) = {} /\ Opening(p)
    BY <1>1 DEF NewEntry
  <1>8. \A d \in Cell : InUse(d) => (entry[d].file = f <=> d = c)
    <2> SUFFICES ASSUME NEW d \in Cell, InUse(d), entry[d].file = f PROVE FALSE
      BY <1>5
    <2>1. d \in 1..used
      <3>1. ~(d > used)
        BY DEF IInv, EntryOK, Free, InUse
      <3> QED BY <1>4, <3>1 DEF Cell
    <2> QED BY <1>7, <2>1 DEF CellsOf, InUse
  <1>9. e.refs = Cardinality(Holders(f)) + 1
    <2>1. Holders(f) = {}
      BY <1>1, <1>7 DEF Holders, IInv, HoldsOK, HoldsGood
    <2> QED BY <1>3, <2>1, FS_EmptySet
  <1>10. c \in Cell /\ at[p].file = f /\ Opened(p, c) /\ e.refs > 0
         /\ entry' = [entry EXCEPT ![c] = e]
    BY <1>1, <1>2, <1>3, <1>5
  <1> QED BY <1>3, <1>6, <1>7, <1>8, <1>9, <1>10, OpenedInv

-----------------------------------------------------------------------------
(* References that are given up *)

\* Two processes that share a cell have the same file.
LEMMA SharedCell ==
  ASSUME IInv, NEW p \in Proc, NEW f \in File, IsOpen(p, f),
         NEW q \in Proc, NEW g \in File, IsOpen(q, g), q # p \/ g # f,
         holds[q][g].cell = holds[p][f].cell
  PROVE  g = f /\ q # p /\ entry[holds[p][f].cell].refs > 1
  <1> DEFINE c == holds[p][f].cell
  <1>1. c \in Cell /\ InUse(c) /\ entry[c].file = f /\ entry[c].file = g /\ entry[c] \in Entry
    BY CellFacts DEF IInv, TypeOK
  <1>2. Abs(entry[c].refs) # 1
    BY OneHolder DEF EntryOf
  <1> QED BY <1>1, <1>2 DEF Abs, Entry, InUse

Lowered(c) == entry'[c] = WithRefs(entry[c], Abs(entry[c].refs) - 1)

\* Process p gives up its references to the files S.
LEMMA ReferencesDropped ==
  ASSUME IInv, TypeOK', NEW p \in Proc, NEW S \in SUBSET File,
         \A f \in S : IsOpen(p, f),
         \A q \in Proc, g \in File :
           /\ IsOpen(q, g)' = (IsOpen(q, g) /\ ~(q = p /\ g \in S))
           /\ IsOpen(q, g)' => holds'[q][g] = holds[q][g],
         \A c \in Cell :
           IF \E f \in S : holds[p][f].cell = c THEN Lowered(c)
           ELSE entry'[c] = entry[c],
         used' = used
  PROVE  /\ EntryOK' /\ CountOK'
         /\ \A q \in Proc, g \in File : IsOpen(q, g)' =>
              /\ holds[q][g].cell \in CellsOf(g)'
              /\ entry'[holds[q][g].cell].refs < 0 => entry[holds[q][g].cell].refs < 0
              /\ entry[holds[q][g].cell].refs > 0 => entry'[holds[q][g].cell].refs > 0
  <1> DEFINE Left(c) == \E f \in S : holds[p][f].cell = c
  <1>1. ASSUME NEW c \in Cell, Left(c)
        PROVE  /\ InUse(c) /\ c <= used /\ IsOpen(p, entry[c].file)
               /\ entry[c].file \in S /\ holds[p][entry[c].file].cell = c
    BY <1>1, CellFacts DEF IInv
  <1>2. ASSUME NEW q \in Proc, NEW g \in File, IsOpen(q, g)'
        PROVE  /\ holds[q][g].cell \in CellsOf(g)'
               /\ entry'[holds[q][g].cell].refs < 0 => entry[holds[q][g].cell].refs < 0
               /\ entry[holds[q][g].cell].refs > 0 => entry'[holds[q][g].cell].refs > 0
    <2> DEFINE d == holds[q][g].cell
    <2>1. IsOpen(q, g) /\ ~(q = p /\ g \in S)
      BY <1>2
    <2>2. d \in Cell /\ InUse(d) /\ entry[d].file = g /\ d \in 1..used /\ entry[d] \in Entry
      BY <2>1, CellFacts DEF IInv, TypeOK
    <2>3. CASE Left(d)
      <3>1. PICK f \in S : holds[p][f].cell = d
        BY <2>3
      <3>2. entry[d].refs > 1
        BY <2>1, <3>1, SharedCell
      <3>3. entry'[d] = [entry[d] EXCEPT !.refs = entry[d].refs - 1]
        BY <2>2, <2>3, <3>2 DEF Lowered, WithRefs, Abs, Entry
      <3>4. entry'[d].refs = entry[d].refs - 1 /\ entry'[d].file = g
        BY <2>2, <3>3 DEF Entry
      <3> QED BY <2>2, <3>2, <3>4 DEF CellsOf, Entry
    <2>4. CASE ~Left(d)
      <3>1. entry'[d] = entry[d]
        BY <2>2, <2>4
      <3> QED BY <2>2, <3>1 DEF CellsOf, InUse
    <2> QED BY <2>3, <2>4
  <1>3. ASSUME NEW c \in Cell, InUse(c)'
        PROVE  /\ InUse(c) /\ entry'[c].file = entry[c].file
               /\ Abs(entry'[c].refs) = IF Left(c) THEN Abs(entry[c].refs) - 1
                                        ELSE Abs(entry[c].refs)
    <2>1. entry[c] \in Entry
      BY DEF IInv, TypeOK
    <2>2. CASE Left(c)
      <3>1. InUse(c) /\ Lowered(c)
        BY <1>1, <2>2
      <3>2. Abs(entry[c].refs) # 1 /\ entry'[c] = [entry[c] EXCEPT !.refs = Abs(entry[c].refs) - 1]
        <4>1. Abs(entry[c].refs) - 1 # 0
          BY <1>3, <3>1 DEF Lowered, WithRefs, InUse, Free
        <4>2. Abs(entry[c].refs) \in Int
          BY <2>1 DEF Abs, Entry
        <4> QED BY <3>1, <4>1, <4>2 DEF Lowered, WithRefs
      <3>3. entry'[c].refs = Abs(entry[c].refs) - 1 /\ entry'[c].file = entry[c].file
        BY <2>1, <3>2 DEF Entry
      <3>4. entry[c].refs \in Nat
        BY <2>1, <3>2 DEF Abs, Entry
      <3> QED BY <2>2, <3>1, <3>3, <3>4 DEF Abs, InUse
    <2>3. CASE ~Left(c)
      BY <1>3, <2>3 DEF InUse
    <2> QED BY <2>2, <2>3
  <1>4. EntryOK'
    <2>1. ASSUME NEW c \in Cell, c > used' PROVE entry'[c] = Free
      <3>1. ~Left(c)
        <4>1. used \in Int /\ c \in Int
          BY FileTableAssumption DEF IInv, TypeOK, Cell
        <4> QED BY <1>1, <2>1, <4>1
      <3> QED BY <2>1, <3>1 DEF IInv, EntryOK
    <2> QED BY <1>3, <2>1 DEF IInv, EntryOK
  <1>5. CountOK'
    <2> SUFFICES ASSUME NEW c \in Cell, InUse(c)'
                 PROVE  Abs(entry[c].refs)' = Cardinality(Holders(entry[c].file))'
      BY DEF CountOK
    <2>1. PICK g \in File : InUse(c) /\ entry'[c].file = g /\ entry[c].file = g
      BY <1>3 DEF IInv, EntryOK
    <2>2. Abs(entry[c].refs) = Cardinality(Holders(g))
      BY <2>1 DEF IInv, CountOK
    <2>3. CASE Left(c)
      <3>1. g \in S /\ IsOpen(p, g)
        BY <1>1, <2>1, <2>3
      <3>2. Holders(g)' = Holders(g) \ {p} /\ p \in Holders(g)
        <4>1. \A q \in Proc : IsOpen(q, g)' <=> IsOpen(q, g) /\ q # p
          BY <2>1, <3>1
        <4>2. \A q \in Proc : q \in Holders(g)' <=> IsOpen(q, g)'
          BY DEF Holders
        <4>3. \A q \in Proc : q \in Holders(g) <=> IsOpen(q, g)
          BY DEF Holders
        <4>4. Holders(g) \subseteq Proc /\ Holders(g)' \subseteq Proc
          BY DEF Holders
        <4> QED BY <3>1, <4>1, <4>2, <4>3, <4>4
      <3>3. Cardinality(Holders(g) \ {p}) = Cardinality(Holders(g)) - 1
        <4>1. IsFiniteSet(Holders(g))
          BY HoldersFinite DEF IInv
        <4> QED BY <3>2, <4>1, FS_RemoveElement
      <3> QED BY <1>3, <2>1, <2>2, <2>3, <3>2, <3>3
    <2>4. CASE ~Left(c)
      <3>1. ~(g \in S)
        <4> SUFFICES ASSUME g \in S PROVE FALSE
          OBVIOUS
        <4>1. holds[p][g].cell \in Cell /\ entry[holds[p][g].cell].file = g /\ InUse(holds[p][g].cell)
          BY <2>1, CellFacts DEF IInv
        <4>2. holds[p][g].cell = c
          BY <2>1, <4>1 DEF IInv, EntryOK
        <4> QED BY <2>4, <4>2
      <3>2. Holders(g)' = Holders(g)
        BY <2>1, <3>1 DEF Holders
      <3> QED BY <1>3, <2>1, <2>2, <2>4, <3>2
    <2> QED BY <2>3, <2>4
  <1> QED BY <1>2, <1>4, <1>5

LEMMA WithRefsType ==
  ASSUME NEW e \in Entry, NEW n \in {-1} \cup Nat
  PROVE  WithRefs(e, n) \in Entry
  <1>1. Free \in Entry
    BY DEF Free, Entry
  <1>2. [e EXCEPT !.refs = n] \in Entry
    BY DEF Entry
  <1> QED BY <1>1, <1>2 DEF WithRefs

LEMMA DropReferenceInv ==
  ASSUME IInv, NEW p \in Proc, DropReference(p)
  PROVE  IInv'
  <1>1. PICK f \in File : f = at[p].file /\ at[p] = Drop(f)
    <2>1. at[p] \in Place /\ at[p].step = "drop"
      BY Zenon DEF IInv, TypeOK, DropReference
    <2> QED BY <2>1, PlaceFacts DEF Idle
  <1>2. IsOpen(p, f) /\ EntryOf(p, f).refs > 0
    <2>1. PlaceGood(p) /\ Dropping(p, f)
      BY <1>1 DEF IInv, PlaceOK, Dropping
    <2> QED BY <2>1 DEF PlaceGood
  <1>3. PICK c \in Cell :
          /\ c = holds[p][f].cell /\ InUse(c) /\ entry[c].file = f
          /\ entry[c] \in Entry /\ entry[c].refs > 0
    BY <1>2, CellFacts DEF IInv, TypeOK, EntryOf
  <1>4. /\ mode[p] # "out" /\ slot[p] \in Slot
        /\ entry' = [entry EXCEPT ![c] = WithRefs(@, @.refs - 1)]
        /\ fileMap' = [fileMap EXCEPT ![slot[p]][c] = U16(@ - 1)]
        /\ SetHolds(p, f, Closed) /\ Goto(p, Idle)
        /\ UNCHANGED <<used, owner, slot, mode, cache, disk, version>>
    <2>1. mode[p] # "out"
      BY Zenon DEF DropReference
    <2>2. slot[p] \in Slot
      BY <2>1 DEF IInv, SlotsOK
    <2> HIDE DEF IInv
    <2> QED BY <1>1, <1>3, <2>1, <2>2, Zenon DEF DropReference
  <1>5. /\ holds' \in [Proc -> [File -> Hold]] /\ holds'[p][f] = Closed
        /\ \A q \in Proc, g \in File : q # p \/ g # f => holds'[q][g] = holds[q][g]
    BY <1>4, ClosedIsHold, SetHoldsEffect DEF IInv
  <1>6. at' \in [Proc -> Place] /\ at'[p] = Idle /\ \A q \in Proc : q # p => at'[q] = at[q]
    BY <1>4, GotoEffect DEF IInv, Place, After
  <1> DEFINE e == WithRefs(entry[c], entry[c].refs - 1)
  <1>7. e \in Entry
    <2>1. entry[c].refs - 1 \in Nat
      BY <1>3 DEF Entry
    <2> QED BY <1>3, <2>1, WithRefsType
  <1>8. /\ entry' \in [Cell -> Entry] /\ entry'[c] = e
        /\ \A d \in Cell : d # c => entry'[d] = entry[d]
    <2>1. entry' = [entry EXCEPT ![c] = e]
      BY <1>4
    <2> HIDE DEF e
    <2> QED BY <1>7, <2>1 DEF IInv, TypeOK
  <1>9. Lowered(c)
    <2>1. Abs(entry[c].refs) = entry[c].refs
      BY <1>3 DEF Abs, Entry
    <2> QED BY <1>8, <2>1 DEF Lowered
  <1>10. Keeps(p, c) /\ fileMap[slot[p]][c] = 1
    <2>1. Keeps(p, c)
      BY <1>2, <1>3 DEF Keeps
    <2> QED BY <1>3, <1>4, <2>1 DEF IInv, MapOK
  <1> HIDE DEF e
  <1>11. /\ fileMap' \in [Slot -> [Cell -> Nat]]
         /\ fileMap'[slot[p]][c] = 0
         /\ \A s \in Slot, d \in Cell : s # slot[p] \/ d # c => fileMap'[s][d] = fileMap[s][d]
    <2>1. U16(fileMap[slot[p]][c] - 1) = 0
      BY <1>10, U16Small
    <2>2. fileMap' = [fileMap EXCEPT ![slot[p]][c] = 0]
      BY <1>4, <2>1
    <2> QED BY <1>3, <1>4, <2>2 DEF IInv, TypeOK
  <1>12. TypeOK'
    BY <1>4, <1>5, <1>6, <1>8, <1>11 DEF IInv, TypeOK
  <1>13. SlotsOK'
    BY <1>4 DEF IInv, SlotsOK
  <1>14. \A q \in Proc, g \in File :
           /\ IsOpen(q, g)' = (IsOpen(q, g) /\ ~(q = p /\ g \in {f}))
           /\ IsOpen(q, g)' => holds'[q][g] = holds[q][g]
    BY <1>5 DEF IsOpen
  <1>15. ASSUME NEW d \in Cell
         PROVE  IF \E g \in {f} : holds[p][g].cell = d THEN Lowered(d) ELSE entry'[d] = entry[d]
    BY <1>3, <1>8, <1>9
  <1>16. /\ EntryOK' /\ CountOK'
         /\ \A q \in Proc, g \in File : IsOpen(q, g)' =>
              /\ holds[q][g].cell \in CellsOf(g)'
              /\ entry'[holds[q][g].cell].refs < 0 => entry[holds[q][g].cell].refs < 0
              /\ entry[holds[q][g].cell].refs > 0 => entry'[holds[q][g].cell].refs > 0
    <2>1. {f} \in SUBSET File /\ (\A g \in {f} : IsOpen(p, g)) /\ used' = used
      BY <1>2, <1>4
    <2> HIDE DEF IInv
    <2> QED BY <1>12, <1>14, <1>15, <2>1, ReferencesDropped
  <1>17. MapOK'
    <2>1. ~Keeps(p, c)'
      <3>1. ASSUME NEW g \in File, IsOpen(p, g), holds[p][g].cell = c PROVE g = f
        BY <1>2, <1>3, <3>1, SharedCell
      <3>2. ASSUME NEW g \in File, IsOpen(p, g)', holds'[p][g].cell = c PROVE FALSE
        BY <1>14, <3>1, <3>2
      <3> QED BY <3>2 DEF Keeps
    <2>2. ASSUME NEW q \in Proc, NEW d \in Cell, q # p \/ d # c
          PROVE  Keeps(q, d)' <=> Keeps(q, d)
      <3>1. ASSUME NEW g \in File
            PROVE  IsOpen(q, g)' /\ holds'[q][g].cell = d <=> IsOpen(q, g) /\ holds[q][g].cell = d
        BY <1>3, <1>14, <2>2
      <3> QED BY <3>1 DEF Keeps
    <2>3. ASSUME NEW q \in Proc, mode'[q] # "out", NEW d \in Cell
          PROVE  fileMap'[slot'[q]][d] = IF Keeps(q, d)' THEN 1 ELSE 0
      <3>1. CASE q = p /\ d = c
        BY <1>4, <1>11, <2>1, <3>1
      <3>2. CASE q # p \/ d # c
        <4>1. slot[q] \in Slot /\ mode[q] # "out" /\ (q # p => slot[q] # slot[p])
          BY <1>4, <2>3 DEF IInv, SlotsOK
        <4>2. fileMap'[slot'[q]][d] = fileMap[slot[q]][d]
          BY <1>4, <1>11, <3>2, <4>1
        <4> QED BY <2>2, <3>2, <4>1, <4>2 DEF IInv, MapOK
      <3> QED BY <3>1, <3>2
    <2> QED BY <2>3 DEF MapOK
  <1>18. HoldsOK'
    <2>1. ASSUME NEW q \in Proc, NEW g \in File PROVE HoldsGood(q, g)'
      <3>1. HoldsGood(q, g) /\ mode' = mode
        BY <1>4 DEF IInv, HoldsOK
      <3>2. CASE q = p /\ g = f
        BY <1>5, <3>2 DEF HoldsGood, IsOpen, Closed
      <3>3. CASE q # p \/ g # f
        <4>1. holds'[q][g] = holds[q][g]
          BY <1>5, <3>3
        <4>2. IsOpen(q, g)' = IsOpen(q, g)
          BY <4>1 DEF IsOpen
        <4> QED BY <1>16, <3>1, <4>1, <4>2 DEF HoldsGood, EntryOf
      <3> QED BY <3>2, <3>3
    <2> QED BY <2>1 DEF HoldsOK
  <1>19. PlaceOK'
    <2>1. PlaceGood(p)'
      BY <1>6, IdlePlace
    <2>2. ASSUME NEW q \in Proc, q # p PROVE PlaceGood(q)'
      <3>1. PlaceGood(q) /\ at'[q] = at[q] /\ mode' = mode /\ at[q] \in Place
        BY <1>4, <1>6, <2>2 DEF IInv, PlaceOK, TypeOK
      <3>2. ASSUME NEW g \in File
            PROVE  /\ IsOpen(q, g)' = IsOpen(q, g)
                   /\ IsOpen(q, g) /\ EntryOf(q, g).refs > 0 => EntryOf(q, g)'.refs > 0
        <4>1. holds'[q][g] = holds[q][g] /\ IsOpen(q, g)' = IsOpen(q, g)
          BY <1>5, <2>2 DEF IsOpen
        <4> QED BY <1>16, <4>1 DEF EntryOf
      <3>3. at[q].step = "opening" => at[q].file \in File
        BY <3>1, PlaceFacts DEF Idle
      <3> QED BY <3>1, <3>2, <3>3 DEF PlaceGood, Dropping
    <2> QED BY <2>1, <2>2 DEF PlaceOK
  <1> QED BY <1>12, <1>13, <1>16, <1>17, <1>18, <1>19 DEF IInv

LEMMA RemoveUserInv ==
  ASSUME IInv, NEW p \in Proc, RemoveUser(p)
  PROVE  IInv'
  <1> DEFINE S == {f \in File : IsOpen(p, f)}
             m(c) == fileMap[slot[p]][c]
  <1>1. /\ mode[p] = "lost" /\ slot[p] \in Slot /\ at[p] = Idle
        /\ \A c \in Cell : m(c) = IF Keeps(p, c) THEN 1 ELSE 0
    BY DEF RemoveUser, IInv, SlotsOK, PlaceOK, PlaceGood, MapOK
  <1>2. /\ entry' = [c \in Cell |-> IF m(c) = 0 THEN entry[c]
                                    ELSE WithRefs(entry[c], I16(Abs(entry[c].refs) - m(c)))]
        /\ owner' = [owner EXCEPT ![slot[p]] = None]
        /\ mode' = [mode EXCEPT ![p] = "out"]
        /\ at' = [at EXCEPT ![p] = Idle]
        /\ holds' = [holds EXCEPT ![p] = [f \in File |-> Closed]]
        /\ UNCHANGED <<used, fileMap, slot, disk, version>>
    BY DEF RemoveUser, Gone
  <1>3. ASSUME NEW c \in Cell
        PROVE  IF \E f \in S : holds[p][f].cell = c THEN Lowered(c) ELSE entry'[c] = entry[c]
    <2>1. (\E f \in S : holds[p][f].cell = c) <=> Keeps(p, c)
      BY DEF Keeps
    <2>2. CASE Keeps(p, c)
      <3>1. PICK f \in File : IsOpen(p, f) /\ holds[p][f].cell = c
        BY <2>2 DEF Keeps
      <3>2. InUse(c) /\ entry[c].file = f /\ entry[c] \in Entry
        BY <3>1, CellFacts DEF IInv, TypeOK
      <3>3. Abs(entry[c].refs) \in Nat \ {0}
        BY <3>2 DEF Abs, Entry, InUse
      <3>4. Abs(entry[c].refs) <= 32767
        BY <3>2, HoldersFinite DEF IInv, CountOK
      <3>5. I16(Abs(entry[c].refs) - 1) = Abs(entry[c].refs) - 1
        BY <3>3, <3>4, I16Small
      <3>6. m(c) = 1
        BY <1>1, <2>2
      <3>7. entry'[c] = WithRefs(entry[c], I16(Abs(entry[c].refs) - m(c)))
        BY <1>2, <3>6
      <3> QED BY <2>1, <2>2, <3>5, <3>6, <3>7 DEF Lowered
    <2>3. CASE ~Keeps(p, c)
      <3>1. m(c) = 0
        BY <1>1, <2>3
      <3>2. entry'[c] = entry[c]
        BY <1>2, <3>1
      <3> QED BY <2>1, <2>3, <3>2
    <2> QED BY <2>2, <2>3
  <1>4. TypeOK'
    <2>1. entry' \in [Cell -> Entry]
      <3>1. ASSUME NEW c \in Cell PROVE entry'[c] \in Entry
        <4>1. entry[c] \in Entry
          BY DEF IInv, TypeOK
        <4>2. CASE Lowered(c) /\ InUse(c)
          <5>1. Abs(entry[c].refs) - 1 \in {-1} \cup Nat
            BY <4>1, <4>2 DEF Abs, Entry, InUse
          <5> QED BY <4>1, <4>2, <5>1, WithRefsType DEF Lowered
        <4>3. CASE entry'[c] = entry[c]
          BY <4>1, <4>3
        <4> QED BY <1>3, <4>2, <4>3, CellFacts DEF IInv
      <3>2. entry' = [c \in Cell |-> entry'[c]]
        BY <1>2
      <3> QED BY <3>1, <3>2
    <2>2. holds' \in [Proc -> [File -> Hold]]
      BY <1>2, ClosedIsHold DEF IInv, TypeOK
    <2>3. at' \in [Proc -> Place]
      BY <1>2, GotoEffect DEF IInv, TypeOK, Place, After
    <2>4. owner' \in [Slot -> Proc \cup {None}]
          /\ mode' \in [Proc -> {"out", "run", "shutdown", "lost"}]
      BY <1>2 DEF IInv, TypeOK
    <2> QED BY <1>2, <2>1, <2>2, <2>3, <2>4 DEF IInv, TypeOK
  <1>5. /\ holds'[p] = [f \in File |-> Closed]
        /\ \A q \in Proc : q # p => holds'[q] = holds[q] /\ at'[q] = at[q] /\ mode'[q] = mode[q]
        /\ mode'[p] = "out" /\ at'[p] = Idle
    BY <1>2 DEF IInv, TypeOK
  <1>6. \A q \in Proc, g \in File :
          /\ IsOpen(q, g)' = (IsOpen(q, g) /\ ~(q = p /\ g \in S))
          /\ IsOpen(q, g)' => holds'[q][g] = holds[q][g]
    BY <1>5 DEF IsOpen
  <1>7. /\ EntryOK' /\ CountOK'
        /\ \A q \in Proc, g \in File : IsOpen(q, g)' =>
             /\ holds[q][g].cell \in CellsOf(g)'
             /\ entry'[holds[q][g].cell].refs < 0 => entry[holds[q][g].cell].refs < 0
             /\ entry[holds[q][g].cell].refs > 0 => entry'[holds[q][g].cell].refs > 0
    <2>1. S \in SUBSET File /\ (\A g \in S : IsOpen(p, g)) /\ used' = used
      BY <1>2
    <2> HIDE DEF S, IInv
    <2> QED BY <1>3, <1>4, <1>6, <2>1, ReferencesDropped
  <1>8. SlotsOK'
    <2>1. owner'[slot[p]] = None
          /\ \A s \in Slot : s # slot[p] => owner'[s] = owner[s]
      BY <1>1, <1>2 DEF IInv, TypeOK
    <2>2. None \notin Proc
      BY FileTableAssumption
    <2>3. SlotsOK /\ slot' = slot /\ owner \in [Slot -> Proc \cup {None}]
      BY <1>2 DEF IInv, TypeOK
    <2>4. \A q \in Proc : q # p /\ mode[q] # "out" => slot[q] # slot[p]
      BY <1>1, <2>3 DEF SlotsOK
    <2>5. \A s \in Slot : owner'[s] # None => owner[s] # None /\ owner[s] # p /\ s # slot[p]
      BY <1>1, <2>1, <2>3 DEF SlotsOK
    <2> HIDE DEF IInv
    <2> QED BY <1>5, <2>1, <2>2, <2>3, <2>4, <2>5 DEF SlotsOK
  <1>9. MapOK'
    <2>1. ASSUME NEW q \in Proc, q # p, NEW c \in Cell PROVE Keeps(q, c)' <=> Keeps(q, c)
      BY <1>5, <2>1 DEF Keeps, IsOpen
    <2> QED BY <1>2, <1>5, <2>1 DEF IInv, MapOK
  <1>10. HoldsOK'
    <2>1. ASSUME NEW g \in File PROVE HoldsGood(p, g)'
      BY <1>5 DEF HoldsGood, IsOpen
    <2>2. ASSUME NEW q \in Proc, q # p, NEW g \in File PROVE HoldsGood(q, g)'
      <3>1. /\ HoldsGood(q, g) /\ holds'[q][g] = holds[q][g] /\ mode'[q] = mode[q]
            /\ IsOpen(q, g)' = IsOpen(q, g)
        BY <1>5, <2>2 DEF IInv, HoldsOK, IsOpen
      <3> QED BY <1>7, <3>1 DEF HoldsGood, EntryOf
    <2> QED BY <2>1, <2>2 DEF HoldsOK
  <1>11. PlaceOK'
    <2>1. PlaceGood(p)'
      BY <1>5, IdlePlace
    <2>2. ASSUME NEW q \in Proc, q # p PROVE PlaceGood(q)'
      <3>1. PlaceGood(q) /\ at'[q] = at[q] /\ mode'[q] = mode[q] /\ at[q] \in Place
        BY <1>5, <2>2 DEF IInv, PlaceOK, TypeOK
      <3>2. ASSUME NEW g \in File
            PROVE  /\ IsOpen(q, g)' = IsOpen(q, g)
                   /\ IsOpen(q, g) /\ EntryOf(q, g).refs > 0 => EntryOf(q, g)'.refs > 0
        <4>1. holds'[q][g] = holds[q][g] /\ IsOpen(q, g)' = IsOpen(q, g)
          BY <1>5, <2>2 DEF IsOpen
        <4> QED BY <1>7, <4>1 DEF EntryOf
      <3>3. at[q].step = "opening" => at[q].file \in File
        BY <3>1, PlaceFacts DEF Idle
      <3> QED BY <3>1, <3>2, <3>3 DEF PlaceGood, Dropping
    <2> QED BY <2>1, <2>2 DEF PlaceOK
  <1> QED BY <1>4, <1>7, <1>8, <1>9, <1>10, <1>11 DEF IInv

-----------------------------------------------------------------------------
(* Login and the ends of processes *)

\* A step that changes only the modes and user entries of processes.
LEMMA ModeStep ==
  ASSUME IInv, TypeOK', SlotsOK', MapOK', NEW p \in Proc,
         UNCHANGED <<entry, used, holds, at>>, at[p] = Idle,
         \A q \in Proc : q # p => mode'[q] = mode[q],
         \A f \in File : IsOpen(p, f) => mode'[p] # "out",
         \A f \in File : mode'[p] = "shutdown" => "var" \notin holds[p][f].for
  PROVE  IInv'
  <1>1. \A q \in Proc, f \in File : IsOpen(q, f)' = IsOpen(q, f)
    BY DEF IsOpen
  <1>2. \A f \in File : Holders(f)' = Holders(f) /\ CellsOf(f)' = CellsOf(f)
    BY <1>1 DEF Holders, CellsOf
  <1>3. EntryOK'
    BY DEF IInv, EntryOK, InUse
  <1>4. CountOK'
    BY <1>2 DEF IInv, EntryOK, CountOK, InUse
  <1>5. HoldsOK'
    <2>1. ASSUME NEW q \in Proc, NEW f \in File PROVE HoldsGood(q, f)'
      <3>1. HoldsGood(q, f) /\ (q # p => mode'[q] = mode[q])
        BY DEF IInv, HoldsOK
      <3> QED BY <1>1, <1>2, <3>1 DEF HoldsGood, EntryOf
    <2> QED BY <2>1 DEF HoldsOK
  <1>6. PlaceOK'
    <2>1. PlaceGood(p)'
      BY IdlePlace
    <2>2. ASSUME NEW q \in Proc, q # p PROVE PlaceGood(q)'
      <3>1. PlaceGood(q) /\ mode'[q] = mode[q] /\ at[q] \in Place
        BY <2>2 DEF IInv, PlaceOK, TypeOK
      <3>2. at[q].step = "opening" => at[q].file \in File
        BY <3>1, PlaceFacts DEF Idle
      <3> QED BY <1>1, <3>1, <3>2 DEF PlaceGood, Dropping, EntryOf
    <2> QED BY <2>1, <2>2 DEF PlaceOK
  <1> QED BY <1>3, <1>4, <1>5, <1>6 DEF IInv

LEMMA LoginInv ==
  ASSUME IInv, "handover" \notin Ops, NEW p \in Proc, Login(p)
  PROVE  IInv'
  <1>1. PICK s \in FreeSlot :
          /\ ~\E q \in Proc : mode[q] = "shutdown" /\ slot[q] = s
          /\ owner' = [owner EXCEPT ![s] = p]
          /\ slot' = [slot EXCEPT ![p] = s]
          /\ fileMap' = [fileMap EXCEPT ![s] = [c \in Cell |-> 0]]
    BY DEF Login
  <1>2. /\ mode[p] = "out" /\ mode' = [mode EXCEPT ![p] = "run"]
        /\ UNCHANGED <<table, at, holds, cache, disk, version>>
    BY DEF Login
  <1>3. s \in Slot /\ owner[s] = None /\ s \in 0..MaxSlot
    BY <1>1, FileTableAssumption DEF FreeSlot, Slot
  <1>4. /\ owner' \in [Slot -> Proc \cup {None}] /\ owner'[s] = p
        /\ \A r \in Slot : r # s => owner'[r] = owner[r]
    BY <1>1, <1>3 DEF IInv, TypeOK
  <1>5. /\ slot' \in [Proc -> 0..MaxSlot] /\ slot'[p] = s
        /\ \A q \in Proc : q # p => slot'[q] = slot[q]
    BY <1>1, <1>3 DEF IInv, TypeOK
  <1>6. /\ fileMap' \in [Slot -> [Cell -> Nat]] /\ (\A c \in Cell : fileMap'[s][c] = 0)
        /\ \A r \in Slot : r # s => fileMap'[r] = fileMap[r]
    BY <1>1, <1>3 DEF IInv, TypeOK
  <1>7. /\ mode' \in [Proc -> {"out", "run", "shutdown", "lost"}] /\ mode'[p] = "run"
        /\ \A q \in Proc : q # p => mode'[q] = mode[q]
    BY <1>2 DEF IInv, TypeOK
  <1>8. TypeOK'
    BY <1>2, <1>4, <1>5, <1>6, <1>7 DEF IInv, TypeOK, table
  <1>9. \A q \in Proc : mode[q] # "out" =>
          /\ slot[q] \in Slot /\ slot[q] # s /\ q # p
          /\ mode[q] \in {"run", "shutdown", "lost"}
    <2>1. p \in Proc /\ None \notin Proc
      BY FileTableAssumption
    <2> QED BY <1>1, <1>2, <1>3, <2>1 DEF IInv, SlotsOK, TypeOK
  <1>10. SlotsOK'
    <2>1. SlotsOK /\ None \notin Proc
      BY FileTableAssumption DEF IInv
    <2>2. \A r \in Slot : owner[r] # None => owner[r] \in Proc
      BY DEF IInv, TypeOK
    <2> HIDE DEF IInv
    <2> QED BY <1>2, <1>3, <1>4, <1>5, <1>7, <1>9, <2>1, <2>2 DEF SlotsOK
  <1>11. holds' = holds /\ at' = at /\ \A f \in File : ~IsOpen(p, f)
    BY <1>2 DEF IInv, HoldsOK, HoldsGood
  <1>12. MapOK'
    <2>1. \A q \in Proc, c \in Cell : Keeps(q, c)' = Keeps(q, c)
      BY <1>11 DEF Keeps, IsOpen
    <2>2. \A c \in Cell : ~Keeps(p, c)
      BY <1>11 DEF Keeps
    <2>3. ASSUME NEW q \in Proc, mode'[q] # "out", NEW c \in Cell
          PROVE  fileMap'[slot'[q]][c] = IF Keeps(q, c)' THEN 1 ELSE 0
      <3>1. CASE q = p
        BY <1>5, <1>6, <2>1, <2>2, <3>1
      <3>2. CASE q # p
        BY <1>5, <1>6, <1>7, <1>9, <2>1, <2>3, <3>2 DEF IInv, MapOK
      <3> QED BY <3>1, <3>2
    <2> QED BY <2>3 DEF MapOK
  <1>13. at[p] = Idle
    BY <1>2 DEF IInv, PlaceOK, PlaceGood
  <1> QED BY <1>2, <1>7, <1>8, <1>10, <1>11, <1>12, <1>13, ModeStep DEF table

LEMMA LogoutInv ==
  ASSUME IInv, NEW p \in Proc, Logout(p)
  PROVE  IInv'
  <1>1. /\ mode[p] = "run" /\ at[p] = Idle /\ slot[p] \in Slot
        /\ \A f \in File : "var" \notin holds[p][f].for
        /\ owner' = [owner EXCEPT ![slot[p]] = None]
        /\ mode' = [mode EXCEPT ![p] = "shutdown"]
        /\ UNCHANGED <<table, fileMap, slot, at, holds, cache, disk, version>>
    BY DEF Logout, Ready, IInv, SlotsOK
  <1>2. /\ mode' \in [Proc -> {"out", "run", "shutdown", "lost"}] /\ mode'[p] = "shutdown"
        /\ \A q \in Proc : q # p => mode'[q] = mode[q]
    BY <1>1 DEF IInv, TypeOK
  <1>3. /\ owner' \in [Slot -> Proc \cup {None}] /\ owner'[slot[p]] = None
        /\ \A r \in Slot : r # slot[p] => owner'[r] = owner[r]
    BY <1>1 DEF IInv, TypeOK
  <1>4. TypeOK'
    BY <1>1, <1>2, <1>3 DEF IInv, TypeOK, table
  <1>5. SlotsOK'
    <2>1. SlotsOK /\ None \notin Proc /\ slot' = slot
      BY <1>1, FileTableAssumption DEF IInv
    <2>2. \A q \in Proc : q # p /\ mode[q] # "out" => slot[q] # slot[p]
      BY <1>1, <2>1 DEF SlotsOK
    <2>3. \A r \in Slot : owner'[r] # None =>
            owner'[r] = owner[r] /\ owner[r] # p /\ owner[r] \in Proc
      BY <1>3, <2>1 DEF IInv, SlotsOK, TypeOK
    <2> HIDE DEF IInv
    <2> QED BY <1>1, <1>2, <1>3, <2>1, <2>2, <2>3 DEF SlotsOK
  <1>6. MapOK'
    <2>1. \A q \in Proc, c \in Cell : Keeps(q, c)' = Keeps(q, c)
      BY <1>1 DEF Keeps, IsOpen
    <2>2. \A q \in Proc : mode'[q] # "out" => mode[q] # "out"
      BY <1>1, <1>2
    <2> QED BY <1>1, <2>1, <2>2 DEF IInv, MapOK
  <1>7. UNCHANGED <<entry, used, holds, at>>
    BY <1>1 DEF table
  <1> QED BY <1>1, <1>2, <1>4, <1>5, <1>6, <1>7, ModeStep

LEMMA ExitInv ==
  ASSUME IInv, NEW p \in Proc, Exit(p)
  PROVE  IInv'
  <1>1. /\ mode[p] = "shutdown" /\ at[p] = Idle /\ (\A f \in File : ~IsOpen(p, f))
        /\ mode' = [mode EXCEPT ![p] = "out"]
        /\ at' = [at EXCEPT ![p] = Idle]
        /\ holds' = [holds EXCEPT ![p] = [f \in File |-> Closed]]
        /\ UNCHANGED <<table, users, disk, version>>
    BY DEF Exit, Gone
  <1>2. at' = at /\ holds' = holds
    <2>1. at \in [Proc -> Place] /\ holds \in [Proc -> [File -> Hold]]
      BY DEF IInv, TypeOK
    <2>2. holds[p] = [f \in File |-> Closed]
      BY <1>1, <2>1 DEF IsOpen
    <2> QED BY <1>1, <2>1, <2>2
  <1>3. /\ mode' \in [Proc -> {"out", "run", "shutdown", "lost"}] /\ mode'[p] = "out"
        /\ \A q \in Proc : q # p => mode'[q] = mode[q]
    BY <1>1 DEF IInv, TypeOK
  <1>4. TypeOK'
    BY <1>1, <1>2, <1>3 DEF IInv, TypeOK, table, users
  <1>5. SlotsOK'
    <2>1. SlotsOK /\ owner' = owner /\ slot' = slot /\ None \notin Proc
      BY <1>1, FileTableAssumption DEF IInv, users
    <2> HIDE DEF IInv
    <2> QED BY <1>1, <1>3, <2>1 DEF SlotsOK
  <1>6. MapOK'
    <2>1. \A q \in Proc, c \in Cell : Keeps(q, c)' = Keeps(q, c)
      BY <1>2 DEF Keeps, IsOpen
    <2>2. \A q \in Proc : mode'[q] # "out" => mode[q] # "out"
      BY <1>1, <1>3
    <2>3. fileMap' = fileMap /\ slot' = slot
      BY <1>1 DEF users
    <2> QED BY <2>1, <2>2, <2>3 DEF IInv, MapOK
  <1> QED BY <1>1, <1>2, <1>3, <1>4, <1>5, <1>6, ModeStep DEF table

LEMMA DieInv ==
  ASSUME IInv, "dieshutdown" \notin Ops, NEW p \in Proc, Die(p)
  PROVE  IInv'
  <1>1. /\ mode[p] = "run" /\ mode' = [mode EXCEPT ![p] = "lost"]
        /\ at' = [at EXCEPT ![p] = Idle] /\ UNCHANGED <<holds, cache>>
        /\ UNCHANGED <<table, users, disk, version>>
    BY DEF Die
  <1>2. /\ at' \in [Proc -> Place] /\ at'[p] = Idle
        /\ \A q \in Proc : q # p => at'[q] = at[q]
    BY <1>1 DEF IInv, TypeOK, Place, After
  <1>3. /\ mode' \in [Proc -> {"out", "run", "shutdown", "lost"}] /\ mode'[p] = "lost"
        /\ \A q \in Proc : q # p => mode'[q] = mode[q]
    BY <1>1 DEF IInv, TypeOK
  <1>4. TypeOK'
    BY <1>1, <1>2, <1>3 DEF IInv, TypeOK, table, users
  <1>5. SlotsOK'
    <2>1. SlotsOK /\ owner' = owner /\ slot' = slot
      BY <1>1 DEF IInv, users
    <2> HIDE DEF IInv
    <2> QED BY <1>1, <1>3, <2>1 DEF SlotsOK
  <1>6. TableKept /\ HoldsKept /\ UNCHANGED <<fileMap, slot>>
        /\ \A q \in Proc : mode'[q] = "out" <=> mode[q] = "out"
    BY <1>1, <1>3, TableSame, HoldsSame DEF users
  <1>7. EntryOK' /\ CountOK' /\ MapOK'
    BY <1>4, <1>6, KeptInv DEF IInv
  <1>8. \A f \in File : CellsOf(f)' = CellsOf(f)
    BY <1>1 DEF CellsOf, table
  <1>9. HoldsOK'
    <2>1. ASSUME NEW q \in Proc, NEW f \in File PROVE HoldsGood(q, f)'
      <3>1. HoldsGood(q, f) /\ holds' = holds /\ entry' = entry /\ IsOpen(q, f)' = IsOpen(q, f)
            /\ (mode'[q] = mode[q] \/ mode'[q] = "lost")
        BY <1>1, <1>3 DEF IInv, HoldsOK, table, IsOpen
      <3> QED BY <1>8, <3>1 DEF HoldsGood, EntryOf
    <2> QED BY <2>1 DEF HoldsOK
  <1>10. PlaceOK'
    <2>1. PlaceGood(p)'
      BY <1>2, IdlePlace
    <2>2. ASSUME NEW q \in Proc, q # p PROVE PlaceGood(q)'
      <3>1. PlaceGood(q) /\ mode'[q] = mode[q] /\ at'[q] = at[q] /\ at[q] \in Place
            /\ holds' = holds /\ entry' = entry
        BY <1>1, <1>2, <1>3, <2>2 DEF IInv, PlaceOK, TypeOK, table
      <3>2. at[q].step = "opening" => at[q].file \in File
        BY <3>1, PlaceFacts DEF Idle
      <3> QED BY <3>1, <3>2 DEF PlaceGood, Dropping, EntryOf, IsOpen
    <2> QED BY <2>1, <2>2 DEF PlaceOK
  <1> QED BY <1>4, <1>5, <1>7, <1>9, <1>10 DEF IInv

-----------------------------------------------------------------------------
(* The theorems *)

LEMMA InitInv == Init => IInv
  <1> SUFFICES ASSUME Init PROVE IInv
    OBVIOUS
  <1>1. TypeOK
    <2>1. MaxCell \in Nat /\ MaxSlot \in Nat /\ Free \in Entry /\ Closed \in Hold /\ Idle \in Place
      BY FileTableAssumption, ClosedIsHold DEF Free, Entry, Place, After
    <2>2. entry \in [Cell -> Entry] /\ used \in 0..MaxCell
      BY <2>1 DEF Init
    <2>3. holds \in [Proc -> [File -> Hold]] /\ at \in [Proc -> Place]
      BY <2>1 DEF Init
    <2>4. disk \in [File -> HeaderRec] /\ version \in [File -> Nat]
      BY DEF Init, HeaderRec
    <2>5. /\ fileMap \in [Slot -> [Cell -> Nat]] /\ owner \in [Slot -> Proc \cup {None}]
          /\ slot \in [Proc -> 0..MaxSlot] /\ mode \in [Proc -> {"out", "run", "shutdown", "lost"}]
      BY <2>1 DEF Init
    <2> QED BY <2>2, <2>3, <2>4, <2>5 DEF TypeOK
  <1>2. (\A p \in Proc : mode[p] = "out" /\ at[p] = Idle) /\ \A s \in Slot : owner[s] = None
    BY DEF Init
  <1>3. SlotsOK
    BY <1>2 DEF SlotsOK
  <1>4. \A p \in Proc, f \in File : ~IsOpen(p, f) /\ holds[p][f].for = {}
    BY DEF Init, IsOpen, Closed
  <1>5. HoldsOK
    BY <1>4 DEF HoldsOK, HoldsGood
  <1>6. PlaceOK
    <2>1. Idle.step = "idle" /\ \A f : Idle # Drop(f)
      BY DEF Idle, Drop
    <2> QED BY <1>2, <2>1 DEF PlaceOK, PlaceGood, Dropping
  <1>7. \A c \in Cell : entry[c] = Free /\ ~InUse(c)
    BY DEF Init, InUse, Free
  <1>8. EntryOK /\ CountOK
    BY <1>7 DEF EntryOK, CountOK
  <1>9. MapOK
    BY <1>2 DEF MapOK
  <1> QED BY <1>1, <1>3, <1>5, <1>6, <1>8, <1>9 DEF IInv

\* The references of the code's own course; the two habits leave some behind.
Orderly == Ops \cap {"dieshutdown", "handover"} = {}

LEMMA StutterInv ==
  ASSUME IInv, UNCHANGED vars
  PROVE  IInv'
  BY DEF vars, table, users, IInv, TypeOK, SlotsOK, PlaceOK, PlaceGood, Dropping, HoldsOK,
         HoldsGood, EntryOK, CountOK, MapOK, Keeps, InUse, CellsOf, Holders, IsOpen, EntryOf

LEMMA NextInv ==
  ASSUME IInv, Orderly, [Next]_vars
  PROVE  IInv'
  <1>0. "dieshutdown" \notin Ops /\ "handover" \notin Ops
    BY DEF Orderly
  <1>1. CASE UNCHANGED vars
    BY <1>1, StutterInv
  <1>2. ASSUME NEW p \in Proc, NEW f \in File,
               \/ OpenAgain(p, f) \/ ReadHeader(p, f)
               \/ Flush(p, f) \/ CloseVariable(p, f) \/ CloseCached(p, f)
               \/ SetExclusive(p, f) \/ ChangeHeader(p, f)
               \/ Change(p, f) \/ ReadCached(p, f) \/ Read(p, f)
               \/ Shutdown(p, f)
        PROVE  IInv'
    BY <1>2, OpenAgainInv, ReadHeaderInv, FlushInv, CloseVariableInv, CloseCachedInv,
       SetExclusiveInv, ChangeHeaderInv, ChangeInv, ReadCachedInv, ReadInv, ShutdownInv
  <1>3. ASSUME NEW p \in Proc,
               \/ JoinEntry(p) \/ NewEntry(p) \/ OpenFails(p)
               \/ WriteHeader(p) \/ DropReference(p) \/ CacheRecord(p)
               \/ Login(p) \/ Logout(p) \/ Exit(p)
               \/ Die(p) \/ RemoveUser(p)
        PROVE  IInv'
    BY <1>0, <1>3, JoinEntryInv, NewEntryInv, OpenFailsInv, WriteHeaderInv, DropReferenceInv,
       CacheRecordInv, LoginInv, LogoutInv, ExitInv, DieInv, RemoveUserInv
  <1> QED BY <1>1, <1>2, <1>3 DEF Next

LEMMA Invariance == ASSUME Orderly PROVE Spec => []IInv
  <1>1. IInv /\ [Next]_vars => IInv'
    BY NextInv
  <1> QED BY <1>1, InitInv, PTL DEF Spec

\* The reference count of a file is exact: a cell of the table is free, and
\* exclusive access to a file can be had, when and only when nobody uses it,
\* whatever is opened, closed and flushed at the same time and whoever is
\* killed, unless it is killed after its user entry has been given up.
THEOREM ExactReferences ==
  ASSUME Orderly
  PROVE  Spec => []RefsExact
  <1>1. IInv => RefsExact
    <2> SUFFICES ASSUME IInv PROVE RefsExact
      OBVIOUS
    <2>1. MaxCell \in Nat /\ used \in 0..MaxCell /\ Cell = 1..MaxCell
      BY FileTableAssumption DEF IInv, TypeOK, Cell
    <2>2. ASSUME NEW f \in File, NEW c \in CellsOf(f)
          PROVE  c \in Cell /\ InUse(c) /\ entry[c].file = f
      BY <2>1, <2>2 DEF CellsOf, InUse
    <2>3. ASSUME NEW f \in File PROVE Cardinality(CellsOf(f)) <= 1
      <3>1. CASE CellsOf(f) = {}
        BY <3>1, FS_EmptySet
      <3>2. ASSUME NEW c \in CellsOf(f) PROVE Cardinality(CellsOf(f)) <= 1
        <4>1. CellsOf(f) = {c}
          BY <2>2, <3>2 DEF IInv, EntryOK
        <4>2. Cardinality({c}) = 1
          BY FS_Singleton
        <4> QED BY <4>1, <4>2
      <3> QED BY <3>1, <3>2
    <2>4. ASSUME NEW f \in File, CellsOf(f) = {} PROVE Holders(f) = {}
      BY <2>4 DEF Holders, IInv, HoldsOK, HoldsGood
    <2>5. ASSUME NEW f \in File, NEW c \in CellsOf(f)
          PROVE  /\ Abs(entry[c].refs) = Cardinality(Holders(f))
                 /\ \A p \in Holders(f) : holds[p][f].cell = c
      <3>1. c \in Cell /\ InUse(c) /\ entry[c].file = f
        BY <2>2
      <3>2. ASSUME NEW p \in Holders(f) PROVE holds[p][f].cell = c
        <4>1. /\ holds[p][f].cell \in Cell /\ InUse(holds[p][f].cell)
              /\ entry[holds[p][f].cell].file = f
          BY <3>2, CellFacts DEF Holders, IInv
        <4> QED BY <3>1, <4>1 DEF IInv, EntryOK
      <3> QED BY <3>1, <3>2 DEF IInv, CountOK
    <2>6. \A c \in used + 1..MaxCell : entry[c] = Free
      BY <2>1 DEF IInv, EntryOK
    <2> QED BY <2>3, <2>4, <2>5, <2>6 DEF RefsExact
  <1> QED BY <1>1, Invariance, PTL

\* The file map of a user entry is exact, so that the removal of a killed
\* process gives up what it had open, neither more nor less.
THEOREM ExactMaps ==
  ASSUME Orderly
  PROVE  Spec => []MapExact
  <1>1. IInv => MapExact
    <2> SUFFICES ASSUME IInv, NEW s \in Slot, owner[s] # None, NEW c \in Cell
                 PROVE  fileMap[s][c] =
                   Cardinality({f \in File : IsOpen(owner[s], f) /\ holds[owner[s]][f].cell = c})
      BY DEF MapExact
    <2>1. PICK p \in Proc : p = owner[s] /\ mode[p] # "out" /\ slot[p] = s
      BY DEF IInv, TypeOK, SlotsOK
    <2> DEFINE S == {f \in File : IsOpen(p, f) /\ holds[p][f].cell = c}
    <2>2. fileMap[s][c] = IF Keeps(p, c) THEN 1 ELSE 0
      BY <2>1 DEF IInv, MapOK
    <2>3. CASE Keeps(p, c)
      <3>1. PICK f \in S : TRUE
        BY <2>3 DEF Keeps
      <3>2. S = {f}
        BY <3>1, SharedCell
      <3>3. Cardinality(S) = 1
        BY <3>2, FS_Singleton
      <3> QED BY <2>1, <2>2, <2>3, <3>3
    <2>4. CASE ~Keeps(p, c)
      <3>1. S = {}
        BY <2>4 DEF Keeps
      <3>2. Cardinality(S) = 0
        BY <3>1, FS_EmptySet
      <3> QED BY <2>1, <2>2, <2>4, <3>2
    <2> QED BY <2>3, <2>4
  <1> QED BY <1>1, Invariance, PTL

-----------------------------------------------------------------------------
(* What a step of one process leaves alone *)

Step(p) ==
  \/ \E f \in File :
       \/ OpenAgain(p, f) \/ ReadHeader(p, f)
       \/ Flush(p, f) \/ CloseVariable(p, f) \/ CloseCached(p, f)
       \/ SetExclusive(p, f) \/ ChangeHeader(p, f)
       \/ Change(p, f) \/ ReadCached(p, f) \/ Read(p, f)
       \/ Shutdown(p, f)
  \/ JoinEntry(p) \/ NewEntry(p) \/ OpenFails(p)
  \/ WriteHeader(p) \/ DropReference(p) \/ CacheRecord(p)
  \/ Login(p) \/ Logout(p) \/ Exit(p)
  \/ Die(p) \/ RemoveUser(p)

OthersKept(p) ==
  \A q \in Proc : q # p =>
    at'[q] = at[q] /\ mode'[q] = mode[q] /\ holds'[q] = holds[q]

LEMMA Others ==
  ASSUME TypeOK, NEW p \in Proc, Step(p)
  PROVE  OthersKept(p)
  <1>1. /\ at \in [Proc -> Place] /\ mode \in [Proc -> {"out", "run", "shutdown", "lost"}]
        /\ holds \in [Proc -> [File -> Hold]]
    BY DEF TypeOK
  <1>2. ASSUME NEW f \in File,
               OpenAgain(p, f) \/ ReadHeader(p, f) \/ Flush(p, f) \/ CloseVariable(p, f)
        PROVE  OthersKept(p)
    BY <1>1, <1>2 DEF OthersKept, OpenAgain, ReadHeader, Flush, CloseVariable, CloseDH,
       StartFlush, SetHolds, Goto
  <1>3. ASSUME NEW f \in File, CloseCached(p, f) \/ SetExclusive(p, f) \/ ChangeHeader(p, f)
        PROVE  OthersKept(p)
    BY <1>1, <1>3 DEF OthersKept, CloseCached, CloseDH, StartFlush, SetHolds, Goto,
       SetExclusive, ChangeHeader
  <1>4. ASSUME NEW f \in File,
               Change(p, f) \/ ReadCached(p, f) \/ Read(p, f) \/ Shutdown(p, f)
        PROVE  OthersKept(p)
    BY <1>1, <1>4 DEF OthersKept, Change, ReadCached, Read, Shutdown, CloseDH, StartFlush,
       SetHolds, Goto
  <1>5. ASSUME JoinEntry(p) \/ NewEntry(p) \/ OpenFails(p) PROVE OthersKept(p)
    BY <1>1, <1>5 DEF OthersKept, JoinEntry, NewEntry, Opened, OpenFails, SetHolds, Goto
  <1>6. ASSUME WriteHeader(p) \/ DropReference(p) \/ CacheRecord(p) PROVE OthersKept(p)
    BY <1>1, <1>6 DEF OthersKept, WriteHeader, DropReference, CacheRecord, SetHolds, Goto
  <1>7. ASSUME Login(p) \/ Logout(p) \/ Exit(p) \/ Die(p) \/ RemoveUser(p) PROVE OthersKept(p)
    BY <1>1, <1>7 DEF OthersKept, Login, Logout, Exit, Die, RemoveUser, Gone
  <1> QED BY <1>2, <1>3, <1>4, <1>5, <1>6, <1>7 DEF Step

\* A cell in use has been in use, by the same file with the same changes.
TableOlder ==
  \A c \in Cell : InUse(c)' =>
    /\ InUse(c) /\ entry'[c].file = entry[c].file
    /\ entry'[c].params = entry[c].params /\ entry'[c].upd = entry[c].upd

LEMMA RefsOnly ==
  ASSUME NEW e \in Entry, NEW n
  PROVE  /\ [e EXCEPT !.refs = n].refs = n /\ [e EXCEPT !.refs = n].file = e.file
         /\ [e EXCEPT !.refs = n].params = e.params /\ [e EXCEPT !.refs = n].upd = e.upd
         /\ WithRefs(e, n).refs # 0 =>
              WithRefs(e, n) = [e EXCEPT !.refs = n]
  BY DEF Entry, WithRefs, Free

LEMMA Older ==
  ASSUME IInv, NEW p \in Proc, Step(p), ~NewEntry(p), \A f \in File : ~Change(p, f)
  PROVE  TableOlder
  <1>1. entry \in [Cell -> Entry]
    BY DEF IInv, TypeOK
  <1>2. ASSUME entry' = entry PROVE TableOlder
    BY <1>2 DEF TableOlder, InUse
  <1>3. ASSUME NEW c \in Cell, InUse(c), NEW n, entry' = [entry EXCEPT ![c].refs = n]
        PROVE  TableOlder
    <2>1. entry[c] \in Entry /\ entry'[c] = [entry[c] EXCEPT !.refs = n]
          /\ \A d \in Cell : d # c => entry'[d] = entry[d]
      BY <1>1, <1>3
    <2> QED BY <1>3, <2>1, RefsOnly DEF TableOlder, InUse
  <1>4. ASSUME \A c \in Cell : \/ entry'[c] = entry[c]
                               \/ InUse(c) /\ \E n : entry'[c] = WithRefs(entry[c], n)
        PROVE  TableOlder
    <2> SUFFICES ASSUME NEW c \in Cell, InUse(c)', entry'[c] # entry[c]
                 PROVE  /\ InUse(c) /\ entry'[c].file = entry[c].file
                        /\ entry'[c].params = entry[c].params /\ entry'[c].upd = entry[c].upd
      BY DEF TableOlder, InUse
    <2>1. PICK n : InUse(c) /\ entry'[c] = WithRefs(entry[c], n)
      BY <1>4
    <2>2. entry[c] \in Entry /\ WithRefs(entry[c], n).refs # 0
      BY <1>1, <2>1 DEF InUse
    <2>3. entry'[c] = [entry[c] EXCEPT !.refs = n]
      BY <2>1, <2>2, RefsOnly
    <2> QED BY <2>1, <2>2, <2>3, RefsOnly
  <1>5. ASSUME NEW f \in File, CloseVariable(p, f) PROVE TableOlder
    <2>1. IsOpen(p, f)
      BY <1>5 DEF CloseVariable, IsOpen, Closed
    <2>2. holds[p][f].cell \in Cell /\ InUse(holds[p][f].cell)
      BY <2>1, CellFacts DEF IInv
    <2>3. entry' = entry \/ entry' = [entry EXCEPT ![holds[p][f].cell].refs = 1]
      BY <1>5 DEF CloseVariable
    <2> QED BY <1>2, <1>3, <2>2, <2>3
  <1>6. ASSUME NEW f \in File, SetExclusive(p, f) PROVE TableOlder
    <2>1. IsOpen(p, f)
      BY <1>6 DEF SetExclusive, IsOpen, Closed
    <2>2. holds[p][f].cell \in Cell /\ InUse(holds[p][f].cell)
      BY <2>1, CellFacts DEF IInv
    <2>3. entry' = [entry EXCEPT ![holds[p][f].cell].refs = -1]
      BY <1>6 DEF SetExclusive
    <2> QED BY <1>3, <2>2, <2>3
  <1>7. ASSUME JoinEntry(p) PROVE TableOlder
    <2>1. PICK c \in CellsOf(at[p].file) : entry' = [entry EXCEPT ![c].refs = entry[c].refs + 1]
      BY <1>7 DEF JoinEntry
    <2>2. c \in Cell /\ InUse(c)
      BY <2>1, FileTableAssumption DEF CellsOf, InUse, Cell, IInv, TypeOK
    <2> QED BY <1>3, <2>1, <2>2
  <1>8. ASSUME DropReference(p) PROVE TableOlder
    <2> DEFINE c == holds[p][at[p].file].cell
    <2>1. entry' = [entry EXCEPT ![c] = WithRefs(@, @.refs - 1)] /\ at[p].step = "drop"
      BY <1>8 DEF DropReference
    <2>2. at[p].file \in File /\ at[p] = Drop(at[p].file)
      BY <2>1, PlaceFacts DEF IInv, TypeOK, Idle
    <2>3. IsOpen(p, at[p].file)
      BY <2>2 DEF IInv, PlaceOK, PlaceGood, Dropping
    <2>4. c \in Cell /\ InUse(c)
      BY <2>2, <2>3, CellFacts DEF IInv
    <2> HIDE DEF c
    <2>5. entry'[c] = WithRefs(entry[c], entry[c].refs - 1)
          /\ \A d \in Cell : d # c => entry'[d] = entry[d]
      BY <1>1, <2>1, <2>4
    <2> QED BY <1>4, <2>4, <2>5
  <1>9. ASSUME RemoveUser(p) PROVE TableOlder
    <2>1. mode[p] # "out" /\ slot[p] \in Slot
      BY <1>9 DEF RemoveUser, IInv, SlotsOK
    <2>2. ASSUME NEW c \in Cell, fileMap[slot[p]][c] # 0 PROVE InUse(c)
      <3>1. Keeps(p, c)
        BY <2>1, <2>2 DEF IInv, MapOK
      <3> QED BY <3>1, CellFacts DEF Keeps, IInv
    <2>3. ASSUME NEW c \in Cell
          PROVE  \/ entry'[c] = entry[c]
                 \/ InUse(c) /\ \E n : entry'[c] = WithRefs(entry[c], n)
      BY <1>9, <2>2 DEF RemoveUser
    <2> QED BY <1>4, <2>3
  <1>10. ASSUME NEW f \in File,
                \/ OpenAgain(p, f) \/ ReadHeader(p, f) \/ Flush(p, f) \/ CloseCached(p, f)
                \/ ChangeHeader(p, f) \/ ReadCached(p, f) \/ Read(p, f) \/ Shutdown(p, f)
         PROVE  TableOlder
    BY <1>2, <1>10 DEF OpenAgain, ReadHeader, Flush, CloseCached, ChangeHeader, ReadCached,
       Read, Shutdown, table
  <1>11. ASSUME OpenFails(p) \/ WriteHeader(p) \/ CacheRecord(p) \/ Login(p) \/ Logout(p)
                \/ Exit(p) \/ Die(p)
         PROVE  TableOlder
    BY <1>2, <1>11 DEF OpenFails, WriteHeader, CacheRecord, Login, Logout, Exit, Die, table
  <1> QED BY <1>5, <1>6, <1>7, <1>8, <1>9, <1>10, <1>11 DEF Step

\* Step p changes a cell only if it has a reference to it, or nobody has
\* exclusive access.
LEMMA Touched ==
  ASSUME IInv, NEW p \in Proc, Step(p), NEW c \in Cell, entry'[c] # entry[c]
  PROVE  Keeps(p, c) \/ entry[c].refs >= 0
  <1>1. entry \in [Cell -> Entry]
    BY DEF IInv, TypeOK
  <1>2. ASSUME NEW f \in File, CloseVariable(p, f) \/ SetExclusive(p, f) \/ Change(p, f)
        PROVE  Keeps(p, c)
    <2>1. IsOpen(p, f)
      BY <1>2 DEF CloseVariable, SetExclusive, Change, IsOpen, Closed
    <2>2. \A d \in Cell : d # holds[p][f].cell => entry'[d] = entry[d]
      BY <1>1, <1>2 DEF CloseVariable, SetExclusive, Change
    <2> QED BY <2>1, <2>2 DEF Keeps
  <1>3. ASSUME JoinEntry(p) PROVE entry[c].refs >= 0
    <2>1. PICK d \in CellsOf(at[p].file) :
            entry[d].refs > 0 /\ entry' = [entry EXCEPT ![d].refs = @ + 1]
      BY <1>3 DEF JoinEntry
    <2>2. c = d
      BY <1>1, <2>1
    <2> QED BY <1>1, <2>1, <2>2 DEF Entry
  <1>4. ASSUME NewEntry(p) PROVE entry[c].refs >= 0
    <2>1. PICK d, e : /\ d \in (IF FirstFree # {} THEN FirstFree ELSE {used + 1} \cap Cell)
                      /\ entry' = [entry EXCEPT ![d] = e]
      BY <1>4, Zenon DEF NewEntry
    <2>2. c = d
      BY <1>1, <2>1
    <2>3. CASE c \in FirstFree
      BY <1>1, <2>3 DEF FirstFree, Entry
    <2>4. CASE c = used + 1
      <3>1. used \in Nat
        BY FileTableAssumption DEF IInv, TypeOK
      <3>2. entry[c] = Free
        BY <2>4, <3>1 DEF IInv, EntryOK
      <3> QED BY <3>2 DEF Free
    <2> QED BY <2>1, <2>2, <2>3, <2>4
  <1>5. ASSUME DropReference(p) PROVE Keeps(p, c)
    <2>1. entry' = [entry EXCEPT ![holds[p][at[p].file].cell] = WithRefs(@, @.refs - 1)]
          /\ at[p].step = "drop"
      BY <1>5 DEF DropReference
    <2>2. at[p].file \in File /\ at[p] = Drop(at[p].file)
      BY <2>1, PlaceFacts DEF IInv, TypeOK, Idle
    <2>3. IsOpen(p, at[p].file)
      BY <2>2 DEF IInv, PlaceOK, PlaceGood, Dropping
    <2>4. c = holds[p][at[p].file].cell
      BY <1>1, <2>1
    <2> QED BY <2>2, <2>3, <2>4 DEF Keeps
  <1>6. ASSUME RemoveUser(p) PROVE Keeps(p, c)
    <2>1. mode[p] # "out" /\ fileMap[slot[p]][c] # 0
      BY <1>6 DEF RemoveUser
    <2> QED BY <2>1 DEF IInv, MapOK
  <1>7. ASSUME NEW f \in File,
                \/ OpenAgain(p, f) \/ ReadHeader(p, f) \/ Flush(p, f) \/ CloseCached(p, f)
                \/ ChangeHeader(p, f) \/ ReadCached(p, f) \/ Read(p, f) \/ Shutdown(p, f)
         PROVE  FALSE
    BY <1>7 DEF OpenAgain, ReadHeader, Flush, CloseCached, ChangeHeader, ReadCached,
       Read, Shutdown, table
  <1>8. ASSUME OpenFails(p) \/ WriteHeader(p) \/ CacheRecord(p) \/ Login(p) \/ Logout(p)
                \/ Exit(p) \/ Die(p)
         PROVE  FALSE
    BY <1>8 DEF OpenFails, WriteHeader, CacheRecord, Login, Logout, Exit, Die, table
  <1> QED BY <1>2, <1>3, <1>4, <1>5, <1>6, <1>7, <1>8 DEF Step

LEMMA ExclusiveKept ==
  ASSUME IInv, NEW p \in Proc, Step(p), NEW q \in Proc, q # p, NEW f \in File, Exclusive(q, f)
  PROVE  entry'[holds[q][f].cell] = entry[holds[q][f].cell]
  <1> DEFINE c == holds[q][f].cell
  <1>1. IsOpen(q, f) /\ EntryOf(q, f).refs < 0
    BY DEF Exclusive
  <1>2. c \in Cell /\ entry[c] \in Entry
    BY <1>1, CellFacts DEF IInv, TypeOK
  <1>3. ~(entry[c].refs >= 0) /\ Abs(EntryOf(q, f).refs) = 1
    BY <1>1, <1>2 DEF EntryOf, Entry, Abs
  <1>4. ~Keeps(p, c)
    BY <1>1, <1>3, OneHolder DEF Keeps
  <1> QED BY <1>2, <1>3, <1>4, Touched

-----------------------------------------------------------------------------
(* Indices and triggers *)

\* The header that is being written has the map that the disk has.
FlushGood(p) ==
  at[p].step = "flush" =>
    holds[p][at[p].file].updated /\ at[p].head.map = disk[at[p].file].map

KnowsMap(p, f) ==
  mode[p] \in {"run", "shutdown"} /\ IsOpen(p, f) /\ ~Exclusive(p, f) /\ ~Dropping(p, f) =>
    holds[p][f].map = disk[f].map

MapInv == \A p \in Proc : FlushGood(p) /\ \A f \in File : KnowsMap(p, f)

LEMMA MapStep ==
  ASSUME IInv, IInv', MapInv, NEW p \in Proc, Step(p),
         \A f \in File : disk'[f].map = disk[f].map,
         FlushGood(p)', \A f \in File : KnowsMap(p, f)'
  PROVE  MapInv'
  <1>1. OthersKept(p)
    BY Others DEF IInv
  <1>2. ASSUME NEW q \in Proc, q # p PROVE FlushGood(q)'
    <2>1. FlushGood(q) /\ at'[q] = at[q] /\ holds'[q] = holds[q] /\ at[q] \in Place
      BY <1>1, <1>2 DEF MapInv, OthersKept, IInv, TypeOK
    <2>2. at[q].step = "flush" => at[q].file \in File
      BY <2>1, PlaceFacts DEF Idle
    <2> QED BY <2>1, <2>2 DEF FlushGood
  <1>3. ASSUME NEW q \in Proc, q # p, NEW f \in File PROVE KnowsMap(q, f)'
    <2>1. KnowsMap(q, f) /\ at'[q] = at[q] /\ holds'[q] = holds[q] /\ mode'[q] = mode[q]
      BY <1>1, <1>3 DEF MapInv, OthersKept
    <2>2. IsOpen(q, f)' = IsOpen(q, f) /\ Dropping(q, f)' = Dropping(q, f)
      BY <2>1 DEF IsOpen, Dropping
    <2>3. Exclusive(q, f) => Exclusive(q, f)'
      BY <1>3, <2>1, <2>2, ExclusiveKept DEF Exclusive, EntryOf
    <2> QED BY <2>1, <2>2, <2>3 DEF KnowsMap
  <1>4. ASSUME NEW q \in Proc PROVE FlushGood(q)' /\ \A f \in File : KnowsMap(q, f)'
    BY <1>2, <1>3
  <1> QED BY <1>4 DEF MapInv

\* A step that opens nothing and does not begin to flush.
LEMMA MapQuiet ==
  ASSUME IInv, IInv', MapInv, NEW p \in Proc, Step(p), UNCHANGED disk,
         at'[p].step # "flush",
         \A f \in File : IsOpen(p, f)' =>
           /\ IsOpen(p, f) /\ ~Dropping(p, f) /\ mode[p] \in {"run", "shutdown"}
           /\ Exclusive(p, f) => Exclusive(p, f)'
           /\ holds'[p][f].map = holds[p][f].map
  PROVE  MapInv'
  <1>1. FlushGood(p)'
    BY DEF FlushGood
  <1>2. ASSUME NEW f \in File PROVE KnowsMap(p, f)'
    BY DEF KnowsMap, MapInv
  <1> QED BY <1>1, <1>2, MapStep

LEMMA IdleFacts ==
  ASSUME NEW p \in Proc, at[p].step \in {"idle", "opening", "caching"}
  PROVE  \A f : ~Dropping(p, f)
  BY DEF Dropping, Drop

LEMMA MapUnopened ==
  ASSUME IInv, IInv', MapInv, NEW p \in Proc, NEW f \in File,
         \/ OpenAgain(p, f) \/ ReadHeader(p, f) \/ SetExclusive(p, f)
         \/ Change(p, f) \/ ReadCached(p, f) \/ Read(p, f)
  PROVE  MapInv'
  <1>1. Step(p)
    BY DEF Step
  <1>2. mode[p] = "run" /\ at[p] = Idle /\ UNCHANGED <<disk, mode>>
    BY DEF OpenAgain, ReadHeader, SetExclusive, Change, ReadCached, Read, Ready
  <1>3. at[p].step = "idle"
    BY <1>2 DEF Idle
  <1>4. at'[p].step # "flush"
    <2>1. CASE ReadHeader(p, f) \/ Read(p, f)
      BY <2>1 DEF ReadHeader, Read, Goto, IInv, TypeOK
    <2>2. CASE at' = at
      BY <1>3, <2>2
    <2> QED BY <2>1, <2>2 DEF OpenAgain, SetExclusive, Change, ReadCached
  <1>5. holds \in [Proc -> [File -> Hold]] /\ entry \in [Cell -> Entry]
    BY DEF IInv, TypeOK
  <1>6. ASSUME NEW g \in File
        PROVE  /\ holds'[p][g].map = holds[p][g].map /\ holds'[p][g].cell = holds[p][g].cell
               /\ IsOpen(p, g)' => IsOpen(p, g)
    <2>1. CASE OpenAgain(p, f) \/ Change(p, f)
      <3>1. IsOpen(p, f)
        BY <2>1 DEF OpenAgain, Change, IsOpen, Closed
      <3>2. PICK h \in Hold : /\ SetHolds(p, f, h)
                              /\ h.map = holds[p][f].map /\ h.cell = holds[p][f].cell
        <4>1. holds[p][f] \in Hold
          BY <1>5
        <4> DEFINE u == [holds[p][f] EXCEPT !.updated = TRUE]
                   v == [holds[p][f] EXCEPT !.for = @ \cup {"var"}]
        <4>2. /\ u \in Hold /\ u.map = holds[p][f].map /\ u.cell = holds[p][f].cell
              /\ v \in Hold /\ v.map = holds[p][f].map /\ v.cell = holds[p][f].cell
          BY <4>1 DEF Hold
        <4>3. SetHolds(p, f, u) \/ SetHolds(p, f, v)
          BY <2>1 DEF OpenAgain, Change
        <4> HIDE DEF u, v
        <4> QED BY <4>2, <4>3
      <3>3. holds'[p][f] = h /\ \A k \in File : k # f => holds'[p][k] = holds[p][k]
        BY <3>2, SetHoldsEffect DEF IInv
      <3> QED BY <3>1, <3>2, <3>3 DEF IsOpen
    <2>2. CASE holds' = holds
      BY <2>2 DEF IsOpen
    <2> QED BY <2>1, <2>2 DEF ReadHeader, SetExclusive, ReadCached, Read
  <1>7. ASSUME NEW g \in File, IsOpen(p, g)', Exclusive(p, g) PROVE Exclusive(p, g)'
    <2>1. holds[p][g].cell \in Cell /\ entry[holds[p][g].cell].refs < 0
      BY <1>7, CellFacts DEF IInv, Exclusive, EntryOf
    <2>2. ASSUME NEW c \in Cell, entry[c].refs < 0 PROVE entry'[c].refs < 0
      <3>1. CASE SetExclusive(p, f)
        BY <1>5, <2>2, <3>1 DEF SetExclusive, Entry
      <3>2. CASE Change(p, f)
        BY <1>5, <2>2, <3>2 DEF Change, Entry
      <3>3. CASE entry' = entry
        BY <2>2, <3>3
      <3> QED BY <3>1, <3>2, <3>3 DEF OpenAgain, ReadHeader, ReadCached, Read, table
    <2> QED BY <1>6, <1>7, <2>1, <2>2 DEF Exclusive, EntryOf
  <1>8. \A g \in File : ~Dropping(p, g)
    BY <1>3, IdleFacts
  <1>9. disk' = disk /\ mode[p] \in {"run", "shutdown"}
    BY <1>2
  <1>10. ASSUME NEW g \in File, IsOpen(p, g)'
         PROVE  /\ IsOpen(p, g) /\ ~Dropping(p, g) /\ mode[p] \in {"run", "shutdown"}
                /\ Exclusive(p, g) => Exclusive(p, g)'
                /\ holds'[p][g].map = holds[p][g].map
    BY <1>6, <1>7, <1>8, <1>9, <1>10
  <1> QED BY <1>1, <1>4, <1>9, <1>10, MapQuiet

LEMMA MapOpened ==
  ASSUME IInv, IInv', MapInv, NEW p \in Proc, JoinEntry(p) \/ NewEntry(p),
         "stalehead" \notin Ops
  PROVE  MapInv'
  <1>1. Opening(p) /\ HeadOf(p).map = disk[at[p].file].map
    BY DEF JoinEntry, NewEntry, StaleHead
  <1>2. mode[p] = "run" /\ at[p].step = "opening" /\ at[p].file \in File
    BY <1>1, PlaceFacts DEF Opening, IInv, TypeOK, Idle
  <1>3. PICK c : Opened(p, c)
    BY DEF JoinEntry, NewEntry
  <1>4. at'[p] = Idle /\ UNCHANGED <<mode, disk>>
    BY <1>3 DEF Opened, Goto, IInv, TypeOK
  <1>5. /\ holds'[p][at[p].file].map = HeadOf(p).map
        /\ \A g \in File : g # at[p].file => holds'[p][g] = holds[p][g]
    BY <1>2, <1>3 DEF Opened, SetHolds, IInv, TypeOK
  <1>6. FlushGood(p)'
    BY <1>4 DEF FlushGood, Idle
  <1>7. ASSUME NEW g \in File PROVE KnowsMap(p, g)'
    <2>1. CASE g = at[p].file
      BY <1>1, <1>4, <1>5, <2>1 DEF KnowsMap
    <2>2. CASE g # at[p].file
      <3>1. KnowsMap(p, g) /\ holds'[p][g] = holds[p][g] /\ IsOpen(p, g)' = IsOpen(p, g)
        BY <1>5, <2>2 DEF MapInv, IsOpen
      <3>2. ~Dropping(p, g)
        BY <1>2, IdleFacts
      <3>3. IsOpen(p, g) /\ Exclusive(p, g) => Exclusive(p, g)'
        <4> SUFFICES ASSUME Exclusive(p, g), IsOpen(p, g) PROVE Exclusive(p, g)'
          OBVIOUS
        <4> DEFINE d == holds[p][g].cell
        <4>1. d \in Cell /\ InUse(d) /\ entry[d].file = g /\ entry[d].refs < 0
              /\ entry \in [Cell -> Entry]
          BY CellFacts DEF IInv, TypeOK, Exclusive, EntryOf
        <4>2. entry'[d] = entry[d]
          <5>1. CASE JoinEntry(p)
            <6>1. PICK e \in CellsOf(at[p].file) : entry' = [entry EXCEPT ![e].refs = @ + 1]
              BY <5>1 DEF JoinEntry
            <6>2. e # d
              BY <2>2, <4>1, <6>1 DEF CellsOf
            <6> QED BY <4>1, <6>1, <6>2
          <5>2. CASE NewEntry(p)
            <6>1. PICK e, n : /\ e \in (IF FirstFree # {} THEN FirstFree ELSE {used + 1} \cap Cell)
                              /\ entry' = [entry EXCEPT ![e] = n]
              BY <5>2, Zenon DEF NewEntry
            <6>2. CASE e \in FirstFree
              BY <4>1, <6>1, <6>2 DEF FirstFree, InUse
            <6>3. CASE e = used + 1
              <7>1. used \in Nat
                BY FileTableAssumption DEF IInv, TypeOK
              <7>2. e # d
                BY <4>1, <6>3, <7>1 DEF IInv, EntryOK, Free, InUse
              <7> QED BY <4>1, <6>1, <7>2
            <6> QED BY <6>1, <6>2, <6>3
          <5> QED BY <5>1, <5>2
        <4> QED BY <3>1, <4>1, <4>2 DEF Exclusive, EntryOf
      <3> QED BY <1>2, <1>4, <3>1, <3>2, <3>3 DEF KnowsMap
    <2> QED BY <2>1, <2>2
  <1>8. Step(p)
    BY DEF Step
  <1> QED BY <1>4, <1>6, <1>7, <1>8, MapStep

LEMMA MapGone ==
  ASSUME IInv, IInv', MapInv, NEW p \in Proc,
         \/ OpenFails(p) \/ CacheRecord(p) \/ Login(p) \/ Logout(p)
         \/ Exit(p) \/ Die(p) \/ RemoveUser(p)
  PROVE  MapInv'
  <1>1. Step(p) /\ UNCHANGED disk
    BY DEF Step, OpenFails, CacheRecord, Login, Logout, Exit, Die, RemoveUser
  <1>2. CASE mode'[p] \in {"out", "lost"}
    <2>1. at'[p] = Idle
      BY <1>2 DEF IInv, PlaceOK, PlaceGood
    <2>2. FlushGood(p)' /\ \A f \in File : KnowsMap(p, f)'
      BY <1>2, <2>1 DEF FlushGood, KnowsMap, Idle
    <2> QED BY <1>1, <2>2, MapStep
  <1>3. CASE Login(p)
    <2>1. mode[p] = "out" /\ holds' = holds /\ at' = at
      BY <1>3 DEF Login
    <2>2. at[p].step = "idle" /\ \A f \in File : ~IsOpen(p, f)'
      BY <2>1 DEF IInv, PlaceOK, PlaceGood, HoldsOK, HoldsGood, IsOpen, Idle
    <2> QED BY <1>1, <2>1, <2>2, MapQuiet
  <1>4. CASE OpenFails(p) \/ CacheRecord(p) \/ Logout(p)
    <2>1. /\ mode[p] = "run" /\ at[p].step \in {"idle", "opening", "caching"}
          /\ at'[p] = Idle /\ UNCHANGED <<entry, holds>>
      <3>1. Idle.step = "idle" /\ at \in [Proc -> Place]
        BY DEF Idle, IInv, TypeOK
      <3>2. CASE OpenFails(p)
        BY <3>1, <3>2 DEF OpenFails, Opening, Goto, table
      <3>3. CASE CacheRecord(p)
        BY <3>1, <3>3 DEF CacheRecord, Goto, table
      <3>4. CASE Logout(p)
        BY <3>1, <3>4 DEF Logout, Ready, table
      <3> QED BY <1>4, <3>2, <3>3, <3>4
    <2>2. at'[p].step # "flush"
      BY <2>1 DEF Idle
    <2>3. \A f \in File : IsOpen(p, f)' = IsOpen(p, f) /\ Exclusive(p, f)' = Exclusive(p, f)
      BY <2>1 DEF IsOpen, Exclusive, EntryOf
    <2> QED BY <1>1, <2>1, <2>2, <2>3, IdleFacts, MapQuiet
  <1>5. CASE Exit(p) \/ Die(p) \/ RemoveUser(p)
    <2>1. mode'[p] \in {"out", "lost"}
      BY <1>5 DEF Exit, Die, RemoveUser, Gone, IInv, TypeOK
    <2> QED BY <1>2, <2>1
  <1> QED BY <1>3, <1>4, <1>5

LEMMA MapWritten ==
  ASSUME IInv, IInv', MapInv, NEW p \in Proc, WriteHeader(p)
  PROVE  MapInv'
  <1>1. /\ at[p].step = "flush" /\ at[p] \in Place /\ at[p].file \in File
        /\ at[p].next \in After
    BY PlaceFacts DEF WriteHeader, IInv, TypeOK, Idle
  <1>2. disk' = [disk EXCEPT ![at[p].file] = at[p].head] /\ disk \in [File -> HeaderRec]
    BY DEF WriteHeader, IInv, TypeOK
  <1>3. at'[p] = at[p].next /\ UNCHANGED <<entry, mode, holds>>
    BY DEF WriteHeader, Goto, IInv, TypeOK, table
  <1>4. at[p].head.map = disk[at[p].file].map
    BY <1>1 DEF MapInv, FlushGood
  <1>5. \A f \in File : disk'[f].map = disk[f].map
    BY <1>1, <1>2, <1>4
  <1>6. FlushGood(p)'
    BY <1>1, <1>3 DEF FlushGood, After, Idle
  <1>7. ASSUME NEW f \in File PROVE KnowsMap(p, f)'
    <2>1. KnowsMap(p, f) /\ IsOpen(p, f)' = IsOpen(p, f) /\ Exclusive(p, f)' = Exclusive(p, f)
      BY <1>3 DEF MapInv, IsOpen, Exclusive, EntryOf
    <2>2. Dropping(p, f) => Dropping(p, f)'
      BY <1>1, <1>3 DEF Dropping, Drop
    <2> QED BY <1>3, <1>5, <2>1, <2>2 DEF KnowsMap
  <1>8. Step(p)
    BY DEF Step
  <1> QED BY <1>5, <1>6, <1>7, <1>8, MapStep

LEMMA MapDropped ==
  ASSUME IInv, IInv', MapInv, NEW p \in Proc, DropReference(p)
  PROVE  MapInv'
  <1>1. /\ at[p].step = "drop" /\ mode[p] \in {"run", "shutdown"}
        /\ SetHolds(p, at[p].file, Closed) /\ Goto(p, Idle) /\ UNCHANGED <<mode, disk>>
    BY DEF DropReference
  <1>2. at[p].file \in File /\ at[p] = Drop(at[p].file)
    BY <1>1, PlaceFacts DEF IInv, TypeOK, Idle
  <1>3. /\ holds'[p][at[p].file] = Closed
        /\ \A g \in File : g # at[p].file => holds'[p][g] = holds[p][g]
    BY <1>1, <1>2, SetHoldsEffect, ClosedIsHold DEF IInv
  <1>4. at'[p].step # "flush"
    BY <1>1 DEF Goto, IInv, TypeOK, Idle
  <1>5. ASSUME NEW f \in File, IsOpen(p, f)'
        PROVE  /\ IsOpen(p, f) /\ ~Dropping(p, f) /\ mode[p] \in {"run", "shutdown"}
               /\ Exclusive(p, f) => Exclusive(p, f)'
               /\ holds'[p][f].map = holds[p][f].map
    <2>1. f # at[p].file
      BY <1>3, <1>5 DEF IsOpen
    <2>2. IsOpen(p, f) /\ holds'[p][f] = holds[p][f]
      BY <1>3, <1>5, <2>1 DEF IsOpen
    <2>3. ~Dropping(p, f)
      BY <1>1, <1>2, <2>1 DEF Dropping, Drop
    <2>4. Exclusive(p, f) => Exclusive(p, f)'
      <3> SUFFICES ASSUME Exclusive(p, f) PROVE Exclusive(p, f)'
        OBVIOUS
      <3>1. IsOpen(p, at[p].file)
        BY <1>2 DEF IInv, PlaceOK, PlaceGood, Dropping
      <3>2. holds[p][f].cell \in Cell /\ entry[holds[p][f].cell].file = f
            /\ entry[holds[p][at[p].file].cell].file = at[p].file
        BY <1>2, <2>2, <3>1, CellFacts DEF IInv
      <3>3. entry'[holds[p][f].cell] = entry[holds[p][f].cell]
        BY <2>1, <3>2 DEF DropReference, IInv, TypeOK
      <3> QED BY <1>5, <2>2, <3>3 DEF Exclusive, EntryOf
    <2> QED BY <1>1, <2>2, <2>3, <2>4
  <1>6. Step(p)
    BY DEF Step
  <1> QED BY <1>1, <1>4, <1>5, <1>6, MapQuiet

\* Where the flush of file f leads process p, which then goes on with next.
FlushPlace(p, f, next) ==
  [step |-> "flush", file |-> f, next |-> next,
   head |-> [disk[f] EXCEPT !.params = EntryOf(p, f).params]]

LEMMA FlushPlaceFacts ==
  ASSUME IInv, NEW p \in Proc, NEW f \in File, IsOpen(p, f), NEW next
  PROVE  /\ FlushPlace(p, f, next).step = "flush" /\ FlushPlace(p, f, next).file = f
         /\ FlushPlace(p, f, next).next = next
         /\ FlushPlace(p, f, next).head.map = disk[f].map
         /\ FlushPlace(p, f, next).head.params = EntryOf(p, f).params
         /\ next \in After => FlushPlace(p, f, next) \in Place
  <1>1. disk[f] \in HeaderRec /\ EntryOf(p, f).params \in Nat
    BY CellFacts DEF IInv, TypeOK, EntryOf, Entry
  <1>2. /\ [disk[f] EXCEPT !.params = EntryOf(p, f).params] \in HeaderRec
        /\ [disk[f] EXCEPT !.params = EntryOf(p, f).params].map = disk[f].map
        /\ [disk[f] EXCEPT !.params = EntryOf(p, f).params].params = EntryOf(p, f).params
    BY <1>1 DEF HeaderRec
  <1> QED BY <1>2 DEF FlushPlace, Place

\* Process p closes file f, and goes on with next.
ClosesFile(p, f, next) ==
  /\ at[p] = Idle /\ mode[p] \in {"run", "shutdown"} /\ IsOpen(p, f)
  /\ next \in {Idle, Drop(f)} /\ (next = Idle => ~Exclusive(p, f))
  /\ UNCHANGED <<mode, disk, version>>
  /\ at'[p] = IF holds[p][f].updated THEN FlushPlace(p, f, next) ELSE next
  /\ holds'[p][f].updated /\ holds'[p][f].map = holds[p][f].map
  /\ holds'[p][f].cell = holds[p][f].cell /\ IsOpen(p, f)'
  /\ \A g \in File : g # f => holds'[p][g] = holds[p][g]
  /\ \A g \in File : IsOpen(p, g) /\ (g # f \/ next = Idle) =>
       entry'[holds[p][g].cell] = entry[holds[p][g].cell]

LEMMA CloseDHFile ==
  ASSUME IInv, IInv', NEW p \in Proc, NEW f \in File, IsOpen(p, f), at[p] = Idle,
         mode[p] \in {"run", "shutdown"}, NEW next \in {Idle, Drop(f)},
         next = Idle => ~Exclusive(p, f), NEW h \in Hold,
         h.map = holds[p][f].map, h.cell = holds[p][f].cell, h.for # {},
         CloseDH(p, f, next, h), UNCHANGED <<mode, disk, version>>,
         entry' = IF Exclusive(p, f) THEN [entry EXCEPT ![holds[p][f].cell].refs = 1] ELSE entry
  PROVE  ClosesFile(p, f, next)
  <1>1. /\ [h EXCEPT !.updated = TRUE] \in Hold /\ [h EXCEPT !.updated = TRUE].updated
        /\ [h EXCEPT !.updated = TRUE].map = h.map /\ [h EXCEPT !.updated = TRUE].cell = h.cell
        /\ [h EXCEPT !.updated = TRUE].for = h.for
    BY DEF Hold
  <1>2. SetHolds(p, f, [h EXCEPT !.updated = TRUE])
    BY DEF CloseDH
  <1>3. /\ holds'[p][f] = [h EXCEPT !.updated = TRUE]
        /\ \A g \in File : g # f => holds'[p][g] = holds[p][g]
    BY <1>1, <1>2, SetHoldsEffect DEF IInv
  <1>4. IsOpen(p, f)'
    BY <1>1, <1>3 DEF IsOpen, Closed
  <1>5. at'[p] = IF holds[p][f].updated THEN FlushPlace(p, f, next) ELSE next
    BY DEF CloseDH, StartFlush, FlushPlace, Goto, IInv, TypeOK
  <1>6. ASSUME NEW g \in File, IsOpen(p, g), g # f \/ next = Idle
        PROVE  entry'[holds[p][g].cell] = entry[holds[p][g].cell]
    <2>1. CASE next = Idle
      BY <2>1
    <2>2. CASE g # f
      <3>1. holds[p][g].cell \in Cell /\ entry[holds[p][g].cell].file = g
        BY <1>6, CellFacts DEF IInv
      <3>2. holds[p][f].cell \in Cell /\ entry[holds[p][f].cell].file = f
        BY CellFacts DEF IInv
      <3>3. entry' \in {entry, [entry EXCEPT ![holds[p][f].cell].refs = 1]}
            /\ entry \in [Cell -> Entry]
        BY DEF IInv, TypeOK
      <3> QED BY <2>2, <3>1, <3>2, <3>3
    <2> QED BY <1>6, <2>1, <2>2
  <1> QED BY <1>1, <1>3, <1>4, <1>5, <1>6 DEF ClosesFile

LEMMA Closes ==
  ASSUME IInv, IInv', NEW p \in Proc, NEW f \in File,
         CloseVariable(p, f) \/ CloseCached(p, f) \/ Shutdown(p, f)
  PROVE  \E next : ClosesFile(p, f, next)
  <1> DEFINE only(S) == [holds[p][f] EXCEPT !.for = S]
  <1>1. holds[p][f] \in Hold
    BY DEF IInv, TypeOK
  <1>2. \A S \in SUBSET {"var", "cache"} :
          /\ only(S) \in Hold /\ only(S).map = holds[p][f].map
          /\ only(S).cell = holds[p][f].cell /\ only(S).for = S
    BY <1>1 DEF Hold
  <1>3. /\ IsOpen(p, f) /\ at[p] = Idle /\ mode[p] \in {"run", "shutdown"}
        /\ UNCHANGED <<mode, disk, version>>
    BY DEF CloseVariable, CloseCached, Shutdown, Ready, IsOpen, Closed
  <1>4. holds[p][f].for # {} /\ (Exclusive(p, f) => holds[p][f].for = {"var"})
    BY <1>3 DEF IInv, HoldsOK, HoldsGood, Exclusive
  <1>5. CASE CloseVariable(p, f)
    <2>1. CASE "cache" \in holds[p][f].for
      <3>1. CloseDH(p, f, Idle, only({"cache"})) /\ ~Exclusive(p, f)
            /\ entry' = IF Exclusive(p, f) THEN [entry EXCEPT ![holds[p][f].cell].refs = 1]
                        ELSE entry
        BY <1>4, <1>5, <2>1 DEF CloseVariable
      <3>2. /\ only({"cache"}) \in Hold /\ only({"cache"}).map = holds[p][f].map
            /\ only({"cache"}).cell = holds[p][f].cell /\ only({"cache"}).for # {}
        BY <1>2
      <3>3. Idle \in {Idle, Drop(f)}
        OBVIOUS
      <3> HIDE DEF only
      <3> QED BY <1>3, <3>1, <3>2, <3>3, CloseDHFile
    <2>2. CASE "cache" \notin holds[p][f].for
      <3>1. CloseDH(p, f, Drop(f), holds[p][f]) /\ Drop(f) # Idle
            /\ entry' = IF Exclusive(p, f) THEN [entry EXCEPT ![holds[p][f].cell].refs = 1]
                        ELSE entry
        BY <1>5, <2>2 DEF CloseVariable, Drop, Idle
      <3>2. Drop(f) \in {Idle, Drop(f)}
        OBVIOUS
      <3> QED BY <1>1, <1>3, <1>4, <3>1, <3>2, CloseDHFile
    <2> QED BY <2>1, <2>2
  <1>6. CASE CloseCached(p, f)
    <2>0. ~Exclusive(p, f) /\ entry' = entry
      BY <1>4, <1>6 DEF CloseCached, table
    <2>1. CASE "var" \in holds[p][f].for
      <3>1. CloseDH(p, f, Idle, only({"var"}))
        BY <1>6, <2>1 DEF CloseCached
      <3>2. /\ only({"var"}) \in Hold /\ only({"var"}).map = holds[p][f].map
            /\ only({"var"}).cell = holds[p][f].cell /\ only({"var"}).for # {}
        BY <1>2
      <3>3. Idle \in {Idle, Drop(f)}
        OBVIOUS
      <3> HIDE DEF only
      <3> QED BY <1>3, <2>0, <3>1, <3>2, <3>3, CloseDHFile
    <2>2. CASE "var" \notin holds[p][f].for
      <3>1. CloseDH(p, f, Drop(f), holds[p][f])
        BY <1>6, <2>2 DEF CloseCached
      <3> QED BY <1>1, <1>3, <1>4, <2>0, <3>1, CloseDHFile
    <2> QED BY <2>1, <2>2
  <1>7. CASE Shutdown(p, f)
    <2>1. "var" \notin holds[p][f].for /\ CloseDH(p, f, Drop(f), holds[p][f]) /\ entry' = entry
      BY <1>7 DEF Shutdown, IInv, HoldsOK, HoldsGood, table
    <2>2. ~Exclusive(p, f)
      BY <1>4, <2>1
    <2> QED BY <1>1, <1>3, <1>4, <2>1, <2>2, CloseDHFile
  <1> QED BY <1>5, <1>6, <1>7

LEMMA MapClosing ==
  ASSUME IInv, IInv', MapInv, NEW p \in Proc, NEW f \in File,
         CloseVariable(p, f) \/ CloseCached(p, f) \/ Shutdown(p, f)
  PROVE  MapInv'
  <1>1. PICK next : ClosesFile(p, f, next)
    BY Closes
  <1>2. Step(p)
    BY DEF Step
  <1>3. FlushGood(p)'
    <2>1. CASE holds[p][f].updated
      BY <1>1, <2>1, FlushPlaceFacts DEF ClosesFile, FlushGood
    <2>2. CASE ~holds[p][f].updated
      BY <1>1, <2>2 DEF ClosesFile, FlushGood, Idle, Drop
    <2> QED BY <2>1, <2>2
  <1>4. next = Drop(f) => Dropping(p, f)'
    BY <1>1, FlushPlaceFacts DEF ClosesFile, Dropping
  <1>5. ASSUME NEW g \in File PROVE KnowsMap(p, g)'
    <2>1. CASE g = f /\ next = Drop(f)
      BY <1>4, <2>1 DEF KnowsMap
    <2>2. CASE g # f \/ next = Idle
      <3>1. KnowsMap(p, g) /\ at[p].step = "idle"
        BY <1>1 DEF MapInv, ClosesFile, Idle
      <3>2. ~Dropping(p, g)
        BY <3>1, IdleFacts
      <3>3. IsOpen(p, g)' = IsOpen(p, g) /\ holds'[p][g].map = holds[p][g].map
            /\ holds'[p][g].cell = holds[p][g].cell
        BY <1>1 DEF ClosesFile, IsOpen
      <3>4. IsOpen(p, g) => entry'[holds[p][g].cell] = entry[holds[p][g].cell]
        BY <1>1, <2>2 DEF ClosesFile
      <3>5. Exclusive(p, g) => Exclusive(p, g)'
        BY <3>3, <3>4 DEF Exclusive, EntryOf
      <3>6. mode[p] \in {"run", "shutdown"} /\ disk' = disk
        BY <1>1 DEF ClosesFile
      <3> QED BY <3>1, <3>2, <3>3, <3>5, <3>6 DEF KnowsMap
    <2> QED BY <1>1, <2>1, <2>2 DEF ClosesFile
  <1>6. \A g \in File : disk'[g].map = disk[g].map
    BY <1>1 DEF ClosesFile
  <1> QED BY <1>2, <1>3, <1>5, <1>6, MapStep

LEMMA MapFlush ==
  ASSUME IInv, IInv', MapInv, NEW p \in Proc, NEW f \in File, Flush(p, f)
  PROVE  MapInv'
  <1>1. /\ mode[p] = "run" /\ at[p] = Idle /\ IsOpen(p, f) /\ holds[p][f].updated
        /\ UNCHANGED <<entry, mode, holds, disk>>
    BY DEF Flush, Ready, IsOpen, Closed, table
  <1>2. at'[p] = FlushPlace(p, f, Idle)
    BY DEF Flush, StartFlush, FlushPlace, Goto, IInv, TypeOK
  <1>3. FlushGood(p)'
    BY <1>1, <1>2, FlushPlaceFacts DEF FlushGood
  <1>4. ASSUME NEW g \in File PROVE KnowsMap(p, g)'
    <2>1. KnowsMap(p, g) /\ IsOpen(p, g)' = IsOpen(p, g) /\ Exclusive(p, g)' = Exclusive(p, g)
      BY <1>1 DEF MapInv, IsOpen, Exclusive, EntryOf
    <2>2. ~Dropping(p, g)
      BY <1>1, IdleFacts DEF Idle
    <2> QED BY <1>1, <2>1, <2>2 DEF KnowsMap
  <1>5. Step(p)
    BY DEF Step
  <1> QED BY <1>1, <1>3, <1>4, <1>5, MapStep

\* Whoever flushes the file has it open.
LEMMA MapChanged ==
  ASSUME IInv, IInv', MapInv, NEW p \in Proc, NEW f \in File, ChangeHeader(p, f)
  PROVE  MapInv'
  <1>1. /\ IsOpen(p, f) /\ Exclusive(p, f) /\ at[p].step = "idle"
        /\ UNCHANGED <<entry, mode, holds, at>>
    BY DEF ChangeHeader, Exclusive, Ready, Idle, table
  <1>2. Abs(EntryOf(p, f).refs) = 1
    <2>1. entry[holds[p][f].cell] \in Entry
      BY <1>1, CellFacts DEF IInv, TypeOK
    <2> QED BY <1>1, <2>1 DEF Exclusive, EntryOf, Entry, Abs
  <1>3. ASSUME NEW q \in Proc, IsOpen(q, f) PROVE q = p
    <2>1. holds[q][f].cell = holds[p][f].cell
      BY <1>1, <1>3, CellFacts DEF IInv, EntryOK
    <2> QED BY <1>1, <1>2, <1>3, <2>1, OneHolder
  <1>4. \A g \in File : g # f => disk'[g] = disk[g]
    BY DEF ChangeHeader, IInv, TypeOK
  <1>5. ASSUME NEW q \in Proc PROVE FlushGood(q)'
    <2>1. CASE at[q].step = "flush"
      <3>1. at[q].file \in File /\ FlushGood(q) /\ holds[q][at[q].file].updated
        BY <2>1, PlaceFacts DEF MapInv, FlushGood, IInv, TypeOK, Idle
      <3>2. IsOpen(q, at[q].file)
        BY <3>1 DEF IsOpen, Closed
      <3>3. at[q].file # f
        BY <1>1, <1>3, <2>1, <3>2
      <3> QED BY <1>1, <1>4, <3>1, <3>3 DEF FlushGood
    <2>2. CASE at[q].step # "flush"
      BY <1>1, <2>2 DEF FlushGood
    <2> QED BY <2>1, <2>2
  <1>6. ASSUME NEW q \in Proc, NEW g \in File PROVE KnowsMap(q, g)'
    <2>1. /\ KnowsMap(q, g) /\ IsOpen(q, g)' = IsOpen(q, g)
          /\ Exclusive(q, g)' = Exclusive(q, g) /\ Dropping(q, g)' = Dropping(q, g)
      BY <1>1 DEF MapInv, IsOpen, Exclusive, EntryOf, Dropping
    <2>2. CASE g = f
      BY <1>1, <1>3, <2>1, <2>2 DEF KnowsMap
    <2>3. CASE g # f
      BY <1>1, <1>4, <2>1, <2>3 DEF KnowsMap
    <2> QED BY <2>2, <2>3
  <1> QED BY <1>5, <1>6 DEF MapInv

LEMMA MapNext ==
  ASSUME IInv, IInv', MapInv, "stalehead" \notin Ops, [Next]_vars
  PROVE  MapInv'
  <1>1. CASE UNCHANGED vars
    BY <1>1 DEF vars, table, users, MapInv, FlushGood, KnowsMap, IsOpen, Exclusive, EntryOf,
       Dropping
  <1>2. ASSUME NEW p \in Proc, NEW f \in File,
               \/ OpenAgain(p, f) \/ ReadHeader(p, f)
               \/ Flush(p, f) \/ CloseVariable(p, f) \/ CloseCached(p, f)
               \/ SetExclusive(p, f) \/ ChangeHeader(p, f)
               \/ Change(p, f) \/ ReadCached(p, f) \/ Read(p, f)
               \/ Shutdown(p, f)
        PROVE  MapInv'
    BY <1>2, MapUnopened, MapFlush, MapClosing, MapChanged
  <1>3. ASSUME NEW p \in Proc,
               \/ JoinEntry(p) \/ NewEntry(p) \/ OpenFails(p)
               \/ WriteHeader(p) \/ DropReference(p) \/ CacheRecord(p)
               \/ Login(p) \/ Logout(p) \/ Exit(p)
               \/ Die(p) \/ RemoveUser(p)
        PROVE  MapInv'
    BY <1>3, MapOpened, MapGone, MapWritten, MapDropped
  <1> QED BY <1>1, <1>2, <1>3 DEF Next

LEMMA MapInit == Init => MapInv
  BY DEF Init, MapInv, FlushGood, KnowsMap, IsOpen, Idle

\* The indices and the trigger of a file that a process has open are those
\* that its header has: while a header is on its way to the disk the map in it
\* does not change, for who has exclusive access flushes nothing meanwhile.
\* It is to be opened with the header as it is.
THEOREM IndicesStayKnown ==
  ASSUME Orderly, "stalehead" \notin Ops
  PROVE  Spec => []IndicesKnown
  <1>1. MapInv => IndicesKnown
    <2> SUFFICES ASSUME MapInv, NEW p \in Proc, NEW f \in File, mode[p] = "run", IsOpen(p, f),
                        ~Exclusive(p, f), at[p].step \notin {"flush", "drop"}
                 PROVE  holds[p][f].map = disk[f].map
      BY DEF IndicesKnown
    <2>1. ~Dropping(p, f)
      BY DEF Dropping, Drop
    <2> QED BY <2>1 DEF MapInv, KnowsMap
  <1>2. IInv /\ IInv' /\ MapInv /\ [Next]_vars => MapInv'
    BY MapNext
  <1> QED BY <1>1, <1>2, MapInit, Invariance, PTL DEF Spec

-----------------------------------------------------------------------------
(* The parameters in the header *)

ParamsGood(c) == InUse(c) => entry[c].params = version[entry[c].file]

\* A header on its way to the disk may have been overtaken by changes: then the
\* disk is as old.
HeadGood(p) ==
  at[p].step = "flush" =>
    /\ at[p].head.params <= version[at[p].file]
    /\ at[p].head.params # version[at[p].file] =>
         disk[at[p].file].params # version[at[p].file]

OneFlusher == \A p, q \in Proc :
  at[p].step = "flush" /\ at[q].step = "flush" /\ at[p].file = at[q].file => p = q

\* Process p will flush the changes of file f, or is about to write them.
Pending(p, f) ==
  /\ mode[p] \in {"run", "shutdown"} /\ holds[p][f].updated
  /\ Dropping(p, f) => Flushing(p, f) /\ at[p].head.params = version[f]

Settled(f) == disk[f].params # version[f] => \E p \in Proc : Pending(p, f)

HeaderInv ==
  /\ \A c \in Cell : ParamsGood(c)
  /\ \A p \in Proc : HeadGood(p)
  /\ OneFlusher
  /\ \A f \in File : disk[f].params <= version[f] /\ Settled(f)

LEMMA HeaderStep ==
  ASSUME IInv, IInv', HeaderInv, NEW p \in Proc, Step(p), version' = version,
         \A f \in File : disk'[f].params = disk[f].params,
         \A c \in Cell : ParamsGood(c)',
         at'[p].step = "flush" =>
           /\ at'[p].head.params = version[at'[p].file]
           /\ \A q \in Proc : q # p => ~(at[q].step = "flush" /\ at[q].file = at'[p].file),
         \A f \in File : disk[f].params # version[f] /\ Pending(p, f) => Pending(p, f)'
  PROVE  HeaderInv'
  <1>1. OthersKept(p)
    BY Others DEF IInv
  <1>2. ASSUME NEW q \in Proc PROVE at'[q].step = "flush" => at'[q].file \in File
    BY PlaceFacts DEF IInv, TypeOK, Idle
  <1>3. \A f \in File : version[f] \in Nat
    BY DEF IInv, TypeOK
  <1>4. ASSUME NEW q \in Proc PROVE HeadGood(q)'
    <2>1. CASE q = p
      BY <1>2, <1>3, <2>1 DEF HeadGood
    <2>2. CASE q # p
      BY <1>1, <1>2, <2>2 DEF HeaderInv, HeadGood, OthersKept
    <2> QED BY <2>1, <2>2
  <1>5. OneFlusher'
    BY <1>1 DEF HeaderInv, OneFlusher, OthersKept
  <1>6. ASSUME NEW f \in File PROVE Settled(f)'
    <2> SUFFICES ASSUME disk'[f].params # version'[f] PROVE \E q \in Proc : Pending(q, f)'
      BY DEF Settled
    <2>1. disk[f].params # version[f]
      OBVIOUS
    <2>2. PICK q \in Proc : Pending(q, f)
      BY <2>1 DEF HeaderInv, Settled
    <2>3. CASE q = p
      BY <2>1, <2>2, <2>3
    <2>4. CASE q # p
      <3>1. at'[q] = at[q] /\ mode'[q] = mode[q] /\ holds'[q] = holds[q]
        BY <1>1, <2>4 DEF OthersKept
      <3> QED BY <2>2, <3>1 DEF Pending, Flushing, Dropping
    <2> QED BY <2>3, <2>4
  <1> QED BY <1>4, <1>5, <1>6 DEF HeaderInv

\* A step that does not begin to flush.
LEMMA HeaderQuiet ==
  ASSUME IInv, IInv', HeaderInv, NEW p \in Proc, Step(p), version' = version,
         \A f \in File : disk'[f].params = disk[f].params,
         ~NewEntry(p), \A f \in File : ~Change(p, f),
         at'[p].step # "flush",
         \A f \in File : disk[f].params # version[f] /\ Pending(p, f) =>
           mode'[p] \in {"run", "shutdown"} /\ holds'[p][f].updated /\ ~Dropping(p, f)'
  PROVE  HeaderInv'
  <1>1. TableOlder
    BY Older
  <1>2. ASSUME NEW c \in Cell PROVE ParamsGood(c)'
    BY <1>1 DEF ParamsGood, TableOlder, HeaderInv
  <1>3. ASSUME NEW f \in File, disk[f].params # version[f], Pending(p, f) PROVE Pending(p, f)'
    BY <1>3 DEF Pending
  <1> QED BY <1>2, <1>3, HeaderStep

LEMMA IdleDrops ==
  ASSUME NEW p \in Proc, at'[p].step \in {"idle", "opening", "caching"}
  PROVE  at'[p].step # "flush" /\ \A f : ~Dropping(p, f)'
  BY DEF Dropping, Drop

LEMMA HeaderUnopened ==
  ASSUME IInv, IInv', HeaderInv, NEW p \in Proc, NEW f \in File,
         \/ OpenAgain(p, f) \/ ReadHeader(p, f) \/ SetExclusive(p, f)
         \/ ChangeHeader(p, f) \/ ReadCached(p, f) \/ Read(p, f)
  PROVE  HeaderInv'
  <1>1. Step(p)
    BY DEF Step
  <1>2. /\ mode[p] = "run" /\ at[p].step = "idle" /\ UNCHANGED <<mode, version>>
        /\ \A c \in Cell : entry'[c].params = entry[c].params
        /\ used' = used
    <2>1. entry \in [Cell -> Entry]
      BY DEF IInv, TypeOK
    <2>2. CASE SetExclusive(p, f)
      BY <2>1, <2>2 DEF SetExclusive, Ready, Idle, Entry
    <2>3. CASE ~SetExclusive(p, f)
      BY <2>3 DEF OpenAgain, ReadHeader, ChangeHeader, ReadCached, Read, Ready, Idle, table
    <2> QED BY <2>2, <2>3
  <1>3. at'[p].step \in {"idle", "opening", "caching"}
    <2>1. at \in [Proc -> Place]
      BY DEF IInv, TypeOK
    <2>2. CASE ReadHeader(p, f) \/ Read(p, f)
      BY <2>1, <2>2 DEF ReadHeader, Read, Goto
    <2>3. CASE at' = at
      BY <1>2, <2>3
    <2> QED BY <2>2, <2>3 DEF OpenAgain, SetExclusive, ChangeHeader, ReadCached
  <1>4. ASSUME NEW g \in File PROVE holds'[p][g].updated = holds[p][g].updated
    <2>1. holds \in [Proc -> [File -> Hold]]
      BY DEF IInv, TypeOK
    <2>2. CASE OpenAgain(p, f)
      <3> DEFINE h == [holds[p][f] EXCEPT !.for = @ \cup {"var"}]
      <3>1. h.updated = holds[p][f].updated /\ holds' = [holds EXCEPT ![p][f] = h]
        BY <2>1, <2>2 DEF OpenAgain, SetHolds, Hold
      <3> HIDE DEF h
      <3> QED BY <2>1, <3>1
    <2>3. CASE holds' = holds
      BY <2>3
    <2> QED BY <2>2, <2>3 DEF ReadHeader, SetExclusive, ChangeHeader, ReadCached, Read
  <1>5. ASSUME NEW g \in File PROVE disk'[g].params = disk[g].params
    <2>1. disk \in [File -> HeaderRec]
      BY DEF IInv, TypeOK
    <2>2. CASE ChangeHeader(p, f)
      BY <2>1, <2>2 DEF ChangeHeader, HeaderRec
    <2>3. CASE disk' = disk
      BY <2>3
    <2> QED BY <2>2, <2>3 DEF OpenAgain, ReadHeader, SetExclusive, ReadCached, Read
  <1>6. ASSUME NEW c \in Cell PROVE ParamsGood(c)'
    <2>1. CASE entry' = entry
      BY <1>2, <2>1 DEF HeaderInv, ParamsGood, InUse
    <2>2. CASE SetExclusive(p, f)
      <3>1. IsOpen(p, f)
        BY <2>2 DEF SetExclusive, IsOpen, Closed
      <3>2. holds[p][f].cell \in Cell /\ InUse(holds[p][f].cell) /\ entry \in [Cell -> Entry]
        BY <3>1, CellFacts DEF IInv, TypeOK
      <3>3. entry'[c].file = entry[c].file /\ (InUse(c)' => InUse(c))
        BY <2>2, <3>2 DEF SetExclusive, InUse, Entry
      <3> QED BY <1>2, <3>3 DEF HeaderInv, ParamsGood
    <2> QED BY <2>1, <2>2 DEF OpenAgain, ReadHeader, ChangeHeader, ReadCached, Read, table
  <1>7. ASSUME NEW g \in File, Pending(p, g) PROVE Pending(p, g)'
    BY <1>2, <1>3, <1>4, <1>7, IdleDrops DEF Pending
  <1> QED BY <1>1, <1>2, <1>3, <1>5, <1>6, <1>7, IdleDrops, HeaderStep

LEMMA HeaderOpened ==
  ASSUME IInv, IInv', HeaderInv, NEW p \in Proc, JoinEntry(p) \/ NewEntry(p),
         "stalehead" \notin Ops
  PROVE  HeaderInv'
  <1>1. Opening(p)
    BY DEF JoinEntry, NewEntry
  <1>2. mode[p] = "run" /\ at[p].step = "opening" /\ at[p].file \in File
    BY <1>1, PlaceFacts DEF Opening, IInv, TypeOK, Idle
  <1>3. PICK c : Opened(p, c)
    BY DEF JoinEntry, NewEntry
  <1>4. at'[p] = Idle /\ UNCHANGED <<mode, disk, version>>
    BY <1>3 DEF Opened, Goto, IInv, TypeOK
  <1>5. \A g \in File : g # at[p].file => holds'[p][g] = holds[p][g]
    BY <1>2, <1>3 DEF Opened, SetHolds, IInv, TypeOK
  <1>6. at'[p].step = "idle" /\ Step(p)
    BY <1>4 DEF Idle, Step
  <1>7. ASSUME NEW g \in File, Pending(p, g) PROVE Pending(p, g)'
    <2>1. ~IsOpen(p, at[p].file)
      BY <1>2 DEF IInv, PlaceOK, PlaceGood
    <2>2. g # at[p].file
      BY <1>7, <2>1 DEF IsOpen, Closed, Pending
    <2> QED BY <1>4, <1>5, <1>6, <1>7, <2>2, IdleDrops DEF Pending
  <1>8. ASSUME NEW d \in Cell PROVE ParamsGood(d)'
    <2>1. CASE ~NewEntry(p)
      <3>1. \A f \in File : ~Change(p, f)
        BY <1>2 DEF Change, Ready, Idle
      <3>2. TableOlder
        BY <1>6, <2>1, <3>1, Older
      <3> QED BY <1>4, <3>2 DEF TableOlder, ParamsGood, HeaderInv
    <2>2. CASE NewEntry(p)
      <3> DEFINE n == [refs |-> 1, file |-> at[p].file, params |-> HeadOf(p).params, upd |-> 1]
      <3>1. PICK e : entry' = [entry EXCEPT ![e] = n]
        BY <2>2, Zenon DEF NewEntry
      <3>2. CellsOf(at[p].file) = {} /\ HeadOf(p) = disk[at[p].file]
        BY <2>2 DEF NewEntry, StaleHead
      <3>3. disk[at[p].file].params = version[at[p].file]
        <4>1. ASSUME NEW q \in Proc, Pending(q, at[p].file) PROVE FALSE
          <5>1. IsOpen(q, at[p].file)
            BY <4>1 DEF Pending, IsOpen, Closed
          <5> QED BY <1>2, <3>2, <5>1 DEF IInv, HoldsOK, HoldsGood
        <4> QED BY <1>2, <4>1 DEF HeaderInv, Settled
      <3>4. n.params = version[n.file]
        BY <3>2, <3>3
      <3>5. entry'[d] = entry[d] \/ entry'[d] = n
        BY <3>1 DEF IInv, TypeOK
      <3> HIDE DEF n
      <3> QED BY <1>4, <3>4, <3>5 DEF HeaderInv, ParamsGood, InUse
    <2> QED BY <2>1, <2>2
  <1> QED BY <1>4, <1>6, <1>7, <1>8, IdleDrops, HeaderStep

LEMMA HeaderGone ==
  ASSUME IInv, IInv', HeaderInv, NEW p \in Proc, "dieupdated" \notin Ops,
         \/ OpenFails(p) \/ CacheRecord(p) \/ Login(p) \/ Logout(p)
         \/ Exit(p) \/ Die(p) \/ RemoveUser(p)
  PROVE  HeaderInv'
  <1>1. Step(p) /\ UNCHANGED <<disk, version>>
    BY DEF Step, OpenFails, CacheRecord, Login, Logout, Exit, Die, RemoveUser
  <1>2. ~NewEntry(p) /\ \A f \in File : ~Change(p, f)
    <2>1. CASE OpenFails(p) \/ CacheRecord(p)
      <3>1. at[p].step \in {"opening", "caching"} /\ used' = used /\ fileMap' = fileMap
            /\ holds' = holds /\ version' = version
        BY <2>1 DEF OpenFails, CacheRecord, Opening, table, users
      <3>2. \A f \in File : ~Change(p, f)
        BY <3>1 DEF Change, Ready, Idle
      <3>3. ASSUME NewEntry(p) PROVE FALSE
        <4>1. PICK c : Opened(p, c)
          BY <3>3 DEF NewEntry
        <4>2. at[p].step = "opening" /\ at[p].file \in File /\ ~IsOpen(p, at[p].file)
          BY <3>3, PlaceFacts DEF NewEntry, Opening, IInv, TypeOK, PlaceOK, PlaceGood, Idle
        <4>3. holds'[p][at[p].file].for # {}
          <5>1. PICK for \in {{"var"}, {"var", "cache"}} :
                  SetHolds(p, at[p].file, [for |-> for, cell |-> c, map |-> HeadOf(p).map,
                                           updated |-> FALSE])
            BY <4>1 DEF Opened
          <5> DEFINE h == [for |-> for, cell |-> c, map |-> HeadOf(p).map, updated |-> FALSE]
          <5>2. h.for # {} /\ holds' = [holds EXCEPT ![p][at[p].file] = h]
            BY <5>1 DEF SetHolds
          <5> HIDE DEF h
          <5> QED BY <4>2, <5>2 DEF IInv, TypeOK
        <4> QED BY <3>1, <4>2, <4>3 DEF IsOpen, Closed
      <3> QED BY <3>2, <3>3
    <2>2. CASE mode'[p] # mode[p]
      BY <2>2 DEF NewEntry, Opened, Change
    <2>3. Login(p) \/ Logout(p) \/ Exit(p) \/ Die(p) \/ RemoveUser(p) => mode'[p] # mode[p]
      BY DEF Login, Logout, Ready, Exit, Die, RemoveUser, Gone, IInv, TypeOK
    <2> QED BY <2>1, <2>2, <2>3
  <1>3. at'[p].step = "idle"
    <2>1. at \in [Proc -> Place] /\ Idle.step = "idle"
      BY DEF IInv, TypeOK, Idle
    <2>2. CASE OpenFails(p) \/ CacheRecord(p)
      BY <2>1, <2>2 DEF OpenFails, CacheRecord, Goto
    <2>3. CASE Login(p) \/ Logout(p)
      BY <2>1, <2>3 DEF Login, Logout, Ready, IInv, PlaceOK, PlaceGood
    <2>4. CASE Exit(p) \/ Die(p) \/ RemoveUser(p)
      BY <2>1, <2>4 DEF Exit, Die, RemoveUser, Gone
    <2> QED BY <2>2, <2>3, <2>4
  <1>4. ASSUME NEW f \in File, disk[f].params # version[f], Pending(p, f)
        PROVE  mode'[p] \in {"run", "shutdown"} /\ holds'[p][f].updated
    <2>1. mode[p] \in {"run", "shutdown"} /\ holds[p][f].updated /\ IsOpen(p, f)
      BY <1>4 DEF Pending, IsOpen, Closed
    <2>2. Unflushed(p)
      BY <1>4, <2>1 DEF Unflushed
    <2>3. OpenFails(p) \/ CacheRecord(p) \/ Logout(p)
      BY <2>1, <2>2 DEF Login, Exit, Die, RemoveUser
    <2>4. CASE OpenFails(p) \/ CacheRecord(p)
      BY <2>1, <2>4 DEF OpenFails, CacheRecord
    <2>5. CASE Logout(p)
      BY <2>1, <2>5 DEF Logout, IInv, TypeOK
    <2> QED BY <2>3, <2>4, <2>5
  <1>5. at'[p].step # "flush" /\ \A f \in File : ~Dropping(p, f)'
    BY <1>3, IdleDrops
  <1> QED BY <1>1, <1>2, <1>4, <1>5, HeaderQuiet

LEMMA HeaderDropped ==
  ASSUME IInv, IInv', HeaderInv, NEW p \in Proc, DropReference(p)
  PROVE  HeaderInv'
  <1>1. /\ at[p].step = "drop" /\ mode[p] \in {"run", "shutdown"}
        /\ SetHolds(p, at[p].file, Closed) /\ Goto(p, Idle)
        /\ UNCHANGED <<mode, disk, version>>
    BY DEF DropReference
  <1>2. at[p].file \in File /\ at[p] = Drop(at[p].file)
    BY <1>1, PlaceFacts DEF IInv, TypeOK, Idle
  <1>3. \A g \in File : g # at[p].file => holds'[p][g] = holds[p][g]
    BY <1>1, <1>2, SetHoldsEffect, ClosedIsHold DEF IInv
  <1>4. at'[p].step = "idle"
    BY <1>1 DEF Goto, IInv, TypeOK, Idle
  <1>5. Step(p) /\ ~NewEntry(p) /\ \A f \in File : ~Change(p, f)
    BY <1>1 DEF Step, NewEntry, Opening, Change, Ready, Idle
  <1>6. ASSUME NEW f \in File, Pending(p, f)
        PROVE  mode'[p] \in {"run", "shutdown"} /\ holds'[p][f].updated
    <2>1. ~Flushing(p, f)
      BY <1>1 DEF Flushing
    <2>2. ~Dropping(p, f)
      BY <1>6, <2>1 DEF Pending
    <2>3. f # at[p].file
      BY <1>2, <2>2 DEF Dropping
    <2> QED BY <1>1, <1>3, <1>6, <2>3 DEF Pending
  <1>7. at'[p].step # "flush" /\ \A f \in File : ~Dropping(p, f)'
    BY <1>4, IdleDrops
  <1>8. \A f \in File : disk'[f].params = disk[f].params
    BY <1>1
  <1>9. version' = version
    BY <1>1
  <1> QED BY <1>5, <1>6, <1>7, <1>8, <1>9, HeaderQuiet

LEMMA CurrentParams ==
  ASSUME IInv, HeaderInv, NEW p \in Proc, NEW f \in File, IsOpen(p, f)
  PROVE  EntryOf(p, f).params = version[f]
  BY CellFacts DEF IInv, HeaderInv, ParamsGood, EntryOf

LEMMA NoOtherFlusher ==
  ASSUME IInv, NEW p \in Proc, NEW f \in File, MayFlush(p, f), "overlap" \notin Ops,
         NEW q \in Proc, q # p
  PROVE  ~(at[q].step = "flush" /\ at[q].file = f)
  <1>1. mode[q] = "out" => at[q].step = "idle"
    BY DEF IInv, PlaceOK, PlaceGood, Idle
  <1> QED BY <1>1 DEF MayFlush, Flushing

LEMMA HeaderClosing ==
  ASSUME IInv, IInv', HeaderInv, NEW p \in Proc, NEW f \in File, "overlap" \notin Ops,
         CloseVariable(p, f) \/ CloseCached(p, f) \/ Shutdown(p, f)
  PROVE  HeaderInv'
  <1>1. PICK next : ClosesFile(p, f, next)
    BY Closes
  <1>2. Step(p) /\ version' = version /\ at[p] = Idle /\ disk' = disk
    BY <1>1 DEF Step, ClosesFile
  <1>3. ~NewEntry(p) /\ \A g \in File : ~Change(p, g)
    <2>1. ~NewEntry(p)
      BY <1>2 DEF NewEntry, Opening, Idle
    <2>2. ASSUME NEW g \in File, Change(p, g) PROVE FALSE
      <3>1. version'[g] # version[g]
        BY <2>2 DEF Change, IInv, TypeOK
      <3> QED BY <1>2, <3>1
    <2> QED BY <2>1, <2>2
  <1>4. ASSUME NEW c \in Cell PROVE ParamsGood(c)'
    <2>1. TableOlder
      BY <1>2, <1>3, Older
    <2> QED BY <1>2, <2>1 DEF TableOlder, ParamsGood, HeaderInv
  <1>5. /\ IsOpen(p, f) /\ mode'[p] \in {"run", "shutdown"} /\ next \in {Idle, Drop(f)}
        /\ holds'[p][f].updated
        /\ \A g \in File : g # f => holds'[p][g] = holds[p][g]
        /\ at'[p] = IF holds[p][f].updated THEN FlushPlace(p, f, next) ELSE next
    BY <1>1 DEF ClosesFile
  <1>6. CASE holds[p][f].updated
    <2>1. /\ at'[p].step = "flush" /\ at'[p].file = f /\ at'[p].next = next
          /\ at'[p].head.params = version[f]
      BY <1>5, <1>6, FlushPlaceFacts, CurrentParams
    <2>2. MayFlush(p, f)
      BY <1>6 DEF CloseVariable, CloseCached, Shutdown, CloseDH, StartFlush
    <2>3. ASSUME NEW q \in Proc, q # p PROVE ~(at[q].step = "flush" /\ at[q].file = at'[p].file)
      BY <2>1, <2>2, <2>3, NoOtherFlusher
    <2>4. ASSUME NEW g \in File, Pending(p, g) PROVE Pending(p, g)'
      <3>1. CASE g = f
        BY <1>2, <1>5, <2>1, <3>1 DEF Pending, Flushing
      <3>2. CASE g # f
        <4>1. ~Dropping(p, g)'
          BY <1>5, <2>1, <3>2 DEF Dropping, Idle, Drop
        <4> QED BY <1>5, <2>4, <3>2, <4>1 DEF Pending
      <3> QED BY <3>1, <3>2
    <2> QED BY <1>2, <1>4, <2>1, <2>3, <2>4, HeaderStep
  <1>7. CASE ~holds[p][f].updated
    <2>1. at'[p] = next /\ at'[p].step # "flush"
      BY <1>5, <1>7 DEF Idle, Drop
    <2>2. ASSUME NEW g \in File, Pending(p, g) PROVE Pending(p, g)'
      <3>1. g # f
        BY <1>7, <2>2 DEF Pending
      <3>2. ~Dropping(p, g)'
        BY <1>5, <2>1, <3>1 DEF Dropping, Idle, Drop
      <3> QED BY <1>5, <2>2, <3>1, <3>2 DEF Pending
    <2> QED BY <1>2, <1>4, <2>1, <2>2, HeaderStep
  <1> QED BY <1>6, <1>7

LEMMA HeaderFlush ==
  ASSUME IInv, IInv', HeaderInv, NEW p \in Proc, NEW f \in File, "overlap" \notin Ops,
         Flush(p, f)
  PROVE  HeaderInv'
  <1>1. /\ mode[p] = "run" /\ at[p] = Idle /\ IsOpen(p, f) /\ MayFlush(p, f)
        /\ UNCHANGED <<entry, mode, holds, disk, version>>
    BY DEF Flush, StartFlush, Ready, IsOpen, Closed, table
  <1>2. at'[p] = FlushPlace(p, f, Idle)
    BY DEF Flush, StartFlush, FlushPlace, Goto, IInv, TypeOK
  <1>3. /\ at'[p].step = "flush" /\ at'[p].file = f /\ at'[p].next = Idle
        /\ at'[p].head.params = version[f]
    BY <1>1, <1>2, FlushPlaceFacts, CurrentParams
  <1>4. ASSUME NEW q \in Proc, q # p PROVE ~(at[q].step = "flush" /\ at[q].file = at'[p].file)
    BY <1>1, <1>3, <1>4, NoOtherFlusher
  <1>5. ASSUME NEW g \in File, Pending(p, g) PROVE Pending(p, g)'
    <2>1. ~Dropping(p, g)'
      BY <1>3 DEF Dropping, Idle, Drop
    <2> QED BY <1>1, <1>5, <2>1 DEF Pending
  <1>6. \A c \in Cell : ParamsGood(c)'
    BY <1>1 DEF HeaderInv, ParamsGood, InUse
  <1>7. Step(p) /\ version' = version /\ \A g \in File : disk'[g].params = disk[g].params
    BY <1>1 DEF Step
  <1> QED BY <1>3, <1>4, <1>5, <1>6, <1>7, HeaderStep

\* What is written is what the table had, unless someone else has changed it
\* since and will write it again.
LEMMA HeaderWritten ==
  ASSUME IInv, IInv', HeaderInv, NEW p \in Proc, WriteHeader(p)
  PROVE  HeaderInv'
  <1> DEFINE f == at[p].file
  <1>1. /\ at[p].step = "flush" /\ at[p] \in Place /\ f \in File /\ at[p].next \in After
        /\ at[p].head \in HeaderRec
    BY PlaceFacts DEF WriteHeader, IInv, TypeOK, Idle
  <1>2. disk' = [disk EXCEPT ![f] = at[p].head] /\ disk \in [File -> HeaderRec]
    BY DEF WriteHeader, IInv, TypeOK
  <1>3. /\ at'[p] = at[p].next /\ UNCHANGED <<entry, mode, holds, version>>
        /\ \A q \in Proc : q # p => at'[q] = at[q]
    BY DEF WriteHeader, Goto, IInv, TypeOK, table
  <1>4. disk'[f].params = at[p].head.params /\ \A g \in File : g # f => disk'[g] = disk[g]
    BY <1>1, <1>2
  <1>5. HeadGood(p) /\ at'[p].step # "flush"
    BY <1>1, <1>3 DEF HeaderInv, After, Idle
  <1> HIDE DEF f
  <1>6. ASSUME NEW q \in Proc PROVE HeadGood(q)'
    <2>1. CASE q = p
      BY <1>5, <2>1 DEF HeadGood
    <2>2. CASE q # p
      <3>1. at[q].step = "flush" => at[q].file \in File /\ at[q].file # f
        BY <1>1, <2>2, PlaceFacts DEF HeaderInv, OneFlusher, IInv, TypeOK, Idle, f
      <3> QED BY <1>3, <1>4, <2>2, <3>1 DEF HeaderInv, HeadGood
    <2> QED BY <2>1, <2>2
  <1>7. OneFlusher'
    BY <1>3, <1>5 DEF HeaderInv, OneFlusher
  <1>8. ASSUME NEW g \in File PROVE disk'[g].params <= version'[g]
    <2>1. CASE g = f
      BY <1>1, <1>3, <1>4, <1>5, <2>1 DEF HeadGood, f
    <2>2. CASE g # f
      BY <1>3, <1>4, <2>2 DEF HeaderInv
    <2> QED BY <2>1, <2>2
  <1>9. ASSUME NEW g \in File, disk'[g].params # version'[g] PROVE \E q \in Proc : Pending(q, g)'
    <2>1. disk[g].params # version[g]
      BY <1>1, <1>3, <1>4, <1>5, <1>9 DEF HeadGood, f
    <2>2. PICK q \in Proc : Pending(q, g)
      BY <2>1 DEF HeaderInv, Settled
    <2>3. CASE q # p
      BY <1>3, <2>2, <2>3 DEF Pending, Flushing, Dropping
    <2>4. CASE q = p
      <3>1. ~Dropping(p, g)
        BY <1>1, <1>3, <1>4, <1>9, <2>2, <2>4 DEF Pending, Flushing, f
      <3>2. ~Dropping(p, g)'
        BY <1>1, <1>3, <1>5, <3>1 DEF Dropping
      <3> QED BY <1>3, <2>2, <2>4, <3>2 DEF Pending
    <2> QED BY <2>3, <2>4
  <1>10. \A c \in Cell : ParamsGood(c)'
    BY <1>3 DEF HeaderInv, ParamsGood, InUse
  <1> QED BY <1>6, <1>7, <1>8, <1>9, <1>10 DEF HeaderInv, Settled

\* What a change does to the table and to the process that makes it.
LEMMA ChangeEffect ==
  ASSUME IInv, NEW p \in Proc, NEW f \in File, Change(p, f)
  PROVE  /\ IsOpen(p, f) /\ mode[p] = "run" /\ at[p] = Idle
         /\ UNCHANGED <<mode, at, disk, cache>>
         /\ version' = [version EXCEPT ![f] = @ + 1] /\ holds'[p][f].updated
         /\ \A q \in Proc, g \in File : q # p \/ g # f => holds'[q][g] = holds[q][g]
         /\ \A d \in Cell : d # holds[p][f].cell => entry'[d] = entry[d]
         /\ entry'[holds[p][f].cell].params = EntryOf(p, f).params + 1
         /\ entry'[holds[p][f].cell].upd = EntryOf(p, f).upd + 1
         /\ entry'[holds[p][f].cell].file = f
  <1> DEFINE c == holds[p][f].cell
             h == [holds[p][f] EXCEPT !.updated = TRUE]
  <1>1. /\ IsOpen(p, f) /\ mode[p] = "run" /\ at[p] = Idle
        /\ UNCHANGED <<mode, at, disk, cache>>
        /\ version' = [version EXCEPT ![f] = @ + 1]
    BY DEF Change, IsOpen, Closed, Ready
  <1>2. h \in Hold /\ h.updated
    <2>1. holds[p][f] \in Hold
      BY DEF IInv, TypeOK
    <2> QED BY <2>1 DEF Hold
  <1>3. SetHolds(p, f, h)
    BY DEF Change
  <1> HIDE DEF h
  <1>4. holds'[p][f].updated
        /\ \A q \in Proc, g \in File : q # p \/ g # f => holds'[q][g] = holds[q][g]
    BY <1>2, <1>3, SetHoldsEffect DEF IInv
  <1>5. c \in Cell /\ entry[c] \in Entry /\ entry[c].file = f /\ entry \in [Cell -> Entry]
    BY <1>1, CellFacts DEF IInv, TypeOK
  <1>6. entry' = [entry EXCEPT ![c].params = @ + 1, ![c].upd = @ + 1]
    BY Zenon DEF Change
  <1> HIDE DEF c
  <1> DEFINE one == [entry EXCEPT ![c].params = @ + 1]
             x == [entry[c] EXCEPT !.params = @ + 1]
  <1>7. /\ one \in [Cell -> Entry] /\ one[c] = x
        /\ \A d \in Cell : d # c => one[d] = entry[d]
    <2>1. x \in Entry
      BY <1>5 DEF Entry
    <2> QED BY <1>5, <2>1
  <1>8. /\ x.params = entry[c].params + 1 /\ x.upd = entry[c].upd /\ x.file = entry[c].file
        /\ x \in Entry
    BY <1>5 DEF Entry
  <1>9. entry' = [one EXCEPT ![c].upd = @ + 1]
    BY <1>6
  <1> HIDE DEF one, x
  <1>10. \A d \in Cell : d # c => entry'[d] = entry[d]
    BY <1>5, <1>7, <1>9
  <1>11. entry'[c] = [x EXCEPT !.upd = x.upd + 1]
    BY <1>5, <1>7, <1>9
  <1>12. /\ entry'[c].params = entry[c].params + 1 /\ entry'[c].upd = entry[c].upd + 1
         /\ entry'[c].file = entry[c].file
    BY <1>8, <1>11 DEF Entry
  <1> QED BY <1>1, <1>4, <1>5, <1>10, <1>12 DEF c, EntryOf

LEMMA HeaderChange ==
  ASSUME IInv, IInv', HeaderInv, NEW p \in Proc, NEW f \in File, Change(p, f)
  PROVE  HeaderInv'
  <1>1. /\ IsOpen(p, f) /\ mode[p] = "run" /\ at[p] = Idle /\ UNCHANGED <<mode, at, disk>>
        /\ holds'[p][f].updated
        /\ \A q \in Proc, g \in File : q # p \/ g # f => holds'[q][g] = holds[q][g]
    BY ChangeEffect
  <1>2. \A g \in File : version[g] \in Nat /\ version'[g] = IF g = f THEN version[g] + 1 ELSE version[g]
    BY ChangeEffect DEF IInv, TypeOK
  <1>3. \A g \in File : disk[g].params \in Nat
    BY DEF IInv, TypeOK, HeaderRec
  <1>4. ASSUME NEW c \in Cell, InUse(c)' PROVE entry'[c].params = version'[entry'[c].file]
    <2>1. CASE c = holds[p][f].cell
      BY <1>1, <1>2, <2>1, ChangeEffect, CurrentParams
    <2>2. CASE c # holds[p][f].cell
      <3>1. entry'[c] = entry[c] /\ InUse(c)
        BY <1>4, <2>2, ChangeEffect DEF InUse
      <3>2. entry[c].file \in File /\ entry[c].file # f
        BY <1>1, <2>2, <3>1, CellFacts DEF IInv, EntryOK
      <3> QED BY <1>2, <3>1, <3>2 DEF HeaderInv, ParamsGood
    <2> QED BY <2>1, <2>2
  <1>5. ASSUME NEW q \in Proc, at[q].step = "flush"
        PROVE  /\ at[q].head.params <= version'[at[q].file]
               /\ at[q].head.params # version'[at[q].file] =>
                    disk[at[q].file].params # version'[at[q].file]
    <2>1. at[q].file \in File /\ at[q].head.params \in Nat
      BY <1>5, PlaceFacts DEF IInv, TypeOK, Idle, HeaderRec
    <2>2. /\ at[q].head.params <= version[at[q].file]
          /\ at[q].head.params # version[at[q].file] =>
               disk[at[q].file].params # version[at[q].file]
          /\ disk[at[q].file].params <= version[at[q].file]
      BY <1>5, <2>1 DEF HeaderInv, HeadGood
    <2> QED BY <1>2, <1>3, <2>1, <2>2
  <1>6. ASSUME NEW g \in File PROVE disk[g].params <= version'[g]
    BY <1>2, <1>3 DEF HeaderInv
  <1>7. ASSUME NEW g \in File, disk[g].params # version'[g] PROVE \E q \in Proc : Pending(q, g)'
    <2>1. CASE g = f
      <3>1. ~Dropping(p, f)'
        BY <1>1, IdleFacts DEF Idle, Dropping, Drop
      <3> QED BY <1>1, <2>1, <3>1 DEF Pending
    <2>2. CASE g # f
      <3>1. version'[g] = version[g]
        BY <1>2, <2>2
      <3>2. PICK q \in Proc : Pending(q, g)
        BY <1>7, <3>1 DEF HeaderInv, Settled
      <3> QED BY <1>1, <2>2, <3>1, <3>2 DEF Pending, Dropping, Flushing
    <2> QED BY <2>1, <2>2
  <1>8. \A c \in Cell : ParamsGood(c)'
    BY <1>4 DEF ParamsGood
  <1>9. (\A q \in Proc : HeadGood(q)') /\ OneFlusher'
    BY <1>1, <1>5 DEF HeadGood, HeaderInv, OneFlusher
  <1> QED BY <1>1, <1>6, <1>7, <1>8, <1>9 DEF HeaderInv, Settled

\* The conditions under which no change of the header's parameters is lost.
Recorded == Ops \cap {"dieupdated", "stalehead", "overlap"} = {}

LEMMA HeaderNext ==
  ASSUME IInv, IInv', HeaderInv, Recorded, [Next]_vars
  PROVE  HeaderInv'
  <1>0. "dieupdated" \notin Ops /\ "stalehead" \notin Ops /\ "overlap" \notin Ops
    BY DEF Recorded
  <1>1. CASE UNCHANGED vars
    BY <1>1 DEF vars, table, users, HeaderInv, ParamsGood, HeadGood, OneFlusher, Settled,
       Pending, Dropping, Flushing, InUse
  <1>2. ASSUME NEW p \in Proc, NEW f \in File,
               \/ OpenAgain(p, f) \/ ReadHeader(p, f)
               \/ Flush(p, f) \/ CloseVariable(p, f) \/ CloseCached(p, f)
               \/ SetExclusive(p, f) \/ ChangeHeader(p, f)
               \/ Change(p, f) \/ ReadCached(p, f) \/ Read(p, f)
               \/ Shutdown(p, f)
        PROVE  HeaderInv'
    BY <1>0, <1>2, HeaderUnopened, HeaderFlush, HeaderClosing, HeaderChange
  <1>3. ASSUME NEW p \in Proc,
               \/ JoinEntry(p) \/ NewEntry(p) \/ OpenFails(p)
               \/ WriteHeader(p) \/ DropReference(p) \/ CacheRecord(p)
               \/ Login(p) \/ Logout(p) \/ Exit(p)
               \/ Die(p) \/ RemoveUser(p)
        PROVE  HeaderInv'
    BY <1>0, <1>3, HeaderOpened, HeaderGone, HeaderWritten, HeaderDropped
  <1> QED BY <1>1, <1>2, <1>3 DEF Next

LEMMA HeaderInit == Init => HeaderInv
  BY DEF Init, HeaderInv, ParamsGood, HeadGood, OneFlusher, Settled, InUse, Free, Idle

\* The parameters of a file include all of its changes, in the table while the
\* file is open and on the disk when nobody has it open: as long as the disk is
\* behind there is a process that has yet to write what is in the table, and
\* whoever writes something older is not the last.  Nobody is to be killed
\* with changes that he has not flushed, to open a file with a header that has
\* changed since, or to flush a header while another process does so.
THEOREM HeaderStaysCurrent ==
  ASSUME Orderly, Recorded
  PROVE  Spec => []HeaderCurrent
  <1>1. IInv /\ HeaderInv => HeaderCurrent
    <2> SUFFICES ASSUME IInv, HeaderInv, NEW f \in File
                 PROVE  IF CellsOf(f) = {} THEN disk[f].params = version[f]
                        ELSE \A c \in CellsOf(f) : entry[c].params = version[f]
      BY DEF HeaderCurrent
    <2>1. ASSUME CellsOf(f) = {}, disk[f].params # version[f] PROVE FALSE
      <3>1. PICK q \in Proc : Pending(q, f)
        BY <2>1 DEF HeaderInv, Settled
      <3>2. IsOpen(q, f)
        BY <3>1 DEF Pending, IsOpen, Closed
      <3> QED BY <2>1, <3>2 DEF IInv, HoldsOK, HoldsGood
    <2>2. ASSUME NEW c \in CellsOf(f) PROVE entry[c].params = version[f]
      <3>1. c \in Cell /\ InUse(c) /\ entry[c].file = f
        BY FileTableAssumption DEF CellsOf, InUse, Cell, IInv, TypeOK
      <3> QED BY <3>1 DEF HeaderInv, ParamsGood
    <2> QED BY <2>1, <2>2
  <1>2. IInv /\ IInv' /\ HeaderInv /\ [Next]_vars => HeaderInv'
    BY HeaderNext
  <1> QED BY <1>1, <1>2, HeaderInit, Invariance, PTL DEF Spec

-----------------------------------------------------------------------------
(* The record cache *)

Known == [cell : Cell, upd : Nat, value : File \X Nat]

\* A record of a file that is in the table is the record as it is, unless the
\* file has changed since.
RecordGood(r) ==
  InUse(r.cell) =>
    /\ r.upd <= entry[r.cell].upd
    /\ r.upd = entry[r.cell].upd =>
         r.value = <<entry[r.cell].file, version[entry[r.cell].file]>>

\* As it is in the next state.
RecordNext(r) ==
  entry'[r.cell].refs # 0 =>
    /\ r.upd <= entry'[r.cell].upd
    /\ r.upd = entry'[r.cell].upd =>
         r.value = <<entry'[r.cell].file, version'[entry'[r.cell].file]>>

CacheGood(p) == \A i \in 1..Len(cache[p]) : RecordGood(cache[p][i])

\* So is a record on its way to the cache.
ReadGood(p) ==
  at[p].step = "caching" =>
    /\ IsOpen(p, at[p].file)
    /\ at[p].value = <<at[p].file, version[at[p].file]>>

CacheInv ==
  /\ cache \in [Proc -> Seq(Known)]
  /\ \A p \in Proc : CacheGood(p) /\ ReadGood(p)

LEMMA CacheStep ==
  ASSUME IInv, IInv', CacheInv, NEW p \in Proc, Step(p), TableOlder, version' = version,
         cache' \in [Proc -> Seq(Known)],
         \A q \in Proc : q # p => cache'[q] = cache[q],
         \A i \in 1..Len(cache'[p]) :
           \/ \E j \in 1..Len(cache[p]) : cache'[p][i] = cache[p][j]
           \/ RecordNext(cache'[p][i]),
         ReadGood(p)'
  PROVE  CacheInv'
  <1>1. OthersKept(p)
    BY Others DEF IInv
  <1>2. ASSUME NEW r \in Known, RecordGood(r) PROVE RecordNext(r)
    <2>1. r.cell \in Cell
      BY DEF Known
    <2> QED BY <1>2, <2>1 DEF RecordGood, RecordNext, TableOlder, InUse
  <1>3. ASSUME NEW q \in Proc PROVE CacheGood(q)'
    <2>1. ASSUME NEW j \in 1..Len(cache[q]) PROVE RecordNext(cache[q][j])
      <3>1. cache[q] \in Seq(Known) /\ RecordGood(cache[q][j])
        BY DEF CacheInv, CacheGood
      <3>2. cache[q][j] \in Known
        BY <3>1
      <3> QED BY <1>2, <3>1, <3>2
    <2>2. ASSUME NEW i \in 1..Len(cache'[q]) PROVE RecordNext(cache'[q][i])
      <3>1. CASE q # p
        BY <2>1, <3>1
      <3>2. CASE q = p
        BY <2>1, <3>2
      <3> QED BY <3>1, <3>2
    <2> QED BY <2>2 DEF CacheGood, RecordGood, RecordNext, InUse
  <1>4. ASSUME NEW q \in Proc PROVE ReadGood(q)'
    <2>1. CASE q = p
      BY <2>1
    <2>2. CASE q # p
      <3>1. at'[q] = at[q] /\ holds'[q] = holds[q] /\ ReadGood(q)
        BY <1>1, <2>2 DEF OthersKept, CacheInv
      <3> QED BY <3>1 DEF ReadGood, IsOpen
    <2> QED BY <2>1, <2>2
  <1> QED BY <1>3, <1>4 DEF CacheInv

LEMMA CacheQuiet ==
  ASSUME IInv, IInv', CacheInv, NEW p \in Proc, Step(p), TableOlder, version' = version,
         cache' = cache, at'[p].step # "caching"
  PROVE  CacheInv'
  <1>1. ReadGood(p)'
    BY DEF ReadGood
  <1>2. cache' \in [Proc -> Seq(Known)]
    BY DEF CacheInv
  <1> QED BY <1>1, <1>2, CacheStep

LEMMA LeastNat ==
  ASSUME NEW I \in SUBSET Nat, I # {}
  PROVE  \E i \in I : \A j \in I : i <= j
  <1>1. PICK i \in I : \A j \in I : <<j, i>> \notin OpToRel(<, Nat)
    BY NatLessThanWellFounded, WFMin
  <1>2. \A j \in I : i <= j
    <2> SUFFICES ASSUME NEW j \in I, j < i PROVE FALSE
      OBVIOUS
    <2>1. <<j, i>> \in Nat \X Nat /\ <<j, i>>[1] = j /\ <<j, i>>[2] = i
      OBVIOUS
    <2>2. <<j, i>> \in OpToRel(<, Nat)
      BY <2>1 DEF OpToRel
    <2> QED BY <1>1, <2>2
  <1> QED BY <1>2

LEMMA FirstMatchFound ==
  ASSUME NEW p \in Proc, NEW f \in File, Matches(p, f) # {}
  PROVE  FirstMatch(p, f) \in Matches(p, f)
  <1>1. Matches(p, f) \in SUBSET Nat
    BY DEF Matches
  <1>2. \E i \in Matches(p, f) : \A j \in Matches(p, f) : i <= j
    BY <1>1, LeastNat
  <1> QED BY <1>2 DEF FirstMatch

\* Sequence t has no elements but those of s.
Within(t, s) == \A i \in 1..Len(t) : \E j \in 1..Len(s) : t[i] = s[j]

LEMMA SubSeqWithin ==
  ASSUME NEW S, NEW s \in Seq(S), NEW m \in Nat \ {0}, NEW n \in Int, n <= Len(s)
  PROVE  SubSeq(s, m, n) \in Seq(S) /\ Within(SubSeq(s, m, n), s)
  <1>1. CASE n < m
    <2>1. SubSeq(s, m, n) = <<>>
      BY <1>1, SubSeqEmpty
    <2> QED BY <2>1 DEF Within
  <1>2. CASE n >= m
    <2>1. n \in 1..Len(s) /\ m \in 1..Len(s) /\ Len(s) \in Nat
      BY <1>2
    <2>2. PICK t : t = SubSeq(s, m, n)
      OBVIOUS
    <2>3. t \in Seq(S) /\ Len(t) = n - m + 1 /\ \A i \in 1..(n - m + 1) : t[i] = s[m + i - 1]
      BY <1>2, <2>1, <2>2, SubSeqProperties
    <2>4. \A i \in 1..(n - m + 1) : m + i - 1 \in 1..Len(s)
      BY <2>1
    <2> QED BY <2>2, <2>3, <2>4 DEF Within
  <1> QED BY <1>1, <1>2

LEMMA ConcatElements ==
  ASSUME NEW S, NEW s \in Seq(S), NEW t \in Seq(S)
  PROVE  /\ s \o t \in Seq(S)
         /\ \A i \in 1..Len(s \o t) : \/ \E j \in 1..Len(s) : (s \o t)[i] = s[j]
                                     \/ \E j \in 1..Len(t) : (s \o t)[i] = t[j]
  <1>1. PICK r : r = s \o t
    OBVIOUS
  <1>2. PICK m \in Nat, n \in Nat : m = Len(s) /\ n = Len(t)
    OBVIOUS
  <1>3. /\ r \in Seq(S) /\ Len(r) = m + n
        /\ \A i \in 1..m + n : r[i] = IF i <= m THEN s[i] ELSE t[i - m]
    BY <1>1, <1>2, ConcatProperties
  <1>4. ASSUME NEW i \in 1..m + n
        PROVE  (\E j \in 1..m : r[i] = s[j]) \/ (\E j \in 1..n : r[i] = t[j])
    <2>1. CASE i <= m
      BY <1>3, <2>1
    <2>2. CASE i > m
      <3>1. i - m \in 1..n /\ ~(i <= m)
        BY <2>2
      <3> QED BY <1>3, <3>1
    <2> QED BY <2>1, <2>2
  <1> QED BY <1>1, <1>2, <1>3, <1>4

LEMMA WithinConcat ==
  ASSUME NEW S, NEW s \in Seq(S), NEW c \in Seq(S), NEW d \in Seq(S),
         Within(c, s), Within(d, s)
  PROVE  d \o c \in Seq(S) /\ Within(d \o c, s)
  <1>1. PICK r : r = d \o c
    OBVIOUS
  <1>2. /\ r \in Seq(S)
        /\ \A i \in 1..Len(r) : (\E j \in 1..Len(d) : r[i] = d[j]) \/ (\E j \in 1..Len(c) : r[i] = c[j])
    BY <1>1, ConcatElements
  <1>3. /\ \A i \in 1..Len(c) : \E j \in 1..Len(s) : c[i] = s[j]
        /\ \A i \in 1..Len(d) : \E j \in 1..Len(s) : d[i] = s[j]
    BY DEF Within
  <1>4. ASSUME NEW i \in 1..Len(r) PROVE \E j \in 1..Len(s) : r[i] = s[j]
    <2>1. CASE \E j \in 1..Len(d) : r[i] = d[j]
      <3>1. PICK j \in 1..Len(d) : r[i] = d[j]
        BY <2>1
      <3>2. PICK m \in 1..Len(s) : d[j] = s[m]
        BY <1>3
      <3> QED BY <3>1, <3>2
    <2>2. CASE \E j \in 1..Len(c) : r[i] = c[j]
      <3>1. PICK j \in 1..Len(c) : r[i] = c[j]
        BY <2>2
      <3>2. PICK m \in 1..Len(s) : c[j] = s[m]
        BY <1>3
      <3> QED BY <3>1, <3>2
    <2> QED BY <1>2, <2>1, <2>2
  <1> QED BY <1>1, <1>2, <1>4 DEF Within

LEMMA ToHeadFacts ==
  ASSUME NEW S, NEW s \in Seq(S), NEW x \in 1..Len(s)
  PROVE  ToHead(s, x) \in Seq(S) /\ Within(ToHead(s, x), s)
  <1>1. PICK a : a = <<s[x]>>
    OBVIOUS
  <1>2. a \in Seq(S) /\ Within(a, s)
    BY <1>1 DEF Within
  <1>3. PICK b : b = SubSeq(s, 1, x - 1)
    OBVIOUS
  <1>4. b \in Seq(S) /\ Within(b, s)
    <2>1. x - 1 \in Int /\ x - 1 <= Len(s) /\ 1 \in Nat \ {0}
      OBVIOUS
    <2> QED BY <1>3, <2>1, SubSeqWithin
  <1>5. PICK c : c = SubSeq(s, x + 1, Len(s))
    OBVIOUS
  <1>6. c \in Seq(S) /\ Within(c, s)
    <2>1. x + 1 \in Nat \ {0} /\ Len(s) \in Int /\ Len(s) <= Len(s)
      OBVIOUS
    <2> QED BY <1>5, <2>1, SubSeqWithin
  <1>7. PICK d : d = a \o b
    OBVIOUS
  <1>8. d \in Seq(S) /\ Within(d, s)
    BY <1>2, <1>4, <1>7, WithinConcat
  <1>9. d \o c \in Seq(S) /\ Within(d \o c, s)
    BY <1>6, <1>8, WithinConcat
  <1> QED BY <1>1, <1>3, <1>5, <1>7, <1>9 DEF ToHead

LEMMA CacheRead ==
  ASSUME IInv, IInv', CacheInv, NEW p \in Proc, NEW f \in File, Read(p, f)
  PROVE  CacheInv'
  <1>1. /\ IsOpen(p, f) /\ UNCHANGED <<table, holds, cache, version>>
        /\ at[p].step = "idle"
    BY DEF Read, IsOpen, Closed, Ready, Idle
  <1>2. Step(p) /\ TableOlder
    BY <1>1 DEF Step, TableOlder, InUse, table
  <1>3. at'[p] = [step |-> "caching", file |-> f, value |-> <<f, version[f]>>]
    BY DEF Read, Goto, IInv, TypeOK
  <1>4. ReadGood(p)'
    BY <1>1, <1>3 DEF ReadGood, IsOpen
  <1>5. cache' \in [Proc -> Seq(Known)]
    BY <1>1 DEF CacheInv
  <1> QED BY <1>1, <1>2, <1>4, <1>5, CacheStep

LEMMA CacheHit ==
  ASSUME IInv, IInv', CacheInv, NEW p \in Proc, NEW f \in File, ReadCached(p, f)
  PROVE  CacheInv'
  <1> DEFINE s == cache[p]
             x == FirstMatch(p, f)
  <1>1. /\ Matches(p, f) # {} /\ UNCHANGED <<table, at, version>> /\ at[p] = Idle
        /\ cache' = [cache EXCEPT ![p] = ToHead(s, x)]
    BY DEF ReadCached, Ready
  <1>2. Step(p) /\ TableOlder
    BY <1>1 DEF Step, TableOlder, InUse, table
  <1>3. s \in Seq(Known) /\ x \in 1..Len(s)
    BY <1>1, FirstMatchFound DEF Matches, CacheInv
  <1> HIDE DEF s, x
  <1>4. ToHead(s, x) \in Seq(Known) /\ Within(ToHead(s, x), s)
    BY <1>3, ToHeadFacts
  <1>5. cache' \in [Proc -> Seq(Known)] /\ cache'[p] = ToHead(s, x)
        /\ \A q \in Proc : q # p => cache'[q] = cache[q]
    BY <1>1, <1>4 DEF CacheInv
  <1>6. \A i \in 1..Len(cache'[p]) : \E j \in 1..Len(cache[p]) : cache'[p][i] = cache[p][j]
    BY <1>4, <1>5 DEF s, Within
  <1>7. ReadGood(p)'
    BY <1>1 DEF ReadGood, Idle
  <1>8. version' = version
    BY <1>1
  <1> QED BY <1>2, <1>5, <1>6, <1>7, <1>8, CacheStep

\* What is in front of the head of a sequence, is of its elements but the first.
LEMMA FrontWithin ==
  ASSUME NEW S, NEW e \in S, NEW s \in Seq(S), NEW n \in Int, n <= Len(s)
  PROVE  /\ <<e>> \o SubSeq(s, 1, n) \in Seq(S)
         /\ \A i \in 1..Len(<<e>> \o SubSeq(s, 1, n)) :
              \/ (<<e>> \o SubSeq(s, 1, n))[i] = e
              \/ \E j \in 1..Len(s) : (<<e>> \o SubSeq(s, 1, n))[i] = s[j]
  <1>1. PICK t : t = SubSeq(s, 1, n)
    OBVIOUS
  <1>2. t \in Seq(S) /\ Within(t, s)
    BY <1>1, SubSeqWithin
  <1>3. PICK a : a = <<e>>
    OBVIOUS
  <1>4. a \in Seq(S) /\ Len(a) = 1 /\ a[1] = e
    BY <1>3
  <1>5. PICK r : r = a \o t
    OBVIOUS
  <1>6. PICK k \in Nat, m \in Nat : k = Len(a) /\ m = Len(t)
    BY <1>2, <1>4
  <1>7. r = <<e>> \o SubSeq(s, 1, n)
    BY <1>1, <1>3, <1>5
  <1>8. a \in Seq(S) /\ t \in Seq(S)
    BY <1>2, <1>4
  <1>9. /\ r \in Seq(S) /\ Len(r) = k + m
        /\ \A i \in 1..k + m : r[i] = IF i <= k THEN a[i] ELSE t[i - k]
    BY <1>5, <1>6, <1>8, ConcatProperties
  <1>10. k = 1
    BY <1>4, <1>6
  <1>11. ASSUME NEW i \in 1..1 + m PROVE r[i] = e \/ \E j \in 1..Len(s) : r[i] = s[j]
    <2>1. CASE i = 1
      BY <1>4, <1>9, <1>10, <2>1
    <2>2. CASE i # 1
      <3>1. i - 1 \in 1..m /\ ~(i <= 1)
        BY <2>2
      <3> QED BY <1>2, <1>6, <1>9, <1>10, <3>1 DEF Within
    <2> QED BY <2>1, <2>2
  <1> QED BY <1>7, <1>9, <1>10, <1>11

LEMMA CacheStored ==
  ASSUME IInv, IInv', CacheInv, NEW p \in Proc, CacheRecord(p)
  PROVE  CacheInv'
  <1> DEFINE f == at[p].file
             c == holds[p][f].cell
             e == [cell |-> c, upd |-> entry[c].upd, value |-> at[p].value]
             s == cache[p]
             n == IF Len(s) = CacheSize THEN CacheSize - 1 ELSE Len(s)
  <1>1. /\ at[p].step = "caching" /\ UNCHANGED <<table, version>>
        /\ cache' = [cache EXCEPT ![p] = <<e>> \o SubSeq(s, 1, n)]
    BY DEF CacheRecord
  <1>2. f \in File /\ at[p].value \in File \X Nat
    BY <1>1, PlaceFacts DEF IInv, TypeOK, Idle
  <1>3. IsOpen(p, f) /\ at[p].value = <<f, version[f]>>
    BY <1>1 DEF CacheInv, ReadGood
  <1>4. c \in Cell /\ InUse(c) /\ entry[c].file = f /\ entry[c].upd \in Nat
    BY <1>2, <1>3, CellFacts DEF IInv, TypeOK, Entry
  <1>5. e \in Known /\ e.cell = c /\ e.upd = entry[c].upd /\ e.value = <<f, version[f]>>
    BY <1>2, <1>3, <1>4 DEF Known
  <1>6. s \in Seq(Known) /\ n \in Int /\ n <= Len(s)
    <2>1. s \in Seq(Known) /\ CacheSize \in Nat
      BY FileTableAssumption DEF CacheInv
    <2> QED BY <2>1
  <1> HIDE DEF e, s, n
  <1>7. RecordNext(e)
    <2>1. entry' = entry /\ version' = version
      BY <1>1 DEF table
    <2>2. entry[e.cell].upd = e.upd /\ e.upd \in Nat
          /\ e.value = <<entry[e.cell].file, version[entry[e.cell].file]>>
      BY <1>4, <1>5
    <2> QED BY <2>1, <2>2 DEF RecordNext
  <1>8. /\ <<e>> \o SubSeq(s, 1, n) \in Seq(Known)
        /\ \A i \in 1..Len(<<e>> \o SubSeq(s, 1, n)) :
             \/ (<<e>> \o SubSeq(s, 1, n))[i] = e
             \/ \E j \in 1..Len(s) : (<<e>> \o SubSeq(s, 1, n))[i] = s[j]
    <2> QED BY <1>5, <1>6, FrontWithin
  <1>9. cache' \in [Proc -> Seq(Known)] /\ cache'[p] = <<e>> \o SubSeq(s, 1, n)
        /\ \A q \in Proc : q # p => cache'[q] = cache[q]
    BY <1>1, <1>8 DEF CacheInv
  <1>10. ASSUME NEW i \in 1..Len(cache'[p])
         PROVE  \/ \E j \in 1..Len(cache[p]) : cache'[p][i] = cache[p][j]
                \/ RecordNext(cache'[p][i])
    <2>1. CASE cache'[p][i] = e
      BY <1>7, <2>1
    <2>2. CASE \E j \in 1..Len(s) : cache'[p][i] = s[j]
      BY <2>2 DEF s
    <2> QED BY <1>8, <1>9, <2>1, <2>2
  <1>11. ReadGood(p)'
    BY DEF ReadGood, CacheRecord, Goto, IInv, TypeOK, Idle
  <1>12. Step(p) /\ TableOlder /\ version' = version
    BY <1>1 DEF Step, TableOlder, InUse, table
  <1> QED BY <1>9, <1>10, <1>11, <1>12, CacheStep

\* A cell that goes to another file is in no cache.
LEMMA CacheNewEntry ==
  ASSUME IInv, IInv', CacheInv, NEW p \in Proc, NewEntry(p), "reuse" \notin Ops
  PROVE  CacheInv'
  <1>1. Opening(p) /\ Step(p)
    BY DEF NewEntry, Step
  <1> DEFINE n == [refs |-> 1, file |-> at[p].file, params |-> HeadOf(p).params, upd |-> 1]
  <1>2. PICK e : /\ ~Remembered(e) /\ entry' = [entry EXCEPT ![e] = n]
                 /\ Opened(p, e)
    BY Zenon DEF NewEntry
  <1> HIDE DEF n
  <1>3. UNCHANGED <<cache, version>> /\ at'[p] = Idle
    BY <1>2 DEF Opened, Goto, IInv, TypeOK
  <1>4. \A d \in Cell : d # e => entry'[d] = entry[d]
    BY <1>2 DEF IInv, TypeOK
  <1>5. OthersKept(p)
    BY <1>1, Others DEF IInv
  <1>6. ASSUME NEW q \in Proc, NEW i \in 1..Len(cache[q]) PROVE RecordNext(cache[q][i])
    <2>1. cache[q] \in Seq(Known) /\ RecordGood(cache[q][i])
      BY DEF CacheInv, CacheGood
    <2>2. cache[q][i] \in Known
      BY <2>1
    <2>3. cache[q][i].cell \in Cell /\ cache[q][i].cell # e
      BY <1>2, <2>2 DEF Known, Remembered
    <2> QED BY <1>3, <1>4, <2>1, <2>3 DEF RecordNext, RecordGood, InUse
  <1>7. ASSUME NEW q \in Proc PROVE CacheGood(q)'
    BY <1>3, <1>6 DEF CacheGood, RecordGood, RecordNext, InUse
  <1>8. ASSUME NEW q \in Proc PROVE ReadGood(q)'
    <2>1. CASE q = p
      BY <1>3, <2>1 DEF ReadGood, Idle
    <2>2. CASE q # p
      <3>1. at'[q] = at[q] /\ holds'[q] = holds[q] /\ ReadGood(q)
        BY <1>5, <2>2 DEF OthersKept, CacheInv
      <3> QED BY <1>3, <3>1 DEF ReadGood, IsOpen
    <2> QED BY <2>1, <2>2
  <1>9. cache' \in [Proc -> Seq(Known)]
    BY <1>3 DEF CacheInv
  <1> QED BY <1>7, <1>8, <1>9 DEF CacheInv

\* upd_ct goes up, so that what caches know of the file is of no use any more.
LEMMA CacheChange ==
  ASSUME IInv, IInv', CacheInv, NEW p \in Proc, NEW f \in File, Change(p, f),
         "latecache" \notin Ops
  PROVE  CacheInv'
  <1> DEFINE c == holds[p][f].cell
  <1>1. /\ IsOpen(p, f) /\ at[p] = Idle /\ UNCHANGED <<mode, at, cache>>
        /\ ~Caching(f)
    BY ChangeEffect DEF Change
  <1>2. \A g \in File : g # f => version'[g] = version[g]
    BY ChangeEffect DEF IInv, TypeOK
  <1>3. c \in Cell /\ InUse(c) /\ entry[c].file = f
    BY <1>1, CellFacts DEF IInv
  <1>4. ASSUME NEW q \in Proc, NEW i \in 1..Len(cache[q]) PROVE RecordNext(cache[q][i])
    <2>1. cache[q] \in Seq(Known) /\ RecordGood(cache[q][i])
      BY DEF CacheInv, CacheGood
    <2>2. PICK r \in Known : r = cache[q][i]
      BY <2>1
    <2>3. r.cell \in Cell /\ r.upd \in Nat /\ entry[r.cell] \in Entry
      BY <2>2 DEF Known, IInv, TypeOK
    <2>4. CASE r.cell = c
      <3>1. r.upd <= entry[c].upd /\ entry'[c].upd = entry[c].upd + 1 /\ entry[c].upd \in Nat
        BY <1>3, <2>1, <2>2, <2>3, <2>4, ChangeEffect DEF RecordGood, EntryOf, Entry
      <3> QED BY <2>2, <2>3, <2>4, <3>1 DEF RecordNext
    <2>5. CASE r.cell # c
      <3>1. entry'[r.cell] = entry[r.cell]
        BY <2>3, <2>5, ChangeEffect
      <3>2. InUse(r.cell) => entry[r.cell].file \in File /\ entry[r.cell].file # f
        BY <1>3, <2>3, <2>5 DEF IInv, EntryOK
      <3> QED BY <1>2, <2>1, <2>2, <3>1, <3>2 DEF RecordNext, RecordGood, InUse
    <2> QED BY <2>4, <2>5
  <1>5. ASSUME NEW q \in Proc PROVE CacheGood(q)'
    BY <1>1, <1>4 DEF CacheGood, RecordGood, RecordNext, InUse
  <1>6. ASSUME NEW q \in Proc PROVE ReadGood(q)'
    <2>1. CASE at[q].step = "caching"
      <3>1. at[q].file \in File /\ at[q].file # f /\ ReadGood(q) /\ q # p
        BY <1>1, <2>1, PlaceFacts DEF Caching, CacheInv, IInv, TypeOK, Idle
      <3>2. holds'[q][at[q].file] = holds[q][at[q].file]
        BY <3>1, ChangeEffect
      <3> QED BY <1>1, <1>2, <3>1, <3>2 DEF ReadGood, IsOpen
    <2>2. CASE at[q].step # "caching"
      BY <1>1, <2>2 DEF ReadGood
    <2> QED BY <2>1, <2>2
  <1>7. cache' \in [Proc -> Seq(Known)]
    BY <1>1 DEF CacheInv
  <1> QED BY <1>5, <1>6, <1>7 DEF CacheInv

LEMMA CacheKept ==
  ASSUME IInv, IInv', CacheInv, NEW p \in Proc, Step(p), ~NewEntry(p),
         \A f \in File : ~Change(p, f),
         cache' = cache \/ cache' = [cache EXCEPT ![p] = <<>>],
         version' = version, at'[p].step # "caching"
  PROVE  CacheInv'
  <1>1. TableOlder
    BY Older
  <1>2. ReadGood(p)'
    BY DEF ReadGood
  <1>3. <<>> \in Seq(Known) /\ cache \in [Proc -> Seq(Known)]
    BY DEF CacheInv
  <1>4. cache' \in [Proc -> Seq(Known)] /\ \A q \in Proc : q # p => cache'[q] = cache[q]
    BY <1>3
  <1>5. \A i \in 1..Len(cache'[p]) : \E j \in 1..Len(cache[p]) : cache'[p][i] = cache[p][j]
    BY <1>3
  <1> QED BY <1>1, <1>2, <1>4, <1>5, CacheStep

LEMMA CacheUnread ==
  ASSUME IInv, IInv', CacheInv, NEW p \in Proc, Step(p),
         UNCHANGED version, ~NewEntry(p), at'[p].step # "caching",
         cache' = cache \/ cache' = [cache EXCEPT ![p] = <<>>]
  PROVE  CacheInv'
  <1>1. ASSUME NEW f \in File, Change(p, f) PROVE FALSE
    BY <1>1 DEF Change, IInv, TypeOK
  <1> QED BY <1>1, CacheKept

LEMMA CacheLocal ==
  ASSUME IInv, IInv', CacheInv, NEW p \in Proc, NEW f \in File,
         \/ OpenAgain(p, f) \/ ReadHeader(p, f) \/ SetExclusive(p, f) \/ ChangeHeader(p, f)
         \/ Flush(p, f) \/ CloseVariable(p, f) \/ CloseCached(p, f) \/ Shutdown(p, f)
  PROVE  CacheInv'
  <1>1. Step(p) /\ UNCHANGED <<cache, version>> /\ at[p] = Idle
    BY DEF Step, OpenAgain, ReadHeader, SetExclusive, ChangeHeader, Flush, CloseVariable,
       CloseCached, Shutdown, Ready
  <1>2. ~NewEntry(p)
    BY <1>1 DEF NewEntry, Opening, Idle
  <1>3. at'[p].step # "caching"
    <2>1. at \in [Proc -> Place]
      BY DEF IInv, TypeOK
    <2>2. CASE ReadHeader(p, f)
      BY <2>1, <2>2 DEF ReadHeader, Goto
    <2>3. CASE at' = at
      BY <1>1, <2>3 DEF Idle
    <2>4. CASE Flush(p, f)
      BY <2>1, <2>4 DEF Flush, StartFlush, Goto
    <2>5. CASE CloseVariable(p, f) \/ CloseCached(p, f) \/ Shutdown(p, f)
      <3>1. PICK next : ClosesFile(p, f, next)
        BY <2>5, Closes
      <3>2. next.step # "caching" /\ FlushPlace(p, f, next).step = "flush"
        BY <3>1 DEF ClosesFile, Idle, Drop, FlushPlace
      <3> QED BY <3>1, <3>2 DEF ClosesFile
    <2> QED BY <2>2, <2>3, <2>4, <2>5 DEF OpenAgain, SetExclusive, ChangeHeader
  <1> QED BY <1>1, <1>2, <1>3, CacheUnread

LEMMA CacheElsewhere ==
  ASSUME IInv, IInv', CacheInv, NEW p \in Proc,
         \/ JoinEntry(p) \/ OpenFails(p) \/ WriteHeader(p) \/ DropReference(p)
         \/ Login(p) \/ Logout(p) \/ Exit(p) \/ Die(p) \/ RemoveUser(p)
  PROVE  CacheInv'
  <1>1. Step(p) /\ UNCHANGED version
        /\ (cache' = cache \/ cache' = [cache EXCEPT ![p] = <<>>])
    BY DEF Step, JoinEntry, Opened, OpenFails, WriteHeader, DropReference, Login, Logout, Exit,
       Die, RemoveUser, Gone
  <1>2. at \in [Proc -> Place] /\ Idle.step = "idle"
    BY DEF IInv, TypeOK, Idle
  <1>3. at'[p].step # "caching"
    <2>1. CASE JoinEntry(p) \/ OpenFails(p) \/ DropReference(p)
      BY <1>2, <2>1 DEF JoinEntry, Opened, OpenFails, DropReference, Goto
    <2>2. CASE WriteHeader(p)
      <3>1. at[p].next \in After
        BY <2>2, PlaceFacts DEF WriteHeader, IInv, TypeOK, Idle
      <3> QED BY <1>2, <2>2, <3>1 DEF WriteHeader, Goto, After
    <2>3. CASE Login(p) \/ Logout(p)
      BY <1>2, <2>3 DEF Login, Logout, Ready, IInv, PlaceOK, PlaceGood
    <2>4. CASE Exit(p) \/ Die(p) \/ RemoveUser(p)
      BY <1>2, <2>4 DEF Exit, Die, RemoveUser, Gone
    <2> QED BY <2>1, <2>2, <2>3, <2>4
  <1>4. CASE ~NewEntry(p)
    BY <1>1, <1>3, <1>4, CacheUnread
  \* The same step is not an opening of both kinds.
  <1>5. CASE NewEntry(p)
    <2>1. CASE JoinEntry(p)
      BY <1>5, <2>1 DEF NewEntry, JoinEntry
    <2>2. CASE WriteHeader(p) \/ DropReference(p)
      BY <1>5, <2>2 DEF NewEntry, Opening, WriteHeader, DropReference
    <2>3. CASE Login(p) \/ Logout(p) \/ Exit(p) \/ Die(p) \/ RemoveUser(p)
      <3>1. mode'[p] # mode[p]
        BY <2>3 DEF Login, Logout, Ready, Exit, Die, RemoveUser, Gone, IInv, TypeOK
      <3> QED BY <1>5, <3>1 DEF NewEntry, Opened
    <2>4. CASE OpenFails(p)
      <3>1. PICK c : Opened(p, c)
        BY <1>5 DEF NewEntry
      <3>2. at[p].file \in File /\ ~IsOpen(p, at[p].file) /\ holds' = holds
        BY <2>4, PlaceFacts DEF OpenFails, Opening, IInv, TypeOK, PlaceOK, PlaceGood, Idle
      <3>3. PICK for \in {{"var"}, {"var", "cache"}} :
              SetHolds(p, at[p].file, [for |-> for, cell |-> c, map |-> HeadOf(p).map,
                                       updated |-> FALSE])
        BY <3>1 DEF Opened
      <3> DEFINE h == [for |-> for, cell |-> c, map |-> HeadOf(p).map, updated |-> FALSE]
      <3>4. h.for # {} /\ holds' = [holds EXCEPT ![p][at[p].file] = h]
        BY <3>3 DEF SetHolds
      <3> HIDE DEF h
      <3>5. holds'[p][at[p].file].for # {}
        BY <3>2, <3>4 DEF IInv, TypeOK
      <3> QED BY <3>2, <3>5 DEF IsOpen, Closed
    <2> QED BY <2>1, <2>2, <2>3, <2>4
  <1> QED BY <1>4, <1>5

LEMMA CacheNext ==
  ASSUME IInv, IInv', CacheInv, "latecache" \notin Ops, "reuse" \notin Ops, [Next]_vars
  PROVE  CacheInv'
  <1>1. CASE UNCHANGED vars
    BY <1>1 DEF vars, table, users, CacheInv, CacheGood, RecordGood, ReadGood, InUse, IsOpen
  <1>2. ASSUME NEW p \in Proc, NEW f \in File,
               \/ OpenAgain(p, f) \/ ReadHeader(p, f)
               \/ Flush(p, f) \/ CloseVariable(p, f) \/ CloseCached(p, f)
               \/ SetExclusive(p, f) \/ ChangeHeader(p, f)
               \/ Change(p, f) \/ ReadCached(p, f) \/ Read(p, f)
               \/ Shutdown(p, f)
        PROVE  CacheInv'
    BY <1>2, CacheLocal, CacheChange, CacheHit, CacheRead
  <1>3. ASSUME NEW p \in Proc,
               \/ JoinEntry(p) \/ NewEntry(p) \/ OpenFails(p)
               \/ WriteHeader(p) \/ DropReference(p) \/ CacheRecord(p)
               \/ Login(p) \/ Logout(p) \/ Exit(p)
               \/ Die(p) \/ RemoveUser(p)
        PROVE  CacheInv'
    BY <1>3, CacheElsewhere, CacheNewEntry, CacheStored
  <1> QED BY <1>1, <1>2, <1>3 DEF Next

LEMMA CacheInit == Init => CacheInv
  BY DEF Init, CacheInv, CacheGood, ReadGood, Idle

\* A record that a process finds in its cache is the record as it is: whatever
\* is known of a file was read while upd_ct was what it says, and any change
\* since has made upd_ct another.  No change is to fall between the read and
\* the entry into the cache, and no cell is to go to another file while a
\* cache knows it.
THEOREM CacheStaysCurrent ==
  ASSUME Orderly, "latecache" \notin Ops, "reuse" \notin Ops
  PROVE  Spec => []CacheCurrent
  <1>1. IInv /\ CacheInv => CacheCurrent
    <2> SUFFICES ASSUME IInv, CacheInv, NEW p \in Proc, NEW f \in File, IsOpen(p, f),
                        Matches(p, f) # {}
                 PROVE  cache[p][FirstMatch(p, f)].value = <<f, version[f]>>
      BY DEF CacheCurrent
    <2>1. PICK i \in Matches(p, f) : i = FirstMatch(p, f)
      BY FirstMatchFound
    <2>2. /\ i \in 1..Len(cache[p]) /\ cache[p][i].cell = holds[p][f].cell
          /\ cache[p][i].upd = entry[holds[p][f].cell].upd
      BY DEF Matches, EntryOf
    <2>3. InUse(holds[p][f].cell) /\ entry[holds[p][f].cell].file = f
      BY CellFacts DEF IInv
    <2>4. RecordGood(cache[p][i])
      BY <2>2 DEF CacheInv, CacheGood
    <2> QED BY <2>1, <2>2, <2>3, <2>4 DEF RecordGood
  <1>2. IInv /\ IInv' /\ CacheInv /\ [Next]_vars => CacheInv'
    BY CacheNext
  <1> QED BY <1>1, <1>2, CacheInit, Invariance, PTL DEF Spec

=============================================================================
