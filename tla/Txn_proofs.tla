----------------------------- MODULE Txn_proofs -----------------------------
(***************************************************************************)
(* Proofs about Txn: the locks under the updates that wait in a chain,     *)
(* what ROLLBACK ALL keeps, what locked reads find, and that Txn           *)
(* implements Transactions, for every number of users, records, values,    *)
(* file variables, transactions and levels, and programs without the       *)
(* habits of Txn that defeat them.                                         *)
(***************************************************************************)
EXTENDS Txn, SequenceTheorems, WellFoundedInduction, TLAPS

-----------------------------------------------------------------------------
(* The invariant *)

\* The transactions of a process that are still to be applied, newest first:
\* their identifiers and chains.  The one being committed counts until its
\* locks are given up.
LiveOf(t, s, c) ==
  [k \in 1..(Len(s) + 1) |->
    IF k > 1 THEN [id |-> s[k - 1].id, cache |-> s[k - 1].cache]
    ELSE IF c.on THEN [id |-> c.id, cache |-> c.left]
    ELSE [id |-> t.id, cache |-> t.cache]]
Live(u) == LiveOf(txn[u], stack[u], commit[u])
LiveTxn == [id : Nat, cache : Seq(Entry)]

Nested(S, n) ==
  /\ \A k \in 1..Len(S) : S[k].id < n /\ (k > 1 => S[k].id > 0)
  /\ \A j, k \in 1..Len(S) : j < k => S[j].id > S[k].id
\* Each lock was taken outside the transactions or in one that still exists.
Owned(u, S, L) ==
  \A r \in Rec : L[r] # Unlocked /\ L[r].owner = u =>
    L[r].txn = 0 \/ \E k \in 1..Len(S) : L[r].txn = S[k].id
\* The lock of an update was taken in its transaction or one around it, and
\* through a file variable that is closed, if at all, later in its chain.
CoveredAt(u, S, L, k, i) ==
  LET l == L[S[k].cache[i].rec]
  IN /\ l # Unlocked /\ l.owner = u /\ l.txn <= S[k].id
     /\ \A j \in 1..Len(S) : \A c \in Closes(S[j].cache) :
          S[j].cache[c].fvar = l.fvar => j = k /\ i < c
Covered(u, S, L) ==
  \A k \in 1..Len(S) : \A i \in Updates(S[k].cache) : CoveredAt(u, S, L, k, i)
\* A file variable is closed once, and then the program does not have it.
ClosedOnce(S, O) ==
  \A j \in 1..Len(S) : \A c \in Closes(S[j].cache) :
    /\ S[j].cache[c].fvar \notin O
    /\ \A k \in 1..Len(S) : \A d \in Closes(S[k].cache) :
         S[j].cache[c].fvar = S[k].cache[d].fvar => j = k /\ c = d
OnceIn(s) == \A i, j \in Updates(s) : s[i].rec = s[j].rec => i = j
OnceEach(S) == \A k \in 1..Len(S) : OnceIn(S[k].cache)

Sound(u, S, L, O) ==
  Owned(u, S, L) /\ Covered(u, S, L) /\ ClosedOnce(S, O) /\ OnceEach(S)
Good(u) == Nested(Live(u), nextTxn) /\ Sound(u, Live(u), lock, open[u])

\* A process that commits, or is in no transaction, has none around it.
OutsideOf(t, s, c) ==
  /\ c.on => t.id = 0
  /\ t.id = 0 => s = <<>> /\ (~c.on => t.cache = <<>>)
Outside(u) == OutsideOf(txn[u], stack[u], commit[u])

IInv == TypeOK /\ \A u \in User : Outside(u) /\ Good(u)

\* What the programs must not do for the transactions to keep their promise.
Disciplined == Ops \subseteq {"execnest"}

-----------------------------------------------------------------------------
(* Entries and chains *)

LEMMA EntryFacts ==
  ASSUME NEW e \in Entry
  PROVE  /\ e.kind \in {"update", "close"} /\ e.fvar \in Fvar
         /\ e.kind = "update" => e.rec \in Rec /\ e.val \in Content
  BY DEF Entry

LEMMA ChainFacts ==
  ASSUME NEW s \in Seq(Entry)
  PROVE  /\ Updates(s) \subseteq 1..Len(s) /\ Closes(s) \subseteq 1..Len(s)
         /\ \A i \in Updates(s) : s[i] \in Entry /\ s[i].rec \in Rec /\ s[i].fvar \in Fvar
                                  /\ s[i].val \in Content
         /\ \A c \in Closes(s) : s[c] \in Entry /\ s[c].fvar \in Fvar
         /\ \A i \in 1..Len(s) : i \in Updates(s) \/ i \in Closes(s)
         /\ Updates(s) \cap Closes(s) = {}
  <1>1. \A i \in 1..Len(s) : s[i] \in Entry
    OBVIOUS
  <1>2. \A i \in 1..Len(s) : s[i].kind = "update" \/ s[i].kind = "close"
    BY <1>1, EntryFacts
  <1>3. Updates(s) \cap Closes(s) = {}
    BY Zenon DEF Updates, Closes
  <1> QED BY <1>1, <1>2, <1>3, EntryFacts DEF Updates, Closes

LEMMA EmptyChain == Updates(<<>>) = {} /\ Closes(<<>>) = {}
  <1>1. 1..Len(<<>>) = {}
    OBVIOUS
  <1> QED BY <1>1, Zenon DEF Updates, Closes

LEMMA LockFacts ==
  ASSUME NEW l \in RecLock, l # Unlocked
  PROVE  l.owner \in User /\ l.fvar \in Fvar /\ l.txn \in Nat
  BY DEF RecLock

LEMMA LockNew ==
  ASSUME NEW u \in User, NEW fv \in Fvar, NEW n \in Nat
  PROVE  /\ [owner |-> u, fvar |-> fv, txn |-> n] \in RecLock
         /\ [owner |-> u, fvar |-> fv, txn |-> n] # Unlocked
  <1>1. [owner |-> u, fvar |-> fv, txn |-> n].owner = u /\ Unlocked.owner = None
    BY DEF Unlocked
  <1>2. u # None
    BY TxnAssumption
  <1> QED BY <1>1, <1>2 DEF RecLock

-----------------------------------------------------------------------------
(* How the steps change the chains, the locks and the files of a process *)

\* Steps of others, and those that keep what the process has.
LEMMA SoundKept ==
  ASSUME NEW u, NEW S, NEW L, NEW M, NEW O, NEW P,
         Sound(u, S, L, O), P \subseteq O,
         \A k \in 1..Len(S) : \A i \in Updates(S[k].cache) : S[k].cache[i].rec \in Rec,
         \A r \in Rec : L[r] # Unlocked /\ L[r].owner = u => M[r] = L[r],
         \A r \in Rec : M[r] # Unlocked /\ M[r].owner = u => M[r] = L[r]
  PROVE  Sound(u, S, M, P)
  <1>1. Owned(u, S, M)
    BY Zenon DEF Owned, Sound
  <1>2. Covered(u, S, M)
    <2> SUFFICES ASSUME NEW k \in 1..Len(S), NEW i \in Updates(S[k].cache)
                 PROVE  CoveredAt(u, S, M, k, i)
      BY DEF Covered
    <2>1. CoveredAt(u, S, L, k, i)
      BY DEF Sound, Covered
    <2>2. M[S[k].cache[i].rec] = L[S[k].cache[i].rec]
      BY <2>1 DEF CoveredAt
    <2> QED BY <2>1, <2>2, Zenon DEF CoveredAt
  <1>3. ClosedOnce(S, P)
    BY DEF ClosedOnce, Sound
  <1> QED BY <1>1, <1>2, <1>3 DEF Sound

\* No update waits and nothing is to be closed.
LEMMA SoundEmpty ==
  ASSUME NEW u, NEW S, NEW L, NEW O,
         \A k \in 1..Len(S) : S[k].cache = <<>>, Owned(u, S, L)
  PROVE  Sound(u, S, L, O)
  <1>1. \A k \in 1..Len(S) : Updates(S[k].cache) = {} /\ Closes(S[k].cache) = {}
    BY EmptyChain, Zenon
  <1>2. Covered(u, S, L) /\ ClosedOnce(S, O)
    BY <1>1, Zenon DEF Covered, ClosedOnce
  <1>3. OnceEach(S)
    BY <1>1, Zenon DEF OnceEach, OnceIn
  <1> QED BY <1>2, <1>3 DEF Sound

LEMMA LiveTxnFacts ==
  ASSUME NEW S \in Seq(LiveTxn), NEW k \in 1..Len(S)
  PROVE  /\ S[k].id \in Nat /\ S[k].cache \in Seq(Entry)
         /\ \A i \in Updates(S[k].cache) : S[k].cache[i].rec \in Rec
  <1>1. S[k] \in LiveTxn
    OBVIOUS
  <1>2. S[k].id \in Nat /\ S[k].cache \in Seq(Entry)
    BY <1>1 DEF LiveTxn
  <1> QED BY <1>2, ChainFacts

\* What unlock_txn() for ids and closing F leave of the locks L of u.
FreedFrom(L, u, ids, F) ==
  [r \in Rec |-> IF L[r] # Unlocked /\ L[r].owner = u /\ (L[r].txn \in ids \/ L[r].fvar \in F)
                 THEN Unlocked ELSE L[r]]

LEMMA FreedFacts ==
  ASSUME NEW L \in [Rec -> RecLock], NEW u, NEW ids, NEW F
  PROVE  /\ FreedFrom(L, u, ids, F) \in [Rec -> RecLock]
         /\ \A r \in Rec :
              LET M == FreedFrom(L, u, ids, F)
              IN /\ M[r] = L[r] \/ M[r] = Unlocked
                 /\ M[r] = L[r] <=> \/ L[r] = Unlocked
                                    \/ L[r].owner # u
                                    \/ L[r].txn \notin ids /\ L[r].fvar \notin F
  BY DEF FreedFrom, RecLock

\* Closing F gives up the lock of no update when F is closed in no other place.
LEMMA SoundClosed ==
  ASSUME NEW u, NEW S \in Seq(LiveTxn), NEW L \in [Rec -> RecLock], NEW O, NEW F,
         Sound(u, S, L, O),
         \A k \in 1..Len(S) : \A i \in Updates(S[k].cache) :
           L[S[k].cache[i].rec].fvar \notin F
  PROVE  Sound(u, S, FreedFrom(L, u, {}, F), O)
  <1> DEFINE M == FreedFrom(L, u, {}, F)
  <1>1. \A r \in Rec : M[r] # Unlocked => M[r] = L[r]
    BY FreedFacts
  <1>2. Owned(u, S, M)
    BY <1>1 DEF Owned, Sound
  <1>3. Covered(u, S, M)
    <2> SUFFICES ASSUME NEW k \in 1..Len(S), NEW i \in Updates(S[k].cache)
                 PROVE  CoveredAt(u, S, M, k, i)
      BY DEF Covered
    <2>1. CoveredAt(u, S, L, k, i)
      BY DEF Sound, Covered
    <2>2. S[k].cache[i].rec \in Rec
      BY LiveTxnFacts
    <2>3. M[S[k].cache[i].rec] = L[S[k].cache[i].rec]
      BY <2>2, FreedFacts
    <2> QED BY <2>1, <2>3, Zenon DEF CoveredAt
  <1> QED BY <1>2, <1>3 DEF Sound

LEMMA ClosesSame ==
  ASSUME NEW S, NEW O, NEW j \in 1..Len(S), NEW k \in 1..Len(S),
         NEW c \in Closes(S[j].cache), NEW d \in Closes(S[k].cache),
         ClosedOnce(S, O), S[j].cache[c].fvar = S[k].cache[d].fvar
  PROVE  j = k /\ c = d
  BY DEF ClosedOnce

LEMMA ClosedOnceTail ==
  ASSUME NEW S, NEW T, NEW O, NEW n \in Nat,
         ClosedOnce(S, O),
         \A k \in 1..Len(T) : k + n \in 1..Len(S) /\ T[k] = S[k + n]
  PROVE  ClosedOnce(T, O)
  <1>1. ASSUME NEW j \in 1..Len(T), NEW c \in Closes(T[j].cache)
        PROVE  T[j].cache[c].fvar \notin O
    BY <1>1 DEF ClosedOnce
  <1>2. ASSUME NEW j \in 1..Len(T), NEW k \in 1..Len(T),
               NEW c \in Closes(T[j].cache), NEW d \in Closes(T[k].cache),
               T[j].cache[c].fvar = T[k].cache[d].fvar
        PROVE  j = k /\ c = d
    <2>1. PICK a \in 1..Len(S) : a = j + n /\ T[j] = S[a]
      OBVIOUS
    <2>2. PICK b \in 1..Len(S) : b = k + n /\ T[k] = S[b]
      OBVIOUS
    <2>3. c \in Closes(S[a].cache) /\ d \in Closes(S[b].cache)
          /\ S[a].cache[c].fvar = S[b].cache[d].fvar
      BY <2>1, <2>2, <1>2
    <2>4. a = b /\ c = d
      BY <2>3, ClosesSame
    <2> QED BY <2>1, <2>2, <2>4
  <1> QED BY <1>1, <1>2 DEF ClosedOnce

\* rollback() of the n innermost transactions, T being those around them.
Dropped(u, S, n) == {S[k].id : k \in 1..n}
DroppedFiles(u, S, n) == UNION {ClosedIn(S[k].cache) : k \in 1..n}
LEMMA SoundDropped ==
  ASSUME NEW u, NEW S \in Seq(LiveTxn), NEW L \in [Rec -> RecLock], NEW O, NEW N,
         NEW n \in 1..(Len(S) - 1), NEW T,
         Len(T) = Len(S) - n, \A k \in 1..Len(T) : T[k] = S[k + n],
         Nested(S, N), Sound(u, S, L, O)
  PROVE  /\ Nested(T, N)
         /\ Sound(u, T, FreedFrom(L, u, Dropped(u, S, n), DroppedFiles(u, S, n)), O)
  <1> DEFINE M == FreedFrom(L, u, Dropped(u, S, n), DroppedFiles(u, S, n))
  <1>1. \A k \in 1..Len(T) : k + n \in 1..Len(S) /\ T[k] = S[k + n] /\ S[k + n].id \in Nat
    <2>1. \A k \in 1..Len(T) : k + n \in 1..Len(S)
      OBVIOUS
    <2> QED BY <2>1, LiveTxnFacts
  <1>2. \A j, k \in 1..Len(T) : j < k => j + n < k + n
    OBVIOUS
  <1>3. Nested(T, N)
    <2>1. \A k \in 1..Len(T) : T[k].id < N /\ T[k].id > 0
      <3> SUFFICES ASSUME NEW k \in 1..Len(T) PROVE T[k].id < N /\ T[k].id > 0
        OBVIOUS
      <3>1. k + n > 1
        OBVIOUS
      <3> QED BY <3>1, <1>1 DEF Nested
    <2>2. \A j, k \in 1..Len(T) : j < k => T[j].id > T[k].id
      BY <1>1, <1>2 DEF Nested
    <2> QED BY <2>1, <2>2 DEF Nested
  <1>4. \A k \in 1..n : k \in 1..Len(S)
    OBVIOUS
  <1>5. \A r \in Rec : M[r] # Unlocked => M[r] = L[r]
    BY FreedFacts
  <1>6. Owned(u, T, M)
    <2> SUFFICES ASSUME NEW r \in Rec, M[r] # Unlocked, M[r].owner = u, M[r].txn # 0
                 PROVE  \E k \in 1..Len(T) : M[r].txn = T[k].id
      BY DEF Owned
    <2>1. L[r] = M[r] /\ L[r].txn \notin Dropped(u, S, n)
      BY <1>5, FreedFacts
    <2>2. PICK k \in 1..Len(S) : L[r].txn = S[k].id
      BY <2>1 DEF Owned, Sound
    <2>3. k \notin 1..n
      BY <2>1, <2>2 DEF Dropped
    <2>4. k - n \in 1..Len(T) /\ (k - n) + n = k
      BY <2>3
    <2> QED BY <2>1, <2>2, <2>4, <1>1
  <1>7. Covered(u, T, M)
    <2> SUFFICES ASSUME NEW k \in 1..Len(T), NEW i \in Updates(T[k].cache)
                 PROVE  CoveredAt(u, T, M, k, i)
      BY DEF Covered
    <2> DEFINE r == S[k + n].cache[i].rec
    <2>1. CoveredAt(u, S, L, k + n, i)
      BY <1>1 DEF Sound, Covered
    <2>2. r \in Rec
      BY <1>1, LiveTxnFacts
    <2>3. L[r] # Unlocked /\ L[r].owner = u /\ L[r].txn <= S[k + n].id
      BY <2>1 DEF CoveredAt
    <2>4. L[r].txn \in Nat
      BY <2>2, <2>3, LockFacts
    <2>5. \A j \in 1..n : S[j].id # L[r].txn
      <3> SUFFICES ASSUME NEW j \in 1..n PROVE S[j].id # L[r].txn
        OBVIOUS
      <3>1. j \in 1..Len(S) /\ j < k + n
        BY <1>4
      <3>2. S[j].id > S[k + n].id /\ S[j].id \in Nat
        BY <3>1, <1>1, LiveTxnFacts DEF Nested
      <3> QED BY <3>2, <2>3, <2>4, <1>1
    <2>6. L[r].txn \notin Dropped(u, S, n)
      BY <2>5 DEF Dropped
    <2>7. \A j \in 1..n : L[r].fvar \notin ClosedIn(S[j].cache)
      <3> SUFFICES ASSUME NEW j \in 1..n, NEW c \in Closes(S[j].cache),
                          S[j].cache[c].fvar = L[r].fvar
                   PROVE  FALSE
        BY Zenon DEF ClosedIn
      <3>1. j = k + n
        BY <1>4, <2>1 DEF CoveredAt
      <3> QED BY <3>1
    <2>8. L[r].fvar \notin DroppedFiles(u, S, n)
      BY <2>7, Zenon DEF DroppedFiles
    <2>9. M[r] = L[r]
      BY <2>2, <2>6, <2>8, FreedFacts
    <2>10. \A j \in 1..Len(T) : \A c \in Closes(T[j].cache) :
             T[j].cache[c].fvar = L[r].fvar => j = k /\ i < c
      <3> SUFFICES ASSUME NEW j \in 1..Len(T), NEW c \in Closes(T[j].cache),
                          T[j].cache[c].fvar = L[r].fvar
                   PROVE  j = k /\ i < c
        OBVIOUS
      <3>1. j + n = k + n /\ i < c
        BY <1>1, <2>1 DEF CoveredAt
      <3> QED BY <3>1
    <2>11. T[k].cache[i].rec = r
      BY <1>1
    <2> HIDE DEF r
    <2> QED BY <2>3, <2>9, <2>10, <2>11, <1>1 DEF CoveredAt
  <1>8. ClosedOnce(T, O)
    <2>1. ClosedOnce(S, O)
      BY DEF Sound
    <2>2. n \in Nat /\ \A k \in 1..Len(T) : k + n \in 1..Len(S) /\ T[k] = S[k + n]
      BY <1>1
    <2> QED BY <2>1, <2>2, ClosedOnceTail, Zenon
  <1>9. OnceEach(T)
    BY <1>1 DEF Sound, OnceEach
  <1> QED BY <1>3, <1>6, <1>7, <1>8, <1>9 DEF Sound

\* The same for all of them.
LEMMA SoundCleared ==
  ASSUME NEW u, NEW S \in Seq(LiveTxn), NEW L \in [Rec -> RecLock], NEW O, NEW P, NEW T, NEW F,
         \A k \in 1..Len(T) : T[k].cache = <<>>, Owned(u, S, L)
  PROVE  Sound(u, T, FreedFrom(L, u, Dropped(u, S, Len(S)), F), P)
  <1> DEFINE M == FreedFrom(L, u, Dropped(u, S, Len(S)), F)
  <1> SUFFICES Owned(u, T, M)
    BY SoundEmpty, Zenon
  <1> SUFFICES ASSUME NEW r \in Rec, M[r] # Unlocked, M[r].owner = u
               PROVE  M[r].txn = 0
    BY DEF Owned
  <1>1. L[r] = M[r] /\ L[r].txn \notin Dropped(u, S, Len(S))
    BY FreedFacts
  <1> QED BY <1>1 DEF Owned, Dropped

\* txn_bgn(): a new innermost transaction.
LEMMA SoundPushed ==
  ASSUME NEW u, NEW S \in Seq(LiveTxn), NEW L, NEW O, NEW n \in Nat, NEW T,
         Len(T) = Len(S) + 1, T[1].id = n, T[1].cache = <<>>,
         \A k \in 2..Len(T) : T[k] = S[k - 1],
         S # <<>> /\ S[1].id > 0, Nested(S, n), Sound(u, S, L, O)
  PROVE  Nested(T, n + 1) /\ Sound(u, T, L, O)
  <1>1. \A k \in 2..Len(T) : k - 1 \in 1..Len(S) /\ T[k] = S[k - 1]
    OBVIOUS
  <1>2. \A k \in 1..Len(T) : k = 1 \/ k \in 2..Len(T)
    OBVIOUS
  <1>3. \A k \in 1..Len(S) : k + 1 \in 2..Len(T) /\ T[k + 1] = S[k]
    <2>1. \A k \in 1..Len(S) : k + 1 \in 2..Len(T) /\ (k + 1) - 1 = k
      OBVIOUS
    <2> QED BY <2>1
  <1>4. Updates(T[1].cache) = {} /\ Closes(T[1].cache) = {}
    BY EmptyChain
  <1>5. Nested(T, n + 1)
    <2>1. ASSUME NEW k \in 1..Len(T) PROVE T[k].id < n + 1 /\ (k > 1 => T[k].id > 0)
      <3>1. CASE k = 1
        BY <3>1
      <3>2. CASE k \in 2..Len(T)
        <4>1. PICK a \in 1..Len(S) : a = k - 1 /\ T[k] = S[a]
          BY <3>2
        <4>2. S[a].id \in Nat /\ S[a].id < n /\ (a > 1 => S[a].id > 0)
          BY LiveTxnFacts DEF Nested
        <4> QED BY <4>1, <4>2
      <3> QED BY <3>1, <3>2, <1>2
    <2>2. ASSUME NEW j \in 1..Len(T), NEW k \in 1..Len(T), j < k PROVE T[j].id > T[k].id
      <3>1. PICK b \in 1..Len(S) : b = k - 1 /\ T[k] = S[b]
        BY <2>2
      <3>2. CASE j = 1
        BY <3>1, <3>2, LiveTxnFacts DEF Nested
      <3>3. CASE j \in 2..Len(T)
        <4>1. PICK a \in 1..Len(S) : a = j - 1 /\ T[j] = S[a]
          BY <3>3
        <4>2. a < b
          BY <2>2, <3>1, <4>1
        <4> QED BY <3>1, <4>1, <4>2 DEF Nested
      <3> QED BY <3>2, <3>3, <1>2
    <2> QED BY <2>1, <2>2 DEF Nested
  <1>6. Owned(u, T, L)
    <2> SUFFICES ASSUME NEW r \in Rec, L[r] # Unlocked /\ L[r].owner = u, L[r].txn # 0
                 PROVE  \E k \in 1..Len(T) : L[r].txn = T[k].id
      BY DEF Owned
    <2>1. PICK a \in 1..Len(S) : L[r].txn = S[a].id
      BY DEF Owned, Sound
    <2> QED BY <2>1, <1>3, SMTT(30)
  <1>7. Covered(u, T, L)
    <2> SUFFICES ASSUME NEW k \in 1..Len(T), NEW i \in Updates(T[k].cache)
                 PROVE  CoveredAt(u, T, L, k, i)
      BY DEF Covered
    <2>1. k # 1
      BY <1>4
    <2>2. PICK a \in 1..Len(S) : a = k - 1 /\ T[k] = S[a]
      BY <2>1, <1>1
    <2>3. CoveredAt(u, S, L, a, i)
      BY <2>2 DEF Covered, Sound
    <2>4. ASSUME NEW j \in 1..Len(T), NEW c \in Closes(T[j].cache),
                 T[j].cache[c].fvar = L[T[k].cache[i].rec].fvar
          PROVE  j = k /\ i < c
      <3>1. j # 1
        BY <1>4, <2>4
      <3>2. PICK b \in 1..Len(S) : b = j - 1 /\ T[j] = S[b]
        BY <3>1, <1>1
      <3>3. b = a /\ i < c
        BY <2>2, <2>3, <2>4, <3>2 DEF CoveredAt
      <3> QED BY <2>2, <3>2, <3>3
    <2> QED BY <2>2, <2>3, <2>4 DEF CoveredAt
  <1>8. ClosedOnce(T, O)
    <2>1. ASSUME NEW j \in 1..Len(T), NEW c \in Closes(T[j].cache)
          PROVE  \E a \in 1..Len(S) : a = j - 1 /\ T[j] = S[a]
      <3>1. j # 1
        BY <1>4, <2>1
      <3> QED BY <3>1, <1>1
    <2>2. ClosedOnce(S, O)
      BY DEF Sound
    <2>3. ASSUME NEW j \in 1..Len(T), NEW c \in Closes(T[j].cache)
          PROVE  T[j].cache[c].fvar \notin O
      BY <2>1, <2>2, <2>3 DEF ClosedOnce
    <2>4. ASSUME NEW j \in 1..Len(T), NEW k \in 1..Len(T),
                 NEW c \in Closes(T[j].cache), NEW d \in Closes(T[k].cache),
                 T[j].cache[c].fvar = T[k].cache[d].fvar
          PROVE  j = k /\ c = d
      <3>1. PICK a \in 1..Len(S) : a = j - 1 /\ T[j] = S[a]
        BY <2>1
      <3>2. PICK b \in 1..Len(S) : b = k - 1 /\ T[k] = S[b]
        BY <2>1
      <3>3. c \in Closes(S[a].cache) /\ d \in Closes(S[b].cache)
            /\ S[a].cache[c].fvar = S[b].cache[d].fvar
        BY <3>1, <3>2, <2>4
      <3>4. a = b /\ c = d
        BY <3>3, <2>2, ClosesSame
      <3> QED BY <3>1, <3>2, <3>4
    <2> QED BY <2>3, <2>4 DEF ClosedOnce
  <1>9. OnceEach(T)
    <2>1. \A k \in 1..Len(S) : OnceIn(S[k].cache)
      BY DEF Sound, OnceEach
    <2>2. OnceIn(T[1].cache)
      BY <1>4 DEF OnceIn
    <2> QED BY <2>1, <2>2, <1>1, <1>2 DEF OnceEach
  <1> QED BY <1>5, <1>6, <1>7, <1>8, <1>9 DEF Sound

\* Entries may go, or get another value, when the order of the others stays:
\* h gives the old place of each.
MapsTo(h, S, T) ==
  /\ Len(T) = Len(S) /\ \A k \in 1..Len(T) : T[k].id = S[k].id
  /\ \A k \in 1..Len(T) : \A i \in Updates(T[k].cache) :
       h[k][i] \in Updates(S[k].cache) /\ S[k].cache[h[k][i]].rec = T[k].cache[i].rec
  /\ \A k \in 1..Len(T) : \A c \in Closes(T[k].cache) :
       h[k][c] \in Closes(S[k].cache) /\ S[k].cache[h[k][c]].fvar = T[k].cache[c].fvar
  /\ \A k \in 1..Len(T) : \A i, j \in Updates(T[k].cache) \cup Closes(T[k].cache) :
       (h[k][i] < h[k][j] => i < j) /\ (h[k][i] = h[k][j] => i = j)
LEMMA SoundMapped ==
  ASSUME NEW u, NEW S, NEW L, NEW O, NEW T, NEW h, MapsTo(h, S, T), Sound(u, S, L, O)
  PROVE  Sound(u, T, L, O)
  <1>1. Len(T) = Len(S) /\ \A k \in 1..Len(T) : T[k].id = S[k].id
    BY DEF MapsTo
  <1>2. ASSUME NEW k \in 1..Len(T), NEW i \in Updates(T[k].cache)
        PROVE  h[k][i] \in Updates(S[k].cache) /\ S[k].cache[h[k][i]].rec = T[k].cache[i].rec
    BY DEF MapsTo
  <1>3. ASSUME NEW k \in 1..Len(T), NEW c \in Closes(T[k].cache)
        PROVE  h[k][c] \in Closes(S[k].cache) /\ S[k].cache[h[k][c]].fvar = T[k].cache[c].fvar
    BY DEF MapsTo
  <1>4. ASSUME NEW k \in 1..Len(T), NEW i \in Updates(T[k].cache) \cup Closes(T[k].cache),
               NEW j \in Updates(T[k].cache) \cup Closes(T[k].cache)
        PROVE  (h[k][i] < h[k][j] => i < j) /\ (h[k][i] = h[k][j] => i = j)
    BY DEF MapsTo
  <1>5. Owned(u, T, L)
    <2>1. Owned(u, S, L)
      BY DEF Sound
    <2> QED BY <2>1, <1>1 DEF Owned
  <1>6. Covered(u, T, L)
    <2> SUFFICES ASSUME NEW k \in 1..Len(T), NEW i \in Updates(T[k].cache)
                 PROVE  CoveredAt(u, T, L, k, i)
      BY DEF Covered
    <2>1. PICK i0 \in Updates(S[k].cache) : i0 = h[k][i] /\ S[k].cache[i0].rec = T[k].cache[i].rec
      BY <1>2
    <2>2. CoveredAt(u, S, L, k, i0)
      BY <1>1, <2>1 DEF Covered, Sound
    <2>3. ASSUME NEW j \in 1..Len(T), NEW c \in Closes(T[j].cache),
                 T[j].cache[c].fvar = L[T[k].cache[i].rec].fvar
          PROVE  j = k /\ i < c
      <3>1. PICK c0 \in Closes(S[j].cache) : c0 = h[j][c] /\ S[j].cache[c0].fvar = T[j].cache[c].fvar
        BY <1>3, SMTT(30)
      <3>2. j = k /\ i0 < c0
        BY <1>1, <2>1, <2>2, <2>3, <3>1 DEF CoveredAt
      <3> QED BY <2>1, <3>1, <3>2, <1>4
    <2>4. L[T[k].cache[i].rec] # Unlocked /\ L[T[k].cache[i].rec].owner = u
          /\ L[T[k].cache[i].rec].txn <= T[k].id
      BY <1>1, <2>1, <2>2 DEF CoveredAt
    <2> QED BY <2>3, <2>4 DEF CoveredAt
  <1>7. ClosedOnce(T, O)
    <2>1. ClosedOnce(S, O)
      BY DEF Sound
    <2>2. ASSUME NEW j \in 1..Len(T), NEW c \in Closes(T[j].cache)
          PROVE  T[j].cache[c].fvar \notin O
      <3>1. PICK c0 \in Closes(S[j].cache) : S[j].cache[c0].fvar = T[j].cache[c].fvar
        BY <1>3
      <3> QED BY <1>1, <2>1, <3>1 DEF ClosedOnce
    <2>3. ASSUME NEW j \in 1..Len(T), NEW k \in 1..Len(T),
                 NEW c \in Closes(T[j].cache), NEW d \in Closes(T[k].cache),
                 T[j].cache[c].fvar = T[k].cache[d].fvar
          PROVE  j = k /\ c = d
      <3>1. PICK c0 \in Closes(S[j].cache) : c0 = h[j][c] /\ S[j].cache[c0].fvar = T[j].cache[c].fvar
        BY <1>3
      <3>2. PICK d0 \in Closes(S[k].cache) : d0 = h[k][d] /\ S[k].cache[d0].fvar = T[k].cache[d].fvar
        BY <1>3
      <3>3. j = k /\ c0 = d0
        BY <1>1, <2>1, <2>3, <3>1, <3>2, ClosesSame
      <3> QED BY <3>1, <3>2, <3>3, <1>4
    <2> QED BY <2>2, <2>3 DEF ClosedOnce
  <1>8. OnceEach(T)
    <2> SUFFICES ASSUME NEW k \in 1..Len(T), NEW i \in Updates(T[k].cache),
                        NEW j \in Updates(T[k].cache), T[k].cache[i].rec = T[k].cache[j].rec
                 PROVE  i = j
      BY DEF OnceEach, OnceIn
    <2>1. h[k][i] \in Updates(S[k].cache) /\ h[k][j] \in Updates(S[k].cache)
          /\ S[k].cache[h[k][i]].rec = S[k].cache[h[k][j]].rec
      BY <1>2
    <2>2. OnceIn(S[k].cache)
      BY <1>1 DEF Sound, OnceEach
    <2>3. h[k][i] = h[k][j]
      BY <2>1, <2>2, Zenon DEF OnceIn
    <2> QED BY <2>3, <1>4
  <1> QED BY <1>5, <1>6, <1>7, <1>8 DEF Sound

LEMMA NestedSame ==
  ASSUME NEW S, NEW T, NEW n,
         Len(T) = Len(S), \A k \in 1..Len(T) : T[k].id = S[k].id, Nested(S, n)
  PROVE  Nested(T, n)
  BY DEF Nested

LEMMA AppendFacts ==
  ASSUME NEW s \in Seq(Entry), NEW e \in Entry
  PROVE  /\ Append(s, e) \in Seq(Entry) /\ Len(Append(s, e)) = Len(s) + 1
         /\ Append(s, e)[Len(s) + 1] = e
         /\ \A i \in 1..Len(s) : Append(s, e)[i] = s[i]
  OBVIOUS

LEMMA AppendedKinds ==
  ASSUME NEW s \in Seq(Entry), NEW e \in Entry
  PROVE  \A i : /\ i \in Updates(Append(s, e)) <=>
                     i \in Updates(s) \/ (e.kind = "update" /\ i = Len(s) + 1)
                /\ i \in Closes(Append(s, e)) <=>
                     i \in Closes(s) \/ (e.kind = "close" /\ i = Len(s) + 1)
  <1>1. PICK n \in Nat : n = Len(s)
    OBVIOUS
  <1>2. PICK t : t = Append(s, e)
    OBVIOUS
  <1>3. /\ Len(t) = n + 1 /\ t[n + 1] = e
        /\ \A i \in 1..n : t[i] = s[i]
    BY <1>1, <1>2, AppendFacts
  <1>4. \A i : i \in 1..(n + 1) <=> i \in 1..n \/ i = n + 1
    OBVIOUS
  <1>5. \A i : i \in Updates(t) <=> i \in Updates(s) \/ (e.kind = "update" /\ i = n + 1)
    BY <1>1, <1>3, <1>4 DEF Updates
  <1>6. \A i : i \in Closes(t) <=> i \in Closes(s) \/ (e.kind = "close" /\ i = n + 1)
    BY <1>1, <1>3, <1>4 DEF Closes
  <1> QED BY <1>1, <1>2, <1>5, <1>6

LEMMA AppendedUpdate ==
  ASSUME NEW s \in Seq(Entry), NEW e \in Entry, e.kind = "update"
  PROVE  /\ Updates(Append(s, e)) = Updates(s) \cup {Len(s) + 1}
         /\ Closes(Append(s, e)) = Closes(s)
  BY AppendedKinds

LEMMA AppendedClose ==
  ASSUME NEW s \in Seq(Entry), NEW e \in Entry, e.kind = "close"
  PROVE  /\ Closes(Append(s, e)) = Closes(s) \cup {Len(s) + 1}
         /\ Updates(Append(s, e)) = Updates(s)
  BY AppendedKinds

\* txn_close(): the file variable is closed by the last entry.
LEMMA SoundClosing ==
  ASSUME NEW u, NEW S \in Seq(LiveTxn), NEW L \in [Rec -> RecLock], NEW O, NEW N,
         NEW T, NEW fv \in O, NEW e \in Entry,
         e.kind = "close", e.fvar = fv,
         S # <<>>, Len(T) = Len(S), T[1].id = S[1].id, T[1].cache = Append(S[1].cache, e),
         \A k \in 2..Len(S) : T[k] = S[k],
         \A r \in Rec : L[r] # Unlocked /\ L[r].owner = u /\ L[r].fvar = fv => L[r].txn = S[1].id,
         Nested(S, N), Sound(u, S, L, O)
  PROVE  Sound(u, T, L, O \ {fv})
  <1>1. 1 \in 1..Len(S) /\ S[1].cache \in Seq(Entry)
    <2>1. 1 \in 1..Len(S)
      OBVIOUS
    <2> QED BY <2>1, LiveTxnFacts
  <1>2. PICK n \in Nat : n = Len(S[1].cache)
    BY <1>1
  <1>3. /\ T[1].cache[n + 1] = e
        /\ \A i \in 1..n : T[1].cache[i] = S[1].cache[i]
        /\ Updates(T[1].cache) = Updates(S[1].cache)
        /\ Closes(T[1].cache) = Closes(S[1].cache) \cup {n + 1}
        /\ Updates(S[1].cache) \subseteq 1..n /\ Closes(S[1].cache) \subseteq 1..n
    <2>1. Updates(S[1].cache) \subseteq 1..n /\ Closes(S[1].cache) \subseteq 1..n
      BY <1>1, <1>2, ChainFacts
    <2>3. /\ T[1].cache[n + 1] = e
          /\ \A i \in 1..n : T[1].cache[i] = S[1].cache[i]
      BY <1>1, <1>2, AppendFacts
    <2>4. /\ Updates(T[1].cache) = Updates(S[1].cache)
          /\ Closes(T[1].cache) = Closes(S[1].cache) \cup {n + 1}
      BY <1>1, <1>2, AppendedClose, Zenon
    <2> QED BY <2>1, <2>3, <2>4
  <1>4. \A k \in 1..Len(T) : k # 1 => T[k] = S[k]
    OBVIOUS
  <1>5. \A k \in 1..Len(T) : T[k].id = S[k].id /\ Updates(T[k].cache) = Updates(S[k].cache)
                            /\ \A i \in Updates(S[k].cache) : T[k].cache[i] = S[k].cache[i]
    BY <1>3, <1>4
  <1>6. \A k \in 1..Len(T) : \A c \in Closes(T[k].cache) :
          \/ k = 1 /\ c = n + 1 /\ T[k].cache[c].fvar = fv
          \/ c \in Closes(S[k].cache) /\ T[k].cache[c] = S[k].cache[c]
    BY <1>3, <1>4
  <1>7. \A k \in 1..Len(S) : \A c \in Closes(S[k].cache) : S[k].cache[c].fvar \notin O
    BY DEF Sound, ClosedOnce
  <1>8. Owned(u, T, L)
    BY <1>5 DEF Owned, Sound
  <1>9. Covered(u, T, L)
    <2> SUFFICES ASSUME NEW k \in 1..Len(T), NEW i \in Updates(T[k].cache)
                 PROVE  CoveredAt(u, T, L, k, i)
      BY DEF Covered
    <2> DEFINE r == S[k].cache[i].rec
    <2>1. i \in Updates(S[k].cache) /\ T[k].cache[i].rec = r
      BY <1>5
    <2>2. CoveredAt(u, S, L, k, i)
      BY <2>1 DEF Covered, Sound
    <2>3. r \in Rec /\ L[r] # Unlocked /\ L[r].owner = u /\ L[r].txn <= S[k].id
      BY <2>1, <2>2, LiveTxnFacts DEF CoveredAt
    <2>4. ASSUME NEW j \in 1..Len(T), NEW c \in Closes(T[j].cache),
                 T[j].cache[c].fvar = L[r].fvar
          PROVE  j = k /\ i < c
      <3>1. CASE c \in Closes(S[j].cache) /\ T[j].cache[c] = S[j].cache[c]
        BY <3>1, <2>2, <2>4 DEF CoveredAt
      <3>2. CASE j = 1 /\ c = n + 1 /\ T[j].cache[c].fvar = fv
        <4>1. L[r].txn = S[1].id
          BY <2>3, <2>4, <3>2
        <4>2. k = 1
          <5>1. S[1].id \in Nat /\ S[k].id \in Nat
            BY <1>1, LiveTxnFacts
          <5>2. 1 < k => S[1].id > S[k].id
            BY <1>1 DEF Nested
          <5> QED BY <5>1, <5>2, <4>1, <2>3
        <4>3. i \in 1..n
          BY <4>2, <2>1, <1>3
        <4> QED BY <4>2, <4>3, <3>2
      <3> QED BY <3>1, <3>2, <1>6
    <2> HIDE DEF r
    <2> QED BY <2>1, <2>3, <2>4, <1>5 DEF CoveredAt
  <1>10. ClosedOnce(T, O \ {fv})
    <2>1. ASSUME NEW j \in 1..Len(T), NEW c \in Closes(T[j].cache)
          PROVE  T[j].cache[c].fvar \notin O \ {fv}
      BY <1>6, <1>7
    <2>2. ASSUME NEW j \in 1..Len(T), NEW k \in 1..Len(T),
                 NEW c \in Closes(T[j].cache), NEW d \in Closes(T[k].cache),
                 T[j].cache[c].fvar = T[k].cache[d].fvar
          PROVE  j = k /\ c = d
      <3>1. CASE T[j].cache[c].fvar = fv
        <4>1. \A m \in 1..Len(T) : \A b \in Closes(T[m].cache) :
                T[m].cache[b].fvar = fv => m = 1 /\ b = n + 1
          BY <1>6, <1>7
        <4> QED BY <4>1, <2>2, <3>1
      <3>2. CASE T[j].cache[c].fvar # fv
        <4>1. c \in Closes(S[j].cache) /\ d \in Closes(S[k].cache)
              /\ S[j].cache[c].fvar = S[k].cache[d].fvar
          BY <1>6, <2>2, <3>2
        <4> QED BY <4>1, ClosesSame DEF Sound
      <3> QED BY <3>1, <3>2
    <2> QED BY <2>1, <2>2 DEF ClosedOnce
  <1>11. OnceEach(T)
    <2> SUFFICES ASSUME NEW k \in 1..Len(T) PROVE OnceIn(T[k].cache)
      BY DEF OnceEach
    <2>1. OnceIn(S[k].cache)
      BY DEF Sound, OnceEach
    <2> QED BY <2>1, <1>5 DEF OnceIn
  <1> QED BY <1>8, <1>9, <1>10, <1>11 DEF Sound

\* txn_write() of a record that is not in the chain of the transaction.
LEMMA SoundAppended ==
  ASSUME NEW u, NEW S \in Seq(LiveTxn), NEW L \in [Rec -> RecLock], NEW O, NEW N,
         NEW T, NEW e \in Entry,
         e.kind = "update",
         S # <<>>, Len(T) = Len(S), T[1].id = S[1].id, T[1].cache = Append(S[1].cache, e),
         \A k \in 2..Len(S) : T[k] = S[k],
         \A i \in Updates(S[1].cache) : S[1].cache[i].rec # e.rec,
         L[e.rec] # Unlocked, L[e.rec].owner = u, L[e.rec].fvar \in O,
         Nested(S, N), Sound(u, S, L, O)
  PROVE  Sound(u, T, L, O)
  <1>1. 1 \in 1..Len(S) /\ S[1].cache \in Seq(Entry) /\ S[1].id \in Nat
    <2>1. 1 \in 1..Len(S)
      OBVIOUS
    <2> QED BY <2>1, LiveTxnFacts
  <1>2. PICK n \in Nat : n = Len(S[1].cache)
    BY <1>1
  <1>3. /\ T[1].cache[n + 1] = e
        /\ \A i \in 1..n : T[1].cache[i] = S[1].cache[i]
        /\ Updates(T[1].cache) = Updates(S[1].cache) \cup {n + 1}
        /\ Closes(T[1].cache) = Closes(S[1].cache)
        /\ Updates(S[1].cache) \subseteq 1..n /\ Closes(S[1].cache) \subseteq 1..n
    <2>1. Updates(S[1].cache) \subseteq 1..n /\ Closes(S[1].cache) \subseteq 1..n
      BY <1>1, <1>2, ChainFacts
    <2>3. /\ T[1].cache[n + 1] = e
          /\ \A i \in 1..n : T[1].cache[i] = S[1].cache[i]
      BY <1>1, <1>2, AppendFacts
    <2>4. /\ Updates(T[1].cache) = Updates(S[1].cache) \cup {Len(S[1].cache) + 1}
          /\ Closes(T[1].cache) = Closes(S[1].cache)
      BY <1>1, AppendedUpdate, Zenon
    <2> QED BY <1>2, <2>1, <2>3, <2>4
  <1>4. \A k \in 1..Len(T) : k # 1 => T[k] = S[k]
    OBVIOUS
  <1>5. \A k \in 1..Len(T) : T[k].id = S[k].id /\ Closes(T[k].cache) = Closes(S[k].cache)
                            /\ \A c \in Closes(S[k].cache) : T[k].cache[c] = S[k].cache[c]
    BY <1>3, <1>4
  <1>6. \A k \in 1..Len(T) : \A i \in Updates(T[k].cache) :
          \/ k = 1 /\ i = n + 1 /\ T[k].cache[i] = e
          \/ i \in Updates(S[k].cache) /\ T[k].cache[i] = S[k].cache[i]
    BY <1>3, <1>4
  <1>7. Owned(u, T, L)
    BY <1>5 DEF Owned, Sound
  <1>8. Covered(u, T, L)
    <2> SUFFICES ASSUME NEW k \in 1..Len(T), NEW i \in Updates(T[k].cache)
                 PROVE  CoveredAt(u, T, L, k, i)
      BY SMTT(30) DEF Covered
    <2>1. CASE i \in Updates(S[k].cache) /\ T[k].cache[i] = S[k].cache[i]
      <3>1. CoveredAt(u, S, L, k, i)
        BY <2>1 DEF Covered, Sound
      <3> QED BY <2>1, <3>1, <1>5, SMTT(30) DEF CoveredAt
    <2>2. CASE k = 1 /\ i = n + 1 /\ T[k].cache[i] = e
      <3>1. e.rec \in Rec
        BY EntryFacts
      <3>2. L[e.rec].txn \in Nat
        BY <3>1, LockFacts
      <3>3. L[e.rec].txn <= S[1].id
        <4>1. CASE L[e.rec].txn = 0
          BY <4>1, <1>1
        <4>2. CASE L[e.rec].txn # 0
          <5>1. PICK a \in 1..Len(S) : L[e.rec].txn = S[a].id
            BY <3>1, <4>2 DEF Sound, Owned
          <5>2. 1 < a => S[1].id > S[a].id
            BY <1>1 DEF Nested
          <5> QED BY <5>1, <5>2, <3>2, <1>1
        <4> QED BY <4>1, <4>2
      <3>4. \A j \in 1..Len(T) : \A c \in Closes(T[j].cache) : T[j].cache[c].fvar \notin O
        BY <1>5 DEF Sound, ClosedOnce
      <3> QED BY <2>2, <3>3, <3>4 DEF CoveredAt
    <2> QED BY <2>1, <2>2, <1>6
  <1>9. ClosedOnce(T, O)
    <2>1. ClosedOnce(S, O)
      BY DEF Sound
    <2> QED BY <2>1, <1>5, SMTT(30) DEF ClosedOnce
  <1>10. OnceEach(T)
    <2> SUFFICES ASSUME NEW k \in 1..Len(T), NEW i \in Updates(T[k].cache),
                        NEW j \in Updates(T[k].cache), T[k].cache[i].rec = T[k].cache[j].rec
                 PROVE  i = j
      BY DEF OnceEach, OnceIn
    <2>1. OnceIn(S[k].cache)
      BY DEF Sound, OnceEach
    <2>2. CASE i \in Updates(S[k].cache) /\ T[k].cache[i] = S[k].cache[i]
      <3>1. CASE j \in Updates(S[k].cache) /\ T[k].cache[j] = S[k].cache[j]
        BY <2>1, <2>2, <3>1 DEF OnceIn
      <3>2. CASE k = 1 /\ j = n + 1 /\ T[k].cache[j] = e
        BY <2>2, <3>2
      <3> QED BY <3>1, <3>2, <1>6
    <2>3. CASE k = 1 /\ i = n + 1 /\ T[k].cache[i] = e
      <3>1. CASE j \in Updates(S[k].cache) /\ T[k].cache[j] = S[k].cache[j]
        BY <2>3, <3>1
      <3>2. CASE k = 1 /\ j = n + 1 /\ T[k].cache[j] = e
        BY <2>3, <3>2
      <3> QED BY <3>1, <3>2, <1>6
    <2> QED BY <2>2, <2>3, <1>6
  <1> QED BY <1>7, <1>8, <1>9, <1>10 DEF Sound

\* lock_record(): the lock passes to the innermost transaction.
LEMMA SoundLocked ==
  ASSUME NEW u, NEW S \in Seq(LiveTxn), NEW L \in [Rec -> RecLock], NEW O, NEW N,
         NEW M, NEW r \in Rec,
         S # <<>>, M[r].owner = u, M[r].txn = S[1].id, M[r].fvar \in O, M[r] # Unlocked,
         \A q \in Rec \ {r} : M[q] = L[q],
         L[r] # Unlocked /\ L[r].owner = u => \/ Len(S) = 1
                                              \/ L[r].txn = S[1].id,
         Nested(S, N), Sound(u, S, L, O)
  PROVE  Sound(u, S, M, O)
  <1>1. 1 \in 1..Len(S) /\ S[1].id \in Nat
    <2>1. 1 \in 1..Len(S)
      OBVIOUS
    <2> QED BY <2>1, LiveTxnFacts
  <1>2. Owned(u, S, M)
    BY <1>1 DEF Owned, Sound
  <1>3. Covered(u, S, M)
    <2> SUFFICES ASSUME NEW k \in 1..Len(S), NEW i \in Updates(S[k].cache)
                 PROVE  CoveredAt(u, S, M, k, i)
      BY DEF Covered
    <2>1. CoveredAt(u, S, L, k, i) /\ S[k].cache[i].rec \in Rec
      BY LiveTxnFacts, SMTT(30) DEF Covered, Sound
    <2>2. CASE S[k].cache[i].rec # r
      BY <2>1, <2>2 DEF CoveredAt
    <2>3. CASE S[k].cache[i].rec = r
      <3>1. L[r] # Unlocked /\ L[r].owner = u /\ L[r].txn <= S[k].id
        BY <2>1, <2>3 DEF CoveredAt
      <3>2. k = 1
        <4>1. S[k].id \in Nat /\ L[r].txn \in Nat
          BY <3>1, LiveTxnFacts, LockFacts
        <4>2. 1 < k => S[1].id > S[k].id
          BY <1>1 DEF Nested
        <4> QED BY <4>1, <4>2, <3>1
      <3>3. \A j \in 1..Len(S) : \A c \in Closes(S[j].cache) : S[j].cache[c].fvar \notin O
        BY DEF Sound, ClosedOnce
      <3>4. M[r].txn <= S[k].id
        BY <3>2, <1>1
      <3> QED BY <2>3, <3>3, <3>4 DEF CoveredAt
    <2> QED BY <2>2, <2>3
  <1> QED BY <1>2, <1>3 DEF Sound

-----------------------------------------------------------------------------
(* The transactions of a process *)

Committed == [on : BOOLEAN, id : Nat, left : Seq(Entry)]

LEMMA LiveFacts ==
  ASSUME NEW t \in Frame, NEW s \in Seq(Frame), NEW c \in Committed
  PROVE  /\ LiveOf(t, s, c) \in Seq(LiveTxn) /\ Len(LiveOf(t, s, c)) = Len(s) + 1
         /\ LiveOf(t, s, c) # <<>>
         /\ c.on => LiveOf(t, s, c)[1] = [id |-> c.id, cache |-> c.left]
         /\ ~c.on => LiveOf(t, s, c)[1] = [id |-> t.id, cache |-> t.cache]
         /\ \A k \in 2..(Len(s) + 1) :
              LiveOf(t, s, c)[k] = [id |-> s[k - 1].id, cache |-> s[k - 1].cache]
  <1>1. PICK n \in Nat : n = Len(s)
    OBVIOUS
  <1>2. \A k \in 2..(n + 1) : k - 1 \in 1..n /\ k > 1 /\ k \in 1..(n + 1)
    OBVIOUS
  <1>3. 1 \in 1..(n + 1) /\ ~(1 > 1)
    OBVIOUS
  <1>4. \A k \in 1..(n + 1) : k > 1 => k - 1 \in 1..n
    OBVIOUS
  <1>5. \A k \in 1..n : s[k] \in Frame
    BY <1>1
  <1>6. \A k \in 1..n : [id |-> s[k].id, cache |-> s[k].cache] \in LiveTxn
    BY <1>5 DEF Frame, LiveTxn
  <1>7. [id |-> c.id, cache |-> c.left] \in LiveTxn /\ [id |-> t.id, cache |-> t.cache] \in LiveTxn
    BY DEF Committed, Frame, LiveTxn
  <1> DEFINE V == LiveOf(t, s, c)
  <1>8. V = [k \in 1..(n + 1) |->
               IF k > 1 THEN [id |-> s[k - 1].id, cache |-> s[k - 1].cache]
               ELSE IF c.on THEN [id |-> c.id, cache |-> c.left]
               ELSE [id |-> t.id, cache |-> t.cache]]
    BY <1>1, Zenon DEF LiveOf
  <1> HIDE DEF V
  <1>9. \A k \in 1..(n + 1) : V[k] \in LiveTxn
    <2> SUFFICES ASSUME NEW k \in 1..(n + 1) PROVE V[k] \in LiveTxn
      OBVIOUS
    <2>1. CASE k > 1
      <3>1. V[k] = [id |-> s[k - 1].id, cache |-> s[k - 1].cache]
        BY <1>8, <2>1
      <3> QED BY <3>1, <2>1, <1>4, <1>6
    <2>2. CASE ~(k > 1)
      BY <1>7, <1>8, <2>2
    <2> QED BY <2>1, <2>2
  <1>10. V \in Seq(LiveTxn) /\ Len(V) = n + 1
    BY <1>8, <1>9
  <1>11. /\ c.on => V[1] = [id |-> c.id, cache |-> c.left]
         /\ ~c.on => V[1] = [id |-> t.id, cache |-> t.cache]
    BY <1>3, <1>8
  <1>12. \A k \in 2..(n + 1) : V[k] = [id |-> s[k - 1].id, cache |-> s[k - 1].cache]
    BY <1>2, <1>8
  <1>13. V # <<>>
    BY <1>10
  <1> QED BY <1>1, <1>10, <1>11, <1>12, <1>13 DEF V

LEMMA FramesFacts ==
  ASSUME TypeOK, NEW u \in User
  PROVE  /\ Frames(u) \in Seq(Frame) /\ Len(Frames(u)) = Len(stack[u]) + 1
         /\ Frames(u)[1] = txn[u]
         /\ \A k \in 2..(Len(stack[u]) + 1) : Frames(u)[k] = stack[u][k - 1]
         /\ \A k \in 1..Len(stack[u]) : Frames(u)[k + 1] = stack[u][k]
  <1>1. txn[u] \in Frame /\ stack[u] \in Seq(Frame)
    BY DEF TypeOK
  <1>2. <<txn[u]>> \in Seq(Frame) /\ Len(<<txn[u]>>) = 1 /\ <<txn[u]>>[1] = txn[u]
    BY <1>1
  <1> QED BY <1>1, <1>2 DEF Frames

LEMMA EntryNew ==
  ASSUME NEW fv \in Fvar, NEW r \in Rec, NEW v \in Content
  PROVE  /\ [kind |-> "close", fvar |-> fv] \in Entry
         /\ [kind |-> "update", fvar |-> fv, rec |-> r, val |-> v] \in Entry
  BY DEF Entry

LEMMA PutType ==
  ASSUME NEW s \in Seq(Entry), NEW fv \in Fvar, NEW r \in Rec, NEW v \in Content
  PROVE  Put(s, fv, r, v) \in Seq(Entry)
  <1>1. CASE UpdatesOf(s, r) = {}
    <2>1. Put(s, fv, r, v) = Append(s, [kind |-> "update", fvar |-> fv, rec |-> r, val |-> v])
      BY <1>1, Zenon DEF Put
    <2>2. PICK e \in Entry : e = [kind |-> "update", fvar |-> fv, rec |-> r, val |-> v]
      BY EntryNew
    <2> QED BY <2>1, <2>2
  <1>2. CASE UpdatesOf(s, r) # {}
    <2>1. ASSUME NEW i \in UpdatesOf(s, r) PROVE [s[i] EXCEPT !.val = v] \in Entry
      <3>1. s[i] \in Entry /\ s[i].kind = "update"
        BY DEF UpdatesOf
      <3>2. s[i] \in [kind : {"update"}, fvar : Fvar, rec : Rec, val : Content]
        BY <3>1 DEF Entry
      <3> QED BY <3>2 DEF Entry
    <2>2. \A i \in 1..Len(s) : s[i] \in Entry
      OBVIOUS
    <2>3. \A i \in 1..Len(s) : (IF i \in UpdatesOf(s, r) THEN [s[i] EXCEPT !.val = v] ELSE s[i]) \in Entry
      BY <2>1, <2>2
    <2>4. Put(s, fv, r, v) = [i \in 1..Len(s) |-> IF i \in UpdatesOf(s, r) THEN [s[i] EXCEPT !.val = v]
                                                ELSE s[i]]
      BY <1>2, Zenon DEF Put
    <2>5. Len(s) \in Nat
      OBVIOUS
    <2> QED BY <2>3, <2>4, <2>5
  <1> QED BY <1>1, <1>2

LEMMA SubSeqFacts ==
  ASSUME NEW X, NEW s \in Seq(X), NEW n \in 0..Len(s)
  PROVE  /\ SubSeq(s, n + 1, Len(s)) \in Seq(X)
         /\ Len(SubSeq(s, n + 1, Len(s))) = Len(s) - n
         /\ \A k \in 1..(Len(s) - n) : SubSeq(s, n + 1, Len(s))[k] = s[k + n]
  OBVIOUS

LEMMA RemovedFacts ==
  ASSUME NEW s \in Seq(Entry), NEW x \in 1..Len(s)
  PROVE  LET t == SubSeq(s, 1, x - 1) \o SubSeq(s, x + 1, Len(s)) IN
         /\ t \in Seq(Entry) /\ Len(t) = Len(s) - 1
         /\ \A i \in 1..(Len(s) - 1) : t[i] = s[IF i < x THEN i ELSE i + 1]
  <1>1. PICK n \in Nat : n = Len(s)
    OBVIOUS
  <1> DEFINE a == SubSeq(s, 1, x - 1)
             b == SubSeq(s, x + 1, Len(s))
  <1>2. x - 1 \in 0..n /\ 0 + 1 = 1 /\ x \in 0..n
    BY <1>1
  <1>3. a \in Seq(Entry) /\ Len(a) = x - 1 /\ \A i \in 1..(x - 1) : a[i] = s[i]
    BY <1>1
  <1>4. b \in Seq(Entry) /\ Len(b) = n - x /\ \A i \in 1..(n - x) : b[i] = s[i + x]
    BY <1>1, SubSeqFacts
  <1> HIDE DEF a, b
  <1>5. a \o b \in Seq(Entry) /\ Len(a \o b) = n - 1
    BY <1>1, <1>3, <1>4
  <1>6. ASSUME NEW i \in 1..(n - 1) PROVE (a \o b)[i] = s[IF i < x THEN i ELSE i + 1]
    <2>1. CASE i < x
      <3>1. i \in 1..(x - 1)
        BY <2>1
      <3> QED BY <1>3, <1>4, <2>1, <3>1
    <2>2. CASE ~(i < x)
      <3>1. i - (x - 1) \in 1..(n - x) /\ (i - (x - 1)) + x = i + 1 /\ i > x - 1
        BY <2>2
      <3>2. (a \o b)[i] = b[i - (x - 1)]
        BY <1>3, <1>4, <3>1
      <3> QED BY <1>4, <2>2, <3>1, <3>2
    <2> QED BY <2>1, <2>2
  <1> QED BY <1>1, <1>5, <1>6 DEF a, b

LEMMA TailFacts ==
  ASSUME NEW X, NEW s \in Seq(X), s # <<>>
  PROVE  /\ Tail(s) \in Seq(X) /\ Len(Tail(s)) = Len(s) - 1 /\ Len(s) >= 1
         /\ \A i \in 1..(Len(s) - 1) : Tail(s)[i] = s[i + 1]
         /\ Head(s) = s[1] /\ Head(s) \in X
  OBVIOUS

-----------------------------------------------------------------------------
(* Types *)

LEMMA FrameFacts ==
  ASSUME NEW t \in Frame, NEW s \in Seq(Entry), NEW n \in Nat, NEW l \in Nat
  PROVE  /\ t.id \in Nat /\ t.level \in Nat /\ t.begun \in Nat /\ t.cache \in Seq(Entry)
         /\ [t EXCEPT !.cache = s] \in Frame /\ [t EXCEPT !.id = n] \in Frame
         /\ [t EXCEPT !.level = l] \in Frame
         /\ [id |-> n, level |-> l, begun |-> l, cache |-> s] \in Frame
  BY DEF Frame

LEMMA Nothing == NoTxn \in Frame /\ NoCommit \in Committed /\ Unlocked \in RecLock
  BY DEF NoTxn, NoCommit, Frame, Committed, RecLock

LEMMA ReleasedType ==
  ASSUME TypeOK, NEW u, NEW ids, NEW F
  PROVE  /\ Released(u, ids, F) = FreedFrom(lock, u, ids, F)
         /\ Released(u, ids, F) \in [Rec -> RecLock]
  <1>1. Released(u, ids, F) = FreedFrom(lock, u, ids, F)
    BY Zenon DEF Released, FreedFrom
  <1>2. lock \in [Rec -> RecLock]
    BY DEF TypeOK
  <1>3. FreedFrom(lock, u, ids, F) \in [Rec -> RecLock]
    BY <1>2, FreedFacts
  <1> QED BY <1>1, <1>3, Zenon

\* The types of what a step does to process u.
LEMMA TypeKept ==
  ASSUME TypeOK, NEW u \in User, NEW t \in Frame, NEW s \in Seq(Frame), NEW c \in Committed,
         NEW O \in SUBSET Fvar, NEW l \in Nat,
         file' \in [Rec -> Content], lock' \in [Rec -> RecLock], nextTxn' \in Nat,
         txn' = txn \/ txn' = [txn EXCEPT ![u] = t],
         stack' = stack \/ stack' = [stack EXCEPT ![u] = s],
         commit' = commit \/ commit' = [commit EXCEPT ![u] = c],
         open' = open \/ open' = [open EXCEPT ![u] = O],
         level' = level \/ level' = [level EXCEPT ![u] = l]
  PROVE  TypeOK'
  <1>1. txn' \in [User -> Frame]
    BY DEF TypeOK
  <1>2. stack' \in [User -> Seq(Frame)]
    BY DEF TypeOK
  <1>3. commit' \in [User -> Committed]
    BY DEF TypeOK, Committed
  <1>4. open' \in [User -> SUBSET Fvar]
    BY DEF TypeOK
  <1>5. level' \in [User -> Nat]
    BY DEF TypeOK
  <1> QED BY <1>1, <1>2, <1>3, <1>4, <1>5 DEF TypeOK, Committed

LEMMA UserTypes ==
  ASSUME TypeOK, NEW u \in User
  PROVE  /\ txn[u] \in Frame /\ txn[u].id \in Nat /\ txn[u].cache \in Seq(Entry)
         /\ stack[u] \in Seq(Frame) /\ commit[u] \in Committed
         /\ commit[u].on \in BOOLEAN /\ commit[u].id \in Nat /\ commit[u].left \in Seq(Entry)
         /\ open[u] \in SUBSET Fvar /\ level[u] \in Nat
         /\ lock \in [Rec -> RecLock] /\ file \in [Rec -> Content] /\ nextTxn \in Nat
  <1>1. txn[u] \in Frame /\ commit[u] \in Committed
    BY DEF TypeOK, Committed
  <1>2. txn[u].id \in Nat /\ txn[u].cache \in Seq(Entry)
    BY <1>1 DEF Frame
  <1>3. commit[u].on \in BOOLEAN /\ commit[u].id \in Nat /\ commit[u].left \in Seq(Entry)
    BY <1>1 DEF Committed
  <1> QED BY <1>1, <1>2, <1>3 DEF TypeOK

-----------------------------------------------------------------------------
(* One entry goes, or gets another value *)

\* T is S with another chain in front.
HeadOf(S, T, id, old, new) ==
  /\ S \in Seq(LiveTxn) /\ T \in Seq(LiveTxn) /\ S # <<>> /\ Len(T) = Len(S)
  /\ S[1].id = id /\ T[1].id = id /\ S[1].cache = old /\ T[1].cache = new
  /\ \A k \in 2..Len(S) : T[k] = S[k]

\* Chain q is s without entry x.
CutAt(s, q, x) ==
  /\ x \in 1..Len(s) /\ q \in Seq(Entry) /\ Len(q) = Len(s) - 1
  /\ \A i \in 1..(Len(s) - 1) : q[i] = s[IF i < x THEN i ELSE i + 1]

LEMMA SoundRemoved ==
  ASSUME NEW u, NEW S, NEW L, NEW O, NEW T, NEW id, NEW s, NEW q, NEW x,
         HeadOf(S, T, id, s, q), CutAt(s, q, x), Sound(u, S, L, O)
  PROVE  /\ Sound(u, T, L, O)
         /\ x \in Closes(s) =>
              \A j \in 1..Len(T) : \A c \in Closes(T[j].cache) : T[j].cache[c].fvar # s[x].fvar
  <1>1. /\ S \in Seq(LiveTxn) /\ S # <<>> /\ Len(T) = Len(S) /\ T[1].id = S[1].id
        /\ S[1].cache = s /\ T[1].cache = q
        /\ \A k \in 2..Len(S) : T[k] = S[k]
    BY Zenon DEF HeadOf
  <1>2. 1 \in 1..Len(S) /\ s \in Seq(Entry)
    <2>1. 1 \in 1..Len(S)
      BY <1>1
    <2> QED BY <1>1, <2>1, LiveTxnFacts
  <1>3. PICK n \in Nat : /\ n = Len(s) /\ x \in 1..n /\ Len(q) = n - 1
                         /\ \A i \in 1..(n - 1) : q[i] = s[IF i < x THEN i ELSE i + 1]
    BY <1>2 DEF CutAt
  <1> DEFINE skip(i) == IF i < x THEN i ELSE i + 1
  <1>4. \A i \in 1..(n - 1) : skip(i) \in 1..n /\ skip(i) # x /\ q[i] = s[skip(i)]
    BY <1>3
  <1>5. \A i, j \in 1..(n - 1) : (skip(i) < skip(j) => i < j) /\ (skip(i) = skip(j) => i = j)
    BY <1>3
  <1> HIDE DEF skip
  <1>6. \A i : i \in Updates(q) => i \in 1..(n - 1) /\ skip(i) \in Updates(s) /\ q[i] = s[skip(i)]
    BY <1>3, <1>4 DEF Updates
  <1>7. \A i : i \in Closes(q) => i \in 1..(n - 1) /\ skip(i) \in Closes(s) /\ q[i] = s[skip(i)]
    BY <1>3, <1>4 DEF Closes
  <1>8. \A k \in 1..Len(T) : k # 1 => T[k] = S[k]
    BY <1>1
  <1>9. \A k \in 1..Len(T) : \A i \in Updates(T[k].cache) \cup Closes(T[k].cache) : i \in Nat
    <2> SUFFICES ASSUME NEW k \in 1..Len(T), NEW i \in Updates(T[k].cache) \cup Closes(T[k].cache)
                 PROVE  i \in Nat
      OBVIOUS
    <2>1. CASE k = 1
      BY <2>1, <1>1, <1>6, <1>7
    <2>2. CASE k # 1
      <3>1. k \in 1..Len(S) /\ T[k] = S[k]
        BY <2>2, <1>1, <1>8
      <3>2. S[k].cache \in Seq(Entry)
        BY <3>1, <1>1, LiveTxnFacts
      <3>3. i \in 1..Len(S[k].cache)
        BY <3>1, <3>2, ChainFacts
      <3> QED BY <3>3
    <2> QED BY <2>1, <2>2
  <1> DEFINE h == [k \in 1..Len(T) |-> [i \in Nat |-> IF k = 1 THEN skip(i) ELSE i]]
  <1>10. \A k \in 1..Len(T) : \A i \in Nat : h[k][i] = IF k = 1 THEN skip(i) ELSE i
    OBVIOUS
  <1> HIDE DEF h
  <1>11. ASSUME NEW k \in 1..Len(T), NEW i \in Updates(T[k].cache) \cup Closes(T[k].cache)
         PROVE  /\ i \in Nat /\ T[k].cache[i] = S[k].cache[h[k][i]]
                /\ i \in Updates(T[k].cache) => h[k][i] \in Updates(S[k].cache)
                /\ i \in Closes(T[k].cache) => h[k][i] \in Closes(S[k].cache)
    <2>1. CASE k = 1
      <3>1. h[k][i] = skip(i) /\ i \in Nat
        BY <2>1, <1>9, <1>10
      <3> QED BY <2>1, <3>1, <1>1, <1>6, <1>7
    <2>2. CASE k # 1
      <3>1. h[k][i] = i /\ i \in Nat
        BY <2>2, <1>9, <1>10
      <3> QED BY <2>2, <3>1, <1>8
    <2> QED BY <2>1, <2>2
  <1>12. ASSUME NEW k \in 1..Len(T), NEW i \in Updates(T[k].cache) \cup Closes(T[k].cache),
                NEW j \in Updates(T[k].cache) \cup Closes(T[k].cache)
         PROVE  (h[k][i] < h[k][j] => i < j) /\ (h[k][i] = h[k][j] => i = j)
    <2>1. CASE k = 1
      <3>1. i \in 1..(n - 1) /\ j \in 1..(n - 1)
        BY <2>1, <1>1, <1>6, <1>7
      <3>2. h[k][i] = skip(i) /\ h[k][j] = skip(j)
        BY <2>1, <1>9, <1>10
      <3> QED BY <3>1, <3>2, <1>5
    <2>2. CASE k # 1
      <3>1. i \in Nat /\ j \in Nat
        BY <1>9
      <3>2. h[k][i] = i /\ h[k][j] = j
        BY <2>2, <3>1, <1>10
      <3> QED BY <3>2
    <2> QED BY <2>1, <2>2
  <1>13. MapsTo(h, S, T)
    <2>1. \A k \in 1..Len(T) : T[k].id = S[k].id
      BY <1>1, <1>8
    <2> QED BY <2>1, <1>1, <1>11, <1>12, SMTT(30) DEF MapsTo
  <1>14. Sound(u, T, L, O)
    BY <1>13, SoundMapped
  <1>15. ASSUME x \in Closes(s), NEW j \in 1..Len(T), NEW c \in Closes(T[j].cache),
                T[j].cache[c].fvar = s[x].fvar
         PROVE  FALSE
    <2>1. PICK d \in Closes(S[j].cache) : d = h[j][c] /\ S[j].cache[d].fvar = S[1].cache[x].fvar
      BY <1>1, <1>11, <1>15
    <2>2. ClosedOnce(S, O) /\ j \in 1..Len(S) /\ x \in Closes(S[1].cache)
      BY <1>1, <1>15 DEF Sound
    <2>3. j = 1 /\ d = x
      BY <2>1, <2>2, <1>2, ClosesSame
    <2>4. c \in Closes(q) /\ c \in Nat
      BY <2>3, <1>1, <1>9
    <2>5. h[j][c] = skip(c)
      BY <2>3, <2>4, <1>10
    <2> QED BY <2>1, <2>3, <2>4, <2>5, <1>4, <1>7
  <1> QED BY <1>14, <1>15

\* txn_write() of a record that is in the chain of the transaction.
LEMMA SoundReplaced ==
  ASSUME NEW u, NEW S \in Seq(LiveTxn), NEW L, NEW O, NEW T, NEW r \in Rec, NEW v \in Content,
         S # <<>>, Len(T) = Len(S), T[1].id = S[1].id,
         T[1].cache = [i \in 1..Len(S[1].cache) |->
                         IF i \in UpdatesOf(S[1].cache, r) THEN [S[1].cache[i] EXCEPT !.val = v]
                         ELSE S[1].cache[i]],
         \A k \in 2..Len(S) : T[k] = S[k],
         Sound(u, S, L, O)
  PROVE  Sound(u, T, L, O)
  <1>1. 1 \in 1..Len(S) /\ S[1].cache \in Seq(Entry)
    <2>1. 1 \in 1..Len(S)
      OBVIOUS
    <2> QED BY <2>1, LiveTxnFacts
  <1>2. PICK n \in Nat : n = Len(S[1].cache)
    BY <1>1
  <1>3. Len(T[1].cache) = n
    BY <1>2
  <1>4. ASSUME NEW i \in 1..n
        PROVE  /\ T[1].cache[i].kind = S[1].cache[i].kind
               /\ T[1].cache[i].fvar = S[1].cache[i].fvar
               /\ S[1].cache[i].kind = "update" => T[1].cache[i].rec = S[1].cache[i].rec
    <2>1. CASE i \notin UpdatesOf(S[1].cache, r)
      BY <2>1, <1>2
    <2>2. CASE i \in UpdatesOf(S[1].cache, r)
      <3>1. T[1].cache[i] = [S[1].cache[i] EXCEPT !.val = v]
        BY <2>2, <1>2
      <3>2. S[1].cache[i] \in Entry /\ S[1].cache[i].kind = "update"
        BY <2>2, <1>1, <1>2 DEF UpdatesOf
      <3>3. S[1].cache[i] \in [kind : {"update"}, fvar : Fvar, rec : Rec, val : Content]
        BY <3>2 DEF Entry
      <3> QED BY <3>1, <3>3
    <2> QED BY <2>1, <2>2
  <1>5. \A k \in 1..Len(T) : k # 1 => T[k] = S[k]
    OBVIOUS
  <1>6. Updates(T[1].cache) = Updates(S[1].cache) /\ Closes(T[1].cache) = Closes(S[1].cache)
    BY <1>2, <1>3, <1>4 DEF Updates, Closes
  <1>7. \A i \in Updates(S[1].cache) \cup Closes(S[1].cache) : i \in 1..n
    BY <1>1, <1>2, ChainFacts
  <1>8. \A k \in 1..Len(S) : S[k].cache \in Seq(Entry)
    BY LiveTxnFacts
  <1>9. \A k \in 1..Len(T) : \A i \in Updates(T[k].cache) \cup Closes(T[k].cache) : i \in Nat
    <2> SUFFICES ASSUME NEW k \in 1..Len(T), NEW i \in Updates(T[k].cache) \cup Closes(T[k].cache)
                 PROVE  i \in Nat
      OBVIOUS
    <2>1. i \in Updates(S[k].cache) \cup Closes(S[k].cache)
      BY <1>5, <1>6
    <2>2. i \in 1..Len(S[k].cache)
      BY <2>1, <1>8, ChainFacts
    <2> QED BY <2>2
  <1> DEFINE h == [k \in 1..Len(T) |-> [i \in Nat |-> i]]
  <1>10. \A k \in 1..Len(T) : \A i \in Nat : h[k][i] = i
    OBVIOUS
  <1> HIDE DEF h
  <1>11. \A k \in 1..Len(T) : T[k].id = S[k].id
    BY <1>5
  <1>12. \A k \in 1..Len(T) : \A i \in Updates(T[k].cache) :
          h[k][i] \in Updates(S[k].cache) /\ S[k].cache[h[k][i]].rec = T[k].cache[i].rec
    <2> SUFFICES ASSUME NEW k \in 1..Len(T), NEW i \in Updates(T[k].cache)
                 PROVE  i \in Updates(S[k].cache) /\ S[k].cache[i].rec = T[k].cache[i].rec
      BY <1>9, <1>10
    <2>1. CASE k = 1
      <3>1. i \in Updates(S[1].cache) /\ i \in 1..n /\ S[1].cache[i].kind = "update"
        BY <2>1, <1>6, <1>7 DEF Updates
      <3> QED BY <2>1, <3>1, <1>4
    <2>2. CASE k # 1
      BY <2>2, <1>5
    <2> QED BY <2>1, <2>2
  <1>13. \A k \in 1..Len(T) : \A c \in Closes(T[k].cache) :
          h[k][c] \in Closes(S[k].cache) /\ S[k].cache[h[k][c]].fvar = T[k].cache[c].fvar
    <2> SUFFICES ASSUME NEW k \in 1..Len(T), NEW i \in Closes(T[k].cache)
                 PROVE  i \in Closes(S[k].cache) /\ S[k].cache[i].fvar = T[k].cache[i].fvar
      BY <1>9, <1>10
    <2>1. CASE k = 1
      BY <2>1, <1>4, <1>6, <1>7
    <2>2. CASE k # 1
      BY <2>2, <1>5
    <2> QED BY <2>1, <2>2
  <1>14. \A k \in 1..Len(T) : \A i, j \in Updates(T[k].cache) \cup Closes(T[k].cache) :
          (h[k][i] < h[k][j] => i < j) /\ (h[k][i] = h[k][j] => i = j)
    BY <1>9, <1>10, SMTT(30)
  <1>15. MapsTo(h, S, T)
    BY <1>11, <1>12, <1>13, <1>14 DEF MapsTo
  <1> QED BY <1>15, SoundMapped

-----------------------------------------------------------------------------
(* One step of a process *)

\* What a step of u leaves alone.
OnlyUser(u) ==
  /\ \A w \in User \ {u} : /\ txn'[w] = txn[w] /\ stack'[w] = stack[w]
                           /\ commit'[w] = commit[w] /\ open'[w] = open[w]
  /\ nextTxn' \in {nextTxn, nextTxn + 1}
  /\ \A r \in Rec : \/ lock'[r] = lock[r]
                    \/ /\ lock[r] = Unlocked \/ lock[r].owner = u
                       /\ lock'[r] = Unlocked \/ lock'[r].owner = u

LEMMA NestedLater ==
  ASSUME NEW S, NEW n \in Nat, NEW m \in {n, n + 1}, Nested(S, n),
         \A k \in 1..Len(S) : S[k].id \in Nat
  PROVE  Nested(S, m)
  BY DEF Nested

LEMMA Mine ==
  ASSUME IInv, NEW u \in User
  PROVE  /\ TypeOK /\ Live(u) \in Seq(LiveTxn) /\ Live(u) # <<>>
         /\ Len(Live(u)) = Len(stack[u]) + 1 /\ Len(stack[u]) \in Nat
         /\ 1 \in 1..Len(Live(u))
         /\ Nested(Live(u), nextTxn) /\ Sound(u, Live(u), lock, open[u])
         /\ ~commit[u].on => Live(u)[1] = [id |-> txn[u].id, cache |-> txn[u].cache]
         /\ commit[u].on => Live(u)[1] = [id |-> commit[u].id, cache |-> commit[u].left]
         /\ \A k \in 2..(Len(stack[u]) + 1) :
              Live(u)[k] = [id |-> stack[u][k - 1].id, cache |-> stack[u][k - 1].cache]
         /\ OutsideOf(txn[u], stack[u], commit[u])
  <1>1. TypeOK /\ Good(u) /\ OutsideOf(txn[u], stack[u], commit[u])
    BY DEF IInv, Outside
  <1>2. txn[u] \in Frame /\ stack[u] \in Seq(Frame) /\ commit[u] \in Committed
    BY <1>1, UserTypes
  <1>3. Live(u) = LiveOf(txn[u], stack[u], commit[u])
    BY DEF Live
  <1>4. /\ Live(u) \in Seq(LiveTxn) /\ Len(Live(u)) = Len(stack[u]) + 1
        /\ Live(u) # <<>>
        /\ commit[u].on => Live(u)[1] = [id |-> commit[u].id, cache |-> commit[u].left]
        /\ ~commit[u].on => Live(u)[1] = [id |-> txn[u].id, cache |-> txn[u].cache]
        /\ \A k \in 2..(Len(stack[u]) + 1) :
             Live(u)[k] = [id |-> stack[u][k - 1].id, cache |-> stack[u][k - 1].cache]
    <2>1. PICK t \in Frame : t = txn[u]
      BY <1>2
    <2>2. PICK s \in Seq(Frame) : s = stack[u]
      BY <1>2
    <2>3. PICK c \in Committed : c = commit[u]
      BY <1>2
    <2>4. Live(u) = LiveOf(t, s, c)
      BY <1>3, <2>1, <2>2, <2>3
    <2>5. PICK V : V = LiveOf(t, s, c)
      OBVIOUS
    <2>6. /\ V \in Seq(LiveTxn) /\ Len(V) = Len(s) + 1 /\ V # <<>>
          /\ c.on => V[1] = [id |-> c.id, cache |-> c.left]
          /\ ~c.on => V[1] = [id |-> t.id, cache |-> t.cache]
          /\ \A k \in 2..(Len(s) + 1) : V[k] = [id |-> s[k - 1].id, cache |-> s[k - 1].cache]
      BY <2>5, LiveFacts
    <2> QED BY <2>1, <2>2, <2>3, <2>4, <2>5, <2>6, Zenon
  <1>5. Len(stack[u]) \in Nat /\ 1 \in 1..(Len(stack[u]) + 1)
    BY <1>2
  <1>6. 1 \in 1..Len(Live(u))
    BY <1>4, <1>5, Zenon
  <1> QED BY <1>1, <1>4, <1>5, <1>6, Zenon DEF Good

LEMMA OthersKept ==
  ASSUME IInv, NEW u, NEW w \in User \ {u}, OnlyUser(u)
  PROVE  Good(w)' /\ Outside(w)'
  <1>1. /\ txn'[w] = txn[w] /\ stack'[w] = stack[w]
        /\ commit'[w] = commit[w] /\ open'[w] = open[w]
    BY DEF OnlyUser
  <1>2. Live(w)' = Live(w)
    BY <1>1, Zenon DEF Live
  <1>3. /\ TypeOK /\ Live(w) \in Seq(LiveTxn)
        /\ Nested(Live(w), nextTxn) /\ Sound(w, Live(w), lock, open[w])
    BY Mine
  <1>4. \A k \in 1..Len(Live(w)) : Live(w)[k].id \in Nat
    BY <1>3, LiveTxnFacts
  <1>5. Nested(Live(w), nextTxn')
    <2>1. nextTxn \in Nat
      BY <1>3 DEF TypeOK
    <2>2. nextTxn' \in {nextTxn, nextTxn + 1}
      BY DEF OnlyUser
    <2> QED BY <1>3, <1>4, <2>1, <2>2, NestedLater
  <1>6. \A k \in 1..Len(Live(w)) : \A i \in Updates(Live(w)[k].cache) : Live(w)[k].cache[i].rec \in Rec
    BY <1>3, LiveTxnFacts
  <1>7. w # u /\ w # None
    BY TxnAssumption
  <1>8. \A r \in Rec : lock[r] # Unlocked /\ lock[r].owner = w => lock'[r] = lock[r]
    BY <1>7 DEF OnlyUser
  <1>9. \A r \in Rec : lock'[r] # Unlocked /\ lock'[r].owner = w => lock'[r] = lock[r]
    BY <1>7 DEF OnlyUser
  <1>10. Sound(w, Live(w), lock', open[w])
    BY <1>3, <1>6, <1>8, <1>9, SoundKept
  <1>11. Good(w)'
    BY <1>1, <1>2, <1>5, <1>10, Zenon DEF Good
  <1>12. Outside(w)'
    <2>1. OutsideOf(txn[w], stack[w], commit[w])
      BY DEF IInv, Outside
    <2> QED BY <1>1, <2>1, Zenon DEF Outside
  <1> QED BY <1>11, <1>12

LEMMA AllKept ==
  ASSUME IInv, TypeOK', NEW u \in User, OnlyUser(u), Good(u)', Outside(u)'
  PROVE  IInv'
  <1>1. ASSUME NEW w \in User PROVE Good(w)' /\ Outside(w)'
    <2>1. CASE w = u
      BY <2>1, Zenon
    <2>2. CASE w # u
      BY <2>2, OthersKept
    <2> QED BY <2>1, <2>2
  <1> QED BY <1>1, Zenon DEF IInv

\* u after a step, from its parts.
LEMMA GoodAfter ==
  ASSUME NEW u, NEW t, NEW s, NEW c, NEW O,
         t = txn'[u], s = stack'[u], c = commit'[u], O = open'[u],
         Nested(LiveOf(t, s, c), nextTxn'), Sound(u, LiveOf(t, s, c), lock', O),
         OutsideOf(t, s, c)
  PROVE  Good(u)' /\ Outside(u)'
  BY Zenon DEF Good, Outside, Live

LEMMA ReleasedOnly ==
  ASSUME TypeOK, NEW u, NEW ids, NEW F, NEW r \in Rec
  PROVE  \/ Released(u, ids, F)[r] = lock[r]
         \/ lock[r] # Unlocked /\ lock[r].owner = u /\ Released(u, ids, F)[r] = Unlocked
  BY DEF Released

\* Outside transactions a process has no chain, so only its locks matter.
LEMMA Idle ==
  ASSUME IInv, NEW u \in User, Runs(u), txn[u].id = 0,
         txn'[u] = txn[u], stack'[u] = stack[u], commit'[u] = commit[u], nextTxn' = nextTxn,
         \A r \in Rec : lock'[r] # Unlocked /\ lock'[r].owner = u =>
           lock'[r].txn = 0 \/ lock'[r] = lock[r]
  PROVE  Good(u)' /\ Outside(u)'
  <1>1. /\ TypeOK /\ Live(u) \in Seq(LiveTxn) /\ Len(Live(u)) = Len(stack[u]) + 1
        /\ Nested(Live(u), nextTxn) /\ Sound(u, Live(u), lock, open[u])
        /\ Live(u)[1] = [id |-> txn[u].id, cache |-> txn[u].cache]
        /\ OutsideOf(txn[u], stack[u], commit[u])
    BY Mine DEF Runs
  <1>2. stack[u] = <<>> /\ txn[u].cache = <<>>
    BY <1>1 DEF OutsideOf, Runs
  <1>3. \A k \in 1..Len(Live(u)) : Live(u)[k].cache = <<>>
    BY <1>1, <1>2
  <1>4. Owned(u, Live(u), lock')
    BY <1>1 DEF Sound, Owned
  <1>5. Sound(u, Live(u), lock', open'[u])
    BY <1>3, <1>4, SoundEmpty, Zenon
  <1>6. Live(u)' = Live(u)
    BY Zenon DEF Live
  <1> QED BY <1>1, <1>5, <1>6, Zenon DEF Good, Outside

LEMMA ExecuteStep ==
  ASSUME IInv, NEW u \in User, Execute(u)
  PROVE  TypeOK' /\ OnlyUser(u) /\ Good(u)' /\ Outside(u)'
  <1>1. TypeOK /\ Good(u) /\ OutsideOf(txn[u], stack[u], commit[u])
    BY DEF IInv, Outside
  <1>2. UNCHANGED <<file, lock, open, txn, stack, commit, nextTxn>>
    BY DEF Execute
  <1>3. TypeOK'
    BY <1>1, <1>2 DEF TypeOK, Execute
  <1>4. OnlyUser(u)
    BY <1>2 DEF OnlyUser
  <1>5. Live(u)' = Live(u)
    BY <1>2, Zenon DEF Live
  <1>6. Good(u)'
    BY <1>1, <1>2, <1>5, Zenon DEF Good
  <1>7. Outside(u)'
    BY <1>1, <1>2, Zenon DEF Outside
  <1> QED BY <1>3, <1>4, <1>6, <1>7

LEMMA ReleaseStep ==
  ASSUME IInv, NEW u \in User, NEW r \in Rec, Release(u, r)
  PROVE  TypeOK' /\ OnlyUser(u) /\ Good(u)' /\ Outside(u)'
  <1>1. TypeOK
    BY DEF IInv
  <1>2. /\ Runs(u) /\ txn[u].id = 0 /\ lock[r] # Unlocked /\ lock[r].owner = u
        /\ lock' = [lock EXCEPT ![r] = Unlocked]
        /\ UNCHANGED <<file, open, txn, stack, commit, level, nextTxn>>
    BY DEF Release
  <1>3. lock \in [Rec -> RecLock]
    BY <1>1 DEF TypeOK
  <1>4. TypeOK'
    BY <1>1, <1>2, Nothing DEF TypeOK
  <1>5. \A q \in Rec : lock'[q] = IF q = r THEN Unlocked ELSE lock[q]
    BY <1>2, <1>3
  <1>6. OnlyUser(u)
    BY <1>2, <1>5 DEF OnlyUser
  <1>7. Good(u)' /\ Outside(u)'
    BY <1>2, <1>5, Idle
  <1> QED BY <1>4, <1>6, <1>7

\* V lists the transaction with identifier id and chain q and those of stack s.
Shape(V, id, q, s) ==
  /\ V \in Seq(LiveTxn) /\ V # <<>> /\ Len(V) = Len(s) + 1
  /\ V[1].id = id /\ V[1].cache = q
  /\ \A k \in 2..(Len(s) + 1) : V[k] = [id |-> s[k - 1].id, cache |-> s[k - 1].cache]

LEMMA LiveShape ==
  ASSUME NEW t \in Frame, NEW s \in Seq(Frame), NEW c \in Committed
  PROVE  /\ ~c.on => Shape(LiveOf(t, s, c), t.id, t.cache, s)
         /\ c.on => Shape(LiveOf(t, s, c), c.id, c.left, s)
  <1>1. PICK V : V = LiveOf(t, s, c)
    OBVIOUS
  <1>2. /\ V \in Seq(LiveTxn) /\ Len(V) = Len(s) + 1 /\ V # <<>>
        /\ c.on => V[1] = [id |-> c.id, cache |-> c.left]
        /\ ~c.on => V[1] = [id |-> t.id, cache |-> t.cache]
        /\ \A k \in 2..(Len(s) + 1) : V[k] = [id |-> s[k - 1].id, cache |-> s[k - 1].cache]
    BY <1>1, LiveFacts
  <1>3. ~c.on => V[1].id = t.id /\ V[1].cache = t.cache
    BY <1>2
  <1>4. c.on => V[1].id = c.id /\ V[1].cache = c.left
    BY <1>2
  <1>5. ~c.on => Shape(V, t.id, t.cache, s)
    BY <1>2, <1>3, Zenon DEF Shape
  <1>6. c.on => Shape(V, c.id, c.left, s)
    BY <1>2, <1>4, Zenon DEF Shape
  <1> QED BY <1>1, <1>5, <1>6, Zenon

LEMMA HeadShapes ==
  ASSUME NEW S, NEW T, NEW id, NEW p, NEW q, NEW s, NEW n \in Nat,
         n = Len(s), Shape(S, id, p, s), Shape(T, id, q, s)
  PROVE  HeadOf(S, T, id, p, q)
  <1>1. \A k \in 2..(n + 1) : T[k] = S[k]
    BY DEF Shape
  <1> QED BY <1>1, Zenon DEF HeadOf, Shape

LEMMA HeadChanged ==
  ASSUME NEW t \in Frame, NEW t2 \in Frame, NEW s \in Seq(Frame), NEW c \in Committed,
         ~c.on, t2.id = t.id
  PROVE  HeadOf(LiveOf(t, s, c), LiveOf(t2, s, c), t.id, t.cache, t2.cache)
  <1>1. Shape(LiveOf(t, s, c), t.id, t.cache, s) /\ Shape(LiveOf(t2, s, c), t.id, t2.cache, s)
    BY LiveShape
  <1>2. PICK n \in Nat : n = Len(s)
    OBVIOUS
  <1> QED BY <1>1, <1>2, HeadShapes, Zenon

LEMMA HeadNested ==
  ASSUME NEW S, NEW T, NEW id, NEW old, NEW new, NEW n, HeadOf(S, T, id, old, new), Nested(S, n)
  PROVE  Nested(T, n)
  <1>1. \A k \in 1..Len(T) : k = 1 \/ k \in 2..Len(S)
    BY DEF HeadOf
  <1>2. \A k \in 1..Len(T) : T[k].id = S[k].id
    BY <1>1 DEF HeadOf
  <1> QED BY <1>2, NestedSame DEF HeadOf

\* The chain of the innermost transaction of u becomes q.
LEMMA HeadStep ==
  ASSUME IInv, NEW u \in User, NEW q \in Seq(Entry), Runs(u), txn[u].id # 0,
         txn'[u] = [txn[u] EXCEPT !.cache = q],
         stack'[u] = stack[u], commit'[u] = commit[u], nextTxn' = nextTxn
  PROVE  \E S, T : /\ HeadOf(S, T, txn[u].id, txn[u].cache, q)
                   /\ Nested(S, nextTxn) /\ Sound(u, S, lock, open[u])
                   /\ Sound(u, T, lock', open'[u]) => Good(u)' /\ Outside(u)'
  <1>1. TypeOK /\ Nested(Live(u), nextTxn) /\ Sound(u, Live(u), lock, open[u])
        /\ OutsideOf(txn[u], stack[u], commit[u])
    BY Mine
  <1>2. txn[u] \in Frame /\ stack[u] \in Seq(Frame) /\ commit[u] \in Committed
    BY <1>1, UserTypes
  <1>3. [txn[u] EXCEPT !.cache = q] \in Frame
    BY <1>2, FrameFacts
  <1>4. [txn[u] EXCEPT !.cache = q].id = txn[u].id /\ [txn[u] EXCEPT !.cache = q].cache = q
    BY <1>2 DEF Frame
  <1>5. PICK t \in Frame : t = txn'[u] /\ t.id = txn[u].id /\ t.cache = q
    BY <1>3, <1>4, Zenon
  <1>6. PICK T : T = LiveOf(t, stack[u], commit[u])
    OBVIOUS
  <1>7. HeadOf(Live(u), T, txn[u].id, txn[u].cache, q)
    <2>1. Live(u) = LiveOf(txn[u], stack[u], commit[u])
      BY DEF Live
    <2>2. ~commit[u].on
      BY DEF Runs
    <2>3. HeadOf(LiveOf(txn[u], stack[u], commit[u]), LiveOf(t, stack[u], commit[u]),
                 txn[u].id, txn[u].cache, t.cache)
      BY <1>2, <1>5, <2>2, HeadChanged
    <2> QED BY <1>5, <1>6, <2>1, <2>3, Zenon
  <1>8. Nested(T, nextTxn)
    BY <1>1, <1>7, HeadNested
  <1>9. OutsideOf(t, stack[u], commit[u])
    BY <1>1, <1>5 DEF OutsideOf, Runs
  <1>10. Sound(u, T, lock', open'[u]) => Good(u)' /\ Outside(u)'
    BY <1>5, <1>6, <1>8, <1>9, GoodAfter
  <1> QED BY <1>1, <1>7, <1>10

LEMMA PutGood ==
  ASSUME NEW u, NEW S, NEW T, NEW id, NEW s \in Seq(Entry), NEW fv \in Fvar, NEW r \in Rec,
         NEW v \in Content, NEW L \in [Rec -> RecLock], NEW O, NEW n,
         L[r] # Unlocked, L[r].owner = u, L[r].fvar \in O,
         HeadOf(S, T, id, s, Put(s, fv, r, v)), Nested(S, n), Sound(u, S, L, O)
  PROVE  Sound(u, T, L, O)
  <1>1. /\ S \in Seq(LiveTxn) /\ S # <<>> /\ Len(T) = Len(S) /\ T[1].id = S[1].id
        /\ s = S[1].cache /\ T[1].cache = Put(S[1].cache, fv, r, v)
        /\ \A k \in 2..Len(S) : T[k] = S[k]
    BY Zenon DEF HeadOf
  <1>2. CASE UpdatesOf(S[1].cache, r) = {}
    <2>1. PICK e \in Entry : e = [kind |-> "update", fvar |-> fv, rec |-> r, val |-> v]
      BY EntryNew
    <2>2. e.kind = "update" /\ e.rec = r
      BY <2>1
    <2>3. Put(S[1].cache, fv, r, v)
            = Append(S[1].cache, [kind |-> "update", fvar |-> fv, rec |-> r, val |-> v])
      BY <1>2, Zenon DEF Put
    <2>4. T[1].cache = Append(S[1].cache, e)
      BY <1>1, <2>1, <2>3, Zenon
    <2>5. \A i \in Updates(S[1].cache) : S[1].cache[i].rec # e.rec
      BY <1>2, <2>2 DEF Updates, UpdatesOf
    <2>6. L[e.rec] # Unlocked /\ L[e.rec].owner = u /\ L[e.rec].fvar \in O
      BY <2>2
    <2> QED BY <1>1, <2>2, <2>4, <2>5, <2>6, SoundAppended
  <1>3. CASE UpdatesOf(S[1].cache, r) # {}
    <2>1. T[1].cache = [i \in 1..Len(S[1].cache) |->
                IF i \in UpdatesOf(S[1].cache, r) THEN [S[1].cache[i] EXCEPT !.val = v]
                ELSE S[1].cache[i]]
      BY <1>1, <1>3, Zenon DEF Put
    <2> QED BY <1>1, <2>1, SoundReplaced, Zenon
  <1> QED BY <1>2, <1>3

LEMMA SoundOpened ==
  ASSUME NEW u, NEW S, NEW L, NEW O, NEW fv, Sound(u, S, L, O),
         \A k \in 1..Len(S) : \A c \in Closes(S[k].cache) : S[k].cache[c].fvar # fv
  PROVE  Sound(u, S, L, O \cup {fv})
  <1>1. ClosedOnce(S, O)
    BY DEF Sound
  <1>2. ClosedOnce(S, O \cup {fv})
    BY <1>1 DEF ClosedOnce
  <1> QED BY <1>2, Zenon DEF Sound

LEMMA ReopenGood ==
  ASSUME NEW u, NEW S, NEW T, NEW id, NEW s, NEW q, NEW L, NEW O, NEW x \in Closes(s),
         CutAt(s, q, x), HeadOf(S, T, id, s, q), Sound(u, S, L, O)
  PROVE  Sound(u, T, L, O \cup {s[x].fvar})
  <1>1. /\ Sound(u, T, L, O)
        /\ \A j \in 1..Len(T) : \A c \in Closes(T[j].cache) : T[j].cache[c].fvar # s[x].fvar
    BY SoundRemoved
  <1> QED BY <1>1, SoundOpened, Zenon

LEMMA LiveIsFrames ==
  ASSUME IInv, NEW u \in User, Runs(u)
  PROVE  /\ Len(Live(u)) = Len(Frames(u))
         /\ \A k \in 1..Len(Live(u)) : /\ Live(u)[k].cache = Frames(u)[k].cache
                                       /\ Live(u)[k].id = Frames(u)[k].id
  <1>1. TypeOK /\ txn[u] \in Frame /\ stack[u] \in Seq(Frame) /\ commit[u] \in Committed
    BY Mine, UserTypes
  <1>2. Shape(Live(u), txn[u].id, txn[u].cache, stack[u])
    BY <1>1, LiveShape DEF Live, Runs
  <1>3. PICK V : V = Live(u)
    OBVIOUS
  <1>4. PICK F : F = Frames(u)
    OBVIOUS
  <1>5. /\ Len(V) = Len(stack[u]) + 1 /\ V[1].id = txn[u].id /\ V[1].cache = txn[u].cache
        /\ \A k \in 2..(Len(stack[u]) + 1) :
             V[k] = [id |-> stack[u][k - 1].id, cache |-> stack[u][k - 1].cache]
    BY <1>2, <1>3 DEF Shape
  <1>6. /\ Len(F) = Len(stack[u]) + 1 /\ F[1] = txn[u]
        /\ \A k \in 2..(Len(stack[u]) + 1) : F[k] = stack[u][k - 1]
    BY <1>1, <1>4, FramesFacts
  <1>7. PICK n \in Nat : n = Len(stack[u])
    BY <1>1
  <1>8. \A k \in 1..(n + 1) : k = 1 \/ k \in 2..(n + 1)
    OBVIOUS
  <1>9. ASSUME NEW k \in 1..(n + 1) PROVE V[k].cache = F[k].cache /\ V[k].id = F[k].id
    <2>1. CASE k = 1
      BY <2>1, <1>5, <1>6
    <2>2. CASE k \in 2..(n + 1)
      <3>1. V[k] = [id |-> F[k].id, cache |-> F[k].cache]
        BY <2>2, <1>5, <1>6, <1>7
      <3> QED BY <3>1
    <2> QED BY <2>1, <2>2, <1>8
  <1> QED BY <1>3, <1>4, <1>5, <1>6, <1>7, <1>9

\* The first of some places in a chain.
LEMMA LeastNat ==
  ASSUME NEW I \in SUBSET Nat, I # {}
  PROVE  \E i \in I : \A j \in I : i <= j
  <1>1. PICK i \in I : \A j \in I : <<j, i>> \notin OpToRel(<, Nat)
    BY NatLessThanWellFounded, WFMin
  <1>2. \A j \in I : i <= j
    <2> SUFFICES ASSUME NEW j \in I, j < i PROVE FALSE
      OBVIOUS
    <2>1. <<j, i>> \in Nat \X Nat /\ <<j, i>>[1] = j /\ <<j, i>>[2] = i
      OBVIOUS
    <2>2. <<j, i>> \in OpToRel(<, Nat)
      BY <2>1 DEF OpToRel
    <2> QED BY <1>1, <2>2
  <1> QED BY <1>2

LEMMA LeastPlace ==
  ASSUME NEW s \in Seq(Entry)
  PROVE  /\ Closes(s) # {} => \E i \in Closes(s) : \A j \in Closes(s) : i <= j
         /\ \A r : UpdatesOf(s, r) # {} => \E i \in UpdatesOf(s, r) : \A j \in UpdatesOf(s, r) : i <= j
  <1>1. Closes(s) \in SUBSET Nat
    BY DEF Closes
  <1>2. \A r : UpdatesOf(s, r) \in SUBSET Nat
    BY DEF UpdatesOf
  <1> QED BY <1>1, <1>2, LeastNat

LEMMA UpdateStep ==
  ASSUME IInv, Disciplined, NEW u \in User, NEW fv \in Fvar, NEW r \in Rec, NEW v \in Content,
         Update(u, fv, r, v)
  PROVE  TypeOK' /\ OnlyUser(u) /\ Good(u)' /\ Outside(u)'
  <1>1. TypeOK
    BY DEF IInv
  <1>2. /\ txn[u] \in Frame /\ txn[u].cache \in Seq(Entry) /\ stack[u] \in Seq(Frame)
        /\ commit[u] \in Committed /\ open[u] \in SUBSET Fvar /\ level[u] \in Nat
        /\ lock \in [Rec -> RecLock] /\ file \in [Rec -> Content]
    BY <1>1, UserTypes
  <1>3. /\ Runs(u) /\ lock[r] # Unlocked /\ lock[r].owner = u
        /\ UNCHANGED <<open, stack, commit, level, nextTxn>>
    BY DEF Update
  <1>4. CASE txn[u].id # 0
    <2>1. /\ lock[r].fvar \in open[u]
          /\ txn' = [txn EXCEPT ![u].cache = Put(txn[u].cache, fv, r, v)]
          /\ UNCHANGED <<file, lock>>
      BY <1>4 DEF Update, Disciplined
    <2>2. PICK q \in Seq(Entry) : q = Put(txn[u].cache, fv, r, v)
      BY <1>2, PutType
    <2>3. txn \in [User -> Frame]
      BY <1>1 DEF TypeOK
    <2>4. PICK t \in Frame : t = [txn[u] EXCEPT !.cache = q]
      BY <1>2, FrameFacts
    <2>5. txn' = [txn EXCEPT ![u] = t] /\ txn'[u] = [txn[u] EXCEPT !.cache = q]
      BY <2>1, <2>2, <2>3, <2>4
    <2>6. TypeOK'
      <3>1. nextTxn \in Nat
        BY <1>1 DEF TypeOK
      <3> QED BY <1>1, <1>2, <1>3, <2>1, <2>4, <2>5, <3>1, TypeKept
    <2>7. OnlyUser(u)
      BY <1>3, <2>1, <2>3, <2>5 DEF OnlyUser
    <2>8. PICK S, T : /\ HeadOf(S, T, txn[u].id, txn[u].cache, q)
                      /\ Nested(S, nextTxn) /\ Sound(u, S, lock, open[u])
                      /\ Sound(u, T, lock', open'[u]) => Good(u)' /\ Outside(u)'
      BY <1>3, <1>4, <2>5, HeadStep
    <2>9. Sound(u, T, lock, open[u])
      BY <1>2, <1>3, <2>1, <2>2, <2>8, PutGood
    <2> QED BY <1>3, <2>1, <2>6, <2>7, <2>8, <2>9
  <1>5. CASE txn[u].id = 0
    <2>1. /\ file' = [file EXCEPT ![r] = v]
          /\ lock' = lock \/ lock' = [lock EXCEPT ![r] = Unlocked]
          /\ UNCHANGED txn
      BY <1>5 DEF Update
    <2>2. lock' \in [Rec -> RecLock] /\ file' \in [Rec -> Content]
      BY <1>2, <2>1, Nothing
    <2>3. TypeOK'
      BY <1>1, <1>3, <2>1, <2>2 DEF TypeOK
    <2>4. \A q \in Rec : lock'[q] = lock[q] \/ (q = r /\ lock'[q] = Unlocked)
      BY <1>2, <2>1
    <2>5. OnlyUser(u)
      BY <1>3, <2>1, <2>4 DEF OnlyUser
    <2>6. Good(u)' /\ Outside(u)'
      BY <1>3, <1>5, <2>1, <2>4, Idle
    <2> QED BY <2>3, <2>5, <2>6
  <1> QED BY <1>4, <1>5

LEMMA LockStep ==
  ASSUME IInv, Disciplined, NEW u \in User, NEW fv \in Fvar, NEW r \in Rec, LockRecord(u, fv, r)
  PROVE  TypeOK' /\ OnlyUser(u) /\ Good(u)' /\ Outside(u)'
  <1>1. TypeOK
    BY DEF IInv
  <1>2. lock \in [Rec -> RecLock] /\ txn[u].id \in Nat
    BY <1>1, UserTypes
  <1>3. /\ Runs(u) /\ fv \in open[u]
        /\ lock[r] # Unlocked => lock[r].owner = u
        /\ lock[r] # Unlocked /\ stack[u] # <<>> => lock[r].txn = txn[u].id
        /\ lock' = [lock EXCEPT ![r] = [owner |-> u, fvar |-> fv, txn |-> txn[u].id]]
        /\ UNCHANGED <<file, open, txn, stack, commit, level, nextTxn>>
    BY DEF LockRecord, Disciplined
  <1>4. PICK l \in RecLock : /\ l = [owner |-> u, fvar |-> fv, txn |-> txn[u].id] /\ l # Unlocked
                             /\ l.owner = u /\ l.fvar = fv /\ l.txn = txn[u].id
    BY <1>2, LockNew
  <1>5. lock' \in [Rec -> RecLock] /\ lock'[r] = l /\ \A q \in Rec \ {r} : lock'[q] = lock[q]
    BY <1>2, <1>3, <1>4
  <1>6. TypeOK'
    BY <1>1, <1>3, <1>5 DEF TypeOK
  <1>7. OnlyUser(u)
    BY <1>3, <1>4, <1>5 DEF OnlyUser
  <1>8. /\ Live(u) \in Seq(LiveTxn) /\ Live(u) # <<>>
        /\ Len(Live(u)) = Len(stack[u]) + 1
        /\ Nested(Live(u), nextTxn) /\ Sound(u, Live(u), lock, open[u])
        /\ Live(u)[1].id = txn[u].id /\ stack[u] \in Seq(Frame)
    <2>1. Live(u)[1] = [id |-> txn[u].id, cache |-> txn[u].cache]
      BY <1>3, Mine DEF Runs
    <2>2. Live(u)[1].id = txn[u].id
      BY <2>1
    <2> QED BY <2>2, <1>1, Mine, UserTypes
  <1>9. lock[r] # Unlocked /\ lock[r].owner = u => Len(Live(u)) = 1 \/ lock[r].txn = Live(u)[1].id
    <2>1. stack[u] = <<>> => Len(stack[u]) = 0
      OBVIOUS
    <2> QED BY <1>3, <1>8, <2>1
  <1>10. Sound(u, Live(u), lock', open[u])
    BY <1>2, <1>3, <1>4, <1>5, <1>8, <1>9, SoundLocked
  <1>11. Live(u)' = Live(u)
    BY <1>3, Zenon DEF Live
  <1>12. Good(u)'
    BY <1>3, <1>8, <1>10, <1>11, Zenon DEF Good
  <1>13. Outside(u)'
    BY <1>3, Mine, Zenon DEF Outside
  <1> QED BY <1>6, <1>7, <1>12, <1>13

LEMMA OpenStep ==
  ASSUME IInv, NEW u \in User, Open(u)
  PROVE  TypeOK' /\ OnlyUser(u) /\ Good(u)' /\ Outside(u)'
  <1>1. TypeOK
    BY DEF IInv
  <1>2. /\ txn[u] \in Frame /\ txn[u].cache \in Seq(Entry) /\ stack[u] \in Seq(Frame)
        /\ commit[u] \in Committed /\ open[u] \in SUBSET Fvar /\ level[u] \in Nat
        /\ lock \in [Rec -> RecLock] /\ file \in [Rec -> Content] /\ nextTxn \in Nat
    BY <1>1, UserTypes
  <1>3. Runs(u) /\ UNCHANGED <<file, lock, stack, commit, level, nextTxn>>
    BY DEF Open
  <1>4. txn \in [User -> Frame] /\ open \in [User -> SUBSET Fvar]
    BY <1>1 DEF TypeOK
  <1>5. CASE txn[u].id # 0 /\ Closes(txn[u].cache) # {}
    <2> DEFINE s == txn[u].cache
    <2>1. PICK x \in Closes(s) :
            /\ open' = [open EXCEPT ![u] = @ \cup {s[x].fvar}]
            /\ txn' = [txn EXCEPT ![u].cache = SubSeq(s, 1, x - 1) \o SubSeq(s, x + 1, Len(s))]
      <3>1. \E x \in Closes(s) : \A j \in Closes(s) : x <= j
        BY <1>2, <1>5, LeastPlace
      <3> QED BY <3>1, <1>5, Zenon DEF Open
    <2>2. x \in 1..Len(s) /\ s[x].fvar \in Fvar
      BY <1>2, ChainFacts
    <2>3. PICK q \in Seq(Entry) :
            q = SubSeq(s, 1, x - 1) \o SubSeq(s, x + 1, Len(s)) /\ CutAt(s, q, x)
      BY <1>2, <2>2, RemovedFacts DEF CutAt
    <2>4. PICK t \in Frame : t = [txn[u] EXCEPT !.cache = q]
      BY <1>2, FrameFacts
    <2>5. txn' = [txn EXCEPT ![u] = t] /\ txn'[u] = [txn[u] EXCEPT !.cache = q]
      BY <2>1, <2>3, <2>4, <1>4
    <2>6. PICK O \in SUBSET Fvar : O = open[u] \cup {s[x].fvar}
      BY <1>2, <2>2
    <2>7. open' = [open EXCEPT ![u] = O] /\ open'[u] = O
      BY <1>4, <2>1, <2>6
    <2>8. TypeOK'
      BY <1>1, <1>2, <1>3, <2>4, <2>5, <2>7, TypeKept
    <2>9. OnlyUser(u)
      BY <1>3, <1>4, <2>5, <2>7 DEF OnlyUser
    <2>10. PICK S, T : /\ HeadOf(S, T, txn[u].id, s, q)
                       /\ Nested(S, nextTxn) /\ Sound(u, S, lock, open[u])
                       /\ Sound(u, T, lock', open'[u]) => Good(u)' /\ Outside(u)'
      BY <1>3, <1>5, <2>5, HeadStep
    <2> HIDE DEF s
    <2>11. Sound(u, T, lock, O)
      BY <2>1, <2>2, <2>3, <2>6, <2>10, ReopenGood
    <2> QED BY <1>3, <2>7, <2>8, <2>9, <2>10, <2>11
  <1>6. CASE ~(txn[u].id # 0 /\ Closes(txn[u].cache) # {})
    <2>1. PICK fv \in Fvar \ (open[u] \cup ClosedBy(u)) :
            open' = [open EXCEPT ![u] = @ \cup {fv}] /\ txn' = txn
      BY <1>6 DEF Open
    <2>2. TypeOK'
      BY <1>1, <1>3, <2>1 DEF TypeOK
    <2>3. OnlyUser(u)
      BY <1>3, <1>4, <2>1 DEF OnlyUser
    <2>4. open'[u] = open[u] \cup {fv}
      BY <1>4, <2>1
    <2>5. /\ Live(u) \in Seq(LiveTxn) /\ Len(Live(u)) = Len(stack[u]) + 1
          /\ Nested(Live(u), nextTxn) /\ Sound(u, Live(u), lock, open[u])
      BY Mine
    <2>6. \A k \in 1..Len(Live(u)) : Live(u)[k].cache = Frames(u)[k].cache
      BY <1>3, LiveIsFrames
    <2>7. \A k \in 1..Len(Live(u)) : \A c \in Closes(Live(u)[k].cache) : Live(u)[k].cache[c].fvar # fv
      <3> SUFFICES ASSUME NEW k \in 1..Len(Live(u)), NEW c \in Closes(Live(u)[k].cache),
                          Live(u)[k].cache[c].fvar = fv
                   PROVE  FALSE
        OBVIOUS
      <3>1. fv \in ClosedIn(Frames(u)[k].cache)
        BY <2>6 DEF ClosedIn
      <3>2. k \in 1..Len(Frames(u))
        BY <1>1, <2>5, FramesFacts
      <3> QED BY <3>1, <3>2, Zenon DEF ClosedBy
    <2>8. Sound(u, Live(u), lock, open[u] \cup {fv})
      BY <2>5, <2>7, SoundOpened
    <2>9. Live(u)' = Live(u)
      BY <1>3, <2>1, Zenon DEF Live
    <2>10. Good(u)'
      BY <1>3, <2>4, <2>5, <2>8, <2>9, Zenon DEF Good
    <2>11. Outside(u)'
      BY <1>3, <2>1, Mine, Zenon DEF Outside
    <2> QED BY <2>2, <2>3, <2>10, <2>11
  <1> QED BY <1>5, <1>6

LEMMA CloseGood ==
  ASSUME NEW u, NEW S, NEW T, NEW id, NEW s, NEW e \in Entry, NEW fv, NEW L \in [Rec -> RecLock],
         NEW O, NEW n,
         fv \in O, e.kind = "close", e.fvar = fv, HeadOf(S, T, id, s, Append(s, e)),
         \A r \in Rec : L[r] # Unlocked /\ L[r].owner = u /\ L[r].fvar = fv => L[r].txn = id,
         Nested(S, n), Sound(u, S, L, O)
  PROVE  Sound(u, T, L, O \ {fv})
  <1>1. /\ S \in Seq(LiveTxn) /\ S # <<>> /\ Len(T) = Len(S) /\ T[1].id = S[1].id /\ S[1].id = id
        /\ T[1].cache = Append(S[1].cache, e)
        /\ \A k \in 2..Len(S) : T[k] = S[k]
    BY Zenon DEF HeadOf
  <1> QED BY <1>1, SoundClosing

LEMMA ShapePushed ==
  ASSUME NEW S, NEW T, NEW id, NEW q, NEW n, NEW st \in Seq(Frame), NEW s \in Seq(Frame),
         Shape(S, id, q, st), Shape(T, n, <<>>, s),
         Len(s) = Len(st) + 1, s[1].id = id, s[1].cache = q,
         \A k \in 1..Len(st) : s[k + 1] = st[k]
  PROVE  \A k \in 2..Len(T) : T[k] = S[k - 1]
  <1> SUFFICES ASSUME NEW k \in 2..Len(T) PROVE T[k] = S[k - 1]
    OBVIOUS
  <1>1. PICK m \in Nat : m = Len(st)
    OBVIOUS
  <1>2. Len(T) = m + 2 /\ Len(S) = m + 1 /\ S \in Seq(LiveTxn)
    BY <1>1 DEF Shape
  <1>3. T[k] = [id |-> s[k - 1].id, cache |-> s[k - 1].cache]
    BY <1>1, <1>2 DEF Shape
  <1>4. CASE k = 2
    <2>1. S[1] \in LiveTxn /\ S[1].id = id /\ S[1].cache = q
      BY <1>2 DEF Shape
    <2>2. S[1] = [id |-> id, cache |-> q]
      BY <2>1 DEF LiveTxn
    <2> QED BY <1>3, <1>4, <2>2
  <1>5. CASE k # 2
    <2>1. PICK j \in 1..m : k = j + 2
      <3>1. k - 2 \in 1..m /\ k = (k - 2) + 2
        BY <1>2, <1>5
      <3> QED BY <3>1
    <2>2. s[j + 1] = st[j]
      BY <1>1
    <2>3. j + 1 \in 2..(m + 1)
      OBVIOUS
    <2>4. S[j + 1] = [id |-> st[(j + 1) - 1].id, cache |-> st[(j + 1) - 1].cache]
      BY <1>1, <2>3 DEF Shape
    <2>5. (j + 1) - 1 = j /\ k - 1 = j + 1
      BY <2>1
    <2> QED BY <1>3, <2>2, <2>4, <2>5
  <1> QED BY <1>4, <1>5

LEMMA CloseStep ==
  ASSUME IInv, Disciplined, NEW u \in User, NEW fv \in Fvar, Close(u, fv)
  PROVE  TypeOK' /\ OnlyUser(u) /\ Good(u)' /\ Outside(u)'
  <1>1. TypeOK
    BY DEF IInv
  <1>2. /\ txn[u] \in Frame /\ txn[u].cache \in Seq(Entry) /\ stack[u] \in Seq(Frame)
        /\ commit[u] \in Committed /\ open[u] \in SUBSET Fvar /\ level[u] \in Nat
        /\ lock \in [Rec -> RecLock] /\ file \in [Rec -> Content] /\ nextTxn \in Nat
    BY <1>1, UserTypes
  <1>3. /\ Runs(u) /\ fv \in open[u] /\ open' = [open EXCEPT ![u] = @ \ {fv}]
        /\ UNCHANGED <<file, stack, commit, level, nextTxn>>
    BY DEF Close
  <1>4. txn \in [User -> Frame] /\ open \in [User -> SUBSET Fvar]
    BY <1>1 DEF TypeOK
  <1>5. PICK O \in SUBSET Fvar : O = open[u] \ {fv}
    BY <1>2
  <1>6. open' = [open EXCEPT ![u] = O] /\ open'[u] = O
    BY <1>3, <1>4, <1>5
  <1>7. CASE txn[u].id # 0
    <2>1. /\ ~UsedOutside(u, fv) /\ UNCHANGED lock
          /\ txn' = [txn EXCEPT ![u].cache = Append(txn[u].cache, [kind |-> "close", fvar |-> fv])]
      BY <1>7 DEF Close, Disciplined
    <2>2. PICK e \in Entry : e = [kind |-> "close", fvar |-> fv] /\ e.kind = "close" /\ e.fvar = fv
      <3>1. [kind |-> "close", fvar |-> fv] \in [kind : {"close"}, fvar : Fvar]
        OBVIOUS
      <3>2. [kind |-> "close", fvar |-> fv] \in Entry
        BY <3>1, Zenon DEF Entry
      <3>3. /\ [kind |-> "close", fvar |-> fv].kind = "close"
            /\ [kind |-> "close", fvar |-> fv].fvar = fv
        OBVIOUS
      <3> QED BY <3>2, <3>3, Zenon
    <2>3. PICK q \in Seq(Entry) : q = Append(txn[u].cache, e)
      <3>1. txn[u].cache \in Seq(Entry)
        BY <1>2
      <3>2. Append(txn[u].cache, e) \in Seq(Entry)
        BY <3>1, AppendProperties
      <3> QED BY <3>2, Zenon
    <2>4. PICK t \in Frame : t = [txn[u] EXCEPT !.cache = q]
      BY <1>2, FrameFacts
    <2>5. txn' = [txn EXCEPT ![u] = t] /\ txn'[u] = [txn[u] EXCEPT !.cache = q]
      BY <2>1, <2>2, <2>3, <2>4, <1>4
    <2>6. TypeOK'
      <3>1. /\ file' \in [Rec -> Content] /\ lock' \in [Rec -> RecLock] /\ nextTxn' \in Nat
            /\ stack' = stack /\ commit' = commit /\ level' = level
        BY <1>2, <1>3, <2>1
      <3> QED BY <1>1, <1>2, <1>6, <2>5, <3>1, TypeKept, Zenon
    <2>7. OnlyUser(u)
      BY <1>3, <1>4, <1>6, <2>1, <2>5 DEF OnlyUser
    <2>8. PICK S, T : /\ HeadOf(S, T, txn[u].id, txn[u].cache, q)
                      /\ Nested(S, nextTxn) /\ Sound(u, S, lock, open[u])
                      /\ Sound(u, T, lock', open'[u]) => Good(u)' /\ Outside(u)'
      BY <1>3, <1>7, <2>5, HeadStep
    <2>9. \A r \in Rec : lock[r] # Unlocked /\ lock[r].owner = u /\ lock[r].fvar = fv
                           => lock[r].txn = txn[u].id
      BY <2>1 DEF UsedOutside
    <2>10. Sound(u, T, lock, O)
      BY <1>2, <1>3, <1>5, <2>2, <2>3, <2>8, <2>9, CloseGood
    <2> QED BY <1>6, <2>1, <2>6, <2>7, <2>8, <2>10
  <1>8. CASE txn[u].id = 0
    <2>1. lock' = Released(u, {}, {fv}) /\ UNCHANGED txn
      BY <1>8 DEF Close
    <2>2. lock' \in [Rec -> RecLock]
      BY <1>1, <2>1, ReleasedType
    <2>3. TypeOK'
      BY <1>1, <1>3, <1>5, <1>6, <2>1, <2>2 DEF TypeOK
    <2>4. \A r \in Rec : \/ lock'[r] = lock[r]
                         \/ lock[r] # Unlocked /\ lock[r].owner = u /\ lock'[r] = Unlocked
      BY <1>1, <2>1, ReleasedOnly
    <2>5. OnlyUser(u)
      BY <1>3, <1>4, <1>6, <2>1, <2>4 DEF OnlyUser
    <2>6. Good(u)' /\ Outside(u)'
      BY <1>3, <1>8, <2>1, <2>4, Idle
    <2> QED BY <2>3, <2>5, <2>6
  <1> QED BY <1>7, <1>8

LEMMA BeginStep ==
  ASSUME IInv, NEW u \in User, Begin(u)
  PROVE  TypeOK' /\ OnlyUser(u) /\ Good(u)' /\ Outside(u)'
  <1>1. TypeOK
    BY DEF IInv
  <1>2. /\ txn[u] \in Frame /\ txn[u].cache \in Seq(Entry) /\ stack[u] \in Seq(Frame)
        /\ commit[u] \in Committed /\ open[u] \in SUBSET Fvar /\ level[u] \in Nat
        /\ lock \in [Rec -> RecLock] /\ file \in [Rec -> Content] /\ nextTxn \in Nat
    BY <1>1, UserTypes
  <1>3. /\ Runs(u) /\ nextTxn' = nextTxn + 1
        /\ UNCHANGED <<file, lock, open, commit, level>>
    BY DEF Begin
  <1>4. txn \in [User -> Frame] /\ stack \in [User -> Seq(Frame)]
    BY <1>1 DEF TypeOK
  <1>5. /\ Shape(Live(u), txn[u].id, txn[u].cache, stack[u])
        /\ Nested(Live(u), nextTxn) /\ Sound(u, Live(u), lock, open[u])
        /\ OutsideOf(txn[u], stack[u], commit[u])
    BY <1>2, <1>3, Mine, LiveShape DEF Live, Runs
  <1>6. Live(u) \in Seq(LiveTxn) /\ Live(u) # <<>> /\ Live(u)[1].id = txn[u].id
        /\ Len(Live(u)) = Len(stack[u]) + 1
    BY <1>5 DEF Shape
  <1>7. nextTxn # 0
    <2>1. 1 \in 1..Len(Live(u))
      BY <1>6
    <2>2. Live(u)[1].id < nextTxn /\ Live(u)[1].id \in Nat
      BY <1>5, <1>6, <2>1, LiveTxnFacts DEF Nested
    <2> QED BY <2>2, <1>2
  <1>8. \E t \in Frame, s \in Seq(Frame) :
          /\ txn' = [txn EXCEPT ![u] = t] /\ stack' = [stack EXCEPT ![u] = s]
          /\ t.id = nextTxn /\ t.cache = <<>>
          /\ \/ txn[u].id = 0 /\ s = <<>>
             \/ /\ txn[u].id # 0
                /\ Len(s) = Len(stack[u]) + 1 /\ s[1].id = txn[u].id /\ s[1].cache = txn[u].cache
                /\ \A k \in 1..Len(stack[u]) : s[k + 1] = stack[u][k]
    <2>1. CASE txn[u].id # 0
      <3>1. /\ stack' = [stack EXCEPT ![u] = <<[txn[u] EXCEPT !.level = level[u]]>> \o @]
            /\ txn' = [txn EXCEPT ![u] = [id |-> nextTxn, level |-> level[u],
                                         begun |-> level[u], cache |-> <<>>]]
        BY <2>1 DEF Begin
      <3>2. PICK f \in Frame : f = [txn[u] EXCEPT !.level = level[u]]
                               /\ f.id = txn[u].id /\ f.cache = txn[u].cache
        <4>1. [txn[u] EXCEPT !.level = level[u]] \in Frame
          BY <1>2, FrameFacts
        <4>2. [txn[u] EXCEPT !.level = level[u]].id = txn[u].id
              /\ [txn[u] EXCEPT !.level = level[u]].cache = txn[u].cache
          BY <1>2 DEF Frame
        <4> QED BY <4>1, <4>2, Zenon
      <3>3. PICK s \in Seq(Frame) : s = <<f>> \o stack[u] /\ Len(s) = Len(stack[u]) + 1 /\ s[1] = f
                                    /\ \A k \in 1..Len(stack[u]) : s[k + 1] = stack[u][k]
        <4>1. PICK st \in Seq(Frame) : st = stack[u]
          BY <1>2
        <4>2. <<f>> \o st \in Seq(Frame) /\ Len(<<f>> \o st) = Len(st) + 1 /\ (<<f>> \o st)[1] = f
              /\ \A k \in 1..Len(st) : (<<f>> \o st)[k + 1] = st[k]
          OBVIOUS
        <4> QED BY <4>1, <4>2, Zenon
      <3>4. PICK t \in Frame : t = [id |-> nextTxn, level |-> level[u],
                                   begun |-> level[u], cache |-> <<>>]
                               /\ t.id = nextTxn /\ t.cache = <<>>
        <4>1. <<>> \in Seq(Entry)
          OBVIOUS
        <4>2. [id |-> nextTxn, level |-> level[u], begun |-> level[u], cache |-> <<>>] \in Frame
          BY <1>2, <4>1, FrameFacts
        <4> QED BY <4>2
      <3>5. txn' = [txn EXCEPT ![u] = t] /\ stack' = [stack EXCEPT ![u] = s]
        BY <1>4, <3>1, <3>2, <3>3, <3>4
      <3> QED BY <2>1, <3>2, <3>3, <3>4, <3>5
    <2>2. CASE txn[u].id = 0
      <3>1. stack[u] = <<>> /\ txn[u].cache = <<>>
        BY <1>3, <1>5, <2>2 DEF OutsideOf, Runs
      <3>2. /\ UNCHANGED stack
            /\ txn' = [txn EXCEPT ![u] = [id |-> nextTxn, level |-> level[u],
                                         begun |-> level[u], cache |-> txn[u].cache]]
        BY <2>2 DEF Begin
      <3>3. PICK t \in Frame : t = [id |-> nextTxn, level |-> level[u],
                                   begun |-> level[u], cache |-> txn[u].cache]
                               /\ t.id = nextTxn /\ t.cache = txn[u].cache
        <4>1. [id |-> nextTxn, level |-> level[u], begun |-> level[u], cache |-> txn[u].cache] \in Frame
          BY <1>2, FrameFacts
        <4> QED BY <4>1
      <3>4. stack' = [stack EXCEPT ![u] = stack[u]]
        BY <1>4, <3>2
      <3> QED BY <1>2, <2>2, <3>1, <3>2, <3>3, <3>4
    <2> QED BY <2>1, <2>2
  <1>9. PICK t \in Frame, s \in Seq(Frame) :
          /\ txn' = [txn EXCEPT ![u] = t] /\ stack' = [stack EXCEPT ![u] = s]
          /\ t.id = nextTxn /\ t.cache = <<>>
          /\ \/ txn[u].id = 0 /\ s = <<>>
             \/ /\ txn[u].id # 0
                /\ Len(s) = Len(stack[u]) + 1 /\ s[1].id = txn[u].id /\ s[1].cache = txn[u].cache
                /\ \A k \in 1..Len(stack[u]) : s[k + 1] = stack[u][k]
    BY <1>8
  <1>10. TypeOK'
    <2>1. nextTxn' \in Nat
      BY <1>2, <1>3
    <2> QED BY <1>1, <1>2, <1>3, <1>9, <2>1, TypeKept
  <1>11. OnlyUser(u)
    BY <1>3, <1>4, <1>9 DEF OnlyUser
  <1>12. txn'[u] = t /\ stack'[u] = s
    BY <1>4, <1>9
  <1>13. PICK T : T = LiveOf(t, s, commit[u]) /\ Shape(T, nextTxn, <<>>, s)
    BY <1>2, <1>3, <1>9, LiveShape DEF Runs
  <1>14. Nested(T, nextTxn + 1) /\ Sound(u, T, lock, open[u])
    <2>1. CASE txn[u].id = 0 /\ s = <<>>
      <3>1. Len(T) = 1 /\ T[1].id = nextTxn /\ T[1].cache = <<>>
        BY <1>13, <2>1 DEF Shape
      <3>2. Nested(T, nextTxn + 1)
        BY <1>2, <3>1 DEF Nested
      <3>3. Owned(u, Live(u), lock) /\ Len(stack[u]) = 0
        BY <1>5, <2>1 DEF Sound, OutsideOf
      <3>4. \A r \in Rec : lock[r] # Unlocked /\ lock[r].owner = u => lock[r].txn = 0
        BY <1>6, <2>1, <3>3 DEF Owned
      <3>5. Owned(u, T, lock)
        BY <3>4 DEF Owned
      <3> QED BY <3>1, <3>2, <3>5, SoundEmpty
    <2>2. CASE /\ txn[u].id # 0
               /\ Len(s) = Len(stack[u]) + 1 /\ s[1].id = txn[u].id /\ s[1].cache = txn[u].cache
               /\ \A k \in 1..Len(stack[u]) : s[k + 1] = stack[u][k]
      <3>1. PICK S : S = Live(u)
        OBVIOUS
      <3>2. Len(T) = Len(S) + 1 /\ T[1].id = nextTxn /\ T[1].cache = <<>>
        BY <1>13, <2>2, <1>6, <3>1 DEF Shape
      <3>3. \A k \in 2..Len(T) : T[k] = S[k - 1]
        BY <1>2, <1>5, <1>13, <2>2, <3>1, ShapePushed, ZenonT(60)
      <3>4. S # <<>> /\ S[1].id > 0
        <4>1. txn[u].id \in Nat
          BY <1>2, FrameFacts
        <4>2. txn[u].id > 0
          BY <2>2, <4>1
        <4>3. S # <<>> /\ S[1].id = txn[u].id
          BY <1>6, <3>1
        <4> QED BY <4>2, <4>3
      <3>5. S \in Seq(LiveTxn) /\ Nested(S, nextTxn) /\ Sound(u, S, lock, open[u])
        BY <1>5, <1>6, <3>1, Zenon
      <3>6. nextTxn \in Nat
        BY <1>2
      <3> QED BY <3>6, <3>2, <3>3, <3>4, <3>5, SoundPushed
    <2> QED BY <1>9, <2>1, <2>2
  <1>15. OutsideOf(t, s, commit[u])
    BY <1>3, <1>7, <1>9 DEF OutsideOf, Runs
  <1> QED BY <1>3, <1>10, <1>11, <1>12, <1>13, <1>14, <1>15, GoodAfter

-----------------------------------------------------------------------------
(* Transactions given up *)

LEMMA GoneFacts ==
  ASSUME IInv, NEW u \in User, Runs(u), NEW n \in 0..Len(Frames(u)), NEW gone,
         gone = {Frames(u)[k] : k \in 1..n}
  PROVE  /\ {f.id : f \in gone} = Dropped(u, Live(u), n)
         /\ UNION {ClosedIn(f.cache) : f \in gone} = DroppedFiles(u, Live(u), n)
  <1>1. PICK V : V = Live(u)
    OBVIOUS
  <1>2. PICK F : F = Frames(u)
    OBVIOUS
  <1>3. PICK m \in Nat : m = Len(F) /\ n \in 0..m
    <2>1. TypeOK
      BY DEF IInv
    <2>2. Frames(u) \in Seq(Frame)
      BY <2>1, FramesFacts
    <2> QED BY <1>2, <2>2
  <1>4. \A k \in 1..m : V[k].cache = F[k].cache /\ V[k].id = F[k].id
    BY <1>1, <1>2, <1>3, LiveIsFrames
  <1>5. \A k \in 1..n : V[k].cache = F[k].cache /\ V[k].id = F[k].id
    <2>1. \A k \in 1..n : k \in 1..m
      BY <1>3
    <2> QED BY <1>4, <2>1
  <1>6. {f.id : f \in gone} = {V[k].id : k \in 1..n}
    BY <1>2, <1>5
  <1>7. {ClosedIn(f.cache) : f \in gone} = {ClosedIn(V[k].cache) : k \in 1..n}
    <2>1. \A k \in 1..n : ClosedIn(V[k].cache) = ClosedIn(F[k].cache)
      BY <1>5, Zenon
    <2> HIDE DEF ClosedIn
    <2> QED BY <1>2, <2>1
  <1> QED BY <1>1, <1>6, <1>7, Zenon DEF Dropped, DroppedFiles

\* What rollback() leaves: T lists the transactions that remain.
RestOf(S, T, n) == Len(T) = Len(S) - n /\ \A k \in 1..Len(T) : T[k] = S[k + n]

LEMMA Remaining ==
  ASSUME IInv, NEW u \in User, NEW n \in 1..Len(stack[u]), Runs(u)
  PROVE  \E t \in Frame, s \in Seq(Frame) :
           /\ t = stack[u][n] /\ s = SubSeq(stack[u], n + 1, Len(stack[u]))
           /\ RestOf(Live(u), LiveOf(t, s, commit[u]), n)
           /\ t.id > 0
  <1>1. TypeOK /\ stack[u] \in Seq(Frame) /\ commit[u] \in Committed /\ ~commit[u].on
        /\ Nested(Live(u), nextTxn) /\ nextTxn \in Nat
    BY Mine, UserTypes DEF Runs
  <1>2. PICK st \in Seq(Frame) : st = stack[u]
    BY <1>1
  <1>3. PICK m \in Nat : m = Len(st) /\ n \in 1..m
    BY <1>2
  <1>4. PICK t \in Frame : t = st[n]
    BY <1>2, <1>3
  <1>5. PICK s \in Seq(Frame) : /\ s = SubSeq(st, n + 1, Len(st)) /\ Len(s) = m - n
                                /\ \A k \in 1..(m - n) : s[k] = st[k + n]
    <2>1. n \in 0..Len(st)
      BY <1>3
    <2>2. PICK s : s = SubSeq(st, n + 1, Len(st))
      OBVIOUS
    <2>3. s \in Seq(Frame) /\ Len(s) = Len(st) - n /\ \A k \in 1..(Len(st) - n) : s[k] = st[k + n]
      BY <2>1, <2>2, SubSeqFacts, Zenon
    <2> QED BY <1>3, <2>2, <2>3, Zenon
  <1>6. PICK T : T = LiveOf(t, s, commit[u]) /\ Shape(T, t.id, t.cache, s)
    BY <1>1, LiveShape
  <1>7. PICK V : V = Live(u)
    OBVIOUS
  <1>8. Len(V) = m + 1 /\ \A k \in 2..(m + 1) : V[k] = [id |-> st[k - 1].id, cache |-> st[k - 1].cache]
    BY <1>2, <1>3, <1>7, Mine
  <1>9. /\ T \in Seq(LiveTxn) /\ Len(T) = m - n + 1 /\ T[1].id = t.id /\ T[1].cache = t.cache
        /\ \A k \in 2..(m - n + 1) : T[k] = [id |-> s[k - 1].id, cache |-> s[k - 1].cache]
    <2>1. Len(s) + 1 = m - n + 1
      BY <1>5
    <2> QED BY <1>6, <2>1, Zenon DEF Shape
  <1>10. n + 1 \in 2..(m + 1) /\ (n + 1) - 1 = n
    BY <1>3
  <1>11. V[n + 1] = [id |-> t.id, cache |-> t.cache]
    BY <1>4, <1>8, <1>10
  <1>12. ASSUME NEW k \in 1..Len(T) PROVE T[k] = V[k + n]
    <2>1. CASE k = 1
      <3>1. T[1] \in LiveTxn
        BY <1>9, <2>1
      <3>2. T[1] = [id |-> T[1].id, cache |-> T[1].cache]
        BY <3>1 DEF LiveTxn
      <3>3. T[1] = V[n + 1]
        BY <1>9, <1>11, <3>2
      <3>4. k + n = n + 1
        BY <2>1
      <3> QED BY <2>1, <3>3, <3>4
    <2>2. CASE k # 1
      <3>1. k \in 2..(m - n + 1) /\ k - 1 \in 1..(m - n) /\ k + n \in 2..(m + 1)
            /\ (k - 1) + n = (k + n) - 1
        BY <1>3, <1>9, <2>2
      <3>2. s[k - 1] = st[(k + n) - 1]
        BY <1>5, <3>1
      <3>3. T[k] = [id |-> s[k - 1].id, cache |-> s[k - 1].cache]
        BY <1>9, <3>1
      <3>4. V[k + n] = [id |-> st[(k + n) - 1].id, cache |-> st[(k + n) - 1].cache]
        BY <1>8, <3>1
      <3> QED BY <3>2, <3>3, <3>4
    <2> QED BY <2>1, <2>2
  <1>13. t.id > 0
    <2>1. n + 1 \in 1..Len(V) /\ n + 1 > 1
      BY <1>3, <1>8
    <2>2. V[n + 1].id > 0
      BY <1>1, <1>7, <2>1 DEF Nested
    <2> QED BY <1>11, <2>2
  <1>14. Len(T) = Len(V) - n
    BY <1>8, <1>9, <1>3
  <1>15. RestOf(V, T, n)
    BY <1>12, <1>14, Zenon DEF RestOf
  <1> QED BY <1>2, <1>4, <1>5, <1>6, <1>7, <1>13, <1>15, Zenon

LEMMA RestSound ==
  ASSUME NEW u, NEW S, NEW L, NEW O, NEW N, NEW n, NEW T, NEW M,
         S \in Seq(LiveTxn), L \in [Rec -> RecLock], n \in 1..(Len(S) - 1),
         M = FreedFrom(L, u, Dropped(u, S, n), DroppedFiles(u, S, n)),
         RestOf(S, T, n), Nested(S, N), Sound(u, S, L, O)
  PROVE  Nested(T, N) /\ Sound(u, T, M, O)
  BY SoundDropped, Zenon DEF RestOf

LEMMA RollBackStep ==
  ASSUME IInv, NEW u \in User, NEW n, NEW l \in Nat,
         Runs(u), txn[u].id # 0, n \in 1..Len(Frames(u)), RollBack(u, n),
         UNCHANGED <<file, open, commit, nextTxn>>,
         level' = level \/ level' = [level EXCEPT ![u] = l]
  PROVE  TypeOK' /\ OnlyUser(u) /\ Good(u)' /\ Outside(u)'
  <1>1. TypeOK
    BY DEF IInv
  <1>2. /\ txn[u] \in Frame /\ stack[u] \in Seq(Frame) /\ commit[u] \in Committed
        /\ open[u] \in SUBSET Fvar /\ lock \in [Rec -> RecLock] /\ file \in [Rec -> Content]
        /\ nextTxn \in Nat
    BY <1>1, UserTypes
  <1>3. txn \in [User -> Frame] /\ stack \in [User -> Seq(Frame)]
    BY <1>1 DEF TypeOK
  <1>4. PICK m \in Nat : m = Len(stack[u]) /\ Len(Frames(u)) = m + 1 /\ n \in 1..(m + 1)
    BY <1>1, <1>2, FramesFacts
  <1>5. PICK M \in [Rec -> RecLock] :
          /\ lock' = M
          /\ M = FreedFrom(lock, u, Dropped(u, Live(u), n), DroppedFiles(u, Live(u), n))
    <2>1. PICK gone : gone = {Frames(u)[k] : k \in 1..n}
      OBVIOUS
    <2>2. lock' = Released(u, {f.id : f \in gone}, UNION {ClosedIn(f.cache) : f \in gone})
      BY <2>1, Zenon DEF RollBack
    <2>3. n \in 0..Len(Frames(u))
      BY <1>4
    <2>4. /\ {f.id : f \in gone} = Dropped(u, Live(u), n)
          /\ UNION {ClosedIn(f.cache) : f \in gone} = DroppedFiles(u, Live(u), n)
      BY <2>1, <2>3, GoneFacts
    <2>5. lock' = Released(u, Dropped(u, Live(u), n), DroppedFiles(u, Live(u), n))
      BY <2>2, <2>4, Zenon
    <2>6. lock' \in [Rec -> RecLock]
          /\ lock' = FreedFrom(lock, u, Dropped(u, Live(u), n), DroppedFiles(u, Live(u), n))
      BY <1>1, <2>5, ReleasedType, Zenon
    <2> QED BY <2>6, Zenon
  <1>6. \A r \in Rec : \/ lock'[r] = lock[r]
                       \/ lock[r] # Unlocked /\ lock[r].owner = u /\ lock'[r] = Unlocked
    BY <1>2, <1>5, FreedFacts
  <1>7. /\ Live(u) \in Seq(LiveTxn) /\ Len(Live(u)) = m + 1
        /\ Nested(Live(u), nextTxn) /\ Sound(u, Live(u), lock, open[u]) /\ ~commit[u].on
    BY <1>4, Mine DEF Runs
  <1>8. PICK t \in Frame, s \in Seq(Frame) :
          /\ txn' = [txn EXCEPT ![u] = t] /\ stack' = [stack EXCEPT ![u] = s]
          /\ Nested(LiveOf(t, s, commit[u]), nextTxn)
          /\ Sound(u, LiveOf(t, s, commit[u]), M, open[u])
          /\ OutsideOf(t, s, commit[u])
    <2>1. CASE n \in 1..m
      <3>1. PICK t \in Frame, s \in Seq(Frame) :
              /\ t = stack[u][n] /\ s = SubSeq(stack[u], n + 1, Len(stack[u]))
              /\ RestOf(Live(u), LiveOf(t, s, commit[u]), n)
              /\ t.id > 0
        BY <1>4, <2>1, Remaining
      <3> DEFINE T == LiveOf(t, s, commit[u])
      <3> HIDE DEF T
      <3>2. n <= Len(stack[u])
        BY <1>4, <2>1
      <3>3. txn' = [txn EXCEPT ![u] = t] /\ stack' = [stack EXCEPT ![u] = s]
        BY <3>1, <3>2 DEF RollBack
      <3>4. n \in 1..(Len(Live(u)) - 1)
        BY <1>7, <2>1
      <3>5. Nested(T, nextTxn) /\ Sound(u, T, M, open[u])
        <4>1. lock \in [Rec -> RecLock] /\ RestOf(Live(u), T, n)
          BY <1>2, <3>1 DEF T
        <4> QED BY <1>5, <1>7, <4>1, <3>4, RestSound, SMTT(30)
      <3>6. OutsideOf(t, s, commit[u])
        <4>1. t.id # 0
          BY <3>1
        <4> QED BY <1>7, <4>1, Zenon DEF OutsideOf
      <3> QED BY <3>3, <3>5, <3>6, Zenon DEF T
    <2>2. CASE n = m + 1
      <3>1. ~(n <= Len(stack[u]))
        BY <1>4, <2>2
      <3>2. SubSeq(stack[u], n + 1, Len(stack[u])) = <<>>
        BY <1>2, <1>4, <2>2
      <3>3. txn' = [txn EXCEPT ![u] = NoTxn] /\ stack' = [stack EXCEPT ![u] = <<>>]
        BY <3>1, <3>2 DEF RollBack
      <3>4. NoTxn \in Frame /\ <<>> \in Seq(Frame) /\ NoTxn.id = 0 /\ NoTxn.cache = <<>>
        BY Nothing DEF NoTxn
      <3>5. PICK T : T = LiveOf(NoTxn, <<>>, commit[u]) /\ Shape(T, 0, <<>>, <<>>)
        <4>1. Shape(LiveOf(NoTxn, <<>>, commit[u]), NoTxn.id, NoTxn.cache, <<>>)
          BY <1>2, <1>7, <3>4, LiveShape, Zenon
        <4> QED BY <3>4, <4>1, Zenon
      <3>6. Len(T) = 1 /\ T[1].id = 0 /\ T[1].cache = <<>>
        BY <3>5 DEF Shape
      <3>7. 0 < nextTxn
        <4>1. 1 \in 1..Len(Live(u)) /\ Live(u)[1].id \in Nat
          BY <1>7, LiveTxnFacts
        <4>2. Live(u)[1].id < nextTxn
          BY <1>7, <4>1 DEF Nested
        <4> QED BY <1>2, <4>1, <4>2
      <3>8. Nested(T, nextTxn)
        BY <3>6, <3>7 DEF Nested
      <3>9. Sound(u, T, M, open[u])
        <4>1. Owned(u, Live(u), lock) /\ n = Len(Live(u))
          BY <1>7, <2>2 DEF Sound
        <4>2. \A k \in 1..Len(T) : T[k].cache = <<>>
          BY <3>6
        <4> QED BY <1>2, <1>5, <1>7, <4>1, <4>2, SoundCleared
      <3>10. OutsideOf(NoTxn, <<>>, commit[u])
        BY <1>7, <3>4 DEF OutsideOf
      <3> QED BY <3>3, <3>4, <3>5, <3>8, <3>9, <3>10
    <2> QED BY <1>4, <2>1, <2>2
  <1>9. TypeOK'
    <2>1. file' \in [Rec -> Content] /\ lock' \in [Rec -> RecLock] /\ nextTxn' \in Nat
          /\ commit' = commit /\ open' = open
      BY <1>2, <1>5
    <2> QED BY <1>1, <1>2, <1>8, <2>1, TypeKept, Zenon
  <1>10. OnlyUser(u)
    BY <1>3, <1>6, <1>8 DEF OnlyUser
  <1>11. t = txn'[u] /\ s = stack'[u] /\ commit'[u] = commit[u] /\ open'[u] = open[u]
         /\ nextTxn' = nextTxn
    BY <1>3, <1>8
  <1>12. Good(u)' /\ Outside(u)'
    BY <1>5, <1>8, <1>11, GoodAfter
  <1> QED BY <1>9, <1>10, <1>12

LEMMA LevelOnly ==
  ASSUME IInv, NEW u \in User, NEW l \in Nat,
         UNCHANGED <<file, lock, open, txn, stack, commit, nextTxn>>,
         level' = [level EXCEPT ![u] = l]
  PROVE  TypeOK' /\ OnlyUser(u) /\ Good(u)' /\ Outside(u)'
  <1>1. TypeOK /\ Good(u) /\ OutsideOf(txn[u], stack[u], commit[u])
    BY DEF IInv, Outside
  <1>2. TypeOK'
    BY <1>1 DEF TypeOK
  <1>3. OnlyUser(u)
    BY DEF OnlyUser
  <1>4. Live(u)' = Live(u)
    BY Zenon DEF Live
  <1>5. Good(u)'
    BY <1>1, <1>4, Zenon DEF Good
  <1>6. Outside(u)'
    BY <1>1, Zenon DEF Outside
  <1> QED BY <1>2, <1>3, <1>5, <1>6

LEMMA EndTxnStep ==
  ASSUME IInv, NEW u \in User, EndTxn(u)
  PROVE  TypeOK' /\ OnlyUser(u) /\ Good(u)' /\ Outside(u)'
  <1>1. TypeOK
    BY DEF IInv
  <1>2. /\ Runs(u) /\ txn[u].id # 0 /\ RollBack(u, 1)
        /\ UNCHANGED <<file, open, commit, nextTxn>> /\ level' = level
    BY DEF EndTxn
  <1>3. 1 \in 1..Len(Frames(u))
    <2>1. stack[u] \in Seq(Frame) /\ Len(Frames(u)) = Len(stack[u]) + 1
      BY <1>1, UserTypes, FramesFacts
    <2> QED BY <2>1
  <1>4. level[u] \in Nat
    BY <1>1, UserTypes
  <1> QED BY <1>2, <1>3, <1>4, RollBackStep

\* What the choice in Above(u) finds.
LEMMA AboveFacts ==
  ASSUME TypeOK, NEW u \in User, txn[u].id # 0
  PROVE  /\ Above(u) \in 0..Len(Frames(u))
         /\ \A k \in 1..Above(u) : Frames(u)[k].level >= level[u]
         /\ Above(u) < Len(Frames(u)) => Frames(u)[Above(u) + 1].level < level[u]
  <1>1. PICK F \in Seq(Frame) : F = Frames(u)
    BY FramesFacts
  <1>2. PICK m \in Nat : m = Len(F)
    OBVIOUS
  <1>3. PICK l \in Nat : l = level[u]
    BY UserTypes
  <1>4. \A k \in 1..m : F[k].level \in Nat
    <2>1. \A k \in 1..m : F[k] \in Frame
      BY <1>2
    <2>2. \A f \in Frame : f.level \in Nat
      BY DEF Frame
    <2> QED BY <2>1, <2>2
  <1>5. PICK I \in SUBSET Nat : I = {n \in 0..m : n = m \/ F[n + 1].level < l}
    <2>1. PICK J : J = {n \in 0..m : n = m \/ F[n + 1].level < l}
      OBVIOUS
    <2>2. \A n \in J : n \in 0..m
      BY <2>1, Zenon
    <2>3. J \in SUBSET Nat
      BY <2>2
    <2> QED BY <2>1, <2>3, Zenon
  <1>6. m \in I
    BY <1>5
  <1>7. PICK n \in I : \A j \in I : n <= j
    BY <1>6, LeastNat
  <1>8. n \in 0..m /\ (n = m \/ F[n + 1].level < l)
    BY <1>5, <1>7
  <1>9. \A k \in 1..n : F[k].level >= l
    <2> SUFFICES ASSUME NEW k \in 1..n PROVE F[k].level >= l
      OBVIOUS
    <2>1. k - 1 \in 0..m /\ ~(n <= k - 1) /\ k - 1 # m /\ (k - 1) + 1 = k /\ k \in 1..m
      BY <1>8
    <2>2. k - 1 \notin I
      BY <1>7, <2>1
    <2>3. ~(F[k].level < l)
      BY <1>5, <2>1, <2>2
    <2> QED BY <1>4, <2>1, <2>3
  <1>10. \E i \in 0..Len(Frames(u)) :
           /\ \A k \in 1..i : Frames(u)[k].level >= level[u]
           /\ i < Len(Frames(u)) => Frames(u)[i + 1].level < level[u]
    <2>1. n \in 0..Len(F) /\ (n < Len(F) => F[n + 1].level < l)
      BY <1>2, <1>8
    <2> QED BY <1>1, <1>3, <1>9, <2>1, Zenon
  <1>11. Above(u) = CHOOSE i \in 0..Len(Frames(u)) :
           /\ \A k \in 1..i : Frames(u)[k].level >= level[u]
           /\ i < Len(Frames(u)) => Frames(u)[i + 1].level < level[u]
    BY Zenon DEF Above
  <1> QED BY <1>10, <1>11, Zenon

LEMMA EndCommandStep ==
  ASSUME IInv, NEW u \in User, EndCommand(u)
  PROVE  TypeOK' /\ OnlyUser(u) /\ Good(u)' /\ Outside(u)'
  <1>1. TypeOK
    BY DEF IInv
  <1>2. /\ Runs(u) /\ level[u] > 1 /\ level[u] \in Nat
        /\ level' = [level EXCEPT ![u] = level[u] - 1]
        /\ UNCHANGED <<file, open, commit, nextTxn>>
    BY <1>1, UserTypes DEF EndCommand
  <1>3. PICK l \in Nat : l = level[u] - 1
    BY <1>2
  <1>4. level' = [level EXCEPT ![u] = l]
    BY <1>2, <1>3
  <1>5. CASE Above(u) = 0
    <2>1. UNCHANGED <<lock, txn, stack>>
      BY <1>5 DEF EndCommand
    <2> QED BY <1>2, <1>4, <2>1, LevelOnly
  <1>6. CASE Above(u) # 0
    <2>1. txn[u].id # 0
      BY <1>6 DEF Above
    <2>2. Len(Frames(u)) \in Nat
      <3>1. Frames(u) \in Seq(Frame)
        BY <1>1, FramesFacts
      <3> QED BY <3>1
    <2>3. Above(u) \in 0..Len(Frames(u))
      BY <1>1, <2>1, AboveFacts
    <2>4. PICK n : n = Above(u)
      OBVIOUS
    <2>5. n \in 1..Len(Frames(u))
      BY <1>6, <2>2, <2>3, <2>4
    <2>6. RollBack(u, n)
      BY <1>6, <2>4 DEF EndCommand
    <2> QED BY <1>2, <1>4, <2>1, <2>5, <2>6, RollBackStep
  <1> QED BY <1>5, <1>6

\* All transactions of u are gone.
LEMMA ClearedGood ==
  ASSUME IInv, NEW u \in User, NEW ids, NEW F,
         ids = Dropped(u, Live(u), Len(Live(u))), lock' = Released(u, ids, F),
         txn'[u] = NoTxn, stack'[u] = <<>>, commit'[u] \in Committed, ~commit'[u].on,
         nextTxn' = nextTxn
  PROVE  Good(u)' /\ Outside(u)'
  <1>1. /\ TypeOK /\ Live(u) \in Seq(LiveTxn) /\ 1 \in 1..Len(Live(u))
        /\ Nested(Live(u), nextTxn) /\ Sound(u, Live(u), lock, open[u])
    BY Mine
  <1>2. lock \in [Rec -> RecLock] /\ nextTxn \in Nat
    BY <1>1, UserTypes
  <1>3. NoTxn \in Frame /\ <<>> \in Seq(Frame) /\ NoTxn.id = 0 /\ NoTxn.cache = <<>>
    BY Nothing DEF NoTxn
  <1>4. PICK T : T = LiveOf(NoTxn, <<>>, commit'[u]) /\ Shape(T, 0, <<>>, <<>>)
    <2>1. Shape(LiveOf(NoTxn, <<>>, commit'[u]), NoTxn.id, NoTxn.cache, <<>>)
      BY <1>3, LiveShape, Zenon
    <2> QED BY <1>3, <2>1, Zenon
  <1>5. Len(T) = 1 /\ T[1].id = 0 /\ T[1].cache = <<>>
    BY <1>4 DEF Shape
  <1>6. 0 < nextTxn
    <2>1. Live(u)[1].id \in Nat
      BY <1>1, LiveTxnFacts
    <2>2. Live(u)[1].id < nextTxn
      BY <1>1 DEF Nested
    <2> QED BY <1>2, <2>1, <2>2
  <1>7. Nested(T, nextTxn)
    BY <1>5, <1>6 DEF Nested
  <1>8. Sound(u, T, lock', open'[u])
    <2>1. Owned(u, Live(u), lock)
      BY <1>1 DEF Sound
    <2>2. \A k \in 1..Len(T) : T[k].cache = <<>>
      BY <1>5
    <2>3. lock' = FreedFrom(lock, u, ids, F)
      BY <1>1, ReleasedType
    <2>4. Sound(u, T, FreedFrom(lock, u, Dropped(u, Live(u), Len(Live(u))), F), open'[u])
      BY <1>1, <1>2, <2>1, <2>2, SoundCleared
    <2> QED BY <2>3, <2>4, Zenon
  <1>9. OutsideOf(NoTxn, <<>>, commit'[u])
    BY <1>3 DEF OutsideOf
  <1> QED BY <1>4, <1>7, <1>8, <1>9, GoodAfter

LEMMA AbortStep ==
  ASSUME IInv, NEW u \in User, Abort(u)
  PROVE  TypeOK' /\ OnlyUser(u) /\ Good(u)' /\ Outside(u)'
  <1>1. TypeOK
    BY DEF IInv
  <1>2. /\ txn[u] \in Frame /\ stack[u] \in Seq(Frame) /\ commit[u] \in Committed
        /\ open[u] \in SUBSET Fvar /\ lock \in [Rec -> RecLock] /\ file \in [Rec -> Content]
        /\ nextTxn \in Nat /\ level[u] \in Nat
    BY <1>1, UserTypes
  <1>3. txn \in [User -> Frame] /\ stack \in [User -> Seq(Frame)] /\ open \in [User -> SUBSET Fvar]
        /\ level \in [User -> Nat]
    BY <1>1 DEF TypeOK
  <1>4. Runs(u) /\ UNCHANGED <<file, commit, nextTxn>> /\ ~commit[u].on
    BY DEF Abort, Runs
  <1>5. PICK keep \in SUBSET open[u], l \in 1..level[u] :
          LET n == IF txn[u].id = 0 THEN 0 ELSE Len(Frames(u))
              gone == {Frames(u)[k] : k \in 1..n}
          IN /\ open' = [open EXCEPT ![u] = keep]
             /\ level' = [level EXCEPT ![u] = l]
             /\ lock' = Released(u, {f.id : f \in gone}, (open[u] \ keep)
                                  \cup UNION {ClosedIn(f.cache) : f \in gone})
             /\ IF n = 0 THEN UNCHANGED <<txn, stack>>
                ELSE /\ txn' = [txn EXCEPT ![u] = NoTxn]
                     /\ stack' = [stack EXCEPT ![u] = <<>>]
    BY Zenon DEF Abort
  <1>6. keep \in SUBSET Fvar /\ l \in Nat
    BY <1>2
  <1>7. open' = [open EXCEPT ![u] = keep] /\ level' = [level EXCEPT ![u] = l]
    BY <1>5
  <1>8. \E ids, F : lock' = Released(u, ids, F)
    BY <1>5
  <1>9. lock' \in [Rec -> RecLock]
        /\ \A r \in Rec : \/ lock'[r] = lock[r]
                          \/ lock[r] # Unlocked /\ lock[r].owner = u /\ lock'[r] = Unlocked
    BY <1>1, <1>8, ReleasedType, ReleasedOnly
  <1>10. CASE txn[u].id = 0
    <2>1. UNCHANGED <<txn, stack>>
      BY <1>5, <1>10
    <2>2. TypeOK'
      BY <1>1, <1>4, <1>6, <1>7, <1>9, <2>1 DEF TypeOK
    <2>3. OnlyUser(u)
      BY <1>3, <1>4, <1>7, <1>9, <2>1 DEF OnlyUser
    <2>4. Good(u)' /\ Outside(u)'
      BY <1>4, <1>9, <1>10, <2>1, Idle
    <2> QED BY <2>2, <2>3, <2>4
  <1>11. CASE txn[u].id # 0
    <2>1. PICK n \in Nat : n = Len(Frames(u)) /\ n = Len(Live(u)) /\ n # 0
      <3>1. Frames(u) \in Seq(Frame) /\ Len(Frames(u)) = Len(stack[u]) + 1
        BY <1>1, FramesFacts
      <3>2. Len(Live(u)) = Len(Frames(u))
        BY <1>4, LiveIsFrames
      <3>3. Len(Frames(u)) \in Nat /\ Len(Frames(u)) # 0
        BY <1>2, <3>1
      <3> QED BY <3>2, <3>3
    <2>2. PICK gone : gone = {Frames(u)[k] : k \in 1..n}
      OBVIOUS
    <2>3. PICK F : F = (open[u] \ keep) \cup UNION {ClosedIn(f.cache) : f \in gone}
      OBVIOUS
    <2>4. /\ lock' = Released(u, {f.id : f \in gone}, F)
          /\ txn' = [txn EXCEPT ![u] = NoTxn] /\ stack' = [stack EXCEPT ![u] = <<>>]
      BY <1>5, <1>11, <2>1, <2>2, <2>3
    <2>5. {f.id : f \in gone} = Dropped(u, Live(u), Len(Live(u)))
      <3>1. n \in 0..Len(Frames(u))
        BY <2>1
      <3>2. {f.id : f \in gone} = Dropped(u, Live(u), n)
        BY <1>4, <2>2, <3>1, GoneFacts
      <3> QED BY <2>1, <3>2, Zenon
    <2>6. NoTxn \in Frame /\ <<>> \in Seq(Frame)
      BY Nothing
    <2>7. TypeOK'
      <3>1. file' \in [Rec -> Content] /\ nextTxn' \in Nat /\ commit' = commit
        BY <1>2, <1>4
      <3> QED BY <1>1, <1>2, <1>6, <1>7, <1>9, <2>4, <2>6, <3>1, TypeKept, Zenon
    <2>8. OnlyUser(u)
      BY <1>3, <1>4, <1>7, <1>9, <2>4 DEF OnlyUser
    <2>9. txn'[u] = NoTxn /\ stack'[u] = <<>> /\ commit'[u] = commit[u] /\ nextTxn' = nextTxn
      BY <1>3, <1>4, <2>4
    <2>10. Good(u)' /\ Outside(u)'
      <3>1. commit'[u] \in Committed /\ ~commit'[u].on
        BY <1>2, <1>4, <2>9
      <3> QED BY <2>4, <2>5, <2>9, <3>1, ClearedGood, Zenon
    <2> QED BY <2>7, <2>8, <2>10
  <1> QED BY <1>10, <1>11

LEMMA StartCommitStep ==
  ASSUME IInv, Disciplined, NEW u \in User, StartCommit(u)
  PROVE  TypeOK' /\ OnlyUser(u) /\ Good(u)' /\ Outside(u)'
  <1>1. TypeOK
    BY DEF IInv
  <1>2. /\ txn[u] \in Frame /\ txn[u].id \in Nat /\ txn[u].cache \in Seq(Entry)
        /\ stack[u] \in Seq(Frame) /\ commit[u] \in Committed /\ level[u] \in Nat
        /\ lock \in [Rec -> RecLock] /\ file \in [Rec -> Content]
        /\ nextTxn \in Nat /\ open[u] \in SUBSET Fvar
    BY <1>1, UserTypes
  <1>3. txn \in [User -> Frame] /\ commit \in [User -> Committed]
    BY <1>1 DEF TypeOK, Committed
  <1>4. /\ Runs(u) /\ stack[u] = <<>>
        /\ commit' = [commit EXCEPT ![u] = [on |-> TRUE, id |-> txn[u].id, left |-> txn[u].cache]]
        /\ txn' = [txn EXCEPT ![u].id = 0]
        /\ UNCHANGED <<file, lock, open, stack, level, nextTxn>>
    BY DEF StartCommit, Disciplined
  <1>5. PICK t \in Frame : t = [txn[u] EXCEPT !.id = 0] /\ t.id = 0
    <2>1. [txn[u] EXCEPT !.id = 0] \in Frame
      BY <1>2, FrameFacts
    <2>2. [txn[u] EXCEPT !.id = 0].id = 0
      BY <1>2 DEF Frame
    <2> QED BY <2>1, <2>2, Zenon
  <1>6. PICK c \in Committed : /\ c = [on |-> TRUE, id |-> txn[u].id, left |-> txn[u].cache]
                               /\ c.on /\ c.id = txn[u].id /\ c.left = txn[u].cache
    <2>1. [on |-> TRUE, id |-> txn[u].id, left |-> txn[u].cache] \in Committed
      BY <1>2 DEF Committed
    <2> QED BY <2>1
  <1>7. txn' = [txn EXCEPT ![u] = t] /\ commit' = [commit EXCEPT ![u] = c]
        /\ txn'[u] = t /\ commit'[u] = c
    BY <1>3, <1>4, <1>5, <1>6
  <1>8. TypeOK'
    <2>1. /\ file' \in [Rec -> Content] /\ lock' \in [Rec -> RecLock] /\ nextTxn' \in Nat
          /\ stack' = stack /\ open' = open /\ level' = level
      BY <1>2, <1>4
    <2> QED BY <1>1, <1>2, <1>7, <2>1, TypeKept, Zenon
  <1>9. OnlyUser(u)
    BY <1>3, <1>4, <1>7 DEF OnlyUser
  <1>10. /\ Live(u) \in Seq(LiveTxn) /\ Len(Live(u)) = 1 /\ Live(u)[1] \in LiveTxn
         /\ Nested(Live(u), nextTxn) /\ Sound(u, Live(u), lock, open[u])
         /\ Live(u)[1] = [id |-> txn[u].id, cache |-> txn[u].cache]
    <2>1. /\ Live(u) \in Seq(LiveTxn) /\ Len(Live(u)) = Len(stack[u]) + 1
          /\ Nested(Live(u), nextTxn) /\ Sound(u, Live(u), lock, open[u])
          /\ Live(u)[1] = [id |-> txn[u].id, cache |-> txn[u].cache]
      BY <1>4, Mine DEF Runs
    <2>2. Len(Live(u)) = 1
      BY <1>4, <2>1
    <2>3. Live(u)[1] \in LiveTxn
      <3>1. \A k \in 1..Len(Live(u)) : Live(u)[k] \in LiveTxn
        BY <2>1
      <3>2. 1 \in 1..1
        OBVIOUS
      <3> QED BY <2>2, <3>1, <3>2
    <2> QED BY <2>1, <2>2, <2>3, Zenon
  <1>11. PICK T : T = LiveOf(t, <<>>, c) /\ Shape(T, c.id, c.left, <<>>)
    <2>1. <<>> \in Seq(Frame)
      OBVIOUS
    <2>2. Shape(LiveOf(t, <<>>, c), c.id, c.left, <<>>)
      BY <1>6, <2>1, LiveShape
    <2> QED BY <2>2, Zenon
  <1>12. T = Live(u)
    <2>1. T \in Seq(LiveTxn) /\ Len(T) = 1 /\ T[1].id = txn[u].id /\ T[1].cache = txn[u].cache
      BY <1>6, <1>11 DEF Shape
    <2>2. T[1] \in LiveTxn
      <3>0. T \in Seq(LiveTxn)
        BY <2>1
      <3>1. \A k \in 1..Len(T) : T[k] \in LiveTxn
        BY <3>0
      <3>2. 1 \in 1..1
        OBVIOUS
      <3> QED BY <2>1, <3>1, <3>2
    <2>3. T[1] = Live(u)[1]
      BY <1>10, <2>1, <2>2 DEF LiveTxn
    <2> QED BY <1>10, <2>1, <2>3
  <1>13. OutsideOf(t, <<>>, c)
    BY <1>5, <1>6, Zenon DEF OutsideOf
  <1>14. stack'[u] = <<>> /\ open'[u] = open[u] /\ lock' = lock /\ nextTxn' = nextTxn
    BY <1>4
  <1>15. Good(u)' /\ Outside(u)'
    BY <1>7, <1>10, <1>11, <1>12, <1>13, <1>14, GoodAfter
  <1> QED BY <1>8, <1>9, <1>15

LEMMA ClearsNothing ==
  ASSUME NEW r
  PROVE  ClearParents(<<>>, r) = <<>>
  BY DEF ClearParents

\* The entry of a commit that is applied leaves the chain; the rest is as it was.
LEMMA TailGood ==
  ASSUME NEW u, NEW S, NEW T, NEW id, NEW s, NEW L, NEW O,
         s \in Seq(Entry), s # <<>>, HeadOf(S, T, id, s, Tail(s)), Sound(u, S, L, O)
  PROVE  Sound(u, T, L, O)
  <1>1. CutAt(s, Tail(s), 1)
    <2>1. PICK n \in Nat : n = Len(s) /\ n >= 1
      OBVIOUS
    <2>2. Tail(s) \in Seq(Entry) /\ Len(Tail(s)) = n - 1 /\ \A i \in 1..(n - 1) : Tail(s)[i] = s[i + 1]
      BY <2>1, TailFacts
    <2>3. \A i \in 1..(n - 1) : (IF i < 1 THEN i ELSE i + 1) = i + 1
      OBVIOUS
    <2> QED BY <2>1, <2>2, <2>3 DEF CutAt
  <1> QED BY <1>1, SoundRemoved, Zenon

\* No lock of an update is given up with the file variable of a first entry.
LEMMA CommitCloses ==
  ASSUME NEW u, NEW S, NEW L, NEW O, NEW fv,
         S \in Seq(LiveTxn), Len(S) = 1, L \in [Rec -> RecLock],
         S[1].cache # <<>>, S[1].cache[1].kind = "close", S[1].cache[1].fvar = fv,
         Sound(u, S, L, O)
  PROVE  Sound(u, S, FreedFrom(L, u, {}, {fv}), O)
  <1>1. 1 \in 1..Len(S) /\ S[1].cache \in Seq(Entry)
    <2>1. 1 \in 1..Len(S)
      OBVIOUS
    <2> QED BY <2>1, LiveTxnFacts
  <1>2. 1 \in Closes(S[1].cache)
    <2>1. 1 \in 1..Len(S[1].cache)
      BY <1>1
    <2> QED BY <2>1, Zenon DEF Closes
  <1>3. \A k \in 1..Len(S) : \A i \in Updates(S[k].cache) : L[S[k].cache[i].rec].fvar \notin {fv}
    <2> SUFFICES ASSUME NEW k \in 1..Len(S), NEW i \in Updates(S[k].cache),
                        L[S[k].cache[i].rec].fvar = fv
                 PROVE  FALSE
      OBVIOUS
    <2>1. CoveredAt(u, S, L, k, i)
      BY DEF Sound, Covered
    <2>2. 1 = k /\ i < 1
      BY <1>1, <1>2, <2>1 DEF CoveredAt
    <2>3. i \in 1..Len(S[1].cache)
      BY <2>2 DEF Updates
    <2> QED BY <2>2, <2>3
  <1> QED BY <1>3, SoundClosed

LEMMA CommitEntryStep ==
  ASSUME IInv, Disciplined, NEW u \in User, CommitEntry(u)
  PROVE  TypeOK' /\ OnlyUser(u) /\ Good(u)' /\ Outside(u)'
  <1>1. TypeOK
    BY DEF IInv
  <1>2. /\ txn[u] \in Frame /\ stack[u] \in Seq(Frame) /\ commit[u] \in Committed
        /\ commit[u].left \in Seq(Entry) /\ level[u] \in Nat
        /\ lock \in [Rec -> RecLock] /\ file \in [Rec -> Content]
        /\ nextTxn \in Nat /\ open[u] \in SUBSET Fvar
    BY <1>1, UserTypes
  <1>3. stack \in [User -> Seq(Frame)] /\ commit \in [User -> Committed]
    BY <1>1 DEF TypeOK, Committed
  <1>4. PICK s \in Seq(Entry) : s = commit[u].left /\ s # <<>> /\ commit[u].on
    BY <1>2 DEF CommitEntry
  <1>5. PICK e \in Entry : e = Head(s) /\ e = s[1]
    BY <1>4, TailFacts
  <1>6. stack[u] = <<>> /\ OutsideOf(txn[u], stack[u], commit[u])
    BY <1>4, Mine DEF OutsideOf
  <1>7. /\ commit' = [commit EXCEPT ![u].left = Tail(@)]
        /\ \/ /\ e.kind = "update" /\ file' = [file EXCEPT ![e.rec] = e.val]
              /\ stack' = [stack EXCEPT ![u] = ClearParents(@, e.rec)] /\ lock' = lock
           \/ /\ e.kind # "update" /\ lock' = Released(u, {}, {e.fvar})
              /\ UNCHANGED <<file, stack>>
        /\ UNCHANGED <<open, txn, level, nextTxn>>
    BY <1>4, <1>5 DEF CommitEntry, Disciplined
  <1>8. PICK q \in Seq(Entry) : q = Tail(s)
    BY <1>4, TailFacts
  <1>9. PICK c \in Committed : /\ c = [commit[u] EXCEPT !.left = q]
                               /\ c.on /\ c.id = commit[u].id /\ c.left = q
    <2>1. [commit[u] EXCEPT !.left = q] \in Committed
      BY <1>2 DEF Committed
    <2>2. /\ [commit[u] EXCEPT !.left = q].on = commit[u].on
          /\ [commit[u] EXCEPT !.left = q].id = commit[u].id
          /\ [commit[u] EXCEPT !.left = q].left = q
      BY <1>2 DEF Committed
    <2> QED BY <1>4, <2>1, <2>2, Zenon
  <1>10. commit' = [commit EXCEPT ![u] = c] /\ commit'[u] = c
    BY <1>3, <1>4, <1>7, <1>8, <1>9
  <1>11. stack' = stack
    <2>1. CASE UNCHANGED stack
      BY <2>1
    <2>2. CASE stack' = [stack EXCEPT ![u] = ClearParents(@, e.rec)]
      <3>1. stack' = [stack EXCEPT ![u] = ClearParents(stack[u], e.rec)]
        BY <2>2
      <3>2. ClearParents(stack[u], e.rec) = stack[u]
        BY <1>6, ClearsNothing
      <3> QED BY <1>3, <3>1, <3>2
    <2> QED BY <1>7, <2>1, <2>2
  <1>12. /\ file' \in [Rec -> Content]
         /\ lock' \in [Rec -> RecLock]
         /\ \A r \in Rec : \/ lock'[r] = lock[r]
                           \/ lock[r] # Unlocked /\ lock[r].owner = u /\ lock'[r] = Unlocked
    <2>1. CASE e.kind = "update"
      <3>1. e.rec \in Rec /\ e.val \in Content
        BY <2>1, EntryFacts
      <3>2. file' = [file EXCEPT ![e.rec] = e.val] /\ lock' = lock
        BY <1>7, <2>1
      <3> QED BY <1>2, <3>1, <3>2
    <2>2. CASE e.kind # "update"
      <3>1. file' = file /\ lock' = Released(u, {}, {e.fvar})
        BY <1>7, <2>2
      <3> QED BY <1>1, <1>2, <3>1, ReleasedType, ReleasedOnly
    <2> QED BY <2>1, <2>2
  <1>13. TypeOK'
    <2>1. nextTxn' \in Nat /\ txn' = txn /\ open' = open /\ level' = level
      BY <1>2, <1>7
    <2> QED BY <1>1, <1>2, <1>10, <1>11, <1>12, <2>1, TypeKept, Zenon
  <1>14. OnlyUser(u)
    BY <1>3, <1>7, <1>10, <1>11, <1>12 DEF OnlyUser
  <1>15. PICK S : /\ S = Live(u) /\ Shape(S, commit[u].id, s, <<>>)
                  /\ Nested(S, nextTxn) /\ Sound(u, S, lock, open[u])
    <2>1. Shape(LiveOf(txn[u], stack[u], commit[u]), commit[u].id, commit[u].left, stack[u])
      BY <1>2, <1>4, LiveShape
    <2>2. Nested(Live(u), nextTxn) /\ Sound(u, Live(u), lock, open[u])
      BY Mine
    <2>3. Shape(Live(u), commit[u].id, s, <<>>)
      BY <1>4, <1>6, <2>1, Zenon DEF Live
    <2> QED BY <2>2, <2>3, Zenon
  <1>16. PICK T : T = LiveOf(txn[u], <<>>, c) /\ Shape(T, commit[u].id, q, <<>>)
    <2>1. <<>> \in Seq(Frame)
      OBVIOUS
    <2>2. Shape(LiveOf(txn[u], <<>>, c), c.id, c.left, <<>>)
      BY <1>2, <1>9, <2>1, LiveShape
    <2> QED BY <1>9, <2>2, Zenon
  <1>17. HeadOf(S, T, commit[u].id, s, q)
    <2>1. 0 = Len(<<>>) /\ 0 \in Nat
      OBVIOUS
    <2> QED BY <1>15, <1>16, <2>1, HeadShapes
  <1>18. Nested(T, nextTxn)
    BY <1>15, <1>17, HeadNested
  <1>19. Sound(u, S, lock', open[u])
    <2>1. CASE e.kind = "update"
      <3>1. lock' = lock
        BY <1>7, <2>1
      <3> QED BY <1>15, <3>1, Zenon
    <2>2. CASE e.kind # "update"
      <3>1. lock' = FreedFrom(lock, u, {}, {e.fvar}) /\ e.kind = "close"
        BY <1>1, <1>7, <2>2, ReleasedType, EntryFacts
      <3>2. S \in Seq(LiveTxn) /\ Len(S) = 1 /\ S[1].cache = s
        BY <1>15 DEF Shape
      <3>3. Sound(u, S, FreedFrom(lock, u, {}, {e.fvar}), open[u])
        BY <1>2, <1>4, <1>5, <1>15, <3>1, <3>2, CommitCloses
      <3> QED BY <3>1, <3>3, Zenon
    <2> QED BY <2>1, <2>2
  <1>20. Sound(u, T, lock', open[u])
    BY <1>4, <1>8, <1>17, <1>19, TailGood
  <1>21. OutsideOf(txn[u], <<>>, c)
    BY <1>4, <1>6, <1>9, Zenon DEF OutsideOf
  <1>22. txn'[u] = txn[u] /\ stack'[u] = <<>> /\ open'[u] = open[u] /\ nextTxn' = nextTxn
    BY <1>6, <1>7, <1>11
  <1>23. Good(u)' /\ Outside(u)'
    BY <1>10, <1>16, <1>18, <1>20, <1>21, <1>22, GoodAfter
  <1> QED BY <1>13, <1>14, <1>23

LEMMA CommitEndStep ==
  ASSUME IInv, NEW u \in User, CommitEnd(u)
  PROVE  TypeOK' /\ OnlyUser(u) /\ Good(u)' /\ Outside(u)'
  <1>1. TypeOK
    BY DEF IInv
  <1>2. /\ txn[u] \in Frame /\ stack[u] \in Seq(Frame) /\ commit[u] \in Committed
        /\ level[u] \in Nat /\ lock \in [Rec -> RecLock] /\ file \in [Rec -> Content]
        /\ nextTxn \in Nat /\ open[u] \in SUBSET Fvar
    BY <1>1, UserTypes
  <1>3. txn \in [User -> Frame] /\ commit \in [User -> Committed]
    BY <1>1 DEF TypeOK, Committed
  <1>4. /\ commit[u].on /\ lock' = Released(u, {commit[u].id}, {})
        /\ commit' = [commit EXCEPT ![u] = NoCommit] /\ txn' = [txn EXCEPT ![u] = NoTxn]
        /\ UNCHANGED <<file, open, stack, level, nextTxn>>
    BY DEF CommitEnd
  <1>5. NoTxn \in Frame /\ NoCommit \in Committed /\ ~NoCommit.on
    BY Nothing DEF NoCommit
  <1>6. commit'[u] = NoCommit /\ txn'[u] = NoTxn
    BY <1>3, <1>4
  <1>7. stack[u] = <<>> /\ stack'[u] = <<>>
    BY <1>4, Mine DEF OutsideOf
  <1>8. lock' \in [Rec -> RecLock]
        /\ \A r \in Rec : \/ lock'[r] = lock[r]
                          \/ lock[r] # Unlocked /\ lock[r].owner = u /\ lock'[r] = Unlocked
    BY <1>1, <1>4, ReleasedType, ReleasedOnly
  <1>9. TypeOK'
    <2>1. file' \in [Rec -> Content] /\ nextTxn' \in Nat
          /\ stack' = stack /\ open' = open /\ level' = level
      BY <1>2, <1>4
    <2> QED BY <1>1, <1>2, <1>4, <1>5, <1>8, <2>1, TypeKept, Zenon
  <1>10. OnlyUser(u)
    BY <1>3, <1>4, <1>8 DEF OnlyUser
  <1>11. {commit[u].id} = Dropped(u, Live(u), Len(Live(u)))
    <2>1. Len(Live(u)) = 1 /\ Live(u)[1] = [id |-> commit[u].id, cache |-> commit[u].left]
      <3>1. /\ Len(Live(u)) = Len(stack[u]) + 1
            /\ Live(u)[1] = [id |-> commit[u].id, cache |-> commit[u].left]
        BY <1>4, Mine
      <3> QED BY <1>7, <3>1
    <2>2. Live(u)[1].id = commit[u].id
      BY <2>1
    <2>3. 1..Len(Live(u)) = {1}
      BY <2>1
    <2> QED BY <2>2, <2>3 DEF Dropped
  <1>12. Good(u)' /\ Outside(u)'
    <2>1. commit'[u] \in Committed /\ ~commit'[u].on /\ nextTxn' = nextTxn
      BY <1>4, <1>5, <1>6
    <2> QED BY <1>4, <1>6, <1>7, <1>11, <2>1, ClearedGood, Zenon
  <1> QED BY <1>9, <1>10, <1>12

-----------------------------------------------------------------------------
(* The invariant holds *)

LEMMA InitHolds == Init => IInv
  <1> SUFFICES ASSUME Init PROVE IInv
    OBVIOUS
  <1>1. <<>> \in Seq(Frame) /\ <<>> \in Seq(Entry)
    OBVIOUS
  <1>2. TypeOK
    <2>1. txn \in [User -> Frame] /\ lock \in [Rec -> RecLock]
      BY Nothing DEF Init
    <2>2. commit \in [User -> [on : BOOLEAN, id : Nat, left : Seq(Entry)]]
      BY Nothing DEF Init, Committed
    <2>3. stack \in [User -> Seq(Frame)]
      BY <1>1 DEF Init
    <2> QED BY <2>1, <2>2, <2>3 DEF Init, TypeOK, Content
  <1>3. ASSUME NEW u \in User PROVE Outside(u) /\ Good(u)
    <2>1. txn[u] = NoTxn /\ stack[u] = <<>> /\ commit[u] = NoCommit /\ nextTxn = 1
      BY DEF Init
    <2>2. NoTxn.id = 0 /\ NoTxn.cache = <<>> /\ ~NoCommit.on
      BY DEF NoTxn, NoCommit
    <2>3. Shape(LiveOf(NoTxn, <<>>, NoCommit), NoTxn.id, NoTxn.cache, <<>>)
      BY <1>1, <2>2, Nothing, LiveShape
    <2>4. PICK T : T = Live(u) /\ Len(T) = 1 /\ T[1].id = 0 /\ T[1].cache = <<>>
      BY <2>1, <2>2, <2>3 DEF Live, Shape
    <2>5. Nested(T, nextTxn)
      BY <2>1, <2>4 DEF Nested
    <2>6. Owned(u, T, lock)
      BY DEF Owned, Init
    <2>7. Sound(u, T, lock, open[u])
      <3>1. \A k \in 1..Len(T) : T[k].cache = <<>>
        BY <2>4
      <3> QED BY <2>6, <3>1, SoundEmpty
    <2>8. OutsideOf(NoTxn, <<>>, NoCommit)
      BY <2>2, Zenon DEF OutsideOf
    <2>9. Outside(u)
      BY <2>1, <2>8, Zenon DEF Outside
    <2> QED BY <2>4, <2>5, <2>7, <2>9, Zenon DEF Good
  <1> QED BY <1>2, <1>3 DEF IInv

LEMMA NextHolds ==
  ASSUME IInv, Disciplined, [Next]_vars
  PROVE  IInv'
  <1>1. CASE UNCHANGED vars
    <2>1. IInv' <=> IInv
      BY <1>1, Zenon DEF vars, IInv, TypeOK, Outside, Good, Live
    <2> QED BY <2>1
  <1>2. ASSUME NEW u \in User, ProgramStep(u) \/ TxnStep(u)
        PROVE  TypeOK' /\ OnlyUser(u) /\ Good(u)' /\ Outside(u)'
    <2>1. CASE Open(u)
      BY <2>1, OpenStep
    <2>2. ASSUME NEW fv \in Fvar, Close(u, fv)
          PROVE  TypeOK' /\ OnlyUser(u) /\ Good(u)' /\ Outside(u)'
      BY <2>2, CloseStep
    <2>3. ASSUME NEW fv \in Fvar, NEW r \in Rec, LockRecord(u, fv, r)
          PROVE  TypeOK' /\ OnlyUser(u) /\ Good(u)' /\ Outside(u)'
      BY <2>3, LockStep
    <2>4. ASSUME NEW fv \in Fvar, NEW r \in Rec, NEW v \in Content, Update(u, fv, r, v)
          PROVE  TypeOK' /\ OnlyUser(u) /\ Good(u)' /\ Outside(u)'
      BY <2>4, UpdateStep
    <2>5. ASSUME NEW r \in Rec, Release(u, r)
          PROVE  TypeOK' /\ OnlyUser(u) /\ Good(u)' /\ Outside(u)'
      BY <2>5, ReleaseStep
    <2>6. CASE Execute(u)
      BY <2>6, ExecuteStep
    <2>7. CASE Begin(u)
      BY <2>7, BeginStep
    <2>8. CASE EndTxn(u)
      BY <2>8, EndTxnStep
    <2>9. CASE EndCommand(u)
      BY <2>9, EndCommandStep
    <2>10. CASE Abort(u)
      BY <2>10, AbortStep
    <2>11. CASE StartCommit(u)
      BY <2>11, StartCommitStep
    <2>12. CASE CommitEntry(u)
      BY <2>12, CommitEntryStep
    <2>13. CASE CommitEnd(u)
      BY <2>13, CommitEndStep
    <2> QED BY <1>2, <2>1, <2>2, <2>3, <2>4, <2>5, <2>6, <2>7, <2>8, <2>9, <2>10, <2>11,
               <2>12, <2>13, Zenon DEF ProgramStep, TxnStep
  <1>3. CASE Next
    <2>1. PICK u \in User : ProgramStep(u) \/ TxnStep(u)
      BY <1>3, Zenon DEF Next
    <2> QED BY <2>1, <1>2, AllKept
  <1> QED BY <1>1, <1>3

\* Under every behaviour of disciplined programs the chains, the locks and the
\* nesting of a process's transactions fit each other.
THEOREM Invariant ==
  ASSUME Disciplined
  PROVE  Spec => []IInv
  <1>1. Init => IInv
    BY InitHolds
  <1>2. IInv /\ [Next]_vars => IInv'
    BY NextHolds
  <1> QED BY <1>1, <1>2, PTL DEF Spec

-----------------------------------------------------------------------------
(* Locks under the updates that wait *)

LEMMA ChainIsLive ==
  ASSUME IInv, NEW u \in User, NEW s \in Chains(u)
  PROVE  \E k \in 1..Len(Live(u)) : s = Live(u)[k].cache
  <1>1. TypeOK /\ 1 \in 1..Len(Live(u)) /\ Len(Live(u)) = Len(stack[u]) + 1
    BY Mine
  <1>2. PICK m \in Nat : m = Len(stack[u])
    BY <1>1, UserTypes
  <1>3. CASE s = IF commit[u].on THEN commit[u].left ELSE txn[u].cache
    <2>1. Live(u)[1].cache = s
      <3>1. CASE commit[u].on
        <4>1. Live(u)[1] = [id |-> commit[u].id, cache |-> commit[u].left]
          BY <3>1, Mine
        <4> QED BY <1>3, <3>1, <4>1
      <3>2. CASE ~commit[u].on
        <4>1. Live(u)[1] = [id |-> txn[u].id, cache |-> txn[u].cache]
          BY <3>2, Mine
        <4> QED BY <1>3, <3>2, <4>1
      <3> QED BY <3>1, <3>2
    <2> QED BY <1>1, <2>1
  <1>4. CASE \E k \in 2..Len(Frames(u)) : s = Frames(u)[k].cache
    <2>1. PICK k \in 2..Len(Frames(u)) : s = Frames(u)[k].cache
      BY <1>4
    <2>2. Len(Frames(u)) = m + 1 /\ \A j \in 2..(m + 1) : Frames(u)[j] = stack[u][j - 1]
      BY <1>1, <1>2, FramesFacts
    <2>3. k \in 2..(m + 1) /\ k \in 1..(m + 1)
      BY <2>1, <2>2
    <2>4. Live(u)[k] = [id |-> stack[u][k - 1].id, cache |-> stack[u][k - 1].cache]
      BY <1>2, <2>3, Mine
    <2>5. Live(u)[k].cache = s
      BY <2>1, <2>2, <2>3, <2>4
    <2> QED BY <1>1, <1>2, <2>3, <2>5
  <1> QED BY <1>3, <1>4 DEF Chains

LEMMA ChainLocked ==
  ASSUME IInv, NEW u \in User, NEW s \in Chains(u), NEW i \in Updates(s)
  PROVE  lock[s[i].rec] # Unlocked /\ lock[s[i].rec].owner = u
  <1>1. PICK k \in 1..Len(Live(u)) : s = Live(u)[k].cache
    BY ChainIsLive
  <1>2. Sound(u, Live(u), lock, open[u])
    BY Mine
  <1>3. CoveredAt(u, Live(u), lock, k, i)
    BY <1>1, <1>2 DEF Sound, Covered
  <1> QED BY <1>1, <1>3, Zenon DEF CoveredAt

\* Every update that waits in a chain, or in a commit that runs, is still
\* covered by the update lock that check_lock() found: rollback() of an inner
\* transaction, a file closed in one, and the commit give up others only.
THEOREM LocksUnderUpdates ==
  ASSUME Disciplined
  PROVE  Spec => []CachedUpdatesLocked
  <1>1. IInv => CachedUpdatesLocked
    <2> SUFFICES ASSUME IInv PROVE CachedUpdatesLocked
      OBVIOUS
    <2> QED BY ChainLocked DEF CachedUpdatesLocked
  <1> QED BY <1>1, Invariant, PTL

-----------------------------------------------------------------------------
(* The levels that the transactions remember *)

\* A transaction began no higher than the level that is remembered for it,
\* which is that of the command it was stacked in, and no higher than those
\* begun inside it.
LevelsFit(t, s, l) ==
  t.id # 0 =>
    /\ t.begun <= t.level /\ t.begun <= l
    /\ \A i \in 1..Len(s) : /\ s[i].begun <= s[i].level /\ s[i].begun <= t.begun
                            /\ \A k \in i..Len(s) : s[k].begun <= s[i].begun
LevelsKnown == \A u \in User : LevelsFit(txn[u], stack[u], level[u])

LEMMA ConsFacts ==
  ASSUME NEW t \in Frame, NEW s \in Seq(Frame)
  PROVE  /\ <<t>> \o s \in Seq(Frame) /\ Len(<<t>> \o s) = Len(s) + 1 /\ (<<t>> \o s)[1] = t
         /\ \A i \in 1..Len(s) : (<<t>> \o s)[i + 1] = s[i]
  OBVIOUS

LEMMA FrameLevels ==
  ASSUME NEW s \in Seq(Frame), NEW i \in 1..Len(s)
  PROVE  s[i] \in Frame /\ s[i].begun \in Nat /\ s[i].level \in Nat
  <1>1. s[i] \in Frame
    OBVIOUS
  <1> QED BY <1>1 DEF Frame

\* The transaction's chain changes, or the command level rises.
LEMMA LevelsSame ==
  ASSUME NEW t \in Frame, NEW x \in Frame, NEW s \in Seq(Frame), NEW l \in Nat, NEW m \in Nat,
         LevelsFit(t, s, l), x.id # 0 => t.id # 0, x.begun = t.begun, x.level = t.level,
         l <= m
  PROVE  LevelsFit(x, s, m)
  <1>1. t.begun \in Nat
    BY DEF Frame
  <1> QED BY <1>1 DEF LevelsFit

\* BEGIN TRANSACTION, in a transaction or outside.
LEMMA LevelsBegin ==
  ASSUME NEW t \in Frame, NEW s \in Seq(Frame), NEW l \in Nat, LevelsFit(t, s, l), t.id # 0,
         NEW x \in Frame, x.begun = l, x.level = l
  PROVE  LevelsFit(x, <<[t EXCEPT !.level = l]>> \o s, l)
  <1>1. PICK f \in Frame : f = [t EXCEPT !.level = l]
    BY DEF Frame
  <1>2. f.begun = t.begun /\ f.level = l /\ f.begun \in Nat
    BY <1>1 DEF Frame
  <1>3. PICK g \in Seq(Frame) : g = <<f>> \o s
    BY ConsFacts
  <1>4. PICK m \in Nat : m = Len(s)
    OBVIOUS
  <1>5. Len(g) = m + 1 /\ g[1] = f /\ \A i \in 1..m : g[i + 1] = s[i]
    BY <1>3, <1>4, ConsFacts
  <1>6. \A i \in 2..(m + 1) : i - 1 \in 1..m /\ g[i] = s[i - 1]
    <2> SUFFICES ASSUME NEW i \in 2..(m + 1) PROVE i - 1 \in 1..m /\ g[i] = s[i - 1]
      OBVIOUS
    <2>1. i - 1 \in 1..m /\ (i - 1) + 1 = i
      OBVIOUS
    <2> QED BY <1>5, <2>1
  <1>7. \A i \in 1..m : s[i].begun \in Nat
    BY <1>4, FrameLevels
  <1>8. /\ t.begun <= l
        /\ \A i \in 1..m : /\ s[i].begun <= s[i].level /\ s[i].begun <= t.begun
                           /\ \A k \in i..m : s[k].begun <= s[i].begun
    BY <1>4 DEF LevelsFit
  <1>9. ASSUME NEW i \in 1..(m + 1)
        PROVE  /\ g[i].begun <= g[i].level /\ g[i].begun <= l
               /\ \A k \in i..(m + 1) : g[k].begun <= g[i].begun
    <2>1. CASE i = 1
      <3>1. g[1].begun <= g[1].level /\ g[1].begun <= l
        BY <1>2, <1>5, <1>8
      <3>2. ASSUME NEW k \in 1..(m + 1) PROVE g[k].begun <= g[1].begun
        <4>1. CASE k = 1
          BY <1>2, <1>5, <4>1
        <4>2. CASE k # 1
          <5>1. k \in 2..(m + 1)
            BY <4>2
          <5> QED BY <1>2, <1>5, <1>6, <1>8, <5>1
        <4> QED BY <4>1, <4>2
      <3> QED BY <2>1, <3>1, <3>2
    <2>2. CASE i # 1
      <3>1. i \in 2..(m + 1)
        BY <2>2
      <3>2. g[i].begun <= g[i].level /\ g[i].begun <= l
        BY <1>2, <1>6, <1>7, <1>8, <3>1
      <3>3. ASSUME NEW k \in i..(m + 1) PROVE g[k].begun <= g[i].begun
        <4>1. k \in 2..(m + 1) /\ k - 1 \in (i - 1)..m
          BY <3>1
        <4> QED BY <1>6, <1>8, <3>1, <4>1
      <3> QED BY <3>2, <3>3
    <2> QED BY <2>1, <2>2
  <1>10. LevelsFit(x, g, l)
    BY <1>5, <1>9 DEF LevelsFit
  <1> QED BY <1>1, <1>3, <1>10

\* The first transactions of the chain are rolled back.
LEMMA LevelsBack ==
  ASSUME NEW t \in Frame, NEW s \in Seq(Frame), NEW l \in Nat, LevelsFit(t, s, l), t.id # 0,
         NEW n \in 1..Len(s), NEW m \in Nat, s[n].begun <= m
  PROVE  LevelsFit(s[n], SubSeq(s, n + 1, Len(s)), m)
  <1>1. PICK q \in Nat : q = Len(s)
    OBVIOUS
  <1>2. PICK g : g = SubSeq(s, n + 1, Len(s))
    OBVIOUS
  <1>3. Len(g) = q - n /\ \A i \in 1..(q - n) : g[i] = s[i + n]
    BY <1>1, <1>2, SubSeqFacts
  <1>4. \A i \in 1..q : /\ s[i].begun <= s[i].level
                        /\ \A k \in i..q : s[k].begun <= s[i].begun
    BY <1>1 DEF LevelsFit
  <1>5. ASSUME NEW i \in 1..(q - n)
        PROVE  /\ g[i].begun <= g[i].level /\ g[i].begun <= s[n].begun
               /\ \A k \in i..(q - n) : g[k].begun <= g[i].begun
    <2>1. i + n \in 1..q /\ i + n \in n..q /\ n \in 1..q
      BY <1>1
    <2>2. g[i] = s[i + n]
      BY <1>3
    <2>3. ASSUME NEW k \in i..(q - n) PROVE g[k].begun <= g[i].begun
      <3>1. k \in 1..(q - n) /\ k + n \in (i + n)..q
        BY <1>1
      <3> QED BY <1>3, <1>4, <2>1, <2>2, <3>1
    <2> QED BY <1>4, <2>1, <2>2, <2>3
  <1>6. s[n].begun <= s[n].level
    BY <1>1, <1>4
  <1>7. LevelsFit(s[n], g, m)
    BY <1>3, <1>5, <1>6 DEF LevelsFit
  <1> QED BY <1>2, <1>7

LEMMA NoLevels ==
  ASSUME NEW t, NEW s, NEW l, t.id = 0
  PROVE  LevelsFit(t, s, l)
  BY DEF LevelsFit

\* rollback() n times in a process at level l, which goes on at level m.
LEMMA LevelsRollBack ==
  ASSUME TypeOK, NEW u \in User, NEW n \in Nat, n # 0, RollBack(u, n), txn[u].id # 0,
         LevelsFit(txn[u], stack[u], level[u]), NEW m \in Nat,
         n <= Len(stack[u]) => stack[u][n].begun <= m
  PROVE  LevelsFit(txn'[u], stack'[u], m)
  <1>1. /\ txn[u] \in Frame /\ stack[u] \in Seq(Frame) /\ level[u] \in Nat
    BY UserTypes
  <1>2. PICK st \in Seq(Frame) : st = stack[u]
    BY <1>1
  <1>3. Len(st) \in Nat
    OBVIOUS
  <1>4. CASE n <= Len(st)
    <2>1. txn'[u] = st[n] /\ stack'[u] = SubSeq(st, n + 1, Len(st))
      BY <1>2, <1>4 DEF RollBack, TypeOK
    <2>2. n \in 1..Len(st)
      BY <1>3, <1>4
    <2> QED BY <1>1, <1>2, <1>4, <2>1, <2>2, LevelsBack
  <1>5. CASE ~(n <= Len(st))
    <2>1. txn'[u] = NoTxn
      BY <1>2, <1>5 DEF RollBack, TypeOK
    <2>2. txn'[u].id = 0
      BY <2>1 DEF NoTxn
    <2> QED BY <2>2, NoLevels
  <1> QED BY <1>4, <1>5

\* A command ends: what ROLLBACK ALL leaves was begun below its level.
LEMMA LevelsEndCommand ==
  ASSUME TypeOK, NEW u \in User, EndCommand(u), LevelsFit(txn[u], stack[u], level[u])
  PROVE  LevelsFit(txn'[u], stack'[u], level'[u])
  <1>1. /\ txn[u] \in Frame /\ stack[u] \in Seq(Frame) /\ level[u] \in Nat
    BY UserTypes
  <1>2. PICK m \in Nat : m = level[u] - 1 /\ level'[u] = m
    <2>1. level[u] > 1 /\ level'[u] = level[u] - 1
      BY DEF EndCommand, TypeOK
    <2> QED BY <1>1, <2>1
  <1>3. CASE txn[u].id = 0
    <2>1. Above(u) = 0
      BY <1>3 DEF Above
    <2>2. txn' = txn
      BY <2>1 DEF EndCommand
    <2> QED BY <1>3, <2>2, NoLevels
  <1>4. CASE txn[u].id # 0
    <2>1. PICK F \in Seq(Frame) : /\ F = Frames(u) /\ Len(F) = Len(stack[u]) + 1 /\ F[1] = txn[u]
                                  /\ \A i \in 1..Len(stack[u]) : F[i + 1] = stack[u][i]
      BY FramesFacts
    <2>2. PICK n \in 0..Len(F) : n = Above(u) /\ (n < Len(F) => F[n + 1].level < level[u])
      BY <1>4, <2>1, AboveFacts
    <2>3. Len(stack[u]) \in Nat
      BY <1>1
    <2>4. CASE n = 0
      <3>1. txn' = txn /\ stack' = stack
        BY <2>2, <2>4 DEF EndCommand
      <3>2. txn[u].level < level[u] /\ txn[u].begun <= txn[u].level
        BY <1>4, <2>1, <2>2, <2>3, <2>4 DEF LevelsFit
      <3>3. txn[u].level \in Nat /\ txn[u].begun \in Nat
        BY <1>1 DEF Frame
      <3>4. txn[u].begun <= m
        BY <1>1, <1>2, <3>2, <3>3
      <3> QED BY <1>2, <3>1, <3>4 DEF LevelsFit
    <2>5. CASE n # 0
      <3>1. RollBack(u, n) /\ n \in Nat
        BY <2>1, <2>2, <2>3, <2>5 DEF EndCommand
      <3>2. ASSUME n <= Len(stack[u]) PROVE stack[u][n].begun <= m
        <4>1. n \in 1..Len(stack[u])
          BY <2>3, <2>5, <3>1, <3>2
        <4>2. F[n + 1] = stack[u][n] /\ n < Len(F)
          BY <2>1, <2>3, <4>1
        <4>3. stack[u][n].level < level[u] /\ stack[u][n].begun <= stack[u][n].level
          BY <1>4, <2>2, <4>1, <4>2 DEF LevelsFit
        <4>4. stack[u][n].level \in Nat /\ stack[u][n].begun \in Nat
          BY <1>1, <4>1, FrameLevels
        <4> QED BY <1>1, <1>2, <4>3, <4>4
      <3>3. LevelsFit(txn'[u], stack'[u], m)
        BY <1>4, <2>5, <3>1, <3>2, LevelsRollBack
      <3> QED BY <1>2, <3>3
    <2> QED BY <2>4, <2>5
  <1> QED BY <1>3, <1>4

LEMMA LevelsProgram ==
  ASSUME TypeOK, TypeOK', NEW u \in User, ProgramStep(u),
         LevelsFit(txn[u], stack[u], level[u])
  PROVE  LevelsFit(txn'[u], stack'[u], level'[u])
  <1>1. /\ txn \in [User -> Frame] /\ txn[u] \in Frame /\ txn'[u] \in Frame
        /\ stack[u] \in Seq(Frame) /\ level[u] \in Nat /\ level'[u] \in Nat
    BY DEF TypeOK
  <1>2. stack' = stack /\ level[u] <= level'[u]
    <2>1. CASE Execute(u)
      <3>1. stack' = stack /\ level' = [level EXCEPT ![u] = level[u] + 1]
        BY <2>1 DEF Execute
      <3>2. level'[u] = level[u] + 1
        BY <3>1 DEF TypeOK
      <3> QED BY <1>1, <3>1, <3>2
    <2>2. CASE ~Execute(u)
      <3>1. stack' = stack /\ level' = level
        BY <2>2, Zenon DEF ProgramStep, Open, Close, LockRecord, Update, Release
      <3> QED BY <1>1, <3>1
    <2> QED BY <2>1, <2>2
  <1>3. txn' = txn \/ \E q : txn' = [txn EXCEPT ![u].cache = q]
    BY DEF ProgramStep, Open, Close, LockRecord, Update, Release, Execute
  <1>4. /\ txn'[u].id = txn[u].id /\ txn'[u].begun = txn[u].begun
        /\ txn'[u].level = txn[u].level
    <2>1. CASE txn' = txn
      BY <2>1
    <2>2. CASE \E q : txn' = [txn EXCEPT ![u].cache = q]
      <3>1. PICK q : txn' = [txn EXCEPT ![u].cache = q]
        BY <2>2
      <3>2. txn'[u] = [txn[u] EXCEPT !.cache = q]
        BY <1>1, <3>1
      <3> QED BY <1>1, <3>2 DEF Frame
    <2> QED BY <1>3, <2>1, <2>2
  <1> QED BY <1>1, <1>2, <1>4, LevelsSame

LEMMA LevelsTxn ==
  ASSUME IInv, TypeOK', NEW u \in User, TxnStep(u), LevelsFit(txn[u], stack[u], level[u])
  PROVE  LevelsFit(txn'[u], stack'[u], level'[u])
  <1>1. /\ TypeOK /\ txn \in [User -> Frame] /\ txn[u] \in Frame /\ stack[u] \in Seq(Frame)
        /\ level[u] \in Nat /\ stack \in [User -> Seq(Frame)]
    BY DEF IInv, TypeOK
  <1>2. CASE Begin(u)
    <2>1. level' = level
      BY <1>2 DEF Begin
    <2>2. txn'[u] \in Frame /\ txn'[u].begun = level[u] /\ txn'[u].level = level[u]
      <3>1. \E q : txn'[u] = [id |-> nextTxn, level |-> level[u], begun |-> level[u], cache |-> q]
        BY <1>1, <1>2 DEF Begin
      <3> QED BY <3>1 DEF TypeOK
    <2>3. CASE txn[u].id # 0
      <3>1. stack'[u] = <<[txn[u] EXCEPT !.level = level[u]]>> \o stack[u]
        BY <1>1, <1>2, <2>3 DEF Begin
      <3>2. PICK x \in Frame : x = txn'[u] /\ x.begun = level[u] /\ x.level = level[u]
        BY <2>2
      <3>3. LevelsFit(x, <<[txn[u] EXCEPT !.level = level[u]]>> \o stack[u], level[u])
        BY <1>1, <2>3, <3>2, LevelsBegin
      <3> QED BY <2>1, <3>1, <3>2, <3>3
    <2>4. CASE txn[u].id = 0
      <3>0. stack[u] = <<>> /\ stack' = stack
        <4>1. OutsideOf(txn[u], stack[u], commit[u])
          BY Mine
        <4>2. stack[u] = <<>>
          BY <2>4, <4>1 DEF OutsideOf
        <4>3. stack' = stack
          BY <1>2, <2>4, Zenon DEF Begin
        <4> QED BY <4>2, <4>3
      <3>1. stack'[u] = <<>>
        BY <3>0
      <3>2. Len(stack'[u]) = 0
        BY <3>1
      <3> QED BY <1>1, <2>1, <2>2, <3>2 DEF LevelsFit
    <2> QED BY <2>3, <2>4
  <1>3. CASE EndTxn(u)
    <2>1. RollBack(u, 1) /\ 1 \in Nat /\ 1 # 0 /\ txn[u].id # 0 /\ level' = level
      BY <1>3 DEF EndTxn
    <2>2. ASSUME 1 <= Len(stack[u]) PROVE stack[u][1].begun <= level[u]
      <3>1. 1 \in 1..Len(stack[u])
        BY <1>1, <2>2
      <3>2. stack[u][1].begun <= txn[u].begun /\ txn[u].begun <= level[u]
        BY <2>1, <3>1 DEF LevelsFit
      <3>3. stack[u][1].begun \in Nat /\ txn[u].begun \in Nat
        BY <1>1, <3>1, FrameLevels DEF Frame
      <3> QED BY <1>1, <3>2, <3>3
    <2> QED BY <1>1, <2>1, <2>2, LevelsRollBack
  <1>4. CASE EndCommand(u)
    BY <1>1, <1>4, LevelsEndCommand
  <1>5. CASE Abort(u)
    <2>1. txn[u].id = 0 \/ Len(Frames(u)) # 0
      <3>1. Len(stack[u]) \in Nat /\ Len(Frames(u)) = Len(stack[u]) + 1
        BY <1>1, FramesFacts
      <3> QED BY <3>1
    <2>2. (txn[u].id = 0 /\ txn' = txn) \/ txn' = [txn EXCEPT ![u] = NoTxn]
      BY <1>5, <2>1, Zenon DEF Abort
    <2>3. txn'[u].id = 0
      BY <1>1, <2>2 DEF NoTxn
    <2> QED BY <2>3, NoLevels
  <1>6. CASE StartCommit(u)
    <2>1. txn' = [txn EXCEPT ![u].id = 0]
      BY <1>6 DEF StartCommit
    <2>2. txn'[u] = [txn[u] EXCEPT !.id = 0]
      BY <1>1, <2>1
    <2>3. txn'[u].id = 0
      BY <1>1, <2>2 DEF Frame
    <2> QED BY <2>3, NoLevels
  <1>7. CASE CommitEntry(u)
    <2>1. txn[u].id = 0
      BY <1>7, Mine DEF CommitEntry, OutsideOf
    <2>2. txn' = txn
      BY <1>7 DEF CommitEntry
    <2> QED BY <2>1, <2>2, NoLevels
  <1>8. CASE CommitEnd(u)
    <2>1. txn'[u] = NoTxn
      BY <1>1, <1>8 DEF CommitEnd
    <2>2. txn'[u].id = 0
      BY <2>1 DEF NoTxn
    <2> QED BY <2>2, NoLevels
  <1> QED BY <1>2, <1>3, <1>4, <1>5, <1>6, <1>7, <1>8 DEF TxnStep

LEMMA OthersLevels ==
  ASSUME TypeOK, NEW u \in User, ProgramStep(u) \/ TxnStep(u), NEW w \in User \ {u}
  PROVE  txn'[w] = txn[w] /\ stack'[w] = stack[w] /\ level'[w] = level[w]
  <1>1. /\ txn \in [User -> Frame] /\ stack \in [User -> Seq(Frame)] /\ level \in [User -> Nat]
    BY DEF TypeOK
  <1>2. CASE ProgramStep(u)
    <2>1. /\ stack' = stack
          /\ txn' = txn \/ \E q : txn' = [txn EXCEPT ![u].cache = q]
          /\ level' = level \/ \E n : level' = [level EXCEPT ![u] = n]
      BY <1>2 DEF ProgramStep, Open, Close, LockRecord, Update, Release, Execute
    <2> QED BY <1>1, <2>1
  <1>3. CASE TxnStep(u)
    <2>1. /\ txn' = txn \/ (\E t : txn' = [txn EXCEPT ![u] = t]) \/ txn' = [txn EXCEPT ![u].id = 0]
          /\ stack' = stack \/ \E s : stack' = [stack EXCEPT ![u] = s]
          /\ level' = level \/ \E n : level' = [level EXCEPT ![u] = n]
      BY <1>3, Zenon DEF TxnStep, Begin, EndTxn, EndCommand, Abort, StartCommit, CommitEntry,
                         CommitEnd, RollBack
    <2> QED BY <1>1, <2>1
  <1> QED BY <1>2, <1>3

LEMMA LevelsMean ==
  ASSUME TypeOK, LevelsKnown
  PROVE  NoTxnOutlivesCommand
  <1> SUFFICES ASSUME NEW u \in User, txn[u].id # 0, NEW k \in 1..Len(Frames(u))
               PROVE  Frames(u)[k].begun <= level[u]
    BY DEF NoTxnOutlivesCommand
  <1>1. /\ txn[u] \in Frame /\ stack[u] \in Seq(Frame) /\ level[u] \in Nat
    BY UserTypes
  <1>2. PICK m \in Nat : m = Len(stack[u])
    BY <1>1
  <1>3. LevelsFit(txn[u], stack[u], level[u])
    BY DEF LevelsKnown
  <1>4. /\ Len(Frames(u)) = m + 1 /\ Frames(u)[1] = txn[u]
        /\ \A i \in 2..(m + 1) : Frames(u)[i] = stack[u][i - 1]
    BY <1>2, FramesFacts
  <1>5. txn[u].begun <= level[u] /\ txn[u].begun \in Nat
    BY <1>1, <1>3 DEF LevelsFit, Frame
  <1>6. CASE k = 1
    BY <1>4, <1>5, <1>6
  <1>7. CASE k # 1
    <2>1. k \in 2..(m + 1) /\ k - 1 \in 1..m
      BY <1>4, <1>7
    <2>2. stack[u][k - 1].begun \in Nat
      BY <1>1, <1>2, <2>1, FrameLevels
    <2>3. stack[u][k - 1].begun <= txn[u].begun
      BY <1>2, <1>3, <2>1 DEF LevelsFit
    <2> QED BY <1>1, <1>4, <1>5, <2>1, <2>2, <2>3
  <1> QED BY <1>6, <1>7

\* ROLLBACK ALL of a command that ends leaves no transaction that was begun
\* in it, although the level that op_txnbgn() stacks with an outer transaction
\* is not the one that it was begun at: it is never a lower one.
THEOREM CommandsLeaveNoTxn ==
  ASSUME Disciplined
  PROVE  Spec => []NoTxnOutlivesCommand
  <1>1. Init => LevelsKnown
    <2> SUFFICES ASSUME Init, NEW u \in User PROVE LevelsFit(txn[u], stack[u], level[u])
      BY Zenon DEF LevelsKnown
    <2>1. txn[u].id = 0
      BY DEF Init, NoTxn
    <2> QED BY <2>1, NoLevels
  <1>2. IInv /\ IInv' /\ LevelsKnown /\ [Next]_vars => LevelsKnown'
    <2>1. ASSUME IInv, LevelsKnown, UNCHANGED vars PROVE LevelsKnown'
      BY <2>1, Zenon DEF vars, LevelsKnown, LevelsFit
    <2>2. ASSUME IInv, TypeOK', LevelsKnown, NEW u \in User, ProgramStep(u) \/ TxnStep(u)
          PROVE  LevelsKnown'
      <3>1. TypeOK /\ \A w \in User : LevelsFit(txn[w], stack[w], level[w])
        BY <2>2 DEF IInv, LevelsKnown
      <3>2. LevelsFit(txn'[u], stack'[u], level'[u])
        BY <2>2, <3>1, LevelsProgram, LevelsTxn
      <3>3. \A w \in User \ {u} : LevelsFit(txn'[w], stack'[w], level'[w])
        BY <2>2, <3>1, OthersLevels
      <3>4. \A w \in User : LevelsFit(txn'[w], stack'[w], level'[w])
        BY <3>2, <3>3
      <3> QED BY <3>4, Zenon DEF LevelsKnown, LevelsFit
    <2> QED BY <2>1, <2>2, Zenon DEF Next, IInv
  <1>3. IInv /\ LevelsKnown => NoTxnOutlivesCommand
    BY LevelsMean DEF IInv
  <1> QED BY <1>1, <1>2, <1>3, Invariant, PTL DEF Spec

-----------------------------------------------------------------------------
(* What a chain holds for a record *)

LEMMA FoundFacts ==
  ASSUME NEW s \in Seq(Entry), NEW r
  PROVE  /\ UpdatesOf(s, r) = {} => Found(s, r) = Untouched
         /\ UpdatesOf(s, r) # {} => \E i \in UpdatesOf(s, r) : Found(s, r) = s[i].val
         /\ \A i \in UpdatesOf(s, r) : i \in Updates(s) /\ s[i].rec = r /\ s[i].val \in Content
         /\ Found(s, r) # Untouched <=> UpdatesOf(s, r) # {}
         /\ Found(s, r) \in Content \cup {Untouched}
  <1>1. \A i \in UpdatesOf(s, r) : i \in Updates(s) /\ s[i].rec = r
    BY Zenon DEF UpdatesOf, Updates
  <1>2. \A i \in UpdatesOf(s, r) : s[i].val \in Content
    BY <1>1, ChainFacts, Zenon
  <1>3. Untouched \notin Content
    BY TxnAssumption DEF Content
  <1>4. UpdatesOf(s, r) = {} => Found(s, r) = Untouched
    BY Zenon DEF Found
  <1>5. UpdatesOf(s, r) # {} => \E i \in UpdatesOf(s, r) : Found(s, r) = s[i].val
    <2> SUFFICES ASSUME UpdatesOf(s, r) # {}
                 PROVE  \E i \in UpdatesOf(s, r) : Found(s, r) = s[i].val
      OBVIOUS
    <2>1. \E i \in UpdatesOf(s, r) : \A j \in UpdatesOf(s, r) : i <= j
      BY LeastPlace
    <2>2. Found(s, r) = s[CHOOSE i \in UpdatesOf(s, r) : \A j \in UpdatesOf(s, r) : i <= j].val
      BY Zenon DEF Found
    <2> QED BY <2>1, <2>2, Zenon
  <1> QED BY <1>1, <1>2, <1>3, <1>4, <1>5

\* A chain with one update of a record holds its value.
LEMMA FoundOne ==
  ASSUME NEW s \in Seq(Entry), NEW r, NEW i \in Updates(s), OnceIn(s), s[i].rec = r
  PROVE  Found(s, r) = s[i].val
  <1>1. i \in UpdatesOf(s, r)
    BY Zenon DEF UpdatesOf, Updates
  <1>2. PICK j \in UpdatesOf(s, r) : Found(s, r) = s[j].val
    BY <1>1, FoundFacts
  <1>3. j \in Updates(s) /\ s[j].rec = r
    BY <1>2, FoundFacts
  <1>4. i = j
    BY <1>3 DEF OnceIn
  <1> QED BY <1>2, <1>4

LEMMA FoundNone ==
  ASSUME NEW s \in Seq(Entry), NEW r, \A i \in Updates(s) : s[i].rec # r
  PROVE  Found(s, r) = Untouched
  BY FoundFacts

\* Chains with the same updates of a record hold the same for it.
LEMMA FoundSame ==
  ASSUME NEW s \in Seq(Entry), NEW q \in Seq(Entry), NEW r, OnceIn(q),
         \A i \in Updates(s) : s[i].rec = r =>
           \E j \in Updates(q) : q[j].rec = r /\ q[j].val = s[i].val,
         \A j \in Updates(q) : q[j].rec = r => \E i \in Updates(s) : s[i].rec = r
  PROVE  Found(q, r) = Found(s, r)
  <1>1. CASE UpdatesOf(s, r) = {}
    <2>1. \A i \in Updates(s) : s[i].rec # r
      BY <1>1, Zenon DEF UpdatesOf, Updates
    <2>2. \A j \in Updates(q) : q[j].rec # r
      BY <2>1
    <2> QED BY <2>1, <2>2, FoundNone
  <1>2. CASE UpdatesOf(s, r) # {}
    <2>1. PICK i \in UpdatesOf(s, r) : Found(s, r) = s[i].val
      BY <1>2, FoundFacts
    <2>2. i \in Updates(s) /\ s[i].rec = r
      BY <2>1, FoundFacts
    <2>3. PICK j \in Updates(q) : q[j].rec = r /\ q[j].val = s[i].val
      BY <2>2
    <2> QED BY <2>1, <2>3, FoundOne
  <1> QED BY <1>1, <1>2

-----------------------------------------------------------------------------
(* What the invariant says of Transactions' state *)

LEMMA ChainOnce ==
  ASSUME IInv, NEW u \in User, NEW s \in Chains(u)
  PROVE  s \in Seq(Entry) /\ OnceIn(s)
  <1>1. PICK k \in 1..Len(Live(u)) : s = Live(u)[k].cache
    BY ChainIsLive
  <1>2. Live(u) \in Seq(LiveTxn) /\ Sound(u, Live(u), lock, open[u])
    BY Mine
  <1>3. s \in Seq(Entry)
    BY <1>1, <1>2, LiveTxnFacts
  <1>4. OnceIn(s)
    BY <1>1, <1>2 DEF Sound, OnceEach
  <1> QED BY <1>3, <1>4

LEMMA FrameChain ==
  ASSUME TypeOK, NEW u \in User, NEW k \in 1..Len(Frames(u)), Runs(u)
  PROVE  Frames(u)[k].cache \in Chains(u)
  <1>1. PICK m \in Nat : m = Len(Frames(u)) /\ k \in 1..m /\ Frames(u)[1] = txn[u]
    <2>1. Frames(u) \in Seq(Frame) /\ Frames(u)[1] = txn[u]
      BY FramesFacts
    <2> QED BY <2>1
  <1>2. k = 1 \/ k \in 2..m
    BY <1>1
  <1>3. CASE k = 1
    BY <1>1, <1>3, Zenon DEF Runs, Chains
  <1>4. CASE k \in 2..m
    BY <1>1, <1>4, Zenon DEF Chains
  <1> QED BY <1>2, <1>3, <1>4

LEMMA CommitChain ==
  ASSUME NEW u \in User, commit[u].on
  PROVE  commit[u].left \in Chains(u)
  BY Zenon DEF Chains

LEMMA ChainHeld ==
  ASSUME IInv, NEW u \in User, NEW s \in Chains(u), NEW r \in Rec, Found(s, r) # Untouched
  PROVE  r \in Held[u]
  <1>1. s \in Seq(Entry)
    BY ChainOnce
  <1>2. PICK i \in UpdatesOf(s, r) : TRUE
    BY <1>1, FoundFacts
  <1>3. i \in Updates(s) /\ s[i].rec = r
    BY <1>1, <1>2, FoundFacts
  <1>4. lock[r] # Unlocked /\ lock[r].owner = u
    BY <1>3, ChainLocked
  <1> QED BY <1>4 DEF Held

LEMMA PendingHeld ==
  ASSUME IInv, NEW u \in User, NEW r \in Rec, Pending(u, r) # Untouched
  PROVE  commit[u].on /\ r \in Held[u]
  <1>1. commit[u].on /\ Found(commit[u].left, r) # Untouched
    BY DEF Pending
  <1> QED BY <1>1, CommitChain, ChainHeld

LEMMA HeldOnce ==
  ASSUME NEW u \in User, NEW w \in User, NEW r \in Rec, r \in Held[u], r \in Held[w]
  PROVE  u = w
  BY DEF Held

\* The base is the file but for the updates of commits that run.
LEMMA BaseFacts ==
  ASSUME IInv, NEW r \in Rec
  PROVE  /\ (\A u \in User : Pending(u, r) = Untouched) => Base[r] = file[r]
         /\ \A u \in User : Pending(u, r) # Untouched => Base[r] = Pending(u, r)
  <1>1. (\A u \in User : Pending(u, r) = Untouched) => Base[r] = file[r]
    BY Zenon DEF Base
  <1>2. ASSUME NEW u \in User, Pending(u, r) # Untouched
        PROVE  Base[r] = Pending(u, r)
    <2>1. PICK w \in User : /\ w = (CHOOSE x \in User : Pending(x, r) # Untouched)
                            /\ Pending(w, r) # Untouched
      BY <1>2, Zenon
    <2>2. w = u
      BY <1>2, <2>1, PendingHeld, HeldOnce
    <2>3. Base[r] = Pending(w, r)
      BY <1>2, <2>1, Zenon DEF Base
    <2> QED BY <2>2, <2>3
  <1> QED BY <1>1, <1>2

\* A record that a running program has locked is in no commit that runs.
LEMMA BaseLocked ==
  ASSUME IInv, NEW u \in User, NEW r \in Rec, Runs(u), r \in Held[u]
  PROVE  Base[r] = file[r] /\ \A w \in User : Pending(w, r) = Untouched
  <1>1. ASSUME NEW w \in User PROVE Pending(w, r) = Untouched
    <2> SUFFICES ASSUME Pending(w, r) # Untouched PROVE FALSE
      OBVIOUS
    <2>1. commit[w].on /\ r \in Held[w]
      BY PendingHeld
    <2>2. w = u
      BY <2>1, HeldOnce
    <2> QED BY <2>1, <2>2 DEF Runs
  <1> QED BY <1>1, BaseFacts

OverlayOf(f) == [r \in Rec |-> Found(f.cache, r)]

LEMMA OverlaysFacts ==
  ASSUME TypeOK, NEW u \in User
  PROVE  /\ txn[u].id = 0 => Overlays[u] = <<>>
         /\ txn[u].id # 0 =>
              /\ Len(Overlays[u]) = Len(Frames(u))
              /\ Overlays[u] = [k \in 1..Len(Frames(u)) |-> OverlayOf(Frames(u)[k])]
              /\ \A k \in 1..Len(Frames(u)) : Overlays[u][k] = OverlayOf(Frames(u)[k])
  <1>1. PICK F \in Seq(Frame) : F = Frames(u)
    BY FramesFacts
  <1>2. Overlays[u] = IF txn[u].id = 0 THEN <<>> ELSE [k \in 1..Len(F) |-> OverlayOf(F[k])]
    BY <1>1, Zenon DEF Overlays, OverlayOf
  <1>3. PICK m \in Nat : m = Len(F)
    OBVIOUS
  <1>4. Len([k \in 1..m |-> OverlayOf(F[k])]) = m
    OBVIOUS
  <1>5. \A k \in 1..m : [j \in 1..m |-> OverlayOf(F[j])][k] = OverlayOf(F[k])
    BY Zenon
  <1> QED BY <1>1, <1>2, <1>3, <1>4, <1>5, Zenon

\* A program that reads a record under its update lock finds what it would
\* find if commits were one step.
LEMMA ReadsAgree ==
  ASSUME IInv, NEW u \in User, NEW r \in Rec, Runs(u), lock[r] # Unlocked, lock[r].owner = u
  PROVE  Promise!Sees(u, r, View(u, r))
  <1>1. TypeOK
    BY DEF IInv
  <1>2. Base[r] = file[r]
    <2>1. r \in Held[u]
      BY DEF Held
    <2> QED BY <2>1, BaseLocked
  <1>3. CASE txn[u].id = 0
    <2>1. View(u, r) = file[r] /\ Overlays[u] = <<>>
      BY <1>1, <1>3, OverlaysFacts DEF View
    <2>2. \A i \in 1..Len(<<>>) : Overlays[u][i][r] = Untouched
      OBVIOUS
    <2> QED BY <1>2, <2>1, <2>2 DEF Promise!Sees
  <1>4. CASE txn[u].id # 0
    <2>1. PICK F \in Seq(Frame) : F = Frames(u)
      BY <1>1, FramesFacts
    <2>2. PICK m \in Nat : m = Len(F)
      OBVIOUS
    <2>3. PICK o : /\ o = Overlays[u] /\ Len(o) = m
                   /\ \A k \in 1..m : o[k][r] = Found(F[k].cache, r)
      <3>1. Len(Overlays[u]) = m /\ \A k \in 1..m : Overlays[u][k] = OverlayOf(F[k])
        BY <1>1, <1>4, <2>1, <2>2, OverlaysFacts
      <3>2. \A k \in 1..m : Overlays[u][k][r] = Found(F[k].cache, r)
        BY <3>1, ZenonT(60) DEF OverlayOf
      <3> QED BY <3>1, <3>2, Zenon
    <2>4. PICK K : K = Touching(u, r) /\ K \in SUBSET Nat /\ K = {k \in 1..m : o[k][r] # Untouched}
      <3>1. Touching(u, r) = {k \in 1..m : Found(F[k].cache, r) # Untouched}
        BY <2>1, <2>2, Zenon DEF Touching
      <3>2. Touching(u, r) = {k \in 1..m : o[k][r] # Untouched}
        BY <2>3, <3>1
      <3>3. \A k \in 1..m : k \in Nat
        OBVIOUS
      <3>4. Touching(u, r) \in SUBSET Nat
        BY <3>2, <3>3, Zenon
      <3> QED BY <3>2, <3>4, Zenon
    <2>5. CASE K = {}
      <3>1. View(u, r) = file[r]
        BY <2>4, <2>5, Zenon DEF View
      <3>2. \A i \in 1..m : o[i][r] = Untouched
        BY <2>4, <2>5
      <3> QED BY <1>2, <2>3, <3>1, <3>2, Zenon DEF Promise!Sees
    <2>6. CASE K # {}
      <3>1. PICK k \in K : /\ k = (CHOOSE i \in K : \A j \in K : i <= j)
                           /\ \A j \in K : k <= j
        <4>1. \E k \in K : \A j \in K : k <= j
          BY <2>4, <2>6, LeastNat
        <4> QED BY <4>1, Zenon
      <3>2. View(u, r) = Found(F[k].cache, r)
        BY <1>4, <2>1, <2>4, <2>6, <3>1, Zenon DEF View
      <3>3. k \in 1..m /\ o[k][r] = View(u, r) /\ View(u, r) # Untouched
        BY <2>3, <2>4, <3>1, <3>2
      <3>4. \A j \in 1..(k - 1) : o[j][r] = Untouched
        <4> SUFFICES ASSUME NEW j \in 1..(k - 1), o[j][r] # Untouched PROVE FALSE
          OBVIOUS
        <4>1. j \in 1..m /\ ~(k <= j)
          BY <3>3
        <4> QED BY <2>4, <3>1, <4>1
      <3> QED BY <2>3, <3>3, <3>4, Zenon DEF Promise!Sees
    <2> QED BY <2>5, <2>6
  <1> QED BY <1>3, <1>4

\* Committed transactions are atomic for programs that read under update
\* locks: txn_read() returns what Transactions, in which a commit is one step,
\* says a program sees, also while the chain of a commit is half applied.
THEOREM LockedReads ==
  ASSUME Disciplined
  PROVE  Spec => []LockedReadsAgree
  <1>1. IInv => LockedReadsAgree
    <2> SUFFICES ASSUME IInv PROVE LockedReadsAgree
      OBVIOUS
    <2> QED BY ReadsAgree DEF LockedReadsAgree
  <1> QED BY <1>1, Invariant, PTL

-----------------------------------------------------------------------------
(* How the steps change what a chain holds *)

LEMMA FoundClose ==
  ASSUME NEW s \in Seq(Entry), NEW e \in Entry, NEW r,
         e.kind = "close", OnceIn(Append(s, e))
  PROVE  Found(Append(s, e), r) = Found(s, r)
  <1>1. PICK q \in Seq(Entry) : q = Append(s, e) /\ Updates(q) = Updates(s)
                                /\ \A i \in 1..Len(s) : q[i] = s[i]
    <2>1. Updates(Append(s, e)) = Updates(s)
      BY AppendedClose
    <2> QED BY <2>1, AppendFacts
  <1>2. \A i \in Updates(s) : q[i] = s[i]
    BY <1>1, ChainFacts
  <1>3. OnceIn(q)
    BY <1>1, Zenon
  <1>4. Found(q, r) = Found(s, r)
    <2>1. \A i \in Updates(s) : s[i].rec = r =>
            \E j \in Updates(q) : q[j].rec = r /\ q[j].val = s[i].val
      BY <1>1, <1>2, Zenon
    <2>2. \A j \in Updates(q) : q[j].rec = r => \E i \in Updates(s) : s[i].rec = r
      BY <1>1, <1>2, Zenon
    <2> QED BY <1>3, <2>1, <2>2, FoundSame
  <1> QED BY <1>1, <1>4, Zenon

LEMMA CutPlaces ==
  ASSUME NEW s \in Seq(Entry), NEW q, NEW x, CutAt(s, q, x)
  PROVE  /\ \A i \in Updates(s) : i # x => \E j \in Updates(q) : q[j] = s[i]
         /\ \A j \in Updates(q) : \E i \in Updates(s) : i # x /\ q[j] = s[i]
  <1>1. PICK n \in Nat : /\ n = Len(s) /\ x \in 1..n /\ Len(q) = n - 1
                         /\ \A i \in 1..(n - 1) : q[i] = s[IF i < x THEN i ELSE i + 1]
    BY DEF CutAt
  <1>2. ASSUME NEW i \in Updates(s), i # x PROVE \E j \in Updates(q) : q[j] = s[i]
    <2>1. i \in 1..n /\ s[i].kind = "update"
      BY <1>1 DEF Updates
    <2>2. CASE i < x
      <3>1. i \in 1..(n - 1) /\ q[i] = s[i]
        BY <1>1, <2>1, <2>2
      <3>2. i \in Updates(q)
        BY <1>1, <2>1, <3>1 DEF Updates
      <3> QED BY <3>1, <3>2
    <2>3. CASE ~(i < x)
      <3>1. i - 1 \in 1..(n - 1) /\ ~(i - 1 < x) /\ (i - 1) + 1 = i
        BY <1>1, <1>2, <2>1, <2>3
      <3>2. q[i - 1] = s[i]
        BY <1>1, <3>1
      <3>3. i - 1 \in Updates(q)
        BY <1>1, <2>1, <3>1, <3>2 DEF Updates
      <3> QED BY <3>2, <3>3
    <2> QED BY <2>2, <2>3
  <1>3. ASSUME NEW j \in Updates(q) PROVE \E i \in Updates(s) : i # x /\ q[j] = s[i]
    <2>1. j \in 1..(n - 1) /\ q[j].kind = "update"
      BY <1>1 DEF Updates
    <2>2. CASE j < x
      <3>1. j \in 1..n /\ j # x /\ q[j] = s[j]
        BY <1>1, <2>1, <2>2
      <3>2. j \in Updates(s)
        BY <1>1, <2>1, <3>1 DEF Updates
      <3> QED BY <3>1, <3>2
    <2>3. CASE ~(j < x)
      <3>1. j + 1 \in 1..n /\ j + 1 # x /\ q[j] = s[j + 1]
        BY <1>1, <2>1, <2>3
      <3>2. j + 1 \in Updates(s)
        BY <1>1, <2>1, <3>1 DEF Updates
      <3> QED BY <3>1, <3>2
    <2> QED BY <2>2, <2>3
  <1> QED BY <1>2, <1>3

\* An entry that goes takes its own update, if it has one, and no other.
LEMMA FoundCut ==
  ASSUME NEW s \in Seq(Entry), NEW q \in Seq(Entry), NEW x, NEW r,
         CutAt(s, q, x), OnceIn(s), OnceIn(q)
  PROVE  /\ (x \in Updates(s) => s[x].rec # r) => Found(q, r) = Found(s, r)
         /\ x \in Updates(s) /\ s[x].rec = r => Found(q, r) = Untouched
  <1>1. /\ \A i \in Updates(s) : i # x => \E j \in Updates(q) : q[j] = s[i]
        /\ \A j \in Updates(q) : \E i \in Updates(s) : i # x /\ q[j] = s[i]
    BY CutPlaces
  <1>2. ASSUME x \in Updates(s) => s[x].rec # r
        PROVE  Found(q, r) = Found(s, r)
    <2>1. ASSUME NEW i \in Updates(s), s[i].rec = r
          PROVE  \E j \in Updates(q) : q[j].rec = r /\ q[j].val = s[i].val
      <3>1. i # x
        BY <1>2, <2>1
      <3>2. PICK j \in Updates(q) : q[j] = s[i]
        BY <1>1, <3>1
      <3> QED BY <2>1, <3>2
    <2>2. ASSUME NEW j \in Updates(q), q[j].rec = r
          PROVE  \E i \in Updates(s) : s[i].rec = r
      <3>1. PICK i \in Updates(s) : q[j] = s[i]
        BY <1>1
      <3> QED BY <2>2, <3>1
    <2> QED BY <2>1, <2>2, FoundSame
  <1>3. ASSUME x \in Updates(s), s[x].rec = r
        PROVE  Found(q, r) = Untouched
    <2>1. ASSUME NEW j \in Updates(q) PROVE q[j].rec # r
      <3>1. PICK i \in Updates(s) : i # x /\ q[j] = s[i]
        BY <1>1
      <3>2. s[i].rec # r
        BY <1>3, <3>1 DEF OnceIn
      <3> QED BY <3>1, <3>2
    <2> QED BY <2>1, FoundNone
  <1> QED BY <1>2, <1>3

LEMMA PutPlaces ==
  ASSUME NEW s \in Seq(Entry), NEW q, NEW fv \in Fvar, NEW r \in Rec, NEW v \in Content,
         q = Put(s, fv, r, v)
  PROVE  /\ \E j \in Updates(q) : q[j].rec = r /\ q[j].val = v
         /\ \A p : p # r =>
              /\ \A i \in Updates(s) : s[i].rec = p => i \in Updates(q) /\ q[i] = s[i]
              /\ \A j \in Updates(q) : q[j].rec = p => j \in Updates(s) /\ q[j] = s[j]
  <1>1. CASE UpdatesOf(s, r) = {}
    <2>1. PICK e \in Entry : /\ e = [kind |-> "update", fvar |-> fv, rec |-> r, val |-> v]
                             /\ e.kind = "update" /\ e.rec = r /\ e.val = v
      <3>1. PICK e : e = [kind |-> "update", fvar |-> fv, rec |-> r, val |-> v]
        OBVIOUS
      <3>2. e \in Entry
        BY <3>1, EntryNew, Zenon
      <3>3. e.kind = "update" /\ e.rec = r /\ e.val = v
        BY <3>1
      <3> QED BY <3>1, <3>2, <3>3, Zenon
    <2>2. q = Append(s, e)
      BY <1>1, <2>1, Zenon DEF Put
    <2>3. PICK n \in Nat : n = Len(s)
      OBVIOUS
    <2>4. q[n + 1] = e /\ \A i \in 1..n : q[i] = s[i]
      BY <2>2, <2>3, AppendFacts
    <2>5. Updates(q) = Updates(s) \cup {n + 1} /\ Updates(s) \subseteq 1..n
      <3>1. Updates(Append(s, e)) = Updates(s) \cup {Len(s) + 1}
        BY <2>1, AppendedUpdate
      <3> QED BY <2>2, <2>3, <3>1, ChainFacts
    <2>6. \A i \in Updates(s) : i \in Updates(q) /\ q[i] = s[i]
      BY <2>4, <2>5
    <2>7. \A j \in Updates(q) : j = n + 1 \/ j \in Updates(s)
      BY <2>5
    <2> QED BY <2>1, <2>4, <2>5, <2>6, <2>7
  <1>2. CASE UpdatesOf(s, r) # {}
    <2>1. q = [i \in 1..Len(s) |-> IF i \in UpdatesOf(s, r) THEN [s[i] EXCEPT !.val = v] ELSE s[i]]
      BY <1>2, Zenon DEF Put
    <2>2. PICK n \in Nat : n = Len(s)
      OBVIOUS
    <2>3. Len(q) = n /\ \A i \in 1..n : /\ i \in UpdatesOf(s, r) => q[i] = [s[i] EXCEPT !.val = v]
                                        /\ i \notin UpdatesOf(s, r) => q[i] = s[i]
      BY <2>1, <2>2
    <2>4. ASSUME NEW i \in UpdatesOf(s, r)
          PROVE  /\ i \in 1..n /\ q[i].kind = "update" /\ q[i].rec = r /\ q[i].val = v
                 /\ i \in Updates(q) /\ i \in Updates(s) /\ s[i].rec = r
      <3>1. i \in 1..n /\ s[i].kind = "update" /\ s[i].rec = r /\ s[i] \in Entry
        BY <2>2 DEF UpdatesOf
      <3>2. s[i] \in [kind : {"update"}, fvar : Fvar, rec : Rec, val : Content]
        BY <3>1 DEF Entry
      <3>3. q[i] = [s[i] EXCEPT !.val = v]
        BY <2>3, <3>1
      <3>4. q[i].kind = "update" /\ q[i].rec = r /\ q[i].val = v
        BY <3>1, <3>2, <3>3
      <3> QED BY <2>2, <2>3, <3>1, <3>4 DEF Updates
    <2>5. ASSUME NEW i \in Updates(s), s[i].rec # r
          PROVE  i \in Updates(q) /\ q[i] = s[i]
      <3>1. i \in 1..n /\ s[i].kind = "update" /\ i \notin UpdatesOf(s, r)
        BY <2>2, <2>5 DEF Updates, UpdatesOf
      <3>2. q[i] = s[i]
        BY <2>3, <3>1
      <3> QED BY <2>3, <3>1, <3>2 DEF Updates
    <2>6. ASSUME NEW j \in Updates(q), q[j].rec # r
          PROVE  j \in Updates(s) /\ q[j] = s[j]
      <3>1. j \in 1..n /\ q[j].kind = "update"
        BY <2>3 DEF Updates
      <3>2. j \notin UpdatesOf(s, r)
        BY <2>4, <2>6
      <3>3. q[j] = s[j]
        BY <2>3, <3>1, <3>2
      <3> QED BY <2>2, <3>1, <3>3 DEF Updates
    <2> QED BY <1>2, <2>4, <2>5, <2>6
  <1> QED BY <1>1, <1>2

LEMMA FoundPut ==
  ASSUME NEW s \in Seq(Entry), NEW q \in Seq(Entry), NEW fv \in Fvar, NEW r \in Rec,
         NEW v \in Content, NEW p, q = Put(s, fv, r, v), OnceIn(q)
  PROVE  /\ p = r => Found(q, p) = v
         /\ p # r => Found(q, p) = Found(s, p)
  <1>1. CASE p = r
    <2>1. PICK j \in Updates(q) : q[j].rec = r /\ q[j].val = v
      BY PutPlaces
    <2> QED BY <1>1, <2>1, FoundOne
  <1>2. CASE p # r
    <2>1. /\ \A i \in Updates(s) : s[i].rec = p => i \in Updates(q) /\ q[i] = s[i]
          /\ \A j \in Updates(q) : q[j].rec = p => j \in Updates(s) /\ q[j] = s[j]
      BY <1>2, PutPlaces
    <2>2. \A i \in Updates(s) : s[i].rec = p =>
            \E j \in Updates(q) : q[j].rec = p /\ q[j].val = s[i].val
      BY <2>1
    <2>3. \A j \in Updates(q) : q[j].rec = p => \E i \in Updates(s) : s[i].rec = p
      BY <2>1
    <2> QED BY <1>2, <2>2, <2>3, FoundSame
  <1> QED BY <1>1, <1>2

-----------------------------------------------------------------------------
(* Transactions' state before and after a step *)

StateFacts ==
  /\ \A r \in Rec : (\A u \in User : Pending(u, r) = Untouched) => Base[r] = file[r]
  /\ \A u \in User, r \in Rec : Pending(u, r) # Untouched =>
       Base[r] = Pending(u, r) /\ commit[u].on /\ r \in Held[u]
  /\ \A u \in User : \A s \in Chains(u) : s \in Seq(Entry) /\ OnceIn(s)
  /\ \A u \in User : Promise!Touched(Overlays[u]) \subseteq Held[u]
ViewFacts ==
  /\ \A u \in User :
       /\ txn[u].id = 0 => Overlays[u] = <<>>
       /\ txn[u].id # 0 =>
            Overlays[u] = [k \in 1..Len(Frames(u)) |-> OverlayOf(Frames(u)[k])]
  /\ \A u \in User :
       /\ Frames(u) \in Seq(Frame) /\ Len(Frames(u)) = Len(stack[u]) + 1
       /\ Frames(u)[1] = txn[u]
       /\ \A k \in 1..Len(stack[u]) : Frames(u)[k + 1] = stack[u][k]
  /\ \A u \in User : commit[u].on => txn[u].id = 0 /\ stack[u] = <<>>

LEMMA ViewKnown == IInv => ViewFacts
  <1> SUFFICES ASSUME IInv, NEW u \in User
               PROVE  /\ txn[u].id = 0 => Overlays[u] = <<>>
                      /\ txn[u].id # 0 =>
                           Overlays[u] = [k \in 1..Len(Frames(u)) |-> OverlayOf(Frames(u)[k])]
                      /\ Frames(u) \in Seq(Frame) /\ Len(Frames(u)) = Len(stack[u]) + 1
                      /\ Frames(u)[1] = txn[u]
                      /\ \A k \in 1..Len(stack[u]) : Frames(u)[k + 1] = stack[u][k]
                      /\ commit[u].on => txn[u].id = 0 /\ stack[u] = <<>>
    BY Zenon DEF ViewFacts
  <1>1. TypeOK /\ OutsideOf(txn[u], stack[u], commit[u])
    BY DEF IInv, Outside
  <1>2. commit[u].on => txn[u].id = 0 /\ stack[u] = <<>>
    BY <1>1, Zenon DEF OutsideOf
  <1>3. /\ Frames(u) \in Seq(Frame) /\ Len(Frames(u)) = Len(stack[u]) + 1
        /\ Frames(u)[1] = txn[u]
        /\ \A k \in 1..Len(stack[u]) : Frames(u)[k + 1] = stack[u][k]
    BY <1>1, FramesFacts, Zenon
  <1>4. /\ txn[u].id = 0 => Overlays[u] = <<>>
        /\ txn[u].id # 0 =>
             Overlays[u] = [k \in 1..Len(Frames(u)) |-> OverlayOf(Frames(u)[k])]
    BY <1>1, OverlaysFacts, Zenon
  <1> QED BY <1>2, <1>3, <1>4, Zenon

LEMMA StateKnown == IInv => StateFacts
  <1> SUFFICES ASSUME IInv PROVE StateFacts
    OBVIOUS
  <1>1. \A r \in Rec : (\A u \in User : Pending(u, r) = Untouched) => Base[r] = file[r]
    BY BaseFacts
  <1>2. \A u \in User, r \in Rec : Pending(u, r) # Untouched =>
          Base[r] = Pending(u, r) /\ commit[u].on /\ r \in Held[u]
    BY BaseFacts, PendingHeld
  <1>3. \A u \in User : \A s \in Chains(u) : s \in Seq(Entry) /\ OnceIn(s)
    BY ChainOnce
  <1>4. \A u \in User : Promise!Touched(Overlays[u]) \subseteq Held[u]
    <2> SUFFICES ASSUME NEW u \in User, NEW r \in Rec,
                        NEW i \in 1..Len(Overlays[u]), Overlays[u][i][r] # Untouched
                 PROVE  r \in Held[u]
      BY Zenon DEF Promise!Touched
    <2>1. TypeOK /\ ViewFacts
      BY ViewKnown DEF IInv
    <2>2. txn[u].id # 0
      <3> SUFFICES ASSUME txn[u].id = 0 PROVE FALSE
        OBVIOUS
      <3>1. Overlays[u] = <<>>
        BY <2>1 DEF ViewFacts
      <3> QED BY <3>1
    <2>3. Runs(u)
      BY <2>1, <2>2 DEF ViewFacts, Runs
    <2>4. /\ Len(Overlays[u]) = Len(Frames(u))
          /\ \A k \in 1..Len(Frames(u)) : Overlays[u][k] = OverlayOf(Frames(u)[k])
      BY <2>1, <2>2, OverlaysFacts
    <2>5. i \in 1..Len(Frames(u))
      BY <2>4
    <2>6. Found(Frames(u)[i].cache, r) # Untouched
      BY <2>4, <2>5, Zenon DEF OverlayOf
    <2>7. Frames(u)[i].cache \in Chains(u)
      BY <2>1, <2>3, <2>5, FrameChain
    <2> QED BY <2>6, <2>7, ChainHeld
  <1> QED BY <1>1, <1>2, <1>3, <1>4, Zenon DEF StateFacts

LEMMA FactsNext == IInv' => StateFacts' /\ ViewFacts'
  BY StateKnown, ViewKnown, PTL

MapsStep == Promise!PromiseNext \/ UNCHANGED <<Base, Overlays, Held, Committing>>

LEMMA BaseKept ==
  ASSUME UNCHANGED <<file, commit>>
  PROVE  Base' = Base
  BY Zenon DEF Base, Pending

LEMMA CommittingKept ==
  ASSUME UNCHANGED commit
  PROVE  Committing' = Committing
  BY Zenon DEF Committing

LEMMA HeldKept ==
  ASSUME UNCHANGED lock
  PROVE  Held' = Held
  BY Zenon DEF Held

LEMMA OverlaysKept ==
  ASSUME UNCHANGED <<txn, stack>>
  PROVE  Overlays' = Overlays
  BY Zenon DEF Overlays, Frames

\* Only the overlays of u change.
LEMMA OverlaysBut ==
  ASSUME NEW u \in User, OnlyUser(u), NEW o, Overlays'[u] = o
  PROVE  Overlays' = [Overlays EXCEPT ![u] = o]
  <1>1. ASSUME NEW w \in User \ {u} PROVE Overlays'[w] = Overlays[w]
    <2>1. txn'[w] = txn[w] /\ stack'[w] = stack[w]
      BY DEF OnlyUser
    <2>2. Overlays'[w] = IF txn'[w].id = 0 THEN <<>>
                         ELSE [k \in 1..Len(Frames(w)') |-> OverlayOf(Frames(w)'[k])]
      BY Zenon DEF Overlays, OverlayOf
    <2>3. Overlays[w] = IF txn[w].id = 0 THEN <<>>
                        ELSE [k \in 1..Len(Frames(w)) |-> OverlayOf(Frames(w)[k])]
      BY Zenon DEF Overlays, OverlayOf
    <2>4. Frames(w)' = Frames(w)
      BY <2>1, Zenon DEF Frames
    <2> QED BY <2>1, <2>2, <2>3, <2>4, Zenon
  <1>2. Overlays' = [w \in User |-> Overlays'[w]] /\ Overlays = [w \in User |-> Overlays[w]]
    BY Zenon DEF Overlays
  <1> QED BY <1>1, <1>2

LEMMA HeldLess ==
  ASSUME NEW u \in User,
         \A r \in Rec : \/ lock'[r] = lock[r]
                        \/ lock[r] # Unlocked /\ lock[r].owner = u /\ lock'[r] = Unlocked
  PROVE  /\ \A w \in User \ {u} : Held'[w] = Held[w]
         /\ Held'[u] \subseteq Held[u]
  <1>1. ASSUME NEW w \in User \ {u}, NEW r \in Rec
        PROVE  lock'[r] # Unlocked /\ lock'[r].owner = w <=> lock[r] # Unlocked /\ lock[r].owner = w
    BY <1>1
  <1>2. \A w \in User \ {u} : Held'[w] = Held[w]
    BY <1>1 DEF Held
  <1>3. Held'[u] \subseteq Held[u]
    BY DEF Held
  <1> QED BY <1>2, <1>3

\* The locks that a step gives up are those of no update.
LEMMA GivesUpLocks ==
  ASSUME IInv', NEW u \in User,
         \A r \in Rec : \/ lock'[r] = lock[r]
                        \/ lock[r] # Unlocked /\ lock[r].owner = u /\ lock'[r] = Unlocked
  PROVE  Promise!GivesUp(u)
  <1>1. Promise!Touched(Overlays[u])' \subseteq Held'[u]
    BY FactsNext DEF StateFacts
  <1>2. (\A w \in User \ {u} : Held'[w] = Held[w]) /\ Held'[u] \subseteq Held[u]
    BY HeldLess
  <1> QED BY <1>1, <1>2, Zenon DEF Promise!GivesUp, Promise!Touched

LEMMA UnlockMaps ==
  ASSUME IInv', NEW u \in User, UNCHANGED <<Base, Overlays, Committing>>,
         \A r \in Rec : \/ lock'[r] = lock[r]
                        \/ lock[r] # Unlocked /\ lock[r].owner = u /\ lock'[r] = Unlocked
  PROVE  MapsStep
  <1>1. Promise!GivesUp(u)
    BY GivesUpLocks
  <1>2. Promise!Unlock(u)
    BY <1>1 DEF Promise!Unlock
  <1> QED BY <1>2, Zenon DEF MapsStep, Promise!PromiseNext

LEMMA StutterMaps ==
  ASSUME UNCHANGED <<Base, Overlays, Held, Committing>>
  PROVE  MapsStep
  BY Zenon DEF MapsStep

\* The innermost chain of a transaction is the front of its overlays.
LEMMA HeadOverlays ==
  ASSUME IInv, IInv', NEW u \in User, txn[u].id # 0, txn'[u].id # 0, stack'[u] = stack[u]
  PROVE  /\ Overlays'[u] = [Overlays[u] EXCEPT ![1] = OverlayOf(txn'[u])]
         /\ Overlays[u] # <<>> /\ Overlays[u][1] = OverlayOf(txn[u])
         /\ Overlays[u] = [Overlays[u] EXCEPT ![1] = OverlayOf(txn[u])]
         /\ 1 \in DOMAIN Overlays[u]
  <1>1. PICK F \in Seq(Frame) : F = Frames(u)
    BY ViewKnown DEF ViewFacts
  <1>2. PICK G \in Seq(Frame) : G = Frames(u)'
    BY FactsNext DEF ViewFacts
  <1>3. PICK m \in Nat : m = Len(stack[u])
    <2>1. stack[u] \in Seq(Frame)
      BY UserTypes DEF IInv
    <2> QED BY <2>1
  <1>4. /\ Len(F) = m + 1 /\ F[1] = txn[u] /\ \A k \in 1..m : F[k + 1] = stack[u][k]
        /\ Overlays[u] = [k \in 1..(m + 1) |-> OverlayOf(F[k])]
    BY <1>1, <1>3, ViewKnown DEF ViewFacts
  <1>5. /\ Len(G) = m + 1 /\ G[1] = txn'[u] /\ \A k \in 1..m : G[k + 1] = stack[u][k]
        /\ Overlays'[u] = [k \in 1..(m + 1) |-> OverlayOf(G[k])]
    <2>1. /\ Len(Frames(u)') = Len(stack'[u]) + 1 /\ Frames(u)'[1] = txn'[u]
          /\ \A k \in 1..Len(stack'[u]) : Frames(u)'[k + 1] = stack'[u][k]
      BY FactsNext, Zenon DEF ViewFacts
    <2>2. Overlays'[u] = [k \in 1..Len(Frames(u)') |-> OverlayOf(Frames(u)'[k])]
      BY FactsNext, Zenon DEF ViewFacts, OverlayOf
    <2>3. Len(G) = m + 1 /\ G[1] = txn'[u] /\ \A k \in 1..m : G[k + 1] = stack[u][k]
      BY <1>2, <1>3, <2>1, Zenon
    <2> QED BY <1>2, <2>2, <2>3, Zenon
  <1>6. \A k \in 1..(m + 1) : k # 1 => G[k] = F[k]
    <2> SUFFICES ASSUME NEW k \in 1..(m + 1), k # 1 PROVE G[k] = F[k]
      OBVIOUS
    <2>1. k - 1 \in 1..m /\ (k - 1) + 1 = k
      OBVIOUS
    <2>2. F[(k - 1) + 1] = stack[u][k - 1] /\ G[(k - 1) + 1] = stack[u][k - 1]
      BY <1>4, <1>5, <2>1
    <2> QED BY <2>1, <2>2
  <1>7. \A k \in 1..(m + 1) : k # 1 => OverlayOf(G[k]) = OverlayOf(F[k])
    BY <1>6, Zenon
  <1>8. PICK o : o = [k \in 1..(m + 1) |-> OverlayOf(F[k])]
    OBVIOUS
  <1>9. PICK p : p = [k \in 1..(m + 1) |-> OverlayOf(G[k])]
    OBVIOUS
  <1>10. 1 \in 1..(m + 1) /\ DOMAIN o = 1..(m + 1)
    BY <1>8
  <1> HIDE DEF OverlayOf
  <1>11. p = [o EXCEPT ![1] = OverlayOf(G[1])] /\ o = [o EXCEPT ![1] = OverlayOf(F[1])]
         /\ o[1] = OverlayOf(F[1])
    BY <1>7, <1>8, <1>9, <1>10
  <1>12. o # <<>>
    BY <1>10
  <1> QED BY <1>4, <1>5, <1>8, <1>9, <1>10, <1>11, <1>12, Zenon

OwnFacts ==
  \A u \in User : txn[u].id # 0 => txn[u].cache \in Seq(Entry) /\ OnceIn(txn[u].cache)

LEMMA OwnOnce == IInv => OwnFacts
  <1> SUFFICES ASSUME IInv, NEW u \in User, txn[u].id # 0
               PROVE  txn[u].cache \in Seq(Entry) /\ OnceIn(txn[u].cache)
    BY DEF OwnFacts
  <1>1. TypeOK /\ ViewFacts
    BY ViewKnown DEF IInv
  <1>2. Runs(u)
    BY <1>1 DEF ViewFacts, Runs
  <1>3. txn[u].cache \in Chains(u)
    BY <1>2, Zenon DEF Chains, Runs
  <1> QED BY <1>3, StateKnown, Zenon DEF StateFacts

LEMMA OwnOnceNext == IInv' => OwnFacts'
  BY OwnOnce, PTL

\* The chain of u changes but holds the same updates.
LEMMA HeadSame ==
  ASSUME IInv, IInv', NEW u \in User, OnlyUser(u),
         txn[u].id # 0, txn'[u].id # 0, stack'[u] = stack[u],
         \A r \in Rec : Found(txn'[u].cache, r) = Found(txn[u].cache, r)
  PROVE  Overlays' = Overlays
  <1>1. OverlayOf(txn'[u]) = OverlayOf(txn[u])
    BY Zenon DEF OverlayOf
  <1>2. Overlays'[u] = Overlays[u]
    BY <1>1, HeadOverlays, Zenon
  <1>3. Overlays' = [Overlays EXCEPT ![u] = Overlays[u]]
    BY <1>2, OverlaysBut
  <1> QED BY <1>3, Zenon DEF Overlays

\* The chain q holds what s does, and v for r.
PutIn(s, q, r, v) ==
  \A p \in Rec : /\ p = r => Found(q, p) = v
                 /\ p # r => Found(q, p) = Found(s, p)
PutsOverlay(u, r, v) == Overlays' = [Overlays EXCEPT ![u][1][r] = v]

LEMMA HeadPut ==
  ASSUME NEW u \in User, NEW r \in Rec, NEW v,
         IInv, IInv', OnlyUser(u), txn[u].id # 0, txn'[u].id # 0, stack'[u] = stack[u],
         PutIn(txn[u].cache, txn'[u].cache, r, v)
  PROVE  PutsOverlay(u, r, v)
  <1>1. OverlayOf(txn'[u]) = [OverlayOf(txn[u]) EXCEPT ![r] = v]
    BY DEF OverlayOf, PutIn
  <1>2. /\ Overlays'[u] = [Overlays[u] EXCEPT ![1] = OverlayOf(txn'[u])]
        /\ Overlays[u][1] = OverlayOf(txn[u])
    BY HeadOverlays, Zenon
  <1>3. Overlays'[u] = [Overlays[u] EXCEPT ![1] = [Overlays[u][1] EXCEPT ![r] = v]]
    BY <1>1, <1>2, Zenon
  <1>4. Overlays'[u] = [Overlays[u] EXCEPT ![1][r] = v]
    BY <1>3
  <1>5. Overlays' = [Overlays EXCEPT ![u] = [Overlays[u] EXCEPT ![1][r] = v]]
    BY <1>4, OverlaysBut
  <1> QED BY <1>5 DEF PutsOverlay

LEMMA CloseMaps ==
  ASSUME IInv, IInv', NEW u \in User, NEW fv \in Fvar, Close(u, fv), OnlyUser(u)
  PROVE  MapsStep
  <1>1. UNCHANGED <<file, stack, commit>>
    BY DEF Close
  <1>2. UNCHANGED <<Base, Committing>>
    BY <1>1, BaseKept, CommittingKept
  <1>3. TypeOK
    BY DEF IInv
  <1>4. CASE txn[u].id # 0
    <2>1. PICK e \in Entry : e = [kind |-> "close", fvar |-> fv]
      BY DEF Entry
    <2>2. txn' = [txn EXCEPT ![u].cache = Append(@, e)] /\ lock' = lock
      BY <1>4, <2>1 DEF Close
    <2>3. txn[u] \in Frame /\ txn \in [User -> Frame]
      BY <1>3 DEF TypeOK
    <2>4. txn'[u].id = txn[u].id /\ txn'[u].cache = Append(txn[u].cache, e)
      BY <2>2, <2>3 DEF Frame
    <2>5. txn'[u].id # 0
      BY <1>4, <2>4
    <2>6. txn[u].cache \in Seq(Entry) /\ OnceIn(txn'[u].cache)
      BY <1>4, <2>5, OwnOnce, OwnOnceNext DEF OwnFacts
    <2>7. e.kind = "close"
      BY <2>1
    <2>8. \A r \in Rec : Found(txn'[u].cache, r) = Found(txn[u].cache, r)
      BY <2>4, <2>6, <2>7, FoundClose
    <2>9. Overlays' = Overlays
      BY <1>1, <1>4, <2>5, <2>8, HeadSame
    <2> QED BY <1>2, <2>2, <2>9, HeldKept, StutterMaps
  <1>5. CASE txn[u].id = 0
    <2>1. lock' = Released(u, {}, {fv}) /\ txn' = txn
      BY <1>5 DEF Close
    <2>2. Overlays' = Overlays
      BY <1>1, <2>1, OverlaysKept
    <2>3. \A r \in Rec : \/ lock'[r] = lock[r]
                         \/ lock[r] # Unlocked /\ lock[r].owner = u /\ lock'[r] = Unlocked
      BY <2>1 DEF Released
    <2> QED BY <1>2, <2>2, <2>3, UnlockMaps
  <1> QED BY <1>4, <1>5

LEMMA OpenMaps ==
  ASSUME IInv, IInv', NEW u \in User, Open(u), OnlyUser(u)
  PROVE  MapsStep
  <1>1. UNCHANGED <<file, lock, stack, commit>>
    BY DEF Open
  <1>2. UNCHANGED <<Base, Held, Committing>>
    BY <1>1, BaseKept, HeldKept, CommittingKept
  <1>3. CASE txn' = txn
    BY <1>1, <1>2, <1>3, OverlaysKept, StutterMaps
  <1>4. CASE txn' # txn
    <2>1. txn[u].id # 0 /\ Closes(txn[u].cache) # {}
      BY <1>4 DEF Open
    <2>2. PICK s \in Seq(Entry) : s = txn[u].cache /\ OnceIn(s)
      BY <2>1, OwnOnce DEF OwnFacts
    <2>3. PICK x \in Closes(s) : \A j \in Closes(s) : x <= j
      BY <2>1, <2>2, LeastPlace
    <2>4. x = CHOOSE i \in Closes(s) : \A j \in Closes(s) : i <= j
      BY <2>2, <2>3, LeastPlace
    <2>5. txn' = [txn EXCEPT ![u].cache = SubSeq(s, 1, x - 1) \o SubSeq(s, x + 1, Len(s))]
      BY <2>1, <2>2, <2>4 DEF Open
    <2>6. txn[u] \in Frame /\ txn \in [User -> Frame]
      BY DEF IInv, TypeOK
    <2>14. x \in 1..Len(s)
      BY <2>2, <2>3, ChainFacts
    <2>7. PICK q \in Seq(Entry) : q = SubSeq(s, 1, x - 1) \o SubSeq(s, x + 1, Len(s)) /\ CutAt(s, q, x)
      BY <2>2, <2>14, RemovedFacts DEF CutAt
    <2>8. txn'[u].id = txn[u].id /\ txn'[u].cache = q
      BY <2>5, <2>6, <2>7 DEF Frame
    <2>9. txn'[u].id # 0
      BY <2>1, <2>8
    <2>10. OnceIn(q)
      BY <2>8, <2>9, OwnOnceNext DEF OwnFacts
    <2>11. x \notin Updates(s)
      BY <2>2, <2>3 DEF Closes, Updates
    <2>12. \A r \in Rec : Found(q, r) = Found(s, r)
      <3> SUFFICES ASSUME NEW r \in Rec PROVE Found(q, r) = Found(s, r)
        OBVIOUS
      <3>1. CutAt(s, q, x) /\ OnceIn(s) /\ OnceIn(q)
        BY <2>2, <2>7, <2>10
      <3> QED BY <2>11, <3>1, FoundCut, ZenonT(60)
    <2>13. Overlays' = Overlays
      BY <1>1, <2>1, <2>2, <2>8, <2>9, <2>12, HeadSame
    <2> QED BY <1>2, <2>13, StutterMaps
  <1> QED BY <1>3, <1>4

LEMMA ExecuteMaps ==
  ASSUME NEW u \in User, Execute(u)
  PROVE  MapsStep
  <1>1. UNCHANGED <<file, lock, txn, stack, commit>>
    BY DEF Execute
  <1> QED BY <1>1, BaseKept, OverlaysKept, HeldKept, CommittingKept, StutterMaps

LEMMA ReleaseMaps ==
  ASSUME IInv, IInv', NEW u \in User, NEW r \in Rec, Release(u, r)
  PROVE  MapsStep
  <1>1. UNCHANGED <<file, txn, stack, commit>>
    BY DEF Release
  <1>2. \A p \in Rec : \/ lock'[p] = lock[p]
                       \/ lock[p] # Unlocked /\ lock[p].owner = u /\ lock'[p] = Unlocked
    BY DEF Release, IInv, TypeOK
  <1> QED BY <1>1, <1>2, BaseKept, OverlaysKept, CommittingKept, UnlockMaps

LEMMA LockMaps ==
  ASSUME IInv, IInv', NEW u \in User, NEW fv \in Fvar, NEW r \in Rec, LockRecord(u, fv, r)
  PROVE  MapsStep
  <1>1. UNCHANGED <<file, txn, stack, commit>>
    BY DEF LockRecord
  <1>2. UNCHANGED <<Base, Overlays, Committing>>
    BY <1>1, BaseKept, OverlaysKept, CommittingKept
  <1>3. /\ lock'[r] # Unlocked /\ lock'[r].owner = u
        /\ \A p \in Rec \ {r} : lock'[p] = lock[p]
        /\ lock[r] # Unlocked => lock[r].owner = u
    <2>1. lock'[r] = [owner |-> u, fvar |-> fv, txn |-> txn[u].id]
          /\ \A p \in Rec \ {r} : lock'[p] = lock[p]
      BY DEF LockRecord, IInv, TypeOK
    <2>2. lock'[r].owner = u /\ u # None
      BY <2>1, TxnAssumption
    <2>3. Unlocked.owner = None
      BY DEF Unlocked
    <2>4. lock'[r] # Unlocked
      BY <2>2, <2>3
    <2> QED BY <2>1, <2>2, <2>4 DEF LockRecord
  <1>4. Held' = [Held EXCEPT ![u] = @ \cup {r}]
    <2>1. ASSUME NEW w \in User
          PROVE  Held'[w] = IF w = u THEN Held[w] \cup {r} ELSE Held[w]
      BY <1>3 DEF Held
    <2> QED BY <2>1, Zenon DEF Held
  <1>5. CASE lock[r] = Unlocked
    <2>1. \A w \in User : r \notin Held[w]
      BY <1>5, Zenon DEF Held
    <2>2. Promise!Lock(u, r)
      BY <1>2, <1>4, <2>1, Zenon DEF Promise!Lock
    <2> QED BY <2>2, Zenon DEF MapsStep, Promise!PromiseNext
  <1>6. CASE lock[r] # Unlocked
    <2>1. r \in Held[u]
      BY <1>3, <1>6 DEF Held
    <2>2. Held[u] \cup {r} = Held[u]
      BY <2>1
    <2>3. Held' = Held
      BY <1>4, <2>2, Zenon DEF Held
    <2> QED BY <1>2, <2>3, StutterMaps
  <1> QED BY <1>5, <1>6

LEMMA UpdateMaps ==
  ASSUME IInv, IInv', Disciplined, NEW u \in User, NEW fv \in Fvar, NEW r \in Rec,
         NEW v \in Content, Update(u, fv, r, v), OnlyUser(u)
  PROVE  MapsStep
  <1>1. UNCHANGED <<stack, commit>> /\ Runs(u) /\ lock[r] # Unlocked /\ lock[r].owner = u
    BY DEF Update
  <1>2. Committing' = Committing /\ u \notin Committing /\ r \in Held[u]
    BY <1>1, CommittingKept DEF Committing, Runs, Held
  <1>3. txn[u] \in Frame /\ txn \in [User -> Frame] /\ file \in [Rec -> Content]
        /\ lock \in [Rec -> RecLock]
    BY DEF IInv, TypeOK
  <1>4. Promise!Update(u, r, v) => MapsStep
    <2>1. v \in Val \cup {Absent}
      BY DEF Content
    <2> QED BY <2>1, Zenon DEF MapsStep, Promise!PromiseNext
  <1>5. CASE txn[u].id # 0
    <2>1. txn' = [txn EXCEPT ![u].cache = Put(@, fv, r, v)] /\ UNCHANGED <<file, lock>>
      BY <1>5 DEF Update
    <2>2. PICK s \in Seq(Entry) : s = txn[u].cache
      BY <1>5, OwnOnce DEF OwnFacts
    <2>3. PICK q \in Seq(Entry) : q = Put(s, fv, r, v)
      BY <2>2, PutType
    <2>4. txn'[u].id = txn[u].id /\ txn'[u].cache = q
      BY <1>3, <2>1, <2>2, <2>3 DEF Frame
    <2>5. txn'[u].id # 0
      BY <1>5, <2>4
    <2>6. OnceIn(q)
      BY <2>4, <2>5, OwnOnceNext DEF OwnFacts
    <2>7. PutIn(s, q, r, v)
      BY <2>3, <2>6, FoundPut DEF PutIn
    <2>8. PutIn(txn[u].cache, txn'[u].cache, r, v)
      BY <2>2, <2>4, <2>7, Zenon
    <2>9. Overlays' = [Overlays EXCEPT ![u][1][r] = v]
      <3>1. stack'[u] = stack[u]
        BY <1>1
      <3>2. PutsOverlay(u, r, v)
        BY <1>5, <2>5, <2>8, <3>1, HeadPut, Zenon
      <3> QED BY <3>2, Zenon DEF PutsOverlay
    <2>10. Overlays[u] # <<>>
      BY <1>1, <1>5, <2>5, HeadOverlays
    <2>11. UNCHANGED <<Base, Held>>
      BY <1>1, <2>1, BaseKept, HeldKept
    <2> QED BY <1>2, <1>4, <2>9, <2>10, <2>11, Zenon DEF Promise!Update
  <1>6. CASE txn[u].id = 0
    <2>1. file' = [file EXCEPT ![r] = v] /\ txn' = txn
          /\ (lock' = lock \/ lock' = [lock EXCEPT ![r] = Unlocked])
      BY <1>6 DEF Update
    <2>2. Overlays' = Overlays
      BY <1>1, <2>1, OverlaysKept
    <2>3. Overlays[u] = <<>>
      BY <1>6, ViewKnown, Zenon DEF ViewFacts
    <2>4. \A p \in Rec : \/ lock'[p] = lock[p]
                         \/ lock[p] # Unlocked /\ lock[p].owner = u /\ lock'[p] = Unlocked
      BY <1>1, <1>3, <2>1
    <2>5. Promise!GivesUp(u)
      BY <2>4, GivesUpLocks
    <2>6. Base' = [Base EXCEPT ![r] = v]
      <3>1. \A w \in User, p \in Rec : Pending(w, p)' = Pending(w, p)
        BY <1>1, Zenon DEF Pending
      <3>2. \A w \in User : Pending(w, r) = Untouched
        BY <1>1, <1>2, BaseLocked
      <3>3. file'[r] = v /\ \A p \in Rec \ {r} : file'[p] = file[p]
        BY <1>3, <2>1
      <3>4. Base'[r] = v
        BY <3>1, <3>2, <3>3, Zenon DEF Base
      <3>5. \A p \in Rec \ {r} : Base'[p] = Base[p]
        <4> SUFFICES ASSUME NEW p \in Rec \ {r} PROVE Base'[p] = Base[p]
          OBVIOUS
        <4>1. p \in Rec /\ file'[p] = file[p] /\ \A w \in User : Pending(w, p)' = Pending(w, p)
          BY <3>1, <3>3
        <4> QED BY <4>1, Zenon DEF Base
      <3>6. Base = [p \in Rec |-> Base[p]] /\ Base' = [p \in Rec |-> Base'[p]]
        BY Zenon DEF Base
      <3> QED BY <3>4, <3>5, <3>6
    <2> QED BY <1>2, <1>4, <2>2, <2>3, <2>5, <2>6, Zenon DEF Promise!Update
  <1> QED BY <1>5, <1>6

-----------------------------------------------------------------------------
(* Overlays as sequences *)

Layers == {OverlayOf(f) : f \in Frame}
NoUpdates == [r \in Rec |-> Untouched]

LEMMA ConsIs ==
  ASSUME NEW X, NEW o \in Seq(X), NEW p \in Seq(X), NEW e \in X,
         Len(p) = Len(o) + 1, p[1] = e, \A k \in 1..Len(o) : p[k + 1] = o[k]
  PROVE  p = <<e>> \o o
  <1>1. PICK q \in Seq(X) : q = <<e>> \o o
    OBVIOUS
  <1>2. Len(q) = Len(o) + 1 /\ q[1] = e /\ \A k \in 1..Len(o) : q[k + 1] = o[k]
    BY <1>1
  <1>3. ASSUME NEW i \in 1..Len(p) PROVE p[i] = q[i]
    <2>1. CASE i = 1
      BY <1>2, <2>1
    <2>2. CASE i # 1
      <3>1. PICK k \in 1..Len(o) : i = k + 1
        <4>1. i - 1 \in 1..Len(o) /\ i = (i - 1) + 1
          BY <2>2
        <4> QED BY <4>1
      <3> QED BY <1>2, <3>1
    <2> QED BY <2>1, <2>2
  <1>4. p = q
    BY <1>2, <1>3
  <1> QED BY <1>1, <1>4

LEMMA RestIs ==
  ASSUME NEW X, NEW o \in Seq(X), NEW p \in Seq(X), NEW n \in 0..Len(o), RestOf(o, p, n)
  PROVE  p = SubSeq(o, n + 1, Len(o))
  <1>1. PICK q \in Seq(X) : q = SubSeq(o, n + 1, Len(o))
    BY SubSeqFacts
  <1>2. Len(q) = Len(o) - n /\ \A k \in 1..(Len(o) - n) : q[k] = o[k + n]
    BY <1>1, SubSeqFacts
  <1>3. Len(p) = Len(q) /\ \A k \in 1..Len(p) : p[k] = q[k]
    BY <1>2 DEF RestOf
  <1>4. p = q
    BY <1>3
  <1> QED BY <1>1, <1>4

Layered ==
  \A u \in User :
    /\ Overlays[u] \in Seq(Layers)
    /\ txn[u].id = 0 => Overlays[u] = <<>>
    /\ txn[u].id # 0 =>
         /\ Len(Overlays[u]) = Len(stack[u]) + 1
         /\ Overlays[u][1] = OverlayOf(txn[u])
         /\ \A k \in 1..Len(stack[u]) : Overlays[u][k + 1] = OverlayOf(stack[u][k])

LEMMA LayeredKnown == IInv => Layered
  <1> SUFFICES ASSUME IInv, NEW u \in User
               PROVE  /\ Overlays[u] \in Seq(Layers)
                      /\ txn[u].id = 0 => Overlays[u] = <<>>
                      /\ txn[u].id # 0 =>
                           /\ Len(Overlays[u]) = Len(stack[u]) + 1
                           /\ Overlays[u][1] = OverlayOf(txn[u])
                           /\ \A k \in 1..Len(stack[u]) :
                                Overlays[u][k + 1] = OverlayOf(stack[u][k])
    BY Zenon DEF Layered
  <1>1. TypeOK
    BY DEF IInv
  <1>2. CASE txn[u].id = 0
    <2>1. Overlays[u] = <<>>
      BY <1>1, <1>2, OverlaysFacts
    <2> QED BY <1>2, <2>1
  <1>3. CASE txn[u].id # 0
    <2>1. PICK F \in Seq(Frame) : F = Frames(u)
      BY <1>1, FramesFacts
    <2>2. PICK m \in Nat : m = Len(stack[u]) /\ Len(F) = m + 1
      <3>1. stack[u] \in Seq(Frame) /\ Len(F) = Len(stack[u]) + 1
        BY <1>1, <2>1, FramesFacts, UserTypes
      <3> QED BY <3>1
    <2>3. F[1] = txn[u] /\ \A k \in 1..m : F[k + 1] = stack[u][k]
      BY <1>1, <2>1, <2>2, FramesFacts
    <2>4. Overlays[u] = [k \in 1..(m + 1) |-> OverlayOf(F[k])]
      BY <1>1, <1>3, <2>1, <2>2, OverlaysFacts, Zenon
    <2>5. \A k \in 1..(m + 1) : OverlayOf(F[k]) \in Layers
      <3>1. \A k \in 1..(m + 1) : F[k] \in Frame
        BY <2>1, <2>2
      <3> QED BY <3>1, Zenon DEF Layers
    <2> HIDE DEF OverlayOf, Layers
    <2>6. PICK o : o = [k \in 1..(m + 1) |-> OverlayOf(F[k])]
      OBVIOUS
    <2>7. o \in Seq(Layers) /\ Len(o) = m + 1 /\ \A k \in 1..(m + 1) : o[k] = OverlayOf(F[k])
      BY <2>5, <2>6
    <2>8. o[1] = OverlayOf(txn[u])
      <3>1. 1 \in 1..(m + 1)
        OBVIOUS
      <3> QED BY <2>3, <2>7, <3>1, Zenon
    <2>9. \A k \in 1..m : o[k + 1] = OverlayOf(stack[u][k])
      <3> SUFFICES ASSUME NEW k \in 1..m PROVE o[k + 1] = OverlayOf(stack[u][k])
        OBVIOUS
      <3>1. k + 1 \in 1..(m + 1)
        OBVIOUS
      <3> QED BY <2>3, <2>7, <3>1, Zenon
    <2> QED BY <1>3, <2>2, <2>4, <2>6, <2>7, <2>8, <2>9, Zenon
  <1> QED BY <1>2, <1>3

LEMMA LayeredNext == IInv' => Layered'
  BY LayeredKnown, PTL

LEMMA NoLayer ==
  /\ NoUpdates \in Layers
  /\ \A f : f.cache = <<>> => OverlayOf(f) = NoUpdates
  /\ \A f, g : f.cache = g.cache => OverlayOf(f) = OverlayOf(g)
  <1>1. \A f : f.cache = <<>> => OverlayOf(f) = NoUpdates
    <2>1. <<>> \in Seq(Entry) /\ \A r : \A i \in Updates(<<>>) : <<>>[i].rec # r
      BY EmptyChain
    <2>2. \A r \in Rec : Found(<<>>, r) = Untouched
      BY <2>1, FoundNone, Zenon
    <2> QED BY <2>2, Zenon DEF OverlayOf, NoUpdates
  <1>2. NoTxn \in Frame /\ NoTxn.cache = <<>>
    BY Nothing DEF NoTxn
  <1>3. OverlayOf(NoTxn) = NoUpdates
    BY <1>1, <1>2
  <1>4. NoUpdates \in Layers
    BY <1>2, <1>3, Zenon DEF Layers
  <1>5. \A f, g : f.cache = g.cache => OverlayOf(f) = OverlayOf(g)
    BY Zenon DEF OverlayOf
  <1> QED BY <1>1, <1>4, <1>5

LEMMA LevelCache ==
  ASSUME NEW f \in Frame, NEW l \in Nat
  PROVE  [f EXCEPT !.level = l] \in Frame /\ [f EXCEPT !.level = l].cache = f.cache
  BY DEF Frame

LEMMA BeginMaps ==
  ASSUME IInv, IInv', NEW u \in User, Begin(u), OnlyUser(u)
  PROVE  MapsStep
  <1>1. Runs(u) /\ UNCHANGED <<file, lock, open, commit, level>>
    BY DEF Begin
  <1>2. UNCHANGED <<Base, Held, Committing>> /\ u \notin Committing
    BY <1>1, BaseKept, HeldKept, CommittingKept DEF Committing, Runs
  <1>3. /\ txn[u] \in Frame /\ stack[u] \in Seq(Frame) /\ txn \in [User -> Frame]
        /\ stack \in [User -> Seq(Frame)] /\ nextTxn \in Nat /\ nextTxn # 0
    <2>1. TypeOK /\ Nested(Live(u), nextTxn) /\ Len(Live(u)) = Len(stack[u]) + 1
          /\ Live(u) \in Seq(LiveTxn)
      BY Mine DEF IInv
    <2>2. txn[u] \in Frame /\ stack[u] \in Seq(Frame) /\ txn \in [User -> Frame]
          /\ stack \in [User -> Seq(Frame)] /\ nextTxn \in Nat
      BY <2>1 DEF TypeOK
    <2>3. 1 \in 1..Len(Live(u))
      BY <2>1, <2>2
    <2>4. Live(u)[1].id \in Nat
      BY <2>1, <2>3, LiveTxnFacts
    <2>5. Live(u)[1].id < nextTxn
      BY <2>1, <2>3 DEF Nested
    <2> QED BY <2>2, <2>4, <2>5
  <1>4. PICK o \in Seq(Layers) : o = Overlays[u]
    BY LayeredKnown DEF Layered
  <1>5. PICK p \in Seq(Layers) : p = Overlays'[u]
    BY LayeredNext DEF Layered
  <1>6. Len(p) = Len(o) + 1 /\ p[1] = NoUpdates /\ \A k \in 1..Len(o) : p[k + 1] = o[k]
    <2>1. CASE txn[u].id # 0
      <3>1. PICK t \in Frame : t = [id |-> nextTxn, level |-> level[u], begun |-> level[u],
                                    cache |-> <<>>]
                               /\ t.id = nextTxn /\ t.cache = <<>>
        <4>1. level[u] \in Nat /\ <<>> \in Seq(Entry)
          BY DEF IInv, TypeOK
        <4>2. PICK n \in Nat, l \in Nat : n = nextTxn /\ l = level[u]
          BY <1>3, <4>1
        <4>3. [id |-> n, level |-> l, begun |-> l, cache |-> <<>>] \in Frame
          BY <1>3, <4>1, FrameFacts
        <4>4. /\ [id |-> n, level |-> l, begun |-> l, cache |-> <<>>].id = n
              /\ [id |-> n, level |-> l, begun |-> l, cache |-> <<>>].cache = <<>>
          OBVIOUS
        <4> QED BY <4>2, <4>3, <4>4, Zenon
      <3>2. PICK v \in Frame : v = [txn[u] EXCEPT !.level = level[u]] /\ v.cache = txn[u].cache
        <4>1. level[u] \in Nat
          BY DEF IInv, TypeOK
        <4>2. [txn[u] EXCEPT !.level = level[u]] \in Frame
          BY <1>3, <4>1, LevelCache
        <4>3. [txn[u] EXCEPT !.level = level[u]].cache = txn[u].cache
          BY <1>3, <4>1, LevelCache
        <4> QED BY <4>2, <4>3, Zenon
      <3>3. txn'[u] = t /\ stack'[u] = <<v>> \o stack[u]
        <4>1. txn' = [txn EXCEPT ![u] = t] /\ stack' = [stack EXCEPT ![u] = <<v>> \o @]
          BY <2>1, <3>1, <3>2, Zenon DEF Begin
        <4> QED BY <1>3, <4>1
      <3>4. PICK m \in Nat : m = Len(stack[u])
        BY <1>3
      <3>5. PICK z \in Seq(Frame) : z = stack'[u] /\ Len(z) = m + 1 /\ z[1] = v
                                    /\ \A k \in 1..m : z[k + 1] = stack[u][k]
        <4>1. PICK z : z = <<v>> \o stack[u]
          OBVIOUS
        <4>2. z \in Seq(Frame) /\ Len(z) = Len(stack[u]) + 1 /\ z[1] = v
              /\ \A k \in 1..Len(stack[u]) : z[k + 1] = stack[u][k]
          BY <1>3, <4>1, ConsFacts, ZenonT(60)
        <4> QED BY <3>3, <3>4, <4>1, <4>2, Zenon
      <3>6. Len(o) = m + 1 /\ o[1] = OverlayOf(txn[u])
            /\ \A k \in 1..m : o[k + 1] = OverlayOf(stack[u][k])
        BY <1>4, <2>1, <3>4, LayeredKnown DEF Layered
      <3>7. txn'[u].id # 0
        BY <1>3, <3>1, <3>3
      <3>8. Len(p) = (m + 1) + 1 /\ p[1] = OverlayOf(t)
            /\ \A k \in 1..(m + 1) : p[k + 1] = OverlayOf(z[k])
        BY <1>5, <3>3, <3>5, <3>7, LayeredNext, Zenon DEF Layered
      <3>9. p[1] = NoUpdates /\ p[1 + 1] = o[1]
        <4>1. OverlayOf(t) = NoUpdates /\ OverlayOf(v) = OverlayOf(txn[u])
          BY <3>1, <3>2, NoLayer, Zenon
        <4>2. 1 \in 1..(m + 1)
          OBVIOUS
        <4> QED BY <3>5, <3>6, <3>8, <4>1, <4>2, Zenon
      <3>10. \A k \in 1..(m + 1) : p[k + 1] = o[k]
        <4> SUFFICES ASSUME NEW k \in 1..(m + 1), k # 1 PROVE p[k + 1] = o[k]
          BY <3>9
        <4>1. PICK j \in 1..m : k = j + 1
          <5>1. k - 1 \in 1..m /\ k = (k - 1) + 1
            OBVIOUS
          <5> QED BY <5>1
        <4> QED BY <3>5, <3>6, <3>8, <4>1, Zenon
      <3> QED BY <3>6, <3>8, <3>9, <3>10
    <2>2. CASE txn[u].id = 0
      <3>1. stack[u] = <<>> /\ txn[u].cache = <<>>
        BY <1>1, <2>2 DEF IInv, Outside, OutsideOf, Runs
      <3>2. txn' = [txn EXCEPT ![u] = [id |-> nextTxn, level |-> level[u], begun |-> level[u],
                                       cache |-> @.cache]]
            /\ stack' = stack
        BY <2>2 DEF Begin
      <3>3. txn'[u] = [id |-> nextTxn, level |-> level[u], begun |-> level[u],
                       cache |-> txn[u].cache]
        BY <1>3, <3>2
      <3>4. txn'[u].id = nextTxn /\ txn'[u].cache = <<>>
        BY <3>1, <3>3
      <3>5. txn'[u].id # 0 /\ stack'[u] = <<>>
        BY <1>3, <3>1, <3>2, <3>4
      <3>6. o = <<>>
        BY <1>4, <2>2, LayeredKnown DEF Layered
      <3>7. Len(p) = Len(stack'[u]) + 1 /\ p[1] = OverlayOf(txn'[u])
        BY <1>5, <3>5, LayeredNext, Zenon DEF Layered
      <3>8. p[1] = NoUpdates
        BY <3>4, <3>7, NoLayer, Zenon
      <3> QED BY <3>5, <3>6, <3>7, <3>8
    <2> QED BY <2>1, <2>2
  <1>7. p = <<NoUpdates>> \o o
    BY <1>6, NoLayer, ConsIs
  <1>8. Overlays' = [Overlays EXCEPT ![u] = <<NoUpdates>> \o Overlays[u]]
    BY <1>4, <1>5, <1>7, OverlaysBut
  <1>9. Promise!Begin(u)
    BY <1>2, <1>8, Zenon DEF Promise!Begin, NoUpdates
  <1> QED BY <1>9, Zenon DEF MapsStep, Promise!PromiseNext

-----------------------------------------------------------------------------
(* What rolls back discards overlays *)

LEMMA DiscardMaps ==
  ASSUME NEW u \in User, NEW n \in 1..Len(Overlays[u]),
         IInv, IInv', OnlyUser(u), Runs(u), UNCHANGED <<file, commit>>,
         RestOf(Overlays[u], Overlays'[u], n),
         \A r \in Rec : \/ lock'[r] = lock[r]
                        \/ lock[r] # Unlocked /\ lock[r].owner = u /\ lock'[r] = Unlocked
  PROVE  MapsStep
  <1>1. UNCHANGED <<Base, Committing>> /\ u \notin Committing
    BY BaseKept, CommittingKept DEF Committing, Runs
  <1>2. PICK o \in Seq(Layers) : o = Overlays[u]
    BY LayeredKnown DEF Layered
  <1>3. PICK p \in Seq(Layers) : p = Overlays'[u]
    BY LayeredNext DEF Layered
  <1>4. n \in 0..Len(o) /\ RestOf(o, p, n)
    BY <1>2, <1>3
  <1>5. Overlays'[u] = SubSeq(Overlays[u], n + 1, Len(Overlays[u]))
    BY <1>2, <1>3, <1>4, RestIs, Zenon
  <1>6. Overlays' = [Overlays EXCEPT ![u] = SubSeq(Overlays[u], n + 1, Len(Overlays[u]))]
    BY <1>5, OverlaysBut
  <1>7. Promise!GivesUp(u)
    BY GivesUpLocks
  <1>8. Promise!Discard(u, n)
    BY <1>1, <1>6, <1>7, Zenon DEF Promise!Discard
  <1> QED BY <1>8, Zenon DEF MapsStep, Promise!PromiseNext

LEMMA RollBackMaps ==
  ASSUME IInv, IInv', NEW u \in User, NEW n, OnlyUser(u), Runs(u), txn[u].id # 0,
         n \in 1..Len(Frames(u)), RollBack(u, n), UNCHANGED <<file, commit>>
  PROVE  MapsStep
  <1>1. TypeOK /\ txn \in [User -> Frame] /\ stack \in [User -> Seq(Frame)]
        /\ stack[u] \in Seq(Frame)
    BY DEF IInv, TypeOK
  <1>2. PICK m \in Nat : m = Len(stack[u]) /\ Len(Frames(u)) = m + 1 /\ n \in 1..(m + 1)
    BY <1>1, FramesFacts
  <1>3. \A r \in Rec : \/ lock'[r] = lock[r]
                       \/ lock[r] # Unlocked /\ lock[r].owner = u /\ lock'[r] = Unlocked
    <2>1. \E ids, F : lock' = Released(u, ids, F)
      BY Zenon DEF RollBack
    <2>2. TypeOK
      BY DEF IInv
    <2> QED BY <2>1, <2>2, ReleasedOnly
  <1>4. PICK o \in Seq(Layers) :
          /\ o = Overlays[u] /\ Len(o) = m + 1
          /\ \A k \in 1..m : o[k + 1] = OverlayOf(stack[u][k])
    BY <1>2, LayeredKnown, Zenon DEF Layered
  <1>5. PICK p \in Seq(Layers) : p = Overlays'[u]
    BY LayeredNext DEF Layered
  <1>6. RestOf(o, p, n)
    <2>1. CASE n = m + 1
      <3>1. txn' = [txn EXCEPT ![u] = NoTxn]
        <4>1. ~(n <= Len(stack[u]))
          BY <1>2, <2>1
        <4>2. txn' = [txn EXCEPT ![u] = IF n <= Len(stack[u]) THEN stack[u][n] ELSE NoTxn]
          BY Zenon DEF RollBack
        <4> QED BY <4>1, <4>2, Zenon
      <3>2. txn'[u].id = 0
        BY <1>1, <3>1 DEF NoTxn
      <3>3. p = <<>>
        BY <1>5, <3>2, LayeredNext, Zenon DEF Layered
      <3> QED BY <1>4, <2>1, <3>3 DEF RestOf
    <2>2. CASE n # m + 1
      <3>1. n \in 1..m /\ n <= Len(stack[u]) /\ n \in 1..Len(stack[u])
        BY <1>2, <2>2
      <3>2. PICK t \in Frame, s \in Seq(Frame) :
              t = stack[u][n] /\ s = SubSeq(stack[u], n + 1, Len(stack[u])) /\ t.id > 0
        BY <3>1, Remaining, Zenon
      <3>3. txn' = [txn EXCEPT ![u] = t] /\ stack' = [stack EXCEPT ![u] = s]
        BY <3>1, <3>2 DEF RollBack
      <3>4. txn'[u] = t /\ stack'[u] = s
        BY <1>1, <3>3
      <3>5. Len(s) = m - n /\ \A k \in 1..(m - n) : s[k] = stack[u][k + n]
        <4>1. n \in 0..Len(stack[u])
          BY <3>1
        <4> QED BY <1>1, <1>2, <3>2, <4>1, SubSeqFacts, Zenon
      <3>6. t.id # 0
        BY <3>2 DEF Frame
      <3>7. Len(p) = (m - n) + 1 /\ p[1] = OverlayOf(t)
            /\ \A k \in 1..(m - n) : p[k + 1] = OverlayOf(s[k])
        BY <1>5, <3>4, <3>5, <3>6, LayeredNext, Zenon DEF Layered
      <3>8. p[1] = o[1 + n]
        <4>1. n \in 1..m /\ 1 + n = n + 1
          BY <3>1
        <4>2. o[n + 1] = OverlayOf(stack[u][n])
          BY <1>4, <4>1
        <4> QED BY <3>2, <3>7, <4>1, <4>2, Zenon
      <3>9. \A k \in 1..(m - n) : p[k + 1] = o[(k + 1) + n]
        <4> SUFFICES ASSUME NEW k \in 1..(m - n) PROVE p[k + 1] = o[(k + 1) + n]
          OBVIOUS
        <4>1. PICK j \in 1..m : j = k + n /\ (k + 1) + n = j + 1
          BY <3>1
        <4>2. s[k] = stack[u][j]
          BY <3>5, <4>1
        <4>3. o[j + 1] = OverlayOf(stack[u][j])
          BY <1>4, <4>1
        <4>4. p[k + 1] = OverlayOf(s[k])
          BY <3>7
        <4> QED BY <4>1, <4>2, <4>3, <4>4, Zenon
      <3>10. ASSUME NEW i \in 1..Len(p) PROVE p[i] = o[i + n]
        <4>1. CASE i = 1
          BY <3>8, <4>1
        <4>2. CASE i # 1
          <5>1. PICK k \in 1..(m - n) : i = k + 1
            <6>1. i - 1 \in 1..(m - n) /\ i = (i - 1) + 1
              BY <3>1, <3>7, <4>2
            <6> QED BY <6>1
          <5> QED BY <3>9, <5>1
        <4> QED BY <4>1, <4>2
      <3>11. Len(p) = Len(o) - n
        BY <1>2, <1>4, <3>7
      <3> QED BY <3>10, <3>11, Zenon DEF RestOf
    <2> QED BY <2>1, <2>2
  <1>7. n \in 1..Len(Overlays[u])
    BY <1>2, <1>4
  <1>8. RestOf(Overlays[u], Overlays'[u], n)
    BY <1>4, <1>5, <1>6, Zenon
  <1> QED BY <1>3, <1>7, <1>8, DiscardMaps

LEMMA EndTxnMaps ==
  ASSUME IInv, IInv', NEW u \in User, EndTxn(u), OnlyUser(u)
  PROVE  MapsStep
  <1>1. Runs(u) /\ txn[u].id # 0 /\ RollBack(u, 1) /\ UNCHANGED <<file, commit>>
    BY DEF EndTxn
  <1>2. 1 \in 1..Len(Frames(u))
    <2>1. TypeOK /\ stack[u] \in Seq(Frame)
      BY DEF IInv, TypeOK
    <2> QED BY <2>1, FramesFacts
  <1> QED BY <1>1, <1>2, RollBackMaps

LEMMA EndCommandMaps ==
  ASSUME IInv, IInv', NEW u \in User, EndCommand(u), OnlyUser(u)
  PROVE  MapsStep
  <1>1. Runs(u) /\ UNCHANGED <<file, commit>>
    BY DEF EndCommand
  <1>2. CASE Above(u) = 0
    <2>1. UNCHANGED <<lock, txn, stack>>
      BY <1>2 DEF EndCommand
    <2> QED BY <1>1, <2>1, BaseKept, OverlaysKept, HeldKept, CommittingKept, StutterMaps
  <1>3. CASE Above(u) # 0
    <2>1. txn[u].id # 0
      BY <1>3 DEF Above
    <2>2. TypeOK /\ Frames(u) \in Seq(Frame)
      BY FramesFacts DEF IInv
    <2>3. Len(Frames(u)) \in Nat
      BY <2>2
    <2>4. PICK n \in 0..Len(Frames(u)) : n = Above(u)
      BY <2>1, <2>2, AboveFacts
    <2>5. n \in 1..Len(Frames(u))
      BY <1>3, <2>3, <2>4
    <2>6. RollBack(u, n)
      BY <1>3, <2>4 DEF EndCommand
    <2> QED BY <1>1, <2>1, <2>5, <2>6, RollBackMaps
  <1> QED BY <1>2, <1>3

LEMMA AbortMaps ==
  ASSUME IInv, IInv', NEW u \in User, Abort(u), OnlyUser(u)
  PROVE  MapsStep
  <1>1. Runs(u) /\ UNCHANGED <<file, commit>>
    BY DEF Abort
  <1>2. UNCHANGED <<Base, Committing>>
    BY <1>1, BaseKept, CommittingKept
  <1>3. \A r \in Rec : \/ lock'[r] = lock[r]
                       \/ lock[r] # Unlocked /\ lock[r].owner = u /\ lock'[r] = Unlocked
    <2>1. \E ids, F : lock' = Released(u, ids, F)
      BY Zenon DEF Abort
    <2>2. TypeOK
      BY DEF IInv
    <2> QED BY <2>1, <2>2, ReleasedOnly
  <1>4. TypeOK /\ txn \in [User -> Frame] /\ stack[u] \in Seq(Frame)
    BY DEF IInv, TypeOK
  <1>5. CASE txn[u].id = 0
    <2>1. UNCHANGED <<txn, stack>>
      BY <1>5 DEF Abort
    <2>2. Overlays' = Overlays
      BY <2>1, OverlaysKept
    <2> QED BY <1>2, <1>3, <2>2, UnlockMaps
  <1>6. CASE txn[u].id # 0
    <2>1. PICK n \in Nat : n = Len(stack[u]) + 1 /\ n # 0
      BY <1>4
    <2>2. Len(Frames(u)) # 0
      BY <1>4, <2>1, FramesFacts
    <2>3. txn' = [txn EXCEPT ![u] = NoTxn]
      BY <1>6, <2>2 DEF Abort
    <2>4. txn'[u].id = 0
      BY <1>4, <2>3 DEF NoTxn
    <2>5. Overlays'[u] = <<>>
      BY <2>4, LayeredNext, Zenon DEF Layered
    <2>6. Len(Overlays[u]) = n
      BY <1>6, <2>1, LayeredKnown DEF Layered
    <2>7. n \in 1..Len(Overlays[u])
      BY <2>1, <2>6
    <2>8. RestOf(Overlays[u], Overlays'[u], n)
      BY <2>1, <2>5, <2>6 DEF RestOf
    <2> QED BY <1>1, <1>3, <2>7, <2>8, DiscardMaps
  <1> QED BY <1>5, <1>6

-----------------------------------------------------------------------------
(* A commit is the one step of the promise that StartCommit takes *)

LEMMA BaseAt ==
  ASSUME NEW r \in Rec, file'[r] = file[r], \A w \in User : Pending(w, r)' = Pending(w, r)
  PROVE  Base'[r] = Base[r]
  BY Zenon DEF Base

LEMMA BaseAll ==
  ASSUME \A r \in Rec : Base'[r] = Base[r]
  PROVE  Base' = Base
  BY Zenon DEF Base

LEMMA PendingOthers ==
  ASSUME NEW u \in User, NEW w \in User, NEW r \in Rec, OnlyUser(u), w # u
  PROVE  Pending(w, r)' = Pending(w, r)
  <1>1. commit'[w] = commit[w]
    BY DEF OnlyUser
  <1> QED BY <1>1, Zenon DEF Pending

LEMMA OverlaysOutside ==
  ASSUME IInv, IInv', NEW u \in User, OnlyUser(u), txn[u].id = 0, txn'[u].id = 0
  PROVE  Overlays' = Overlays
  <1>1. Overlays'[u] = <<>> /\ Overlays[u] = <<>>
    BY LayeredKnown, LayeredNext, Zenon DEF Layered
  <1>2. Overlays' = [Overlays EXCEPT ![u] = Overlays[u]]
    BY <1>1, OverlaysBut
  <1> QED BY <1>2, Zenon DEF Overlays

LEMMA FoundEmpty ==
  ASSUME NEW r
  PROVE  Found(<<>>, r) = Untouched
  <1>1. <<>> \in Seq(Entry) /\ \A i \in Updates(<<>>) : <<>>[i].rec # r
    BY EmptyChain
  <1> QED BY <1>1, FoundNone

LEMMA StartCommitMaps ==
  ASSUME IInv, IInv', Disciplined, NEW u \in User, StartCommit(u), OnlyUser(u)
  PROVE  MapsStep
  <1>1. /\ Runs(u) /\ stack[u] = <<>> /\ UNCHANGED <<file, lock, open, stack, level, nextTxn>>
        /\ commit' = [commit EXCEPT ![u] = [on |-> TRUE, id |-> txn[u].id,
                                           left |-> txn[u].cache]]
        /\ txn' = [txn EXCEPT ![u].id = 0]
    BY DEF StartCommit, Disciplined
  <1>2. txn[u] \in Frame /\ txn \in [User -> Frame] /\ commit \in [User -> Committed]
    BY DEF IInv, TypeOK, Committed
  <1>3. /\ commit'[u].on /\ commit'[u].left = txn[u].cache /\ txn'[u].id = 0
        /\ ~commit[u].on
    <2>1. commit'[u] = [on |-> TRUE, id |-> txn[u].id, left |-> txn[u].cache]
      BY <1>1, <1>2
    <2>2. txn'[u].id = 0
      BY <1>1, <1>2 DEF Frame
    <2> QED BY <1>1, <2>1, <2>2 DEF Runs
  <1>4. Held' = Held /\ u \notin Committing /\ Committing' = Committing \cup {u}
    <2>1. Held' = Held
      BY <1>1, HeldKept
    <2>2. \A w \in User \ {u} : commit'[w] = commit[w]
      BY DEF OnlyUser
    <2> QED BY <1>3, <2>1, <2>2 DEF Committing
  <1>5. \A r \in Rec : Pending(u, r) = Untouched /\ Pending(u, r)' = Found(txn[u].cache, r)
    BY <1>3, Zenon DEF Pending
  <1>6. Overlays'[u] = <<>>
    BY <1>3, LayeredNext, Zenon DEF Layered
  <1>7. ASSUME NEW r \in Rec, Found(txn[u].cache, r) = Untouched
        PROVE  Base'[r] = Base[r]
    <2>1. \A w \in User : Pending(w, r)' = Pending(w, r)
      BY <1>5, <1>7, PendingOthers
    <2> QED BY <1>1, <2>1, BaseAt
  <1>8. CASE txn[u].id = 0
    <2>1. txn[u].cache = <<>>
      BY <1>1, <1>8 DEF IInv, Outside, OutsideOf, Runs
    <2>2. \A r \in Rec : Base'[r] = Base[r]
      BY <1>7, <2>1, FoundEmpty
    <2>3. Base' = Base
      BY <2>2, BaseAll
    <2>4. Overlays' = Overlays /\ Overlays[u] = <<>>
      BY <1>3, <1>8, OverlaysOutside, LayeredKnown, Zenon DEF Layered
    <2>5. Promise!Commit(u)
      BY <1>4, <2>3, <2>4, Zenon DEF Promise!Commit
    <2> QED BY <2>5, Zenon DEF MapsStep, Promise!PromiseNext
  <1>9. CASE txn[u].id # 0
    <2>1. PICK o \in Seq(Layers) : o = Overlays[u] /\ Len(o) = 1 /\ o[1] = OverlayOf(txn[u])
      <3>1. Len(stack[u]) + 1 = 1
        BY <1>1
      <3> QED BY <1>9, <3>1, LayeredKnown, Zenon DEF Layered
    <2>2. \A r \in Rec : o[1][r] = Found(txn[u].cache, r)
      BY <2>1, Zenon DEF OverlayOf
    <2>3. \A r \in Rec : Base'[r] = IF o[1][r] = Untouched THEN Base[r] ELSE o[1][r]
      <3> SUFFICES ASSUME NEW r \in Rec, Found(txn[u].cache, r) # Untouched
                   PROVE  Base'[r] = Found(txn[u].cache, r)
        BY <1>7, <2>2
      <3>1. Pending(u, r)' # Untouched
        BY <1>5, Zenon
      <3>2. Base'[r] = Pending(u, r)'
        BY <3>1, FactsNext, Zenon DEF StateFacts
      <3> QED BY <1>5, <3>2
    <2>4. Base' = Promise!Apply(o[1], Base)
      <3>1. Base' = [r \in Rec |-> Base'[r]]
        BY Zenon DEF Base
      <3> QED BY <2>3, <3>1, Zenon DEF Promise!Apply
    <2>6. [i \in 1..(Len(o) - 1) |->
             [r \in Rec |-> IF o[1][r] = Untouched THEN o[i + 1][r] ELSE Untouched]] = <<>>
      <3>1. PICK x : x = [i \in 1..(Len(o) - 1) |->
             [r \in Rec |-> IF o[1][r] = Untouched THEN o[i + 1][r] ELSE Untouched]]
        OBVIOUS
      <3>2. x = [i \in 1..(Len(o) - 1) |-> x[i]]
        BY <3>1, Zenon
      <3>3. [i \in 1..(Len(o) - 1) |-> x[i]] = <<>>
        BY <2>1
      <3>4. x = <<>>
        BY <3>2, <3>3, Zenon
      <3> QED BY <3>1, <3>4, Zenon
    <2>7. Overlays' = [Overlays EXCEPT ![u] = [i \in 1..(Len(Overlays[u]) - 1) |->
             [r \in Rec |-> IF Overlays[u][1][r] = Untouched THEN Overlays[u][i + 1][r]
                            ELSE Untouched]]]
      <3>1. Overlays'[u] = [i \in 1..(Len(Overlays[u]) - 1) |->
             [r \in Rec |-> IF Overlays[u][1][r] = Untouched THEN Overlays[u][i + 1][r]
                            ELSE Untouched]]
        BY <1>6, <2>1, <2>6, Zenon
      <3> QED BY <3>1, OverlaysBut
    <2>8. Overlays[u] # <<>> /\ Base' = Promise!Apply(Overlays[u][1], Base)
      BY <2>1, <2>4
    <2>9. Promise!Commit(u)
      BY <1>4, <2>7, <2>8, Zenon DEF Promise!Commit
    <2> QED BY <2>9, Zenon DEF MapsStep, Promise!PromiseNext
  <1> QED BY <1>8, <1>9

\* The first entry of a chain is cut off.
LEMMA HeadCut ==
  ASSUME NEW s \in Seq(Entry), s # <<>>
  PROVE  CutAt(s, Tail(s), 1)
  <1>1. PICK q \in Seq(Entry) : q = Tail(s) /\ Len(q) = Len(s) - 1 /\ Len(s) >= 1
                                /\ \A i \in 1..(Len(s) - 1) : q[i] = s[i + 1]
    <2>1. Tail(s) \in Seq(Entry) /\ Len(Tail(s)) = Len(s) - 1 /\ Len(s) >= 1
          /\ \A i \in 1..(Len(s) - 1) : Tail(s)[i] = s[i + 1]
      BY TailFacts
    <2> QED BY <2>1, Zenon
  <1>2. CutAt(s, q, 1)
    BY <1>1 DEF CutAt
  <1> QED BY <1>1, <1>2

LEMMA CommitEntryMaps ==
  ASSUME IInv, IInv', Disciplined, NEW u \in User, CommitEntry(u), OnlyUser(u)
  PROVE  MapsStep
  <1>1. commit \in [User -> Committed] /\ commit[u] \in Committed
        /\ file \in [Rec -> Content]
    BY DEF IInv, TypeOK, Committed
  <1>2. PICK s \in Seq(Entry) : s = commit[u].left /\ s # <<>> /\ commit[u].on
    BY <1>1 DEF CommitEntry, Committed
  <1>3. PICK e \in Entry : e = Head(s) /\ e = s[1]
    BY <1>2, TailFacts
  <1>4. PICK q \in Seq(Entry) : q = Tail(s) /\ CutAt(s, q, 1)
    BY <1>2, HeadCut, TailFacts
  <1>5. /\ commit' = [commit EXCEPT ![u].left = Tail(@)] /\ txn' = txn
        /\ \/ /\ e.kind = "update" /\ file' = [file EXCEPT ![e.rec] = e.val] /\ lock' = lock
           \/ /\ e.kind # "update" /\ lock' = Released(u, {}, {e.fvar})
              /\ UNCHANGED <<file, stack>>
    BY <1>2, <1>3 DEF CommitEntry, Disciplined
  <1>6. commit'[u].on /\ commit'[u].left = q
    BY <1>1, <1>2, <1>4, <1>5 DEF Committed
  <1>7. Committing' = Committing
    <2>1. \A w \in User \ {u} : commit'[w] = commit[w]
      BY DEF OnlyUser
    <2> QED BY <1>2, <1>6, <2>1 DEF Committing
  <1>8. Overlays' = Overlays
    <2>1. txn[u].id = 0
      BY <1>2 DEF IInv, Outside, OutsideOf
    <2>2. txn'[u].id = 0
      BY <1>5, <2>1
    <2> QED BY <2>1, <2>2, OverlaysOutside
  <1>9. OnceIn(s) /\ OnceIn(q)
    <2>1. s \in Chains(u)
      BY <1>2, Zenon DEF Chains
    <2>2. q \in Chains(u)'
      BY <1>6, Zenon DEF Chains
    <2>3. OnceIn(s)
      BY <2>1, ChainOnce
    <2>4. OnceIn(q)
      BY <2>2, FactsNext, Zenon DEF StateFacts
    <2> QED BY <2>3, <2>4
  <1>10. \A r \in Rec : Pending(u, r) = Found(s, r) /\ Pending(u, r)' = Found(q, r)
    BY <1>2, <1>6, Zenon DEF Pending
  <1>11. 1 \in Updates(s) <=> e.kind = "update"
    <2>1. 1 \in 1..Len(s)
      BY <1>2, TailFacts
    <2> QED BY <1>3, <2>1 DEF Updates
  <1>12. ASSUME NEW r \in Rec, 1 \in Updates(s) => e.rec # r
         PROVE  Base'[r] = Base[r]
    <2>1. Found(q, r) = Found(s, r)
      <3>1. 1 \in Updates(s) => s[1].rec # r
        BY <1>3, <1>12
      <3>2. CutAt(s, q, 1) /\ OnceIn(s) /\ OnceIn(q)
        BY <1>4, <1>9
      <3> QED BY <3>1, <3>2, FoundCut
    <2>2. \A w \in User : Pending(w, r)' = Pending(w, r)
      BY <1>10, <2>1, PendingOthers
    <2>3. file'[r] = file[r]
      BY <1>1, <1>5, <1>11, <1>12
    <2> QED BY <2>2, <2>3, BaseAt
  <1>13. CASE e.kind = "update"
    <2>1. e.rec \in Rec /\ e.val \in Content
      BY <1>13 DEF Entry
    <2>2. e.val # Untouched
      BY <2>1, TxnAssumption DEF Content
    <2>3. file' = [file EXCEPT ![e.rec] = e.val] /\ lock' = lock
      BY <1>5, <1>13
    <2>4. 1 \in Updates(s) /\ s[1].rec = e.rec /\ s[1].val = e.val
      BY <1>3, <1>11, <1>13
    <2>5. Found(s, e.rec) = e.val
      BY <1>9, <2>4, FoundOne
    <2>6. Found(q, e.rec) = Untouched
      <3>1. CutAt(s, q, 1) /\ OnceIn(s) /\ OnceIn(q)
        BY <1>4, <1>9
      <3> QED BY <2>4, <3>1, FoundCut
    <2>7. Pending(u, e.rec) # Untouched
      BY <1>10, <2>1, <2>2, <2>5
    <2>8. Base[e.rec] = e.val
      <3>1. Base[e.rec] = Pending(u, e.rec)
        BY <2>1, <2>7, StateKnown, Zenon DEF StateFacts
      <3> QED BY <1>10, <2>1, <2>5, <3>1
    <2>9. ASSUME NEW w \in User PROVE Pending(w, e.rec)' = Untouched
      <3>1. CASE w = u
        BY <1>10, <2>1, <2>6, <3>1
      <3>2. CASE w # u
        <4>1. Pending(w, e.rec)' = Pending(w, e.rec)
          BY <2>1, <3>2, PendingOthers
        <4>2. Pending(w, e.rec) = Untouched
          BY <2>1, <2>7, <3>2, PendingHeld, HeldOnce
        <4> QED BY <4>1, <4>2
      <3> QED BY <3>1, <3>2
    <2>10. Base'[e.rec] = e.val
      <3>1. Base'[e.rec] = file'[e.rec]
        BY <2>1, <2>9, FactsNext, Zenon DEF StateFacts
      <3> QED BY <1>1, <2>1, <2>3, <3>1
    <2>11. \A r \in Rec : Base'[r] = Base[r]
      BY <1>12, <2>8, <2>10
    <2> QED BY <1>7, <1>8, <2>3, <2>11, BaseAll, HeldKept, StutterMaps
  <1>14. CASE e.kind # "update"
    <2>1. \A r \in Rec : Base'[r] = Base[r]
      BY <1>11, <1>12, <1>14
    <2>2. Base' = Base
      BY <2>1, BaseAll
    <2>3. \A r \in Rec : \/ lock'[r] = lock[r]
                         \/ lock[r] # Unlocked /\ lock[r].owner = u /\ lock'[r] = Unlocked
      BY <1>5, <1>14 DEF Released
    <2> QED BY <1>7, <1>8, <2>2, <2>3, UnlockMaps
  <1> QED BY <1>13, <1>14

LEMMA CommitEndMaps ==
  ASSUME IInv, IInv', NEW u \in User, CommitEnd(u), OnlyUser(u)
  PROVE  MapsStep
  <1>1. /\ commit[u].on /\ commit[u].left = <<>> /\ lock' = Released(u, {commit[u].id}, {})
        /\ commit' = [commit EXCEPT ![u] = NoCommit] /\ txn' = [txn EXCEPT ![u] = NoTxn]
        /\ UNCHANGED <<file, stack>>
    BY DEF CommitEnd
  <1>2. commit \in [User -> Committed] /\ txn \in [User -> Frame]
    BY DEF IInv, TypeOK, Committed
  <1>3. commit'[u] = NoCommit /\ ~NoCommit.on /\ txn'[u].id = 0
    BY <1>1, <1>2 DEF NoCommit, NoTxn
  <1>4. u \in Committing /\ Committing' = Committing \ {u}
    <2>1. \A w \in User \ {u} : commit'[w] = commit[w]
      BY DEF OnlyUser
    <2> QED BY <1>1, <1>3, <2>1 DEF Committing
  <1>5. txn[u].id = 0
    BY <1>1 DEF IInv, Outside, OutsideOf
  <1>6. Overlays' = Overlays
    BY <1>3, <1>5, OverlaysOutside
  <1>7. Base' = Base
    <2>1. ASSUME NEW r \in Rec PROVE Base'[r] = Base[r]
      <3>1. Pending(u, r) = Untouched /\ Pending(u, r)' = Untouched
        BY <1>1, <1>3, FoundEmpty, Zenon DEF Pending
      <3>2. \A w \in User : Pending(w, r)' = Pending(w, r)
        BY <3>1, PendingOthers
      <3> QED BY <1>1, <3>2, BaseAt
    <2> QED BY <2>1, BaseAll
  <1>8. Promise!GivesUp(u)
    <2>1. \A r \in Rec : \/ lock'[r] = lock[r]
                         \/ lock[r] # Unlocked /\ lock[r].owner = u /\ lock'[r] = Unlocked
      BY <1>1 DEF Released
    <2> QED BY <2>1, GivesUpLocks
  <1>9. Promise!Return(u)
    BY <1>4, <1>6, <1>7, <1>8, Zenon DEF Promise!Return
  <1> QED BY <1>9, Zenon DEF MapsStep, Promise!PromiseNext

LEMMA PromiseStart == Init => Promise!PromiseInit
  <1> SUFFICES ASSUME Init PROVE Promise!PromiseInit
    OBVIOUS
  <1>1. \A u \in User : ~commit[u].on /\ txn[u].id = 0
    BY DEF Init, NoCommit, NoTxn
  <1>2. \A u \in User, r \in Rec : Pending(u, r) = Untouched
    BY <1>1, Zenon DEF Pending
  <1>3. file = [r \in Rec |-> Absent] /\ lock = [r \in Rec |-> Unlocked]
    BY DEF Init
  <1>4. Base = [r \in Rec |-> Absent]
    <2>1. \A r \in Rec : Base[r] = Absent
      BY <1>2, <1>3 DEF Base
    <2>2. Base = [r \in Rec |-> Base[r]]
      BY Zenon DEF Base
    <2> QED BY <2>1, <2>2, Zenon
  <1>5. Overlays = [u \in User |-> <<>>]
    BY <1>1, Zenon DEF Overlays
  <1>6. Held = [u \in User |-> {}]
    BY <1>3 DEF Held
  <1>7. Committing = {}
    BY <1>1 DEF Committing
  <1> QED BY <1>4, <1>5, <1>6, <1>7, Zenon DEF Promise!PromiseInit

LEMMA PromiseStep ==
  ASSUME IInv, IInv', Disciplined, [Next]_vars
  PROVE  MapsStep
  <1>1. CASE UNCHANGED vars
    <2>1. UNCHANGED <<file, lock, txn, stack, commit>>
      BY <1>1 DEF vars
    <2> QED BY <2>1, BaseKept, OverlaysKept, HeldKept, CommittingKept, StutterMaps
  <1>2. ASSUME NEW u \in User, ProgramStep(u) \/ TxnStep(u)
        PROVE  MapsStep
    <2>1. CASE Open(u)
      BY <2>1, OpenStep, OpenMaps
    <2>2. ASSUME NEW fv \in Fvar, Close(u, fv) PROVE MapsStep
      BY <2>2, CloseStep, CloseMaps
    <2>3. ASSUME NEW fv \in Fvar, NEW r \in Rec, LockRecord(u, fv, r) PROVE MapsStep
      BY <2>3, LockMaps
    <2>4. ASSUME NEW fv \in Fvar, NEW r \in Rec, NEW v \in Content, Update(u, fv, r, v)
          PROVE  MapsStep
      BY <2>4, UpdateStep, UpdateMaps
    <2>5. ASSUME NEW r \in Rec, Release(u, r) PROVE MapsStep
      BY <2>5, ReleaseMaps
    <2>6. CASE Execute(u)
      BY <2>6, ExecuteMaps
    <2>7. CASE Begin(u)
      BY <2>7, BeginStep, BeginMaps
    <2>8. CASE EndTxn(u)
      BY <2>8, EndTxnStep, EndTxnMaps
    <2>9. CASE EndCommand(u)
      BY <2>9, EndCommandStep, EndCommandMaps
    <2>10. CASE Abort(u)
      BY <2>10, AbortStep, AbortMaps
    <2>11. CASE StartCommit(u)
      BY <2>11, StartCommitStep, StartCommitMaps
    <2>12. CASE CommitEntry(u)
      BY <2>12, CommitEntryStep, CommitEntryMaps
    <2>13. CASE CommitEnd(u)
      BY <2>13, CommitEndStep, CommitEndMaps
    <2> QED BY <1>2, <2>1, <2>2, <2>3, <2>4, <2>5, <2>6, <2>7, <2>8, <2>9, <2>10, <2>11,
               <2>12, <2>13, Zenon DEF ProgramStep, TxnStep
  <1>3. CASE Next
    <2>1. PICK u \in User : ProgramStep(u) \/ TxnStep(u)
      BY <1>3, Zenon DEF Next
    <2> QED BY <2>1, <1>2
  <1> QED BY <1>1, <1>3

\* Txn implements Transactions: for programs that read under update locks, a
\* transaction takes effect at one moment, when its commit starts, whatever
\* the other processes do while op_txncmt() works through the chain; and one
\* that is rolled back or aborted leaves no trace.  Commits of inner
\* transactions, and what else Disciplined excludes, break this.
THEOREM TransactionsImplemented ==
  ASSUME Disciplined
  PROVE  Spec => ImplementsTransactions
  <1>1. Init => Promise!PromiseInit
    BY PromiseStart
  <1>2. IInv /\ IInv' /\ [Next]_vars
          => [Promise!PromiseNext]_<<Base, Overlays, Held, Committing>>
    BY PromiseStep, Zenon DEF MapsStep
  <1> QED BY <1>1, <1>2, Invariant, PTL DEF Spec, ImplementsTransactions, Promise!PromiseSpec
=============================================================================
