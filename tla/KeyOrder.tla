------------------------------ MODULE KeyOrder ------------------------------
(***************************************************************************)
(* The comparison of keys in sorts: op_sort.c contains it twice.  A key is *)
(* a tuple of strings, a string is a sequence of character codes.  Decimal *)
(* points are left out, and so is the limit of 15 digits.                  *)
(***************************************************************************)
EXTENDS Integers, Sequences, SequencesExt

CONSTANTS
  Key,    \* the keys, tuples of strings
  Order   \* the orders, tuples of flags, no longer than a key

\* The flags of one part of a key.
Flags == [right : BOOLEAN, descending : BOOLEAN, unique : BOOLEAN]

ASSUME KeyOrderAssumption ==
  /\ Order \subseteq Seq(Flags)
  /\ \A o \in Order, k \in Key : Len(o) \in 1..Len(k)

Space == 32
Minus == 45
Digits == 48..57

Trimmed(s) ==
  SubSeq(s, 1 + (CHOOSE n \in 0..Len(s) : /\ \A j \in 1..n : s[j] = Space
                                          /\ n = Len(s) \/ s[n + 1] # Space), Len(s))

Unsigned(s) == IF s # <<>> /\ Head(s) = Minus THEN Tail(s) ELSE s

\* strdbl(): spaces, a sign, digits; nothing at all is the number zero.
IsNumber(s) == ToSet(Unsigned(Trimmed(s))) \subseteq Digits
Magnitude(s) == FoldLeft(LAMBDA v, c : 10 * v + (c - 48), 0, s)
Signed(s) == IF s # <<>> /\ Head(s) = Minus THEN -Magnitude(Tail(s)) ELSE Magnitude(s)
Number(s) == Signed(Trimmed(s))

\* The shorter of two right justified strings is compared with spaces before it.
Padded(s, n) == [i \in 1..(n - Len(s)) |-> Space] \o s
Length(s, t) == IF Len(s) > Len(t) THEN Len(s) ELSE Len(t)

Sign(n) == IF n > 0 THEN 1 ELSE IF n < 0 THEN -1 ELSE 0

\* The first difference, or else which of the two goes on.
Precedes(s, t) ==
  \E n \in 0..Len(s) :
    /\ n < Len(t) /\ \A i \in 1..n : s[i] = t[i]
    /\ n = Len(s) \/ s[n + 1] < t[n + 1]

Characters(s, t) == IF s = t THEN 0 ELSE IF Precedes(s, t) THEN -1 ELSE 1

RightJustified(s, t) ==
  IF IsNumber(s) /\ IsNumber(t) THEN Sign(Number(s) - Number(t))
  ELSE Characters(Padded(s, Length(s, t)), Padded(t, Length(s, t)))

Ascending(s, t, flags) ==
  IF flags.right THEN RightJustified(s, t) ELSE Characters(s, t)

\* What the comparison of two strings leaves in d.
CompareStrings(s, t, flags) ==
  (IF flags.descending THEN -1 ELSE 1) * Ascending(s, t, flags)

\* The parts of two keys from the first one on; "same" says that a part marked
\* unique was found equal, which ends the comparison.
Compare(s, t, flags) ==
  LET Next(m, i) ==
        IF m.d # 0 \/ m.same THEN m
        ELSE [d |-> CompareStrings(s[i], t[i], flags[i]), same |-> FALSE]
      Mark(m, i) == [m EXCEPT !.same = @ \/ (m.d = 0 /\ flags[i].unique)]
  IN FoldLeft(LAMBDA m, i : Mark(Next(m, i), i), [d |-> 0, same |-> FALSE],
              [i \in DOMAIN flags |-> i])

\* Compare, evaluated once for the constants.
Verdict == [o \in Order, s \in Key, t \in Key |-> Compare(s, t, o)]

\* The comparison of a merge, which knows nothing of unique parts.
Plain(flags) == [i \in DOMAIN flags |-> [flags[i] EXCEPT !.unique = FALSE]]
MergeVerdict == [o \in Order, s \in Key, t \in Key |-> Compare(s, t, Plain(o)).d]
=============================================================================
