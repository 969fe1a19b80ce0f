---------------------------- MODULE Transactions ----------------------------
(***************************************************************************)
(* What transactions promise to programs that lock the records they use:   *)
(* a transaction sees its own updates and those of the transactions around *)
(* it, its commit takes effect at one moment and its locks stay until      *)
(* then, and rolling back or aborting leaves no trace.  A commit of an     *)
(* inner transaction is final: the transactions around it no longer hold   *)
(* an older update of the record.  Txn implements this.                    *)
(***************************************************************************)
EXTENDS Integers, Sequences

CONSTANTS User, Rec, Val, Absent, Untouched

VARIABLES
  base,      \* the committed value of each record, Absent if there is none
  overlays,  \* the updates of each user's open transactions, newest first
  held,      \* the records on which each user holds an update lock
  busy       \* the users whose COMMIT has taken effect but not returned

Overlay == [Rec -> Val \cup {Absent, Untouched}]

PromiseInit ==
  /\ base = [r \in Rec |-> Absent]
  /\ overlays = [u \in User |-> <<>>]
  /\ held = [u \in User |-> {}]
  /\ busy = {}

Apply(o, m) == [r \in Rec |-> IF o[r] = Untouched THEN m[r] ELSE o[r]]

\* The records that the transactions in s have updated.
Touched(s) == {r \in Rec : \E i \in 1..Len(s) : s[i][r] # Untouched}

\* Reading r returns v: what the user's innermost transaction that touched r
\* left there, or else the committed value.
Sees(u, r, v) ==
  LET o == overlays[u]
  IN \/ v = base[r] /\ \A i \in 1..Len(o) : o[i][r] = Untouched
     \/ /\ v # Untouched
        /\ \E i \in 1..Len(o) : o[i][r] = v /\ \A j \in 1..(i - 1) : o[j][r] = Untouched

Begin(u) ==
  /\ u \notin busy
  /\ overlays' = [overlays EXCEPT
                    ![u] = <<[r \in Rec |-> Untouched]>> \o overlays[u]]
  /\ UNCHANGED <<base, held, busy>>

Lock(u, r) ==
  /\ \A w \in User : r \notin held[w]
  /\ UNCHANGED <<busy, overlays, base>>
  /\ held' = [held EXCEPT ![u] = @ \cup {r}]

\* Locks may go, except those that an open transaction's update needs.
GivesUp(u) ==
  /\ \A w \in User \ {u} : held'[w] = held[w]
  /\ held'[u] \subseteq held[u]
  /\ Touched(overlays'[u]) \subseteq held'[u]

Unlock(u) == UNCHANGED <<busy, overlays, base>> /\ GivesUp(u)

\* An update of the innermost transaction, or of the file when there is none.
Update(u, r, v) ==
  /\ u \notin busy /\ r \in held[u]
  /\ \/ /\ overlays[u] = <<>>
        /\ base' = [base EXCEPT ![r] = v]
        /\ GivesUp(u) /\ UNCHANGED overlays
     \/ /\ overlays[u] # <<>>
        /\ overlays' = [overlays EXCEPT ![u][1][r] = v]
        /\ UNCHANGED <<base, held>>
  /\ UNCHANGED busy

\* The innermost transaction takes effect; outside one there is nothing to do.
Commit(u) ==
  /\ u \notin busy /\ busy' = busy \cup {u}
  /\ IF overlays[u] = <<>> THEN UNCHANGED <<base, overlays>>
     ELSE /\ base' = Apply(overlays[u][1], base)
          /\ overlays' = [overlays EXCEPT
               ![u] = [i \in 1..(Len(@) - 1) |->
                         [r \in Rec |-> IF @[1][r] = Untouched THEN @[i + 1][r]
                                        ELSE Untouched]]]
  /\ UNCHANGED held

Return(u) ==
  /\ u \in busy /\ busy' = busy \ {u}
  /\ GivesUp(u) /\ UNCHANGED <<base, overlays>>

\* The n innermost transactions end without effect.
Discard(u, n) ==
  /\ u \notin busy
  /\ overlays' = [overlays EXCEPT ![u] = SubSeq(@, n + 1, Len(@))]
  /\ GivesUp(u) /\ UNCHANGED <<base, busy>>

PromiseNext ==
  \E u \in User :
    \/ Unlock(u)
    \/ \E r \in Rec : Lock(u, r)
    \/ Begin(u)
    \/ \E r \in Rec, v \in Val \cup {Absent} : Update(u, r, v)
    \/ Commit(u)
    \/ Return(u)
    \/ \E n \in 1..Len(overlays[u]) : Discard(u, n)

PromiseSpec == PromiseInit /\ [][PromiseNext]_<<base, overlays, held, busy>>
=============================================================================
