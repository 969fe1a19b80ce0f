---------------------------- MODULE LockService ----------------------------
(***************************************************************************)
(* What the lock manager promises to the programs that use it, without the *)
(* tables: shared and update locks on records, exclusive locks on files,   *)
(* requests that wait.  A lock is granted only beside compatible ones and  *)
(* is given up only by its owner, and never while the owner waits.         *)
(* RecordLocks implements this.                                            *)
(***************************************************************************)
CONSTANTS User, File, Id, None

Key == File \X Id
Lock == [user : User, key : Key, type : {"S", "U"}]

VARIABLES
  held,     \* the record locks in force
  file,     \* the user that has each file's lock, or None
  waiting   \* the users inside a request that could not be granted yet

service == <<held, file, waiting>>

ServiceTypeOK ==
  /\ held \subseteq Lock
  /\ file \in [File -> User \cup {None}]
  /\ waiting \subseteq User

ServiceInit ==
  /\ held = {}
  /\ file = [f \in File |-> None]
  /\ waiting = {}

Compatible(l, m) == l.key = m.key => l.user # m.user /\ l.type = "S" /\ m.type = "S"
Of(u) == {l \in held : l.user = u}

\* A new lock, or another type for the one that u has already.
Grant(u, k, t) ==
  LET new == [user |-> u, key |-> k, type |-> t]
      rest == {l \in held : l.user # u \/ l.key # k}
  IN /\ file[k[1]] \in {u, None}
     /\ \A l \in rest : Compatible(l, new)
     /\ held' = rest \cup {new}
     /\ waiting' = waiting \ {u}
     /\ UNCHANGED file

GrantFile(u, f) ==
  /\ file[f] \in {u, None}
  /\ \A l \in held : l.key[1] = f => l.user = u
  /\ file' = [file EXCEPT ![f] = u]
  /\ waiting' = waiting \ {u}
  /\ UNCHANGED held

Block(u) == waiting' = waiting \cup {u} /\ UNCHANGED <<held, file>>
GiveUp(u) == waiting' = waiting \ {u} /\ UNCHANGED <<held, file>>

\* u gives up some of its record locks and file locks.
Yield(u) ==
  /\ u \notin waiting
  /\ held' \subseteq held /\ held \ held' \subseteq Of(u)
  /\ \E F \in SUBSET {f \in File : file[f] = u} :
       file' = [f \in File |-> IF f \in F THEN None ELSE file[f]]
  /\ UNCHANGED waiting

ServiceNext ==
  \E u \in User :
    \/ \E k \in Key, t \in {"S", "U"} : Grant(u, k, t)
    \/ \E f \in File : GrantFile(u, f)
    \/ Block(u)
    \/ GiveUp(u)
    \/ Yield(u)

ServiceSpec == ServiceInit /\ [][ServiceNext]_service

\* Two locks on one record never conflict, and the user that has a file's
\* lock is the only one with record locks in that file.
ServiceExclusion ==
  /\ \A l, m \in held : l # m => Compatible(l, m)
  /\ \A l \in held : file[l.key[1]] \in {l.user, None}
=============================================================================
