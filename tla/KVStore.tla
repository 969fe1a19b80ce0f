------------------------------ MODULE KVStore -------------------------------
(***************************************************************************)
(* What a hashed file promises to the programs that share it: a store in   *)
(* which every read, write and delete takes effect at one moment between   *)
(* its call and its return, whatever the file does to its groups.          *)
(***************************************************************************)
CONSTANTS Proc, Id, Val, None

VARIABLES
  store,   \* the value of each record, None if there is none
  call,    \* the operation of each process, None if it is in none
  reply    \* what it will return, "wait" before it has taken effect

Request == [kind : {"read", "delete"}, id : Id, val : {None}]
             \cup [kind : {"write"}, id : Id, val : Val]

StoreInit == /\ store = [i \in Id |-> None]
             /\ call = [p \in Proc |-> None]
             /\ reply = [p \in Proc |-> "wait"]

Call(p, r) == /\ call[p] = None
              /\ call' = [call EXCEPT ![p] = r]
              /\ UNCHANGED <<store, reply>>

TakeEffect(p) ==
  /\ call[p] # None /\ reply[p] = "wait"
  /\ store' = CASE call[p].kind = "read"   -> store
                [] call[p].kind = "write"  -> [store EXCEPT ![call[p].id] = call[p].val]
                [] call[p].kind = "delete" -> [store EXCEPT ![call[p].id] = None]
  /\ reply' = [reply EXCEPT ![p] = store[call[p].id]]
  /\ UNCHANGED call

Return(p) == /\ call[p] # None /\ reply[p] # "wait"
             /\ call' = [call EXCEPT ![p] = None]
             /\ reply' = [reply EXCEPT ![p] = "wait"]
             /\ UNCHANGED store

StoreNext == \E p \in Proc : \/ \E r \in Request : Call(p, r)
                             \/ TakeEffect(p)
                             \/ Return(p)

StoreSpec == StoreInit /\ [][StoreNext]_<<store, call, reply>>
=============================================================================
