------------------------------- MODULE Mutex -------------------------------
(***************************************************************************)
(* What a keyed mutual-exclusion service promises its callers: at any      *)
(* moment each key has at most one owner, an owner enters only a free key  *)
(* and leaves the key free.  It is the abstract specification that the     *)
(* advisory locks of src/src/db.js and src/src/resource-mutation.js        *)
(* implement (module AdvisoryLock).                                        *)
(***************************************************************************)
CONSTANTS
  Key,      (* The names a caller may lock.                                *)
  Call,     (* The calls that may own a name.                              *)
  None      (* Not a call: the name is free.                               *)

VARIABLE
  owner     (* owner[k] is the call whose callback runs under k.           *)

Init == owner = [k \in Key |-> None]

Enter(c, k) ==
  /\ owner[k] = None
  /\ owner' = [owner EXCEPT ![k] = c]

Leave(c, k) ==
  /\ owner[k] = c
  /\ owner' = [owner EXCEPT ![k] = None]

(* A process dies: every name its calls owned is free again.               *)
Drop(C) ==
  owner' = [k \in Key |-> IF owner[k] \in C THEN None ELSE owner[k]]

Next ==
  \/ \E c \in Call, k \in Key : Enter(c, k) \/ Leave(c, k)
  \/ \E C \in SUBSET Call : Drop(C)

Spec == Init /\ [][Next]_owner
=============================================================================
