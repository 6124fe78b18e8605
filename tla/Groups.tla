------------------------------- MODULE Groups -------------------------------
(***************************************************************************)
(* The hidden group of a customer at the CDN (customer-groups.js).  Every  *)
(* write of a stream needs it, whoever comes first makes it: under an      *)
(* advisory lock, while the others poll, by name, because the POST may be  *)
(* carried out without an answer.  One customer, account and kind; groups  *)
(* made under another namespace are called "old".  What GET returns comes  *)
(* from the cache (module Cache): the latest list, or an earlier one that  *)
(* no answered write has invalidated.                                      *)
(***************************************************************************)
EXTENDS Integers, FiniteSets

CONSTANTS Gid, Req, None,
          MaxLost  \* requests to the CDN that are not answered

VARIABLES groups,   \* the CDN: the name of each group
          glist,    \* the list of groups in the cache
          mapping,  \* upstream_customer_groups
          past,     \* upstream_customer_group_history
          holder,   \* who holds the lock customer-group
          ens,      \* what each call of ensureCustomerUpstreamGroup is doing
          lost      \* history: requests that were not answered

table == <<mapping, past>>
gvars == <<groups, glist, mapping, past, holder, ens>>

ASSUME GroupsAssumption ==
  /\ IsFiniteSet(Gid) /\ MaxLost \in Nat
  /\ None \notin Gid /\ None \notin Req /\ None \notin {"old", "new"} /\ None \notin [Gid -> {"old", "new", None}]

NoGroup == [id |-> None, name |-> None]

GroupsTypeOK ==
  /\ groups \in [Gid -> {"old", "new", None}] /\ glist \in {None} \cup [Gid -> {"old", "new", None}]
  /\ mapping \in [id : Gid \cup {None}, name : {"old", "new", None}]
  /\ past \in [Gid -> {"never", "superseded", "cleaned"}] /\ holder \in Req \cup {None}
  /\ ens \in [Req -> [pc : {"idle", "try", "wait", "find", "post", "again", "save", "set", "done", "failed"}, got : Gid \cup {None}]]
  /\ lost \in 0..MaxLost

(* A customer who is new, or known under an old name.                      *)
GroupsInit ==
  /\ groups \in {[g \in Gid |-> None]} \cup {[g \in Gid |-> IF g = h THEN "old" ELSE None] : h \in Gid}
  /\ mapping = IF \E g \in Gid : groups[g] = "old" THEN [id |-> CHOOSE g \in Gid : groups[g] = "old", name |-> "old"] ELSE NoGroup
  /\ glist = None /\ past = [g \in Gid |-> "never"] /\ holder = None
  /\ ens = [r \in Req |-> [pc |-> "idle", got |-> None]] /\ lost = 0

-----------------------------------------------------------------------------
At(r, pc) == ens[r].pc = pc
Go(r, pc) == ens' = [ens EXCEPT ![r].pc = pc]
Got(r, pc, g) == ens' = [ens EXCEPT ![r] = [pc |-> pc, got |-> g]]

(* Plausible faults of the code.                                           *)
NoLock == TRUE
StillCached(list) == list

(* GET through the cache, and a write that was answered.                   *)
Cached(list, now) == {now} \cup ({list} \ {None})
Invalidated(list) == None

Mapped == mapping.name = "new"
Ensure(r) ==
  /\ At(r, "idle")
  /\ IF Mapped THEN Got(r, "done", mapping.id) ELSE Go(r, "try")
  /\ UNCHANGED <<groups, glist, table, holder, lost>>

(* The table is read again with the lock held.                             *)
LockFree == holder = None
Try(r) ==
  /\ At(r, "try")
  /\ IF ~LockFree THEN Go(r, "wait") /\ UNCHANGED holder
     ELSE IF Mapped THEN Got(r, "done", mapping.id) /\ UNCHANGED holder
     ELSE Go(r, "find") /\ holder' = r
  /\ UNCHANGED <<groups, glist, table, lost>>

(* Ten polls, then 409.                                                    *)
Poll(r) == At(r, "wait") /\ Mapped /\ Got(r, "done", mapping.id) /\ UNCHANGED <<groups, glist, table, holder, lost>>
GiveUp(r) == At(r, "wait") /\ Go(r, "failed") /\ UNCHANGED <<groups, glist, table, holder, lost>>

Released(r) == holder' = IF holder = r THEN None ELSE holder
Fails(r) == Go(r, "failed") /\ Released(r)

(* findNamedGroup, before the POST and after a POST that failed.           *)
Find(r) ==
  /\ At(r, "find") \/ At(r, "again")
  /\ \E l \in Cached(glist, groups) :
       /\ glist' = l
       /\ \/ \E g \in Gid : l[g] = "new" /\ Got(r, "save", g) /\ UNCHANGED holder
          \/ /\ \A g \in Gid : l[g] # "new"
             /\ IF At(r, "find") THEN Go(r, "post") /\ UNCHANGED holder ELSE Fails(r)
  /\ UNCHANGED <<groups, table, lost>>

Post(r) ==
  /\ At(r, "post")
  /\ \/ \E g \in Gid :
          /\ groups[g] = None /\ past[g] = "never" /\ groups' = [groups EXCEPT ![g] = "new"]
          /\ \/ Got(r, "save", g) /\ glist' = Invalidated(glist) /\ UNCHANGED lost
             \/ lost < MaxLost /\ lost' = lost + 1 /\ Go(r, "again") /\ UNCHANGED glist
     \/ lost < MaxLost /\ lost' = lost + 1 /\ Go(r, "again") /\ UNCHANGED <<groups, glist>>
  /\ UNCHANGED <<table, holder>>

(* saveMapping: what is replaced is remembered first.                      *)
Superseded(g) == IF mapping.id = None \/ mapping = [id |-> g, name |-> "new"] THEN past
                 ELSE [past EXCEPT ![mapping.id] = IF @ = "never" THEN "superseded" ELSE @]
Remember(r) ==
  /\ At(r, "save") /\ past' = Superseded(ens[r].got) /\ Go(r, "set")
  /\ UNCHANGED <<groups, glist, mapping, holder, lost>>
SetMapping(r) ==
  /\ At(r, "set") /\ mapping' = [id |-> ens[r].got, name |-> "new"] /\ Go(r, "done") /\ Released(r)
  /\ UNCHANGED <<groups, glist, past, lost>>

(* A list that is not returned, a statement or a process that fails.       *)
EnsureFails(r) == ens[r].pc \in {"find", "again", "save", "set"} /\ Fails(r) /\ UNCHANGED <<groups, glist, table, lost>>

EnsureStep(r) ==
  Ensure(r) \/ Try(r) \/ Poll(r) \/ GiveUp(r) \/ Find(r) \/ Post(r) \/ Remember(r) \/ SetMapping(r) \/ EnsureFails(r)

-----------------------------------------------------------------------------
Named == {g \in Gid : groups[g] = "new"}

(* However many need the group at once, there is one, and one more for     *)
(* each POST that was not answered.                                        *)
GroupsFew == Cardinality(Named) <= 1 + lost

(* The group that is written into streams is one the CDN has.              *)
MappedExists == \A r \in Req : At(r, "done") => groups[ens[r].got] = "new"

(* README.md:32: one hidden group for a customer and an account.  The list *)
(* that is read again after a POST without an answer comes from the cache, *)
(* which that POST has not invalidated.                                    *)
OneGroup == Cardinality(Named) <= 1
=============================================================================
