-------------------------------- MODULE Sites ---------------------------------
(***************************************************************************)
(* How a site comes to be, and ceases to be, both at the CDN and in the    *)
(* database: POST and DELETE of app.js, of admin-api.js and of the         *)
(* compatible API (tenant-proxy.js), and CdnflyClient.createSite of        *)
(* cdnfly.js, which finds out what has become of a POST that was not       *)
(* answered.  There is no transaction over the two.                        *)
(*                                                                         *)
(* Customers have one subscription each.  The group that keeps customers   *)
(* apart at the CDN (customer-groups.js) is the customer.  Turning sites   *)
(* on and off is the subject of module Quota: here it is one step.         *)
(***************************************************************************)
EXTENDS Integers, FiniteSets

CONSTANTS
  User,
  Domain,
  Call,       (* Requests that are under way at the same time.             *)
  Admin,      (* Those of them that are made by administrators.            *)
  Limit,      (* Sites that a subscription allows.                         *)
  MaxCalls,   (* Bound: creations ever begun.                              *)
  MaxFaults,  (* Bound: calls and statements that fail, crashes.           *)
  None

Row == 1..MaxCalls
Site == 1..(2 * MaxCalls)

ASSUME ConstantsAssumption ==
  /\ Admin \subseteq Call
  /\ Limit \in Nat /\ MaxCalls \in Nat \ {0} /\ MaxFaults \in Nat
  /\ None \notin User \cup Domain \cup Call \cup Site

VARIABLES
  cdn,    (* The sites there are at the CDN, and those there were.         *)
  row,    (* The table sites; the n-th creation inserts row n.             *)
  lock,   (* Who holds resource-mutation:<user>.                           *)
  call,   (* What each request is doing.                                   *)
  begun,  (* Creations so far.                                             *)
  faults

vars == <<cdn, row, lock, call, begun, faults>>

(* by is the creation that a site was made by.                             *)
NoSite == [there |-> FALSE, domain |-> None, group |-> None, by |-> 0]
NoRow == [there |-> FALSE, owner |-> None, domain |-> None, site |-> None, enabled |-> FALSE]
Idle == [pc |-> "idle", op |-> None, user |-> None, domain |-> None, row |-> 0,
         site |-> None, reads |-> 0, good |-> 0, tries |-> 0, late |-> FALSE]

Op == {"create", "compat", "delete", "compat_delete"}

Init ==
  /\ cdn = [s \in Site |-> NoSite]
  /\ row = [r \in Row |-> NoRow]
  /\ lock = [u \in User |-> None]
  /\ call = [c \in Call |-> Idle]
  /\ begun = 0 /\ faults = 0

-----------------------------------------------------------------------------
At(c, pc) == call[c].pc = pc
To(c, pc) == call' = [call EXCEPT ![c].pc = pc]
Fault == faults < MaxFaults /\ faults' = faults + 1

KeptLockBug(c) == call' = [call EXCEPT ![c] = Idle] /\ UNCHANGED lock

End(c) ==
  /\ call' = [call EXCEPT ![c] = Idle]
  /\ lock' = [u \in User |-> IF lock[u] = c THEN None ELSE lock[u]]

Owned(u) == {r \in Row : row[r].there /\ row[r].owner = u}

(* assertProjected, and the SELECT for a row with the domain.              *)
Accepted(u, d) ==
  /\ Cardinality(Owned(u)) < Limit
  /\ \A r \in Row : row[r].there => row[r].domain # d

UnlockedBug(c, u, locked) == UNCHANGED lock

(* withResourceMutation, where the handler is under it: POST of            *)
(* admin-api.js and DELETE of app.js are not.                              *)
Enter(c, u, locked) ==
  IF locked THEN lock[u] = None /\ lock' = [lock EXCEPT ![u] = c]
  ELSE UNCHANGED lock

(* A creation passes its checks.  app.js and admin-api.js then insert a    *)
(* row, the compatible API makes the site first.                           *)
Create(c, op, u, d) ==
  /\ At(c, "idle") /\ begun < MaxCalls
  /\ op = "compat" => c \notin Admin
  /\ Enter(c, u, c \notin Admin)
  /\ Accepted(u, d)
  /\ begun' = begun + 1
  /\ call' = [call EXCEPT ![c] = [Idle EXCEPT !.pc = IF op = "create" THEN "insert" ELSE "post",
                                    !.op = op, !.user = u, !.domain = d, !.row = begun + 1]]
  /\ UNCHANGED <<cdn, row, faults>>

NewRow(c, site) ==
  row' = [row EXCEPT ![call[c].row] = [there |-> TRUE, owner |-> call[c].user,
            domain |-> call[c].domain, site |-> site, enabled |-> TRUE]]

(* INSERT of the row, provisioning.                                        *)
Insert(c) ==
  /\ At(c, "insert")
  /\ NewRow(c, None)
  /\ To(c, "post")
  /\ UNCHANGED <<cdn, lock, begun, faults>>

-----------------------------------------------------------------------------
(* POST /v1/sites.                                                         *)
Unused == {s \in Site : cdn[s].by = 0}
First(S) == CHOOSE s \in S : \A t \in S : s <= t

Made(c) ==
  cdn' = [cdn EXCEPT ![First(Unused)] = [there |-> TRUE, domain |-> call[c].domain,
                                         group |-> call[c].user, by |-> call[c].row]]

(* It is answered with the site's identifier.                              *)
Posted(c) ==
  /\ At(c, "post")
  /\ Made(c)
  /\ call' = [call EXCEPT ![c].pc = "register", ![c].site = First(Unused)]
  /\ UNCHANGED <<row, lock, begun, faults>>

Recovering(c, late) ==
  [call[c] EXCEPT !.pc = "recover", !.reads = 0, !.good = 0, !.late = late]

(* An error that is not ambiguous: the first POST's is final, a retry's is *)
(* looked into all the same.  The compatible API just fails.               *)
Refused(c) ==
  /\ At(c, "post")
  /\ IF call[c].op = "compat" THEN End(c)
     ELSE /\ call' = [call EXCEPT ![c] = IF call[c].tries = 0
                                         THEN [@ EXCEPT !.pc = "undo"] ELSE Recovering(c, FALSE)]
          /\ UNCHANGED lock
  /\ UNCHANGED <<cdn, row, begun, faults>>

(* No answer: the POST is lost, or it has been carried out, or it is late. *)
(* The compatible API looks into nothing.                                  *)
Unanswered(c) ==
  /\ At(c, "post") /\ Fault
  /\ \E made, late \in BOOLEAN :
       /\ IF made THEN ~late /\ Made(c) ELSE UNCHANGED cdn
       /\ IF call[c].op = "compat" THEN ~late /\ End(c)
          ELSE call' = [call EXCEPT ![c] = Recovering(c, late)] /\ UNCHANGED lock
  /\ UNCHANGED <<row, begun>>

(* A late POST is carried out; not after the third read, though, whatever  *)
(* the CDN does: the code relies on it.                                    *)
Arrives(c) ==
  /\ call[c].late /\ call[c].reads < 3
  /\ Made(c)
  /\ call' = [call EXCEPT ![c].late = FALSE]
  /\ UNCHANGED <<row, lock, begun, faults>>

AnyGroupBug(c) == {s \in Site : cdn[s].there /\ cdn[s].domain = call[c].domain}

(* recoverCreatedSite reads the sites at most three times, and takes one   *)
(* with the same domains and the customer's group for the one it made.     *)
Match(c) ==
  {s \in Site : cdn[s].there /\ cdn[s].domain = call[c].domain /\ cdn[s].group = call[c].user}

UncountedBug(c) ==
  /\ At(c, "recover") /\ call[c].reads < 3
  /\ IF Match(c) # {}
     THEN \E s \in Match(c) : call' = [call EXCEPT ![c].pc = "register", ![c].site = s]
     ELSE UNCHANGED call
  /\ UNCHANGED <<cdn, row, lock, begun, faults>>

Read(c) ==
  /\ At(c, "recover") /\ call[c].reads < 3
  /\ IF Match(c) # {}
     THEN \E s \in Match(c) : call' = [call EXCEPT ![c].pc = "register", ![c].site = s]
     ELSE call' = [call EXCEPT ![c].reads = @ + 1, ![c].good = @ + 1]
  /\ UNCHANGED <<cdn, row, lock, begun, faults>>

(* The list cannot be read, or it is not known to be complete.             *)
ReadFails(c) ==
  /\ At(c, "recover") /\ call[c].reads < 3 /\ Fault
  /\ call' = [call EXCEPT ![c].reads = @ + 1]
  /\ UNCHANGED <<cdn, row, lock, begun>>

OneReadBug(c) == call[c].good >= 1

(* confirmedMissing.                                                       *)
ConfirmedMissing(c) == call[c].good = 3

(* After three reads, a second in all.  If the site is missing for certain *)
(* the POST is made again, once; otherwise the creation fails.             *)
Decide(c) ==
  /\ At(c, "recover") /\ call[c].reads = 3
  /\ IF call[c].tries = 0 /\ ConfirmedMissing(c)
     THEN call' = [call EXCEPT ![c].pc = "post", ![c].tries = 1, ![c].late = FALSE]
     ELSE call' = [call EXCEPT ![c].pc = "undo", ![c].late = FALSE]
  /\ UNCHANGED <<cdn, row, lock, begun, faults>>

-----------------------------------------------------------------------------
(* UPDATE of the row with the identifier, or, in the compatible API, the   *)
(* INSERT.  The index on the identifier refuses one that another row has.  *)
Taken(site) == \E r \in Row : row[r].there /\ row[r].site = site

UnlinkedBug(c) ==
  /\ At(c, "register")
  /\ To(c, IF Taken(call[c].site) THEN "undo" ELSE "answer")
  /\ UNCHANGED <<cdn, row, lock, begun, faults>>

Register(c) ==
  /\ At(c, "register")
  /\ IF Taken(call[c].site)
     THEN UNCHANGED row /\ To(c, "undo")
     ELSE /\ IF call[c].op = "compat" THEN NewRow(c, call[c].site)
             ELSE row' = [row EXCEPT ![call[c].row].site = call[c].site]
          /\ To(c, "answer")
  /\ UNCHANGED <<cdn, lock, begun, faults>>

Succeed(c) ==
  /\ At(c, "answer")
  /\ End(c)
  /\ UNCHANGED <<cdn, row, begun, faults>>

RowKeptBug(c) ==
  /\ At(c, "undo")
  /\ End(c)
  /\ UNCHANGED <<cdn, row, begun, faults>>

(* The catch: DELETE of the row, and of nothing at the CDN.                *)
Undo(c) ==
  /\ At(c, "undo")
  /\ row' = IF call[c].op = "compat" THEN row ELSE [row EXCEPT ![call[c].row] = NoRow]
  /\ End(c)
  /\ UNCHANGED <<cdn, begun, faults>>

(* A statement fails.  What follows the registration (ports, CNAMEs, audit)*)
(* also leads to the catch, where there is one.                            *)
StatementFails(c) ==
  /\ call[c].pc \in {"insert", "register", "answer", "undo", "del_row"} /\ Fault
  /\ IF call[c].op = "create" /\ call[c].pc \in {"register", "answer"}
     THEN To(c, "undo") /\ UNCHANGED lock
     ELSE End(c)
  /\ UNCHANGED <<cdn, row, begun>>

(* The process ends.                                                       *)
Crash(c) ==
  /\ ~At(c, "idle") /\ Fault
  /\ End(c)
  /\ \/ UNCHANGED cdn
     \/ At(c, "post") /\ Made(c)
  /\ UNCHANGED <<row, begun>>

-----------------------------------------------------------------------------
(* PUT enabled, here in one step.                                          *)
Toggle(r) ==
  /\ row[r].there /\ row[r].site # None /\ lock[row[r].owner] = None
  /\ row' = [row EXCEPT ![r].enabled = ~@]
  /\ UNCHANGED <<cdn, lock, call, begun, faults>>

(* DELETE: app.js and admin-api.js want the site turned off, the           *)
(* compatible API does not.  The call of enforceUser that follows is the   *)
(* subject of module Quota.                                                *)
Delete(c, op, r) ==
  /\ At(c, "idle")
  /\ row[r].there /\ row[r].site # None
  /\ IF op = "delete" THEN ~row[r].enabled ELSE c \notin Admin
  /\ Enter(c, row[r].owner, op = "compat_delete" \/ c \in Admin)
  /\ call' = [call EXCEPT ![c] = [Idle EXCEPT !.pc = "del_cdn", !.op = op, !.user = row[r].owner,
                                    !.row = r, !.site = row[r].site]]
  /\ UNCHANGED <<cdn, row, begun, faults>>

RowFirstBug(c) ==
  /\ At(c, "del_cdn")
  /\ To(c, "del_row") /\ UNCHANGED lock
  /\ UNCHANGED <<cdn, row, begun, faults>>

(* The CDN refuses to delete a site that is not there.                     *)
DeleteAtCdn(c) ==
  LET s == call[c].site
  IN /\ At(c, "del_cdn")
     /\ IF cdn[s].there
        THEN cdn' = [cdn EXCEPT ![s].there = FALSE] /\ To(c, "del_row") /\ UNCHANGED lock
        ELSE End(c) /\ UNCHANGED cdn
     /\ UNCHANGED <<row, begun, faults>>

DeleteUnanswered(c) ==
  /\ At(c, "del_cdn") /\ Fault
  /\ \E done \in BOOLEAN :
       cdn' = IF done THEN [cdn EXCEPT ![call[c].site].there = FALSE] ELSE cdn
  /\ End(c)
  /\ UNCHANGED <<row, begun>>

DeleteRow(c) ==
  /\ At(c, "del_row")
  /\ row' = [row EXCEPT ![call[c].row] = NoRow]
  /\ End(c)
  /\ UNCHANGED <<cdn, begun, faults>>

-----------------------------------------------------------------------------
GoOn(c) ==
  \/ Insert(c) \/ Posted(c) \/ Refused(c) \/ Read(c) \/ Decide(c)
  \/ Register(c) \/ Succeed(c) \/ Undo(c)
  \/ DeleteAtCdn(c) \/ DeleteRow(c)

Next ==
  \/ \E c \in Call :
       \/ GoOn(c)
       \/ \E op \in {"create", "compat"}, u \in User, d \in Domain : Create(c, op, u, d)
       \/ \E op \in {"delete", "compat_delete"}, r \in Row : Delete(c, op, r)
       \/ Unanswered(c) \/ Arrives(c) \/ ReadFails(c) \/ DeleteUnanswered(c)
       \/ StatementFails(c) \/ Crash(c)
  \/ \E r \in Row : Toggle(r)

Spec == Init /\ [][Next]_vars

(* Calls of the CDN time out, statements end.                              *)
FairSpec == Spec /\ \A c \in Call : WF_vars(GoOn(c))

-----------------------------------------------------------------------------
TypeOK ==
  /\ \A s \in Site : cdn[s].there => cdn[s].group \in User /\ cdn[s].by \in 1..begun
  /\ \A r \in Row : row[r].there => /\ row[r].owner \in User /\ row[r].domain \in Domain
                                   /\ row[r].site \in Site \cup {None} /\ r <= begun
  /\ \A u \in User : lock[u] # None => call[lock[u]].pc # "idle" /\ call[lock[u]].user = u
  /\ \A c \in Call : call[c].op \in Op \cup {None} /\ call[c].reads \in 0..3 /\ call[c].tries \in 0..1
  /\ begun \in 0..MaxCalls /\ faults \in 0..MaxFaults

(* A customer's row never stands for a site that was made for another      *)
(* customer, even when both create the same domain at the same time and    *)
(* their creations have to be looked into                                  *)
(* (cdnfly.js:301-309, test/cdnfly.test.js:121).                           *)
OwnerSound ==
  \A r \in Row : row[r].there /\ row[r].site # None => cdn[row[r].site].group = row[r].owner

(* A creation makes one site at the most, though its POST may be made      *)
(* twice (doc/UPSTREAM_CREATION.md:8).                                     *)
CreatesOnce ==
  \A s, t \in Site : cdn[s].by # 0 /\ cdn[s].by = cdn[t].by => s = t

(* Requests of the customer never take the subscription over its limit     *)
(* (README.md:109: the use of resources is changed under the user's lock). *)
WithinLimit == \A u \in User : Cardinality(Owned(u)) <= Limit

(* A creation that is reported as a success has a row and a site.          *)
SuccessMeansSite ==
  [][\A c \in Call : At(c, "answer") /\ call'[c].pc = "idle" /\ faults' = faults =>
       \E r \in Row : /\ r = call[c].row /\ row[r].there /\ row[r].site # None
                      /\ cdn[row[r].site].there /\ cdn[row[r].site].domain = call[c].domain]_vars

(* Creations that have left a site at the CDN without a row, or a row      *)
(* without a site at the CDN.                                              *)
Leftovers ==
  {cdn[s].by : s \in {s \in Site : cdn[s].there /\ ~Taken(s)}}
    \cup {r \in Row : row[r].there /\ (row[r].site # None => ~cdn[row[r].site].there)}

(* When no request is under way the CDN and the table agree, but for one   *)
(* creation at the most for every call, statement or process that has      *)
(* failed (app.js:739 and 753: the row is the customer's claim on the site *)
(* before the site is made, and goes away when the creation fails).        *)
LeftoversFew ==
  (\A c \in Call : At(c, "idle")) => Cardinality(Leftovers) <= faults

(* Every request ends, and the customer's lock is free again.              *)
RequestsEnd == \A c \in Call : []<>At(c, "idle")

(* What a creation may make: one site, and no site over the limit.         *)
CreatesSound == TypeOK /\ CreatesOnce /\ WithinLimit
(* Every request gets its answer, and a success means a site.              *)
RequestsAnswered == RequestsEnd /\ SuccessMeansSite
=============================================================================
