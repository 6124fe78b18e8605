----------------------------- MODULE Redemption -----------------------------
(***************************************************************************)
(* Redemption codes (redemption.js).  A redemption is one transaction that *)
(* locks the code, then the customer, and gives a plan or something extra  *)
(* for a plan the customer has.  A plan sold once per customer turns a     *)
(* second redemption into a collision, which may destroy the code.         *)
(* Purchases of plans (billing-api.js) lock the customer only; changes by  *)
(* administrators write from a row they read without any lock.             *)
(***************************************************************************)
EXTENDS Integers, FiniteSets

CONSTANTS User, Plan, Voucher, Req, None,
          MaxLimit      \* the uses a code may allow are bounded by this

VARIABLES plans,    \* purchase_mode and destroy_collision_code of each plan
          code,     \* redemption_codes
          uses,     \* redemption_uses: how often a customer used a code
          acquired, \* user_plan_acquisitions
          live,     \* the customers' subscriptions in force
          req,      \* what each request is doing
          given,    \* history: how often a plan was given to a customer
          top       \* history: the most uses a code has ever allowed

vars == <<plans, code, uses, acquired, live, req, given, top>>
data == <<plans, code, uses, acquired, live, given, top>>

Fresh == [pc |-> "idle", user |-> None, code |-> None, plan |-> None, row |-> None, first |-> FALSE, owned |-> FALSE]

TypeOK ==
  /\ plans \in [Plan -> [mode : {"once", "stack"}, destroys : BOOLEAN]]
  /\ code \in [Voucher -> [status : {"active", "disabled", "destroyed"}, used : 0..Cardinality(Req),
                        max : 1..MaxLimit, plan : Plan, extra : BOOLEAN]]
  /\ uses \in [User \X Voucher -> Nat] /\ acquired \in SUBSET (User \X Plan) /\ live \in SUBSET (User \X Plan)
  /\ \A r \in Req : req[r].pc \in {"idle", "code", "user", "buy", "row", "done"}
  /\ given \in [User \X Plan -> Nat] /\ top \in [Voucher -> 1..MaxLimit]

Init ==
  /\ plans \in [Plan -> {p \in [mode : {"once", "stack"}, destroys : BOOLEAN] : p.destroys => p.mode = "once"}]
  /\ code \in [Voucher -> [status : {"active"}, used : {0}, max : 1..MaxLimit, plan : Plan, extra : BOOLEAN]]
  /\ uses = [q \in User \X Voucher |-> 0] /\ acquired \in SUBSET (User \X Plan) /\ live = acquired
  /\ req = [r \in Req |-> Fresh]
  /\ given = [q \in User \X Plan |-> IF q \in acquired THEN 1 ELSE 0] /\ top = [c \in Voucher |-> code[c].max]

-----------------------------------------------------------------------------
Now(r, pc) == req[r].pc = pc
End(r) == req' = [req EXCEPT ![r] = [Fresh EXCEPT !.pc = "done"]]

(* FOR UPDATE on the code, and on the customer.                            *)
CodeNotLockedBug(c) == TRUE
CodeFree(c) == \A r \in Req : Now(r, "code") \/ Now(r, "user") => req[r].code # c
UserNotLockedBug(u) == TRUE
UserFree(u) == \A r \in Req : Now(r, "user") \/ Now(r, "buy") => req[r].user # u

Redeem(r, u, c) ==
  /\ Now(r, "idle") /\ CodeFree(c)
  /\ IF code[c].status = "active" /\ code[c].used < code[c].max /\ (code[c].extra => uses[<<u, c>>] = 0)
     THEN req' = [req EXCEPT ![r] = [Fresh EXCEPT !.pc = "code", !.user = u, !.code = c, !.plan = code[c].plan, !.row = code[c]]]
     ELSE End(r)
  /\ UNCHANGED data

(* Extras go to the plan in force, which was read outside the transaction. *)
Used(u, c) ==
  /\ code' = [code EXCEPT ![c].used = @ + 1]
  /\ uses' = [uses EXCEPT ![<<u, c>>] = @ + 1]

RedeemExtra(r) ==
  /\ Now(r, "code") /\ req[r].row.extra
  /\ IF \E p \in Plan : <<req[r].user, p>> \in live
     THEN Used(req[r].user, req[r].code) /\ UNCHANGED <<plans, acquired, live, given, top>>
     ELSE UNCHANGED data
  /\ End(r)

(* With the customer locked: has it acquired the plan, is it in force?     *)
LockUser(r) ==
  LET q == <<req[r].user, req[r].plan>> IN
  /\ Now(r, "code") /\ ~req[r].row.extra /\ UserFree(req[r].user)
  /\ req' = [req EXCEPT ![r].pc = "user", ![r].first = q \notin acquired, ![r].owned = q \in live]
  /\ UNCHANGED data

Once(p) == plans[p].mode = "once"
Give(q) == acquired' = acquired \cup {q} /\ live' = live \cup {q} /\ given' = [given EXCEPT ![q] = @ + 1]

(* The plan of a code is given, or the code collides: what was checked     *)
(* first decides whether a repeated use is a collision or an error.        *)
RedeemPlan(r) ==
  LET u == req[r].user  c == req[r].code  p == req[r].plan IN
  /\ Now(r, "user")
  /\ IF Once(p) /\ (~req[r].first \/ req[r].owned)
     THEN /\ code' = [code EXCEPT ![c].status = IF plans[p].destroys THEN "destroyed" ELSE @]
          /\ UNCHANGED <<plans, uses, acquired, live, given, top>>
     ELSE IF uses[<<u, c>>] > 0 THEN UNCHANGED data
     ELSE Used(u, c) /\ Give(<<u, p>>) /\ UNCHANGED <<plans, top>>
  /\ End(r)

(* A purchase of the same plan with the balance.                           *)
Buy(r, u, p) ==
  /\ Now(r, "idle") /\ UserFree(u)
  /\ req' = [req EXCEPT ![r] = [Fresh EXCEPT !.pc = "buy", !.user = u, !.plan = p,
                                  !.first = <<u, p>> \notin acquired, !.owned = <<u, p>> \in live]]
  /\ UNCHANGED data
Bought(r) ==
  /\ Now(r, "buy")
  /\ IF Once(req[r].plan) /\ (~req[r].first \/ req[r].owned) THEN UNCHANGED data
     ELSE Give(<<req[r].user, req[r].plan>>) /\ UNCHANGED <<plans, code, uses, top>>
  /\ End(r)

(* Any transaction may fail and leave nothing.                             *)
Fail(r) == req[r].pc \in {"code", "user", "buy"} /\ End(r) /\ UNCHANGED data

SubscriptionEnds(q) ==
  /\ q \in live /\ live' = live \ {q}
  /\ UNCHANGED <<plans, code, uses, acquired, req, given, top>>

-----------------------------------------------------------------------------
(* PUT and DELETE read the row, then write what the request or the row     *)
(* said unless the code has been destroyed; the UPDATE waits for the lock. *)
AdminRead(r, c) ==
  /\ Now(r, "idle") /\ code[c].status # "destroyed"
  /\ req' = [req EXCEPT ![r] = [Fresh EXCEPT !.pc = "row", !.code = c, !.row = code[c]]]
  /\ UNCHANGED data

EvenDestroyedBug(c) == TRUE
StillThere(c) == code[c].status # "destroyed"

AdminPut(r, status, max) ==
  LET c == req[r].code IN
  /\ Now(r, "row") /\ CodeFree(c)
  /\ max = req[r].row.max \/ max >= req[r].row.used
  /\ IF StillThere(c)
     THEN /\ code' = [code EXCEPT ![c].status = status, ![c].max = max]
          /\ top' = [top EXCEPT ![c] = IF max > @ THEN max ELSE @]
          /\ UNCHANGED <<plans, uses, acquired, live, given>>
     ELSE UNCHANGED data
  /\ End(r)

AdminDelete(r) ==
  LET c == req[r].code IN
  /\ Now(r, "row") /\ CodeFree(c)
  /\ IF StillThere(c) THEN code' = [code EXCEPT ![c].status = "disabled"] ELSE UNCHANGED code
  /\ End(r)
  /\ UNCHANGED <<plans, uses, acquired, live, given, top>>

Next ==
  \/ \E r \in Req :
       \/ RedeemExtra(r) \/ LockUser(r) \/ RedeemPlan(r) \/ Bought(r) \/ Fail(r) \/ AdminDelete(r)
       \/ \E u \in User : (\E c \in Voucher : Redeem(r, u, c)) \/ (\E p \in Plan : Buy(r, u, p))
       \/ \E c \in Voucher : AdminRead(r, c)
       \/ \E s \in {"active", "disabled"}, n \in 1..MaxLimit : AdminPut(r, s, n)
  \/ \E q \in User \X Plan : SubscriptionEnds(q)

Spec == Init /\ [][Next]_vars

-----------------------------------------------------------------------------
(* A customer uses a code at most once, all uses are counted, and there    *)
(* are never more than the code has allowed at some time, however many     *)
(* redeem at once and whatever limits are written from an old row.         *)
UsesSound ==
  \A c \in Voucher :
    /\ \A u \in User : uses[<<u, c>>] <= 1
    /\ code[c].used = Cardinality({u \in User : uses[<<u, c>>] > 0})
    /\ code[c].used <= top[c]

(* A plan sold once per customer is given once, by codes and purchases     *)
(* together, after the subscription has ended too.                         *)
OnceGiven == \A u \in User, p \in Plan : Once(p) => given[<<u, p>>] <= 1

(* A destroyed code stays destroyed: an administrator's request that read  *)
(* the row before does not bring it back (doc/ACCOUNT_ADMIN.md:74).        *)
DestroyedFinal == [][\A c \in Voucher : code[c].status = "destroyed" => code'[c].status = "destroyed"]_vars
=============================================================================
