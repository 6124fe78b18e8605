--------------------------- MODULE Subscriptions ----------------------------
(***************************************************************************)
(* The life of a customer's subscriptions (src/src/billing.js,             *)
(* src/src/billing-api.js): purchase, stacking, renewal, plan change,      *)
(* refund, cancellation and administration, which are transactions or      *)
(* single statements, interleaved with what is neither: passes of the      *)
(* billing scheduler, which work from the rows they scanned, and calls of  *)
(* enforceUser, which decide and write in separate statements.             *)
(*                                                                         *)
(* Time is counted in days.  Whether a wallet covers a price is left open  *)
(* (module WalletTx is about the money); so is whether a customer is over  *)
(* quota.  A handler ends by calling enforceUser, and so does every change *)
(* of a resource: a Call may start at any time.                            *)
(***************************************************************************)
EXTENDS Integers, Sequences, FiniteSets

CONSTANTS
  Sub,        (* Subscription ids of one customer.                         *)
  Plan,       (* Plans.                                                    *)
  Days,       (* duration_days of each plan.                               *)
  Once,       (* Plans with purchase_mode once.                            *)
  Renewable,  (* Plans whose renewal_mode is not off.                      *)
  GraceDays,  (* renewalGraceDays.                                         *)
  Pass,       (* Passes of processLifecycle: the scheduler's, and the one  *)
              (* another process makes when it starts, without a lock.     *)
  Call,       (* Concurrent calls of enforceUser.                          *)
  MaxTime,    (* Bound: the last day.                                      *)
  MaxOrders,  (* Bound: orders made.                                       *)
  MaxGifts,   (* Bound: plans assigned by administrators.                  *)
  MaxEdits,   (* Bound: subscriptions edited by administrators.            *)
  Nothing

ASSUME SubAssumption ==
  /\ Days \in [Plan -> Nat \ {0}]
  /\ Once \subseteq Plan /\ Renewable \subseteq Plan
  /\ GraceDays \in Nat /\ MaxTime \in Nat
  /\ Nothing \notin Int \cup Sub

VARIABLES
  now,        (* The clock.                                                *)
  sub,        (* subscriptions: a row, or Nothing.                            *)
  orders,     (* orders, oldest first.                                     *)
  acquired,   (* user_plan_acquisitions: plans the customer has had.       *)
  gifts,      (* Plans assigned by an administrator, oldest first.         *)
  pass,       (* What each pass has scanned and not handled.               *)
  call,       (* What each call of enforceUser has left to do.             *)
  edit,       (* The row an administrator's edit has read.                 *)
  edits       (* Edits so far.                                             *)

subVars == <<now, sub, orders, acquired, gifts, pass, call, edit, edits>>

Alive == {"active", "suspended"}

Row == [status : Alive \cup {"expired", "cancelled"}, plan : Plan, start : Nat,
        ends : Int, grace : Int \cup {Nothing}, auto : BOOLEAN]

ASSUME NoRowAssumption == Nothing \notin Row

OrderRecord == [type : {"plan", "renewal", "change"}, sub : Sub, plan : Plan, auto : BOOLEAN,
             at : Nat, prev : Int, ends : Int, status : {"paid", "refunded"}]

Scanned == [sub : Sub, row : Row]

SubTypeOK ==
  /\ now \in 0..MaxTime
  /\ sub \in [Sub -> Row \cup {Nothing}]
  /\ orders \in Seq(OrderRecord)
  /\ acquired \subseteq Plan
  /\ gifts \in Seq(Plan)
  /\ pass \in [Pass -> [at : Nat, rows : SUBSET Scanned, due : SUBSET Scanned]]
  /\ call \in [Call -> [todo : SUBSET Sub, cur : Sub \cup {Nothing}, verdict : Alive]]
  /\ edit = Nothing \/ edit \in Scanned
  /\ edits \in Nat

Idle == [at |-> 0, rows |-> {}, due |-> {}]

Quiet == [todo |-> {}, cur |-> Nothing, verdict |-> "active"]

SubInit ==
  /\ now = 0
  /\ sub = [s \in Sub |-> Nothing]
  /\ orders = << >>
  /\ acquired = {}
  /\ gifts = << >>
  /\ pass = [p \in Pass |-> Idle]
  /\ call = [c \in Call |-> Quiet]
  /\ edit = Nothing
  /\ edits = 0

Tick ==
  /\ now < MaxTime
  /\ now' = now + 1
  /\ UNCHANGED <<sub, orders, acquired, gifts, pass, call, edit, edits>>

-----------------------------------------------------------------------------
Later(a, b) == IF a > b THEN a ELSE b

Exists(s) == sub[s] # Nothing

Is(s, S) == Exists(s) /\ sub[s].status \in S

InGrace(r) == r.grace # Nothing /\ r.grace > now

(* livePlanSubscription: the subscription another purchase of p extends.   *)
Owned(p) ==
  {s \in Sub : Is(s, Alive) /\ sub[s].plan = p /\ (sub[s].ends > now \/ InGrace(sub[s]))}

Extended(p) ==
  {s \in Owned(p) : \A o \in Owned(p) : sub[o].ends <= sub[s].ends}

OwnedLiveBug(p) == p \in Once => Owned(p) = {}

(* A plan sold once is refused to whoever has ever had it.                 *)
MayAcquire(p) == p \in Once => p \notin acquired

Order(type, s, auto, ends) ==
  [type |-> type, sub |-> s, plan |-> sub[s].plan, auto |-> auto, at |-> now,
   prev |-> sub[s].ends, ends |-> ends, status |-> "paid"]

(* The end a renewal or a stacked purchase gives.                          *)
RenewedEnds(s) == Later(sub[s].ends, now) + Days[sub[s].plan]

GraceKeptBug(s) == [sub EXCEPT ![s].status = "active", ![s].ends = RenewedEnds(s)]

Renewed(s) == [sub EXCEPT ![s].status = "active", ![s].ends = RenewedEnds(s),
                          ![s].grace = Nothing]

NewRow(p) == [status |-> "active", plan |-> p, start |-> now, ends |-> now + Days[p],
              grace |-> Nothing, auto |-> FALSE]

(* purchaseWithBalance, no live subscription of the plan: a new one.       *)
Buy(p, s) ==
  /\ Len(orders) < MaxOrders
  /\ MayAcquire(p) /\ Owned(p) = {} /\ ~Exists(s)
  /\ sub' = [sub EXCEPT ![s] = NewRow(p)]
  /\ orders' = Append(orders, [type |-> "plan", sub |-> s, plan |-> p, auto |-> FALSE,
                               at |-> now, prev |-> now, ends |-> now + Days[p],
                               status |-> "paid"])
  /\ acquired' = acquired \cup {p}
  /\ UNCHANGED <<now, gifts, pass, call, edit, edits>>

(* purchaseWithBalance, a live subscription of the plan: it is extended.   *)
Stack(p, s) ==
  /\ Len(orders) < MaxOrders
  /\ MayAcquire(p) /\ p \notin Once /\ p \in Renewable
  /\ s \in Extended(p)
  /\ sub' = Renewed(s)
  /\ orders' = Append(orders, Order("renewal", s, FALSE, RenewedEnds(s)))
  /\ acquired' = acquired \cup {p}
  /\ UNCHANGED <<now, gifts, pass, call, edit, edits>>

(* assignPlan, with the plan's own duration.                               *)
Assign(p, s) ==
  /\ Len(gifts) < MaxGifts
  /\ MayAcquire(p)
  /\ \/ Owned(p) = {} /\ ~Exists(s) /\ sub' = [sub EXCEPT ![s] = NewRow(p)]
     \/ p \notin Once /\ p \in Renewable /\ s \in Extended(p) /\ sub' = Renewed(s)
  /\ acquired' = acquired \cup {p}
  /\ gifts' = Append(gifts, p)
  /\ UNCHANGED <<now, orders, pass, call, edit, edits>>

(* renewSubscription, asked for by the customer.                           *)
Renew(s) ==
  /\ Len(orders) < MaxOrders
  /\ Is(s, Alive \cup {"expired"}) /\ sub[s].plan \in Renewable
  /\ sub' = Renewed(s)
  /\ orders' = Append(orders, Order("renewal", s, FALSE, RenewedEnds(s)))
  /\ UNCHANGED <<now, acquired, gifts, pass, call, edit, edits>>

(* The idempotency key of a plan change.                                   *)
ChangeKeyTaken(s, p) ==
  \E i \in DOMAIN orders : /\ orders[i].type = "change" /\ orders[i].sub = s
                           /\ orders[i].plan = p /\ orders[i].prev = sub[s].ends

(* changeSubscriptionPlan: the end stays, a grace period is over.          *)
ChangePlan(s, p) ==
  /\ Len(orders) < MaxOrders
  /\ Is(s, Alive) /\ sub[s].plan # p /\ sub[s].ends > now
  /\ MayAcquire(p) /\ ~ChangeKeyTaken(s, p)
  /\ sub' = [sub EXCEPT ![s].plan = p, ![s].grace = Nothing]
  /\ orders' = Append(orders, [Order("change", s, FALSE, sub[s].ends) EXCEPT !.plan = p])
  /\ acquired' = acquired \cup {p}
  /\ UNCHANGED <<now, gifts, pass, call, edit, edits>>

(* The customer turns automatic renewal on or off.                         *)
SetAuto(s, b) ==
  /\ Exists(s)
  /\ b => sub[s].plan \in Renewable
  /\ sub' = [sub EXCEPT ![s].auto = b]
  /\ UNCHANGED <<now, orders, acquired, gifts, pass, call, edit, edits>>

(* The customer or an administrator cancels a subscription without sites.  *)
Cancel(s) ==
  /\ Exists(s)
  /\ sub' = [sub EXCEPT ![s].status = "cancelled"]
  /\ UNCHANGED <<now, orders, acquired, gifts, pass, call, edit, edits>>

-----------------------------------------------------------------------------
RollbackToSnapshotBug(i) == orders[i].prev

RollbackTwiceBug(i) == sub[orders[i].sub].ends - 2 * Days[orders[i].plan]

(* The end a renewal's refund leaves: the end before it, when nothing came *)
(* after it, and otherwise its duration less.                              *)
RolledBack(i) ==
  LET o == orders[i] IN
  IF sub[o.sub].ends = o.ends THEN o.prev ELSE sub[o.sub].ends - Days[o.plan]

(* refundOrder: a plan's order cancels the subscription, a renewal's order *)
(* takes its time back; a plan change cannot be refunded.                  *)
Refund(i) ==
  LET o == orders[i]
      s == o.sub
      ends == RolledBack(i)
  IN /\ o.status = "paid" /\ o.type # "change"
     /\ orders' = [orders EXCEPT ![i].status = "refunded"]
     /\ sub' = IF o.type = "plan"
               THEN [sub EXCEPT ![s].status = "cancelled", ![s].auto = FALSE]
               ELSE [sub EXCEPT ![s].status = IF ends > now THEN "active" ELSE "expired",
                                ![s].ends = ends, ![s].auto = FALSE, ![s].grace = Nothing]
     /\ UNCHANGED <<now, acquired, gifts, pass, call, edit, edits>>

-----------------------------------------------------------------------------
(* The first statement of activeSubscriptions expires what has lapsed.     *)
Lapsed(r) ==
  /\ r.status \in Alive
  /\ IF r.grace = Nothing THEN ~r.auto /\ r.ends <= now ELSE r.grace <= now

Swept == [s \in Sub |-> IF Exists(s) /\ Lapsed(sub[s])
                        THEN [sub[s] EXCEPT !.status = "expired"] ELSE sub[s]]

(* The second statement lists the subscriptions in force.                  *)
InForce(s) == Swept[s] # Nothing /\ Swept[s].status \in Alive
              /\ (sub[s].ends > now \/ InGrace(sub[s]))

Open(c) ==
  /\ call[c] = Quiet
  /\ sub' = Swept
  /\ call' = [call EXCEPT ![c].todo = {s \in Sub : InForce(s)}]
  /\ UNCHANGED <<now, orders, acquired, gifts, pass, edit, edits>>

(* entitlement, usage and reasons: what is not in force any more counts as *)
(* over quota.                                                             *)
Decide(c, s) ==
  /\ call[c].cur = Nothing /\ s \in call[c].todo
  /\ sub' = Swept
  /\ \E v \in IF InForce(s) THEN Alive ELSE {"suspended"} :
       call' = [call EXCEPT ![c] = [todo |-> @.todo \ {s}, cur |-> s, verdict |-> v]]
  /\ UNCHANGED <<now, orders, acquired, gifts, pass, edit, edits>>

(* The status is written whatever has become of the row.                   *)
Write(c) ==
  /\ call[c].cur # Nothing
  /\ sub' = [sub EXCEPT ![call[c].cur].status = call[c].verdict]
  /\ call' = [call EXCEPT ![c].cur = Nothing, ![c].verdict = "active"]
  /\ UNCHANGED <<now, orders, acquired, gifts, pass, edit, edits>>

-----------------------------------------------------------------------------
(* processLifecycle reads the subscriptions and the clock once; those that *)
(* have not ended are skipped.                                             *)
StartPass(p) ==
  /\ pass[p].rows = {} /\ pass[p].due = {}
  /\ pass' = [pass EXCEPT ![p] =
       [at |-> now, due |-> {},
        rows |-> {[sub |-> s, row |-> sub[s]] : s \in {s \in Sub : Is(s, Alive) /\ sub[s].ends <= now}}]]
  /\ UNCHANGED <<now, sub, orders, acquired, gifts, call, edit, edits>>

Autos(r) == r.row.auto /\ r.row.plan \in Renewable

Handled(p, r) == pass' = [pass EXCEPT ![p].rows = @ \ {r}, ![p].due = {}]
Aborted(p) == pass' = [pass EXCEPT ![p] = Idle]
FallsDue(p, r) == pass' = [pass EXCEPT ![p].rows = @ \ {r}, ![p].due = {r}]

AlwaysDueBug(s) == s \notin Sub

(* renewSubscription, automatic: a period already renewed is left alone.   *)
NotDue(s) == sub[s].ends > now /\ sub[s].grace = Nothing

NoKeyBug(s) == {i \in DOMAIN orders : s \notin Sub}

(* The order, if any, that holds the idempotency key of the period.        *)
KeyHolder(s) == {i \in DOMAIN orders : orders[i].auto /\ orders[i].sub = s
                                       /\ orders[i].prev = sub[s].ends}

Taking(p, r) == r \in pass[p].rows /\ pass[p].due = {} /\ Autos(r)

(* The subscription was cancelled since the scan: the pass ends.           *)
RenewThrows(p, r) ==
  /\ Taking(p, r)
  /\ Is(r.sub, {"cancelled"}) \/ sub[r.sub].plan \notin Renewable
  /\ Aborted(p)
  /\ UNCHANGED <<now, sub, orders, acquired, gifts, call, edit, edits>>

CanRenew(p, r) ==
  Taking(p, r) /\ ~Is(r.sub, {"cancelled"}) /\ sub[r.sub].plan \in Renewable

(* Already renewed, or the order of the period exists.                     *)
RenewSkips(p, r) ==
  /\ CanRenew(p, r)
  /\ \/ NotDue(r.sub) /\ Handled(p, r)
     \/ /\ ~NotDue(r.sub)
        /\ \E i \in KeyHolder(r.sub) :
             IF orders[i].status = "paid" THEN Handled(p, r) ELSE FallsDue(p, r)
  /\ UNCHANGED <<now, sub, orders, acquired, gifts, call, edit, edits>>

(* The wallet pays.  The enforceUser that follows may throw, which ends    *)
(* the pass.                                                               *)
RenewPays(p, r) ==
  /\ CanRenew(p, r) /\ ~NotDue(r.sub) /\ KeyHolder(r.sub) = {}
  /\ Len(orders) < MaxOrders
  /\ sub' = Renewed(r.sub)
  /\ orders' = Append(orders, Order("renewal", r.sub, TRUE, RenewedEnds(r.sub)))
  /\ Handled(p, r) \/ Aborted(p)
  /\ UNCHANGED <<now, acquired, gifts, call, edit, edits>>

(* The wallet does not: a grace period starts, or goes on.                 *)
RenewFails(p, r) ==
  LET s == r.sub
      grace == IF sub[s].grace = Nothing THEN sub[s].ends + GraceDays ELSE sub[s].grace
  IN /\ CanRenew(p, r) /\ ~NotDue(s) /\ KeyHolder(s) = {}
     /\ sub' = [sub EXCEPT ![s].grace = grace]
     /\ IF grace > pass[p].at THEN Handled(p, r) ELSE FallsDue(p, r)
     /\ UNCHANGED <<now, orders, acquired, gifts, call, edit, edits>>

AutoNeverExpiresBug(p, r) ==
  /\ \/ r \in pass[p].due
     \/ r \in pass[p].rows /\ pass[p].due = {} /\ ~Autos(r)
  /\ sub' = IF (IF r.row.grace = Nothing THEN r.row.ends ELSE r.row.grace) <= pass[p].at /\ ~r.row.auto
            THEN [sub EXCEPT ![r.sub].status = "expired"] ELSE sub
  /\ Handled(p, r)
  /\ UNCHANGED <<now, orders, acquired, gifts, call, edit, edits>>

(* The scanned row has ended, grace included: expired, whatever has become *)
(* of the subscription since the scan.                                     *)
PassExpire(p, r) ==
  /\ \/ r \in pass[p].due
     \/ r \in pass[p].rows /\ pass[p].due = {} /\ ~Autos(r)
  /\ sub' = IF (IF r.row.grace = Nothing THEN r.row.ends ELSE r.row.grace) <= pass[p].at
            THEN [sub EXCEPT ![r.sub].status = "expired"] ELSE sub
  /\ Handled(p, r)
  /\ UNCHANGED <<now, orders, acquired, gifts, call, edit, edits>>

-----------------------------------------------------------------------------
(* An administrator's PUT reads the row, awaits the body and a count, and  *)
(* writes status, end and automatic renewal, given or as read.             *)
EditRead(s) ==
  /\ edits < MaxEdits
  /\ edits' = edits + 1
  /\ edit = Nothing /\ Exists(s)
  /\ edit' = [sub |-> s, row |-> sub[s]]
  /\ UNCHANGED <<now, sub, orders, acquired, gifts, pass, call>>

EditWrite ==
  /\ edit # Nothing
  /\ \E status \in Alive \cup {"expired", "cancelled"}, auto \in BOOLEAN,
        ends \in {edit.row.ends, edit.row.ends + 1} :
       sub' = [sub EXCEPT ![edit.sub].status = status, ![edit.sub].auto = auto,
                          ![edit.sub].ends = ends]
  /\ edit' = Nothing
  /\ UNCHANGED <<now, orders, acquired, gifts, pass, call, edits>>

PassStep(p) ==
  \/ StartPass(p)
  \/ \E r \in pass[p].rows \cup pass[p].due :
       \/ RenewThrows(p, r) \/ RenewSkips(p, r) \/ RenewPays(p, r)
       \/ RenewFails(p, r) \/ PassExpire(p, r)

CallStep(c) == Open(c) \/ Write(c) \/ \E s \in Sub : Decide(c, s)

Request ==
  \/ \E s \in Sub :
       \/ \E p \in Plan : Buy(p, s) \/ Stack(p, s) \/ Assign(p, s) \/ ChangePlan(s, p)
       \/ \E b \in BOOLEAN : SetAuto(s, b)
       \/ Renew(s) \/ Cancel(s) \/ EditRead(s)
  \/ \E i \in DOMAIN orders : Refund(i)
  \/ EditWrite

SubNext ==
  \/ Tick \/ Request
  \/ \E p \in Pass : PassStep(p)
  \/ \E c \in Call : CallStep(c)

SubSpec == SubInit /\ [][SubNext]_subVars

(* The scheduler's timer makes passes for ever, and a pass goes on.        *)
FairSub == SubSpec /\ \A p \in Pass : WF_subVars(PassStep(p))

-----------------------------------------------------------------------------
(* No period is renewed automatically twice, whoever scans it at the same  *)
(* time, and also when a renewal was refunded and turned on again          *)
(* (billing.js:510-513; DEPLOYMENT_CHECKLIST.md:29).                       *)
AutoOncePerPeriod ==
  \A i, j \in DOMAIN orders :
    orders[i].auto /\ orders[j].auto /\ orders[i].sub = orders[j].sub
      /\ orders[i].prev = orders[j].prev => i = j

(* Nobody is charged automatically before the period to continue has ended *)
(* (billing.js:504), though the pass decided on what it scanned.           *)
AutoRenewalsDue == \A i \in DOMAIN orders : orders[i].auto => orders[i].prev <= orders[i].at

(* A plan sold once is had once: bought, changed to or assigned, and again *)
(* refused after it expired, was cancelled or refunded                     *)
(* (billing.test.js:627).                                                  *)
TimesAcquired(p) ==
  Cardinality({i \in DOMAIN orders : orders[i].type # "renewal" /\ orders[i].plan = p})
    + Cardinality({i \in DOMAIN gifts : gifts[i] = p})

OnceAcquired == \A p \in Once : TimesAcquired(p) <= 1

(* The end of a subscription covers every order paid and not refunded,     *)
(* whatever was bought, renewed and refunded in whatever order             *)
(* (billing-api.js:285-294, billing.test.js:654).                          *)
PaidFor(s, o) ==
  IF o.sub = s /\ o.type # "change" /\ o.status = "paid" THEN Days[o.plan] ELSE 0

(* days[1] + ... + days[n].                                                 *)
Total(n, days) ==
  LET upTo[i \in 0..n] == IF i = 0 THEN 0 ELSE upTo[i - 1] + days[i] IN upTo[n]

PaidDays(s) == Total(Len(orders), [i \in DOMAIN orders |-> PaidFor(s, orders[i])])

PaidTimeKept == \A s \in Sub : Exists(s) => sub[s].ends >= sub[s].start + PaidDays(s)

(* A grace period belongs to the end it follows: whoever pays during it    *)
(* is not expired by what is left of it (billing.js:210-214).              *)
GraceSound ==
  \A s \in Sub : Exists(s) /\ sub[s].grace # Nothing =>
    sub[s].ends <= now /\ sub[s].grace = sub[s].ends + GraceDays

(* A subscription that has ended, grace included, does not stay in force:  *)
(* the scheduler renews it, grants it a grace period or expires it         *)
(* (billing.js:553-566).  It is checked without enforceUser's late UPDATE  *)
(* (billing.js:404) and without administrators' edits.                     *)
Ended(s) == Is(s, Alive) /\ sub[s].ends <= now /\ ~InGrace(sub[s])

LapsedSettles == \A s \in Sub : Ended(s) ~> ~Ended(s)

(* What the documents and tests say, and the code does not keep.           *)

(* The subscription of s was cancelled, and its plan's order refunded.     *)
Revoked(s) ==
  /\ Is(s, {"cancelled"})
  /\ \E i \in DOMAIN orders : /\ orders[i].sub = s /\ orders[i].type = "plan"
                              /\ orders[i].status = "refunded"

(* A refund takes the entitlement back with the money                      *)
(* (DEPLOYMENT_CHECKLIST.md:30): no later refund of a renewal of it brings *)
(* it into force again.                                                    *)
RefundTakesBack ==
  [][\A i \in DOMAIN orders : orders[i].status = "paid" /\ orders'[i].status = "refunded" =>
       \A s \in Sub : Revoked(s) => Revoked(s)']_subVars

(* A renewal extends the subscription (ARCHITECTURE.md:71): one whose paid *)
(* period is not over is not expired.                                      *)
PaidPeriodServed == \A s \in Sub : Is(s, {"expired"}) => sub[s].ends <= now
=============================================================================
