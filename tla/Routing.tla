------------------------------ MODULE Routing ------------------------------
(***************************************************************************)
(* Which account at the CDN serves what (upstreams.js, upstream-api.js,    *)
(* billing.js, billing-api.js and the site and stream handlers).  A plan   *)
(* names an account and one of its packages; a subscription keeps the pair *)
(* of its plan from the day it begins; a site or stream is created where   *)
(* its subscription points and may be moved to another subscription.  A    *)
(* first start after an upgrade makes an account of the environment's and  *)
(* points all rows to it, one statement after the other, and every start   *)
(* gives the sites and streams that have no subscription one of their      *)
(* owner's.  What has no account is served by the environment's client.    *)
(* There is one customer; recovery of sites is in Recovery.                *)
(***************************************************************************)
EXTENDS Integers, FiniteSets

CONSTANTS Account, Env,  \* accounts at the CDN, among them the one of the environment
          Package,       \* packages an account may hold
          Plan, Sub,     \* plans; subscriptions, in the order in which they are made
          Thing,         \* sites and streams
          Job,           \* requests that span several statements
          Orphan,        \* an older version may have left sites without a subscription
          None

VARIABLES acct,    \* each account: absent, on, off
          pack,    \* the packages recorded for it
          plan,    \* on sale or not, and the pair
          sub,     \* live or not, the plan and the pair
          thing,   \* account and subscription of its row, and home: where it is
          boot,    \* how far the start is
          job

vars == <<acct, pack, plan, sub, thing, boot, job>>

ASSUME RoutingAssumption ==
  /\ Env \in Account /\ None \notin Account /\ Package # {}
  /\ Sub \subseteq Nat \ {0} /\ 1 \in Sub

Pair == [account : Account, package : Package]
NoPair == [account |-> None, package |-> None]
Pairs == Pair \cup {NoPair}
Idle == [pc |-> "idle", plan |-> None, pair |-> NoPair, thing |-> None, sub |-> 0]

PlanRow == [on : BOOLEAN, pair : Pairs]
SubRow == [live : BOOLEAN, plan : Plan, pair : Pairs]
ThingRow == [account : Account \cup {None}, sub : Sub \cup {0}, home : Account]

ASSUME NoRowAssumption == None \notin PlanRow \cup SubRow \cup ThingRow

TypeOK ==
  /\ acct \in [Account -> {"absent", "on", "off"}]
  /\ pack \in [Account -> [Package -> {"absent", "on", "off"}]]
  /\ plan \in [Plan -> {None} \cup PlanRow]
  /\ sub \in [Sub -> {None} \cup SubRow]
  /\ thing \in [Thing -> {None} \cup ThingRow]
  /\ boot \in {"down", "package", "plans", "subs", "things", "adopt", "up"}
  /\ job \in [Job -> [pc : {"idle", "off", "save", "buy", "hide", "move"}, plan : Plan \cup {None}, pair : Pairs,
                      thing : Thing \cup {None}, sub : Sub \cup {0}]]

(* Either the accounts are kept here and nothing is sold yet, or an older  *)
(* version sold a plan of the environment's account.                       *)
Init ==
  /\ pack = [a \in Account |-> [k \in Package |-> "absent"]] /\ boot = "down" /\ job = [j \in Job |-> Idle]
  /\ \/ /\ acct = [a \in Account |-> "on"]
        /\ plan = [p \in Plan |-> None] /\ sub = [b \in Sub |-> None] /\ thing = [x \in Thing |-> None]
     \/ \E p \in Plan, x \in Thing, b \in {1} \cup (IF Orphan THEN {0} ELSE {}) :
          /\ acct = [a \in Account |-> "absent"]
          /\ plan = [q \in Plan |-> IF q = p THEN [on |-> TRUE, pair |-> NoPair] ELSE None]
          /\ sub = [c \in Sub |-> IF c = 1 /\ b = 1 THEN [live |-> TRUE, plan |-> p, pair |-> NoPair] ELSE None]
          /\ thing = [y \in Thing |-> IF y = x THEN [account |-> None, sub |-> b, home |-> Env] ELSE None]

-----------------------------------------------------------------------------
Live == {b \in Sub : sub[b] # None /\ sub[b].live}
OnSale == {p \in Plan : plan[p] # None /\ plan[p].on}
Usable(pair) == IF pair = NoPair THEN FALSE ELSE acct[pair.account] = "on" /\ pack[pair.account][pair.package] = "on"
Counted == {a \in Account : acct[a] # "absent"}
PairOf(b) == IF b = 0 THEN NoPair ELSE sub[b].pair

(* Plausible faults of the code.                                           *)
AnyPlanBug(b, p) == TRUE
AnyTargetBug(x, b) == TRUE

(* sameUpstreamMapping; a thing stays at its account.                      *)
SameMapping(b, p) == sub[b].pair = plan[p].pair
SameAccount(x, b) == sub[b].pair.account = thing[x].account

(* clientForSite, clientForResource, clientForAccount: the account of the  *)
(* row, else of its subscription, else the environment's.                  *)
ClientFor(account) == IF account = None THEN Env ELSE account
Route(x) == ClientFor(IF thing[x].account # None THEN thing[x].account ELSE PairOf(thing[x].sub).account)
Reached(account) == account = None \/ acct[ClientFor(account)] = "on"

Set(j, new) == job' = [job EXCEPT ![j] = new]

-----------------------------------------------------------------------------
(* A start: the migration if there is no account yet, then the assignments.*)
Start ==
  /\ boot = "down"
  /\ IF Counted = {}
     THEN acct' = [acct EXCEPT ![Env] = "on"] /\ boot' = "package"
     ELSE boot' = "adopt" /\ UNCHANGED acct
  /\ UNCHANGED <<pack, plan, sub, thing, job>>

EnvPair == [account |-> Env, package |-> CHOOSE k \in Package : TRUE]

MigratePackage ==
  /\ boot = "package" /\ boot' = "plans" /\ pack' = [pack EXCEPT ![Env][EnvPair.package] = "on"]
  /\ UNCHANGED <<acct, plan, sub, thing, job>>

MigratePlans ==
  /\ boot = "plans" /\ boot' = "subs"
  /\ plan' = [p \in Plan |-> IF plan[p] # None /\ plan[p].pair = NoPair THEN [plan[p] EXCEPT !.pair = EnvPair] ELSE plan[p]]
  /\ UNCHANGED <<acct, pack, sub, thing, job>>

MigrateSubs ==
  /\ boot = "subs" /\ boot' = "things"
  /\ sub' = [b \in Sub |-> IF sub[b] # None /\ sub[b].pair = NoPair THEN [sub[b] EXCEPT !.pair = plan[sub[b].plan].pair]
                           ELSE sub[b]]
  /\ UNCHANGED <<acct, pack, plan, thing, job>>

MigrateThings ==
  /\ boot = "things" /\ boot' = "adopt"
  /\ thing' = [x \in Thing |-> IF thing[x] # None /\ thing[x].account = None /\ thing[x].sub # 0
                               THEN [thing[x] EXCEPT !.account = PairOf(thing[x].sub).account] ELSE thing[x]]
  /\ UNCHANGED <<acct, pack, plan, sub, job>>

(* ensureResourceAssignments: what has no subscription gets the newest one,*)
(* what has this subscription and no account its account.                  *)
Adopt ==
  /\ boot = "adopt" /\ boot' = "up"
  /\ IF Live = {} THEN UNCHANGED thing
     ELSE LET b == CHOOSE c \in Live : \A d \in Live : d <= c IN
          thing' = [x \in Thing |->
            IF thing[x] = None THEN None
            ELSE IF thing[x].sub \notin {0, b} THEN thing[x]
            ELSE [thing[x] EXCEPT !.sub = b, !.account = IF @ = None THEN sub[b].pair.account ELSE @]]
  /\ UNCHANGED <<acct, pack, plan, sub, job>>

Crash ==
  /\ boot # "down" /\ boot' = "down" /\ job' = [j \in Job |-> Idle]
  /\ UNCHANGED <<acct, pack, plan, sub, thing>>

-----------------------------------------------------------------------------
Up == boot = "up"

(* An account is added, switched on, or switched off if no subscription    *)
(* that has not ended points to it.                                        *)
TurnOn(a) ==
  /\ Up /\ acct[a] # "on" /\ acct' = [acct EXCEPT ![a] = "on"]
  /\ UNCHANGED <<pack, plan, sub, thing, boot, job>>

CheckOff(j, a) ==
  /\ Up /\ job[j].pc = "idle" /\ acct[a] = "on" /\ \A b \in Live : sub[b].pair.account # a
  /\ \E k \in Package : Set(j, [Idle EXCEPT !.pc = "off", !.pair = [account |-> a, package |-> k]])
  /\ UNCHANGED <<acct, pack, plan, sub, thing, boot>>

TurnOff(j) ==
  /\ Up /\ job[j].pc = "off" /\ Set(j, Idle) /\ acct' = [acct EXCEPT ![job[j].pair.account] = "off"]
  /\ UNCHANGED <<pack, plan, sub, thing, boot>>

(* The packages the CDN lists become the ones that are on; a look at them  *)
(* does it as well.                                                        *)
Sync(a, held) ==
  /\ Up /\ acct[a] = "on" /\ held # {}
  /\ pack' = [pack EXCEPT ![a] = [k \in Package |-> IF k \in held THEN "on" ELSE IF @[k] = "on" THEN "off" ELSE @[k]]]
  /\ UNCHANGED <<acct, plan, sub, thing, boot, job>>

(* A package is hidden if no plan on sale names it.                        *)
CheckHide(j, a, k) ==
  /\ Up /\ job[j].pc = "idle" /\ acct[a] = "on" /\ pack[a][k] # "absent"
  /\ {p \in OnSale : plan[p].pair = [account |-> a, package |-> k]} = {}
  /\ Set(j, [Idle EXCEPT !.pc = "hide", !.pair = [account |-> a, package |-> k]])
  /\ UNCHANGED <<acct, pack, plan, sub, thing, boot>>

Hide(j) ==
  /\ Up /\ job[j].pc = "hide" /\ Set(j, Idle)
  /\ pack' = [pack EXCEPT ![job[j].pair.account][job[j].pair.package] = "off"]
  /\ UNCHANGED <<acct, plan, sub, thing, boot>>

(* A plan is saved with a pair that is usable when it is looked at.        *)
CheckPlan(j, p, pair) ==
  /\ Up /\ job[j].pc = "idle" /\ (Counted # {} => Usable(pair))
  /\ Set(j, [Idle EXCEPT !.pc = "save", !.plan = p, !.pair = pair])
  /\ UNCHANGED <<acct, pack, plan, sub, thing, boot>>

SavePlan(j, on) ==
  /\ Up /\ job[j].pc = "save" /\ Set(j, Idle)
  /\ plan' = [plan EXCEPT ![job[j].plan] = [on |-> on, pair |-> job[j].pair]]
  /\ UNCHANGED <<acct, pack, sub, thing, boot>>

DisablePlan(p) ==
  /\ Up /\ plan[p] # None /\ plan[p].on /\ plan' = [plan EXCEPT ![p].on = FALSE]
  /\ UNCHANGED <<acct, pack, sub, thing, boot, job>>

(* A subscription begins with the pair its plan has when it is read: a     *)
(* purchase also asks for a usable pair, an assignment only for a pair.    *)
CheckPurchase(j, p) ==
  /\ Up /\ job[j].pc = "idle" /\ plan[p] # None /\ plan[p].on /\ (Counted # {} => Usable(plan[p].pair))
  /\ Set(j, [Idle EXCEPT !.pc = "buy", !.plan = p, !.pair = plan[p].pair])
  /\ UNCHANGED <<acct, pack, plan, sub, thing, boot>>

CheckAssignment(j, p) ==
  /\ Up /\ job[j].pc = "idle" /\ plan[p] # None /\ plan[p].pair # NoPair
  /\ Set(j, [Idle EXCEPT !.pc = "buy", !.plan = p, !.pair = plan[p].pair])
  /\ UNCHANGED <<acct, pack, plan, sub, thing, boot>>

(* A live subscription of the plan is prolonged and keeps its pair.        *)
Begin(j) ==
  LET p == job[j].plan
      slots == {b \in Sub : sub[b] = None} IN
  /\ Up /\ job[j].pc = "buy" /\ Set(j, Idle)
  /\ IF \E b \in Live : sub[b].plan = p THEN UNCHANGED sub
     ELSE /\ slots # {}
          /\ sub' = [sub EXCEPT ![CHOOSE b \in slots : \A c \in slots : b <= c] =
                       [live |-> TRUE, plan |-> p, pair |-> job[j].pair]]
  /\ UNCHANGED <<acct, pack, plan, thing, boot>>

(* changeSubscriptionPlan: the row takes the pair of the plan it was       *)
(* compared with.                                                          *)
ChangePlan(b, p) ==
  /\ Up /\ b \in Live /\ plan[p] # None /\ plan[p].on /\ sub[b].plan # p /\ SameMapping(b, p)
  /\ sub' = [sub EXCEPT ![b].plan = p, ![b].pair = plan[p].pair]
  /\ UNCHANGED <<acct, pack, plan, thing, boot, job>>

End(b) ==
  /\ Up /\ b \in Live /\ sub' = [sub EXCEPT ![b].live = FALSE]
  /\ UNCHANGED <<acct, pack, plan, thing, boot, job>>

(* A site or stream is created at the account of a live subscription.      *)
Create(x, b) ==
  /\ Up /\ thing[x] = None /\ b \in Live /\ Reached(sub[b].pair.account)
  /\ thing' = [thing EXCEPT ![x] = [account |-> sub[b].pair.account, sub |-> b, home |-> ClientFor(sub[b].pair.account)]]
  /\ UNCHANGED <<acct, pack, plan, sub, boot, job>>

(* A change of its subscription: the target is looked at, the CDN is asked *)
(* through the client of the row, the row is written.                      *)
CheckMove(j, x, b) ==
  /\ Up /\ job[j].pc = "idle" /\ thing[x] # None /\ b \in Live /\ SameAccount(x, b)
  /\ \A i \in Job : job[i].thing = None           \* the resource lock
  /\ Set(j, [Idle EXCEPT !.pc = "move", !.thing = x, !.sub = b])
  /\ UNCHANGED <<acct, pack, plan, sub, thing, boot>>

Move(j) ==
  LET x == job[j].thing IN
  /\ Up /\ job[j].pc = "move" /\ Set(j, Idle)
  /\ IF Reached(IF thing[x].account # None THEN thing[x].account ELSE PairOf(thing[x].sub).account)
     THEN thing' = [thing EXCEPT ![x].sub = job[j].sub] ELSE UNCHANGED thing
  /\ UNCHANGED <<acct, pack, plan, sub, boot>>

Next ==
  \/ Start \/ MigratePackage \/ MigratePlans \/ MigrateSubs \/ MigrateThings \/ Adopt \/ Crash
  \/ \E a \in Account : TurnOn(a) \/ \E held \in SUBSET Package : Sync(a, held)
  \/ \E j \in Job :
       \/ \E a \in Account : CheckOff(j, a) \/ \E k \in Package : CheckHide(j, a, k)
       \/ TurnOff(j) \/ Hide(j) \/ Begin(j) \/ Move(j)
       \/ \E p \in Plan : CheckPurchase(j, p) \/ CheckAssignment(j, p) \/ \E pair \in Pairs : CheckPlan(j, p, pair)
       \/ \E on \in BOOLEAN : SavePlan(j, on)
       \/ \E x \in Thing, b \in Sub : CheckMove(j, x, b)
  \/ \E p \in Plan : DisablePlan(p) \/ \E b \in Sub : ChangePlan(b, p)
  \/ \E b \in Sub : End(b) \/ \E x \in Thing : Create(x, b)

Spec == Init /\ [][Next]_vars

-----------------------------------------------------------------------------
(* What is at an account is asked for at that account, and counted for a   *)
(* subscription of that account: through changes of plans, moves, ends and *)
(* a first start that was cut off (clientForSite; syncTraffic asks the     *)
(* account of the subscription for the traffic of its sites).              *)
RoutesHome ==
  Up => \A x \in Thing :
    thing[x] # None => Route(x) = thing[x].home /\ ClientFor(PairOf(thing[x].sub).account) = thing[x].home

(* A package that a plan on sale names is not switched off                 *)
(* (doc/ARCHITECTURE.md).                                                  *)
SoldStaysOn ==
  [][\A p \in OnSale : plan' = plan /\ Usable(plan[p].pair)
       => pack'[plan[p].pair.account][plan[p].pair.package] = "on"]_vars
=============================================================================
