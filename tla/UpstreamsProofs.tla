-------------------------- MODULE UpstreamsProofs --------------------------
(***************************************************************************)
(* For any accounts, packages, plans, subscriptions, sites, requests,      *)
(* processes and any bound on the time: what a customer has is asked for   *)
(* at the account it is at (RoutesSound), and a request is signed with the *)
(* credentials its account has (ClientsSound).                             *)
(*                                                                         *)
(* The first needs ~Orphan: an older version left no site without a        *)
(* subscription; such a site is given one of another account.  The second  *)
(* needs Apart: an account is saved at most once in a second, for the name *)
(* of a client tells the state of its account by that second.              *)
(***************************************************************************)
EXTENDS MCUpstreams, FiniteSetTheorems, WellFoundedInduction, TLAPS

(* A set of numbers has a least one.                                       *)
LEMMA Least ==
  ASSUME NEW S \in SUBSET Nat, S # {}
  PROVE  \E x \in S : \A y \in S : x <= y
  <1> DEFINE R == OpToRel(<, Nat)
  <1>1. \A x, y \in Nat : y < x => <<y, x>> \in R
    BY DEF OpToRel
  <1>2. IsWellFoundedOn(R, Nat)
    BY NatLessThanWellFounded
  <1> HIDE DEF R
  <1>3. PICK x \in S : \A y \in S : <<y, x>> \notin R
    BY <1>2, WFMin
  <1>4. ASSUME NEW y \in S PROVE x <= y
    <2>1. ~(y < x)
      BY <1>1, <1>3, Zenon
    <2> QED BY <2>1
  <1> QED BY <1>4
-----------------------------------------------------------------------------
(* The first start after an upgrade, until it has pointed all rows to the  *)
(* environment's account: nobody has sold or created anything meanwhile.   *)
Legacy == boot \in {"package", "plans", "subs", "things"} \/ (boot = "down" /\ Counted = {})

StartSound ==
  /\ boot # "down" => Counted # {}
  /\ Legacy => /\ \A p \in Plan : plan[p] # None => plan[p].pair \in {NoPair, EnvPair}
               /\ \A b \in Sub : sub[b] # None => sub[b].pair \in {NoPair, EnvPair}

SubsSound == \A b \in Sub : sub[b] # None => plan[sub[b].plan] # None

(* A thing is where its account says, and its subscription's account.      *)
ThingsSound ==
  \A x \in Thing : thing[x] # None =>
    /\ thing[x].sub \in Sub /\ sub[thing[x].sub] # None
    /\ ClientFor(thing[x].account) = thing[x].home
    /\ ClientFor(sub[thing[x].sub].pair.account) = thing[x].home

JobSound(w) ==
  /\ w.pc # "idle" => boot = "up"
  /\ w.pc \in {"off", "hide"} => w.pair \in Pair
  /\ w.pc \in {"save", "buy"} => w.plan \in Plan
  /\ w.pc = "buy" => plan[w.plan] # None
  /\ w.pc = "move" => /\ w.thing \in Thing /\ thing[w.thing] # None
                      /\ w.sub \in Sub /\ sub[w.sub] # None
                      /\ ClientFor(sub[w.sub].pair.account) = thing[w.thing].home

JobsSound == \A j \in Job : JobSound(job[j])

RInv == TypeOK /\ StartSound /\ SubsSound /\ ThingsSound /\ JobsSound

JobRow ==
  [pc : {"idle", "off", "save", "buy", "hide", "move"}, plan : Plan \cup {None}, pair : Pairs,
   thing : Thing \cup {None}, sub : Sub \cup {0}]

-----------------------------------------------------------------------------
LEMMA Routes ==
  ASSUME RInv
  PROVE  RoutesHome
  <1> SUFFICES ASSUME NEW x \in Thing, thing[x] # None
               PROVE  Route(x) = thing[x].home /\ ClientFor(PairOf(thing[x].sub).account) = thing[x].home
    BY DEF RoutesHome
  <1>1. /\ thing[x].sub \in Sub /\ ClientFor(thing[x].account) = thing[x].home
        /\ ClientFor(sub[thing[x].sub].pair.account) = thing[x].home
    BY DEF RInv, ThingsSound
  <1>2. thing[x].sub # 0
    BY <1>1, RoutingAssumption
  <1> QED BY <1>1, <1>2 DEF Route, PairOf

LEMMA EnvPairType == EnvPair \in Pair /\ EnvPair.account = Env /\ NoPair.account = None
  BY RoutingAssumption DEF EnvPair, Pair, NoPair

LEMMA RowFields ==
  ASSUME TypeOK
  PROVE  /\ \A p \in Plan : plan[p] # None => plan[p] \in PlanRow
         /\ \A b \in Sub : sub[b] # None => sub[b] \in SubRow
         /\ \A x \in Thing : thing[x] # None => thing[x] \in ThingRow
         /\ \A j \in Job : job[j] \in JobRow
  BY DEF TypeOK, JobRow

LEMMA IdleJob == Idle \in JobRow /\ JobSound(Idle) /\ JobSound(Idle)'
  BY DEF Idle, JobRow, JobSound, Pairs

(* What a step may do to rows without moving anything.                     *)
SubsKept ==
  \A b \in Sub : sub[b] # None =>
    sub'[b] # None /\ ClientFor(sub'[b].pair.account) = ClientFor(sub[b].pair.account)

HomesKept == \A x \in Thing : thing[x] # None => thing'[x] # None /\ thing'[x].home = thing[x].home

PlansKept == \A p \in Plan : plan[p] # None => plan'[p] # None

LEMMA JobsKept ==
  ASSUME RInv, SubsKept, HomesKept, PlansKept,
         \A j \in Job : (job'[j] = job[j] /\ (boot = "up" => boot' = "up")) \/ JobSound(job[j])'
  PROVE  JobsSound'
  <1>1. ASSUME NEW j \in Job PROVE JobSound(job[j])'
    <2>1. CASE job'[j] = job[j] /\ (boot = "up" => boot' = "up")
      <3>1. JobSound(job[j])
        BY DEF RInv, JobsSound
      <3> QED BY <2>1, <3>1 DEF JobSound, SubsKept, HomesKept, PlansKept, Pair, ClientFor
    <2> QED BY <2>1
  <1> QED BY <1>1 DEF JobsSound

(* A step that changes accounts, packages and requests alone.              *)
LEMMA AccountsWritten ==
  ASSUME RInv, boot = "up", UNCHANGED <<plan, sub, thing, boot>>,
         acct' = acct \/ \E c : \E on \in {"on", "off"} : acct' = [acct EXCEPT ![c] = on],
         pack' \in [Account -> [Package -> {"absent", "on", "off"}]],
         \/ job' = job
         \/ \E j \in Job, new \in JobRow :
              /\ job' = [job EXCEPT ![j] = new]
              /\ new = Idle \/ (new.pc \in {"off", "hide"} /\ new.pair \in Pair)
  PROVE  RInv'
  <1>1. /\ acct' \in [Account -> {"absent", "on", "off"}]
        /\ \A b \in Account : acct[b] # "absent" => acct'[b] # "absent"
    BY DEF RInv, TypeOK
  <1>2. /\ job' \in [Job -> JobRow]
        /\ \A i \in Job : job'[i] = job[i] \/ JobSound(job[i])'
    <2>1. CASE job' = job
      BY <2>1 DEF RInv, TypeOK, JobRow
    <2>2. ASSUME NEW j \in Job, NEW new \in JobRow, job' = [job EXCEPT ![j] = new],
                 new = Idle \/ (new.pc \in {"off", "hide"} /\ new.pair \in Pair)
          PROVE  /\ job' \in [Job -> JobRow]
                 /\ \A i \in Job : job'[i] = job[i] \/ JobSound(job[i])'
      <3>1. job' \in [Job -> JobRow] /\ job'[j] = new /\ \A i \in Job \ {j} : job'[i] = job[i]
        BY <2>2 DEF RInv, TypeOK, JobRow
      <3>2. JobSound(job[j])'
        BY <2>2, <3>1, IdleJob DEF JobSound, Pair
      <3> QED BY <3>1, <3>2
    <2> QED BY <2>1, <2>2
  <1>3. TypeOK'
    BY <1>1, <1>2 DEF RInv, TypeOK, JobRow, PlanRow, SubRow, ThingRow, Pairs, Pair
  <1>4. StartSound'
    BY <1>1 DEF RInv, StartSound, Legacy, Counted
  <1>5. SubsSound' /\ ThingsSound'
    BY DEF RInv, SubsSound, ThingsSound, ClientFor
  <1>6. JobsSound'
    BY <1>2, JobsKept DEF SubsKept, HomesKept, PlansKept, ClientFor
  <1> QED BY <1>3, <1>4, <1>5, <1>6 DEF RInv

LEMMA AccountSteps ==
  ASSUME RInv, NEW a \in Account, NEW held \in SUBSET Package, TurnOn(a) \/ Sync(a, held)
  PROVE  RInv'
  <1>1. CASE TurnOn(a)
    BY <1>1, AccountsWritten DEF TurnOn, Up, RInv, TypeOK
  <1>2. CASE Sync(a, held)
    <2>1. pack[a] \in [Package -> {"absent", "on", "off"}]
      BY DEF RInv, TypeOK
    <2>2. [q \in Package |-> IF q \in held THEN "on" ELSE IF pack[a][q] = "on" THEN "off" ELSE pack[a][q]]
            \in [Package -> {"absent", "on", "off"}]
      BY <2>1
    <2>3. pack' \in [Account -> [Package -> {"absent", "on", "off"}]]
      BY <1>2, <2>2 DEF RInv, TypeOK, Sync
    <2> QED BY <1>2, <2>3, AccountsWritten DEF Sync, Up
  <1> QED BY <1>1, <1>2

LEMMA SwitchSteps ==
  ASSUME RInv, NEW j \in Job, NEW a \in Account, NEW k \in Package,
         TurnOff(j) \/ CheckOff(j, a) \/ CheckHide(j, a, k) \/ Hide(j)
  PROVE  RInv'
  <1>0. pack \in [Account -> [Package -> {"absent", "on", "off"}]]
    BY DEF RInv, TypeOK
  <1>1. CASE TurnOff(j)
    <2>1. acct' = [acct EXCEPT ![job[j].pair.account] = "off"] /\ job' = [job EXCEPT ![j] = Idle]
      BY <1>1 DEF TurnOff, Set
    <2> QED BY <1>0, <1>1, <2>1, IdleJob, AccountsWritten DEF TurnOff, Up
  <1>2. CASE Hide(j)
    <2>1. PICK c \in Account, d \in Package : c = job[j].pair.account /\ d = job[j].pair.package
      BY <1>2 DEF RInv, JobsSound, JobSound, Hide, Pair
    <2>2. pack' = [pack EXCEPT ![c] = [pack[c] EXCEPT ![d] = "off"]]
      BY <1>2, <2>1 DEF Hide
    <2>3. [pack[c] EXCEPT ![d] = "off"] \in [Package -> {"absent", "on", "off"}]
      BY <1>0
    <2>4. pack' \in [Account -> [Package -> {"absent", "on", "off"}]] /\ job' = [job EXCEPT ![j] = Idle]
      BY <1>0, <1>2, <2>2, <2>3 DEF Hide, Set
    <2> QED BY <1>2, <2>4, IdleJob, AccountsWritten DEF Hide, Up
  <1>3. CASE CheckOff(j, a)
    <2>1. PICK q \in Package : Set(j, [Idle EXCEPT !.pc = "off", !.pair = [account |-> a, package |-> q]])
      BY <1>3 DEF CheckOff
    <2>2. PICK new : new = [Idle EXCEPT !.pc = "off", !.pair = [account |-> a, package |-> q]]
      OBVIOUS
    <2>3. new \in JobRow /\ new.pc = "off" /\ new.pair \in Pair
      BY <2>2 DEF Idle, JobRow, Pairs, Pair
    <2>4. job' = [job EXCEPT ![j] = new] /\ UNCHANGED <<acct, pack>>
      BY <1>3, <2>1, <2>2 DEF Set, CheckOff
    <2> QED BY <1>0, <1>3, <2>3, <2>4, AccountsWritten DEF CheckOff, Up
  <1>4. CASE CheckHide(j, a, k)
    <2>1. PICK new : new = [Idle EXCEPT !.pc = "hide", !.pair = [account |-> a, package |-> k]]
      OBVIOUS
    <2>2. new \in JobRow /\ new.pc = "hide" /\ new.pair \in Pair
      BY <2>1 DEF Idle, JobRow, Pairs, Pair
    <2>3. job' = [job EXCEPT ![j] = new] /\ UNCHANGED <<acct, pack>>
      BY <1>4, <2>1 DEF Set, CheckHide
    <2> QED BY <1>0, <1>4, <2>2, <2>3, AccountsWritten DEF CheckHide, Up
  <1> QED BY <1>1, <1>2, <1>3, <1>4

LEMMA BootStep ==
  ASSUME RInv, Start
  PROVE  RInv'
  <1>0. /\ boot = "down" /\ boot' \in {"package", "adopt"} /\ UNCHANGED <<pack, plan, sub, thing, job>>
        /\ boot' = "package" => Counted = {}
    BY DEF Start
  <1>1. acct' \in [Account -> {"absent", "on", "off"}] /\ Counted' # {}
    <2>1. CASE Counted = {}
      <3>1. acct' = [acct EXCEPT ![Env] = "on"]
        BY <2>1 DEF Start
      <3> QED BY <3>1, RoutingAssumption DEF RInv, TypeOK, Counted
    <2>2. CASE Counted # {}
      BY <2>2 DEF Start, Counted, RInv, TypeOK
    <2> QED BY <2>1, <2>2
  <1>2. TypeOK'
    BY <1>0, <1>1 DEF RInv, TypeOK, PlanRow, SubRow, ThingRow, Pairs, Pair
  <1>3. StartSound'
    BY <1>0, <1>1 DEF RInv, StartSound, Legacy, EnvPair
  <1>4. SubsSound' /\ ThingsSound'
    BY <1>0 DEF RInv, SubsSound, ThingsSound, ClientFor
  <1>5. JobsSound'
    BY <1>0, JobsKept DEF SubsKept, HomesKept, PlansKept, ClientFor
  <1> QED BY <1>2, <1>3, <1>4, <1>5 DEF RInv

LEMMA MigrateStep ==
  ASSUME RInv, MigratePackage \/ MigratePlans \/ MigrateSubs \/ MigrateThings \/ Adopt \/ Crash
  PROVE  /\ boot' \in {"down", "package", "plans", "subs", "things", "adopt", "up"}
         /\ boot' = "up" => boot = "adopt"
         /\ Counted' = Counted /\ Counted # {} /\ acct' = acct
         /\ Legacy' => Legacy
         /\ job' \in [Job -> JobRow]
         /\ \A j \in Job : (job'[j] = job[j] /\ (boot = "up" => boot' = "up")) \/ JobSound(job[j])'
  <1>1. /\ boot' \in {"down", "package", "plans", "subs", "things", "adopt", "up"}
        /\ boot' = "up" => boot = "adopt"
        /\ boot # "down" /\ Counted' = Counted /\ acct' = acct
    BY DEF MigratePackage, MigratePlans, MigrateSubs, MigrateThings, Adopt, Crash, Counted
  <1>2. Counted # {}
    BY <1>1 DEF RInv, StartSound
  <1>3. Legacy' => Legacy
    BY <1>1, <1>2 DEF Legacy, MigratePackage, MigratePlans, MigrateSubs, MigrateThings, Adopt, Crash
  <1>4. /\ job' \in [Job -> JobRow]
        /\ \A j \in Job : (job'[j] = job[j] /\ (boot = "up" => boot' = "up")) \/ JobSound(job[j])'
    <2>1. CASE Crash
      <3>1. job' = [j \in Job |-> Idle]
        BY <2>1 DEF Crash
      <3> QED BY <3>1, IdleJob DEF JobSound, Idle
    <2>2. CASE ~Crash
      BY <2>2 DEF MigratePackage, MigratePlans, MigrateSubs, MigrateThings, Adopt, RInv, TypeOK, JobRow
    <2> QED BY <2>1, <2>2
  <1> QED BY <1>1, <1>2, <1>3, <1>4

LEMMA PackageStep ==
  ASSUME RInv, MigratePackage
  PROVE  RInv'
  <1>1. /\ boot' = "plans" /\ UNCHANGED <<acct, plan, sub, thing, job>>
        /\ Counted' = Counted /\ Counted # {} /\ (Legacy' => Legacy)
    BY MigrateStep DEF MigratePackage
  <1>2. pack' \in [Account -> [Package -> {"absent", "on", "off"}]]
    <2>1. pack[Env] \in [Package -> {"absent", "on", "off"}]
      BY RoutingAssumption DEF RInv, TypeOK
    <2>2. [pack[Env] EXCEPT ![EnvPair.package] = "on"] \in [Package -> {"absent", "on", "off"}]
      BY <2>1
    <2> QED BY <2>2 DEF RInv, TypeOK, MigratePackage
  <1>3. TypeOK'
    BY <1>1, <1>2 DEF RInv, TypeOK, PlanRow, SubRow, ThingRow, Pairs, Pair
  <1>4. StartSound'
    BY <1>1 DEF RInv, StartSound, EnvPair
  <1>5. SubsSound' /\ ThingsSound'
    BY <1>1 DEF RInv, SubsSound, ThingsSound, ClientFor
  <1>6. JobsSound'
    BY <1>1, MigrateStep, JobsKept DEF SubsKept, HomesKept, PlansKept, ClientFor
  <1> QED BY <1>3, <1>4, <1>5, <1>6 DEF RInv

LEMMA PlansStep ==
  ASSUME RInv, MigratePlans
  PROVE  RInv'
  <1>1. /\ boot' = "subs" /\ UNCHANGED <<acct, pack, sub, thing, job>>
        /\ Counted' = Counted /\ Counted # {} /\ (Legacy' => Legacy)
    BY MigrateStep DEF MigratePlans
  <1>2. ASSUME NEW p \in Plan
        PROVE  IF plan[p] = None THEN plan'[p] = None
               ELSE plan'[p] \in PlanRow /\ plan'[p].pair \in {plan[p].pair, EnvPair}
    <2>1. CASE plan[p] = None
      BY <2>1 DEF MigratePlans
    <2>2. CASE plan[p] # None
      <3>1. plan[p] \in PlanRow /\ [plan[p] EXCEPT !.pair = EnvPair] \in PlanRow
            /\ [plan[p] EXCEPT !.pair = EnvPair].pair = EnvPair
        BY <2>2, RowFields, EnvPairType DEF RInv, PlanRow, Pairs
      <3>2. plan'[p] = plan[p] \/ plan'[p] = [plan[p] EXCEPT !.pair = EnvPair]
        BY DEF MigratePlans
      <3> QED BY <2>2, <3>1, <3>2
    <2> QED BY <2>1, <2>2
  <1>3. plan' \in [Plan -> {None} \cup PlanRow]
    <2>1. plan' = [p \in Plan |-> plan'[p]]
      BY DEF MigratePlans
    <2> QED BY <1>2, <2>1
  <1>4. TypeOK'
    BY <1>1, <1>3 DEF RInv, TypeOK, PlanRow, SubRow, ThingRow, Pairs, Pair
  <1>5. StartSound'
    <2>1. Legacy
      BY DEF Legacy, MigratePlans
    <2> QED BY <1>1, <1>2, <2>1 DEF RInv, StartSound, EnvPair
  <1>6. PlansKept
    BY <1>2, NoRowAssumption DEF PlansKept
  <1>7. SubsSound' /\ ThingsSound'
    <2>1. ASSUME NEW b \in Sub, sub[b] # None PROVE plan'[sub[b].plan] # None
      BY <1>6, <2>1, RowFields DEF RInv, SubsSound, SubRow, PlansKept
    <2> QED BY <1>1, <2>1 DEF RInv, SubsSound, ThingsSound, ClientFor
  <1>8. JobsSound'
    BY <1>1, <1>6, MigrateStep, JobsKept DEF SubsKept, HomesKept, ClientFor
  <1> QED BY <1>4, <1>5, <1>7, <1>8 DEF RInv

LEMMA SubsStep ==
  ASSUME RInv, MigrateSubs
  PROVE  RInv'
  <1>1. /\ boot' = "things" /\ UNCHANGED <<acct, pack, plan, thing, job>>
        /\ Counted' = Counted /\ Counted # {} /\ (Legacy' => Legacy)
    BY MigrateStep DEF MigrateSubs
  <1>2. Legacy
    BY DEF Legacy, MigrateSubs
  <1>3. ASSUME NEW b \in Sub
        PROVE  IF sub[b] = None THEN sub'[b] = None
               ELSE /\ sub'[b] \in SubRow /\ sub'[b].plan = sub[b].plan
                    /\ sub'[b].pair \in {NoPair, EnvPair} /\ sub[b].pair \in {NoPair, EnvPair}
    <2>1. CASE sub[b] = None
      BY <2>1 DEF MigrateSubs
    <2>2. CASE sub[b] # None
      <3>1. /\ sub[b] \in SubRow /\ sub[b].plan \in Plan /\ sub[b].pair \in {NoPair, EnvPair}
            /\ plan[sub[b].plan].pair \in {NoPair, EnvPair}
        BY <1>2, <2>2, RowFields DEF RInv, SubRow, StartSound, SubsSound
      <3>2. PICK pair \in {NoPair, EnvPair} : pair = plan[sub[b].plan].pair
        BY <3>1
      <3>3. /\ [sub[b] EXCEPT !.pair = pair] \in SubRow
            /\ [sub[b] EXCEPT !.pair = pair].plan = sub[b].plan
            /\ [sub[b] EXCEPT !.pair = pair].pair = pair
        BY <3>1, EnvPairType DEF SubRow, Pairs
      <3>4. sub'[b] = sub[b] \/ sub'[b] = [sub[b] EXCEPT !.pair = pair]
        BY <3>2 DEF MigrateSubs
      <3> QED BY <2>2, <3>1, <3>2, <3>3, <3>4
    <2> QED BY <2>1, <2>2
  <1>4. sub' \in [Sub -> {None} \cup SubRow]
    <2>1. sub' = [b \in Sub |-> sub'[b]]
      BY DEF MigrateSubs
    <2> QED BY <1>3, <2>1
  <1>5. TypeOK'
    BY <1>1, <1>4 DEF RInv, TypeOK, PlanRow, SubRow, ThingRow, Pairs, Pair
  <1>6. StartSound'
    BY <1>1, <1>2, <1>3 DEF RInv, StartSound, EnvPair
  <1>7. SubsKept
    <2>1. ClientFor(NoPair.account) = Env /\ ClientFor(EnvPair.account) = Env
      BY EnvPairType DEF ClientFor
    <2> QED BY <1>3, <2>1, NoRowAssumption DEF SubsKept
  <1>8. SubsSound' /\ ThingsSound'
    <2>1. SubsSound'
      BY <1>1, <1>3 DEF RInv, SubsSound
    <2>2. ThingsSound'
      BY <1>1, <1>7 DEF RInv, ThingsSound, SubsKept, ClientFor
    <2> QED BY <2>1, <2>2
  <1>9. JobsSound'
    BY <1>1, <1>7, MigrateStep, JobsKept DEF HomesKept, PlansKept
  <1> QED BY <1>5, <1>6, <1>8, <1>9 DEF RInv

(* Things that have no account take their subscription's, which is where    *)
(* they are.                                                                *)
LEMMA AccountGiven ==
  ASSUME RInv, NEW x \in Thing, thing[x] # None
  PROVE  LET a == sub[thing[x].sub].pair.account
             r == [thing[x] EXCEPT !.account = a]
         IN /\ thing[x] \in ThingRow /\ thing[x].sub \in Sub /\ thing[x].sub # 0
            /\ sub[thing[x].sub] # None
            /\ r \in ThingRow /\ r.sub = thing[x].sub /\ r.home = thing[x].home
            /\ ClientFor(r.account) = thing[x].home
  <1>1. /\ thing[x] \in ThingRow /\ thing[x].sub \in Sub /\ sub[thing[x].sub] # None
        /\ ClientFor(sub[thing[x].sub].pair.account) = thing[x].home
    BY RowFields DEF RInv, ThingsSound
  <1>2. sub[thing[x].sub].pair.account \in Account \cup {None}
    BY <1>1, RowFields DEF RInv, SubRow, Pairs, Pair, NoPair
  <1>3. PICK a \in Account \cup {None} : a = sub[thing[x].sub].pair.account
    BY <1>2
  <1>4. /\ [thing[x] EXCEPT !.account = a] \in ThingRow
        /\ [thing[x] EXCEPT !.account = a].sub = thing[x].sub
        /\ [thing[x] EXCEPT !.account = a].home = thing[x].home
        /\ [thing[x] EXCEPT !.account = a].account = a
    BY <1>1 DEF ThingRow
  <1>5. thing[x].sub # 0
    BY <1>1, RoutingAssumption
  <1> QED BY <1>1, <1>3, <1>4, <1>5

LEMMA ThingsKept ==
  ASSUME RInv, sub' = sub, plan' = plan,
         thing' = [x \in Thing |-> thing'[x]],
         \A x \in Thing : IF thing[x] = None THEN thing'[x] = None
                          ELSE /\ thing'[x] \in ThingRow /\ thing'[x].home = thing[x].home
                               /\ thing'[x].sub = thing[x].sub
                               /\ ClientFor(thing'[x].account) = thing[x].home
  PROVE  /\ thing' \in [Thing -> {None} \cup ThingRow] /\ ThingsSound' /\ SubsSound'
         /\ HomesKept /\ SubsKept /\ PlansKept
  <1>1. thing' \in [Thing -> {None} \cup ThingRow]
    OBVIOUS
  <1>2. ThingsSound' /\ SubsSound'
    BY DEF RInv, ThingsSound, SubsSound, ClientFor
  <1>3. HomesKept /\ SubsKept /\ PlansKept
    BY NoRowAssumption DEF HomesKept, SubsKept, PlansKept, ClientFor
  <1> QED BY <1>1, <1>2, <1>3

LEMMA ThingsStep ==
  ASSUME RInv, MigrateThings \/ Adopt
  PROVE  RInv'
  <1>1. /\ boot' \in {"adopt", "up"} /\ boot # "down" /\ boot # "up" /\ UNCHANGED <<acct, pack, plan, sub, job>>
        /\ Counted' = Counted /\ Counted # {} /\ ~Legacy'
    BY MigrateStep DEF MigrateThings, Adopt, Legacy
  <1>2. ASSUME NEW x \in Thing
        PROVE  IF thing[x] = None THEN thing'[x] = None
               ELSE thing'[x] = thing[x] \/ thing'[x] = [thing[x] EXCEPT !.account = sub[thing[x].sub].pair.account]
    <2>1. CASE MigrateThings
      BY <2>1, AccountGiven DEF MigrateThings, PairOf
    <2>2. CASE Adopt
      <3>1. CASE thing' = thing
        BY <3>1
      <3>2. CASE thing' # thing
        <4>0. PICK b : b = CHOOSE c \in Live : \A d \in Live : d <= c
          OBVIOUS
        <4>1. thing' = [y \in Thing |->
                 IF thing[y] = None THEN None
                 ELSE IF thing[y].sub \notin {0, b} THEN thing[y]
                 ELSE [thing[y] EXCEPT !.sub = b, !.account = IF @ = None THEN sub[b].pair.account ELSE @]]
          BY <2>2, <3>2, <4>0 DEF Adopt
        <4>2. CASE thing[x] = None
          BY <4>1, <4>2
        <4>3. CASE thing[x] # None
          <5>1. thing[x] \in ThingRow /\ thing[x].sub # 0
            BY <4>3, AccountGiven
          <5>2. CASE thing[x].sub # b
            BY <4>1, <4>3, <5>1, <5>2
          <5>3. CASE thing[x].sub = b
            <6>1. thing'[x] = [thing[x] EXCEPT !.sub = b, !.account = IF @ = None THEN sub[b].pair.account ELSE @]
              BY <4>1, <4>3, <5>3
            <6>2. CASE thing[x].account = None
              BY <4>3, <5>1, <5>3, <6>1, <6>2 DEF ThingRow
            <6>3. CASE thing[x].account # None
              BY <4>3, <5>1, <5>3, <6>1, <6>3 DEF ThingRow
            <6> QED BY <6>2, <6>3
          <5> QED BY <5>2, <5>3
        <4> QED BY <4>2, <4>3
      <3> QED BY <3>1, <3>2
    <2> QED BY <2>1, <2>2
  <1>3. thing' = [x \in Thing |-> thing'[x]]
    BY DEF MigrateThings, Adopt, RInv, TypeOK
  <1>4. ASSUME NEW x \in Thing
        PROVE  IF thing[x] = None THEN thing'[x] = None
               ELSE /\ thing'[x] \in ThingRow /\ thing'[x].home = thing[x].home
                    /\ thing'[x].sub = thing[x].sub
                    /\ ClientFor(thing'[x].account) = thing[x].home
    BY <1>2, AccountGiven DEF RInv, ThingsSound
  <1>5. /\ thing' \in [Thing -> {None} \cup ThingRow] /\ ThingsSound' /\ SubsSound'
        /\ HomesKept /\ SubsKept /\ PlansKept
    BY <1>1, <1>3, <1>4, ThingsKept
  <1>6. TypeOK'
    BY <1>1, <1>5 DEF RInv, TypeOK, PlanRow, SubRow, ThingRow, Pairs, Pair
  <1>7. StartSound'
    BY <1>1 DEF StartSound
  <1>8. JobsSound'
    BY <1>1, <1>5, JobsKept
  <1> QED BY <1>5, <1>6, <1>7, <1>8 DEF RInv

LEMMA CrashStep ==
  ASSUME RInv, Crash
  PROVE  RInv'
  <1>1. /\ boot' = "down" /\ UNCHANGED <<acct, pack, plan, sub, thing>>
        /\ Counted' = Counted /\ Counted # {} /\ (Legacy' => Legacy) /\ job' \in [Job -> JobRow]
    BY MigrateStep DEF Crash
  <1>2. TypeOK'
    BY <1>1 DEF RInv, TypeOK, JobRow, PlanRow, SubRow, ThingRow, Pairs, Pair
  <1>3. StartSound'
    BY <1>1 DEF RInv, StartSound, EnvPair
  <1>4. SubsSound' /\ ThingsSound'
    BY <1>1 DEF RInv, SubsSound, ThingsSound, ClientFor
  <1>5. JobsSound'
    BY <1>1, MigrateStep, JobsKept DEF SubsKept, HomesKept, PlansKept, ClientFor
  <1> QED BY <1>2, <1>3, <1>4, <1>5 DEF RInv

-----------------------------------------------------------------------------
(* A step of a request that writes no row, one that writes plans, one that *)
(* writes subscriptions and one that writes things.                        *)
LEMMA JobSet ==
  ASSUME RInv, NEW j \in Job, NEW new \in JobRow, job' = [job EXCEPT ![j] = new],
         boot = "up", boot' = boot, SubsKept, HomesKept, PlansKept, JobSound(new)'
  PROVE  job' \in [Job -> JobRow] /\ JobsSound'
  <1>1. job' \in [Job -> JobRow] /\ job'[j] = new /\ \A i \in Job \ {j} : job'[i] = job[i]
    BY DEF RInv, TypeOK, JobRow
  <1>2. JobSound(job[j])'
    BY <1>1 DEF JobSound, ClientFor
  <1> QED BY <1>1, <1>2, JobsKept

LEMMA CheckSteps ==
  ASSUME RInv, NEW j \in Job, NEW p \in Plan, NEW pair \in Pairs,
         CheckPlan(j, p, pair) \/ CheckPurchase(j, p) \/ CheckAssignment(j, p)
  PROVE  RInv'
  <1>1. boot = "up" /\ UNCHANGED <<acct, pack, plan, sub, thing, boot>>
    BY DEF CheckPlan, CheckPurchase, CheckAssignment, Up
  <1>2. SubsKept /\ HomesKept /\ PlansKept
    BY <1>1 DEF SubsKept, HomesKept, PlansKept, ClientFor
  <1>3. PICK new \in JobRow : job' = [job EXCEPT ![j] = new] /\ JobSound(new)'
    <2>1. CASE CheckPlan(j, p, pair)
      <3>1. PICK new : new = [Idle EXCEPT !.pc = "save", !.plan = p, !.pair = pair]
        OBVIOUS
      <3>2. new \in JobRow /\ new.pc = "save" /\ new.plan = p
        BY <3>1 DEF Idle, JobRow
      <3> QED BY <1>1, <2>1, <3>1, <3>2 DEF CheckPlan, Set, JobSound
    <2>2. CASE CheckPurchase(j, p) \/ CheckAssignment(j, p)
      <3>1. plan[p] # None /\ plan[p].pair \in Pairs
        BY <2>2, RowFields DEF CheckPurchase, CheckAssignment, RInv, PlanRow
      <3>2. PICK new : new = [Idle EXCEPT !.pc = "buy", !.plan = p, !.pair = plan[p].pair]
        OBVIOUS
      <3>3. new \in JobRow /\ new.pc = "buy" /\ new.plan = p
        BY <3>1, <3>2 DEF Idle, JobRow
      <3> QED BY <1>1, <2>2, <3>1, <3>2, <3>3 DEF CheckPurchase, CheckAssignment, Set, JobSound
    <2> QED BY <2>1, <2>2
  <1>4. job' \in [Job -> JobRow] /\ JobsSound'
    BY <1>1, <1>2, <1>3, JobSet
  <1>5. TypeOK'
    BY <1>1, <1>4 DEF RInv, TypeOK, JobRow, PlanRow, SubRow, ThingRow, Pairs, Pair
  <1>6. StartSound' /\ SubsSound' /\ ThingsSound'
    BY <1>1 DEF RInv, StartSound, Legacy, Counted, EnvPair, SubsSound, ThingsSound, ClientFor
  <1> QED BY <1>4, <1>5, <1>6 DEF RInv

LEMMA CheckMoveStep ==
  ASSUME RInv, NEW j \in Job, NEW x \in Thing, NEW b \in Sub, CheckMove(j, x, b)
  PROVE  RInv'
  <1>1. boot = "up" /\ UNCHANGED <<acct, pack, plan, sub, thing, boot>>
    BY DEF CheckMove, Up
  <1>2. SubsKept /\ HomesKept /\ PlansKept
    BY <1>1 DEF SubsKept, HomesKept, PlansKept, ClientFor
  <1>3. PICK new : new = [Idle EXCEPT !.pc = "move", !.thing = x, !.sub = b]
    OBVIOUS
  <1>4. new \in JobRow /\ new.pc = "move" /\ new.thing = x /\ new.sub = b
    BY <1>3 DEF Idle, JobRow, Pairs
  <1>5. thing[x] # None /\ sub[b] # None /\ ClientFor(sub[b].pair.account) = thing[x].home
    BY DEF CheckMove, SameAccount, Live, RInv, ThingsSound
  <1>6. JobSound(new)'
    BY <1>1, <1>4, <1>5 DEF JobSound, ClientFor
  <1>7. job' \in [Job -> JobRow] /\ JobsSound'
    BY <1>1, <1>2, <1>3, <1>4, <1>6, JobSet DEF CheckMove, Set
  <1>8. TypeOK'
    BY <1>1, <1>7 DEF RInv, TypeOK, JobRow, PlanRow, SubRow, ThingRow, Pairs, Pair
  <1>9. StartSound' /\ SubsSound' /\ ThingsSound'
    BY <1>1 DEF RInv, StartSound, Legacy, Counted, EnvPair, SubsSound, ThingsSound, ClientFor
  <1> QED BY <1>7, <1>8, <1>9 DEF RInv

LEMMA PlanSteps ==
  ASSUME RInv, NEW p \in Plan, NEW row1 \in PlanRow, plan' = [plan EXCEPT ![p] = row1],
         boot = "up", UNCHANGED <<acct, pack, sub, thing, boot>>,
         job' = job \/ \E j \in Job : job' = [job EXCEPT ![j] = Idle]
  PROVE  RInv'
  <1>1. plan' \in [Plan -> {None} \cup PlanRow] /\ PlansKept
    BY NoRowAssumption DEF RInv, TypeOK, PlansKept
  <1>2. SubsKept /\ HomesKept
    BY DEF SubsKept, HomesKept, ClientFor
  <1>3. job' \in [Job -> JobRow] /\ JobsSound'
    <2>1. CASE job' = job
      BY <1>1, <1>2, <2>1, JobsKept DEF RInv, TypeOK, JobRow
    <2>2. ASSUME NEW j \in Job, job' = [job EXCEPT ![j] = Idle] PROVE job' \in [Job -> JobRow] /\ JobsSound'
      BY <1>1, <1>2, <2>2, IdleJob, JobSet
    <2> QED BY <2>1, <2>2
  <1>4. TypeOK'
    BY <1>1, <1>3 DEF RInv, TypeOK, JobRow, PlanRow, SubRow, ThingRow, Pairs, Pair
  <1>5. StartSound' /\ ThingsSound'
    BY DEF RInv, StartSound, Legacy, Counted, ThingsSound, ClientFor
  <1>6. SubsSound'
    <2>1. ASSUME NEW b \in Sub, sub[b] # None PROVE plan'[sub[b].plan] # None
      BY <1>1, <2>1, RowFields DEF RInv, SubsSound, SubRow, PlansKept
    <2> QED BY <2>1 DEF SubsSound
  <1> QED BY <1>3, <1>4, <1>5, <1>6 DEF RInv

LEMMA SavePlanStep ==
  ASSUME RInv, NEW j \in Job, NEW on \in BOOLEAN, SavePlan(j, on)
  PROVE  RInv'
  <1>1. PICK q \in Plan : q = job[j].plan
    BY DEF RInv, JobsSound, JobSound, SavePlan
  <1>2. [on |-> on, pair |-> job[j].pair] \in PlanRow
    BY RowFields DEF RInv, JobRow, PlanRow
  <1>3. plan' = [plan EXCEPT ![q] = [on |-> on, pair |-> job[j].pair]]
    BY <1>1 DEF SavePlan
  <1> QED BY <1>2, <1>3, PlanSteps DEF SavePlan, Set, Up

LEMMA DisablePlanStep ==
  ASSUME RInv, NEW p \in Plan, DisablePlan(p)
  PROVE  RInv'
  <1>1. [plan[p] EXCEPT !.on = FALSE] \in PlanRow
    BY RowFields DEF RInv, DisablePlan, PlanRow
  <1> QED BY <1>1, PlanSteps DEF DisablePlan, Up

(* A row of a subscription is new, or keeps its pair.                      *)
LEMMA SubSteps ==
  ASSUME RInv, NEW b \in Sub, NEW row1 \in SubRow, sub' = [sub EXCEPT ![b] = row1],
         plan[row1.plan] # None, sub[b] # None => row1.pair = sub[b].pair,
         boot = "up", UNCHANGED <<acct, pack, plan, thing, boot>>,
         job' = job \/ \E j \in Job : job' = [job EXCEPT ![j] = Idle]
  PROVE  RInv'
  <1>1. sub' \in [Sub -> {None} \cup SubRow] /\ sub'[b] = row1 /\ row1 # None
        /\ \A c \in Sub \ {b} : sub'[c] = sub[c]
    BY NoRowAssumption DEF RInv, TypeOK
  <1>2. SubsKept /\ HomesKept /\ PlansKept
    BY <1>1 DEF SubsKept, HomesKept, PlansKept, ClientFor
  <1>3. job' \in [Job -> JobRow] /\ JobsSound'
    <2>1. CASE job' = job
      BY <1>2, <2>1, JobsKept DEF RInv, TypeOK, JobRow
    <2>2. ASSUME NEW j \in Job, job' = [job EXCEPT ![j] = Idle] PROVE job' \in [Job -> JobRow] /\ JobsSound'
      BY <1>2, <2>2, IdleJob, JobSet
    <2> QED BY <2>1, <2>2
  <1>4. TypeOK'
    BY <1>1, <1>3 DEF RInv, TypeOK, JobRow, PlanRow, SubRow, ThingRow, Pairs, Pair
  <1>5. StartSound'
    BY DEF RInv, StartSound, Legacy, Counted
  <1>6. ThingsSound'
    BY <1>2 DEF RInv, ThingsSound, SubsKept, ClientFor
  <1>7. SubsSound'
    BY <1>1 DEF RInv, SubsSound
  <1> QED BY <1>3, <1>4, <1>5, <1>6, <1>7 DEF RInv

LEMMA NothingWritten ==
  ASSUME RInv, boot = "up", UNCHANGED <<acct, pack, plan, sub, thing, boot>>,
         job' = job \/ \E j \in Job : job' = [job EXCEPT ![j] = Idle]
  PROVE  RInv'
  <1>1. SubsKept /\ HomesKept /\ PlansKept
    BY DEF SubsKept, HomesKept, PlansKept, ClientFor
  <1>2. job' \in [Job -> JobRow] /\ JobsSound'
    <2>1. CASE job' = job
      BY <1>1, <2>1, JobsKept DEF RInv, TypeOK, JobRow
    <2>2. ASSUME NEW j \in Job, job' = [job EXCEPT ![j] = Idle] PROVE job' \in [Job -> JobRow] /\ JobsSound'
      BY <1>1, <2>2, IdleJob, JobSet
    <2> QED BY <2>1, <2>2
  <1>3. TypeOK'
    BY <1>2 DEF RInv, TypeOK, JobRow, PlanRow, SubRow, ThingRow, Pairs, Pair
  <1>4. StartSound' /\ SubsSound' /\ ThingsSound'
    BY DEF RInv, StartSound, Legacy, Counted, EnvPair, SubsSound, ThingsSound, ClientFor
  <1> QED BY <1>2, <1>3, <1>4 DEF RInv

LEMMA BeginStep ==
  ASSUME RInv, NEW j \in Job, Begin(j)
  PROVE  RInv'
  <1>1. CASE sub' = sub
    BY <1>1, NothingWritten DEF Begin, Set, Up
  <1>2. CASE sub' # sub
    <2> DEFINE slots == {c \in Sub : sub[c] = None}
    <2>1. slots # {} /\ slots \in SUBSET Nat
      BY <1>2, RoutingAssumption DEF Begin
    <2>2. \E c \in slots : \A d \in slots : c <= d
      <3> HIDE DEF slots
      <3> QED BY <2>1, Least
    <2>3. PICK c \in slots : c = CHOOSE d \in slots : \A e \in slots : d <= e
      <3> HIDE DEF slots
      <3> QED BY <2>2
    <2>4. PICK q \in Plan : q = job[j].plan /\ plan[q] # None /\ job[j].pair \in Pairs
      BY RowFields DEF RInv, JobsSound, JobSound, JobRow, Begin
    <2>5. [live |-> TRUE, plan |-> q, pair |-> job[j].pair] \in SubRow
      BY <2>4 DEF SubRow
    <2>6. sub' = [sub EXCEPT ![c] = [live |-> TRUE, plan |-> q, pair |-> job[j].pair]]
      BY <1>2, <2>3, <2>4 DEF Begin
    <2>7. c \in Sub /\ sub[c] = None
      OBVIOUS
    <2> HIDE DEF slots
    <2> QED BY <2>4, <2>5, <2>6, <2>7, SubSteps DEF Begin, Set, Up
  <1> QED BY <1>1, <1>2

LEMMA ChangePlanStep ==
  ASSUME RInv, NEW b \in Sub, NEW p \in Plan, ChangePlan(b, p)
  PROVE  RInv'
  <1>1. sub[b] # None /\ sub[b] \in SubRow /\ plan[p] # None /\ sub[b].pair = plan[p].pair
    BY RowFields DEF RInv, ChangePlan, Live, SameMapping
  <1>2. PICK r : r = [sub[b] EXCEPT !.plan = p, !.pair = sub[b].pair]
    OBVIOUS
  <1>3. r \in SubRow /\ r.plan = p /\ r.pair = sub[b].pair
    BY <1>1, <1>2 DEF SubRow
  <1>4. sub' = [sub EXCEPT ![b] = r]
    BY <1>1, <1>2 DEF ChangePlan, RInv, TypeOK, SubRow
  <1> QED BY <1>1, <1>3, <1>4, SubSteps DEF ChangePlan, Up

LEMMA EndStep ==
  ASSUME RInv, NEW b \in Sub, End(b)
  PROVE  RInv'
  <1>1. sub[b] # None /\ sub[b] \in SubRow /\ plan[sub[b].plan] # None
    BY RowFields DEF RInv, End, Live, SubsSound
  <1>2. PICK r : r = [sub[b] EXCEPT !.live = FALSE]
    OBVIOUS
  <1>3. r \in SubRow /\ r.plan = sub[b].plan /\ r.pair = sub[b].pair
    BY <1>1, <1>2 DEF SubRow
  <1>4. sub' = [sub EXCEPT ![b] = r]
    BY <1>2 DEF End
  <1> QED BY <1>1, <1>3, <1>4, SubSteps DEF End, Up

LEMMA ThingSteps ==
  ASSUME RInv, NEW x \in Thing, NEW r \in ThingRow, thing' = [thing EXCEPT ![x] = r],
         r.sub \in Sub, sub[r.sub] # None, ClientFor(r.account) = r.home,
         ClientFor(sub[r.sub].pair.account) = r.home,
         thing[x] # None => r.home = thing[x].home,
         boot = "up", UNCHANGED <<acct, pack, plan, sub, boot>>,
         job' = job \/ \E j \in Job : job' = [job EXCEPT ![j] = Idle]
  PROVE  RInv'
  <1>1. thing' \in [Thing -> {None} \cup ThingRow] /\ thing'[x] = r /\ r # None
        /\ \A y \in Thing \ {x} : thing'[y] = thing[y]
    BY NoRowAssumption DEF RInv, TypeOK
  <1>2. SubsKept /\ HomesKept /\ PlansKept
    BY <1>1 DEF SubsKept, HomesKept, PlansKept, ClientFor
  <1>3. job' \in [Job -> JobRow] /\ JobsSound'
    <2>1. CASE job' = job
      BY <1>2, <2>1, JobsKept DEF RInv, TypeOK, JobRow
    <2>2. ASSUME NEW j \in Job, job' = [job EXCEPT ![j] = Idle] PROVE job' \in [Job -> JobRow] /\ JobsSound'
      BY <1>2, <2>2, IdleJob, JobSet
    <2> QED BY <2>1, <2>2
  <1>4. TypeOK'
    BY <1>1, <1>3 DEF RInv, TypeOK, JobRow, PlanRow, SubRow, ThingRow, Pairs, Pair
  <1>5. StartSound' /\ SubsSound'
    BY DEF RInv, StartSound, Legacy, Counted, SubsSound, EnvPair
  <1>6. ThingsSound'
    BY <1>1 DEF RInv, ThingsSound, ClientFor
  <1> QED BY <1>3, <1>4, <1>5, <1>6 DEF RInv

LEMMA CreateStep ==
  ASSUME RInv, NEW x \in Thing, NEW b \in Sub, Create(x, b)
  PROVE  RInv'
  <1>1. thing[x] = None /\ sub[b] # None
    BY DEF Create, Live
  <1>2. PICK a \in Account \cup {None} : a = sub[b].pair.account
    BY <1>1, RowFields DEF RInv, SubRow, Pairs, Pair, NoPair
  <1>3. ClientFor(a) \in Account
    BY RoutingAssumption DEF ClientFor
  <1>4. PICK r : r = [account |-> a, sub |-> b, home |-> ClientFor(a)]
    OBVIOUS
  <1>5. r \in ThingRow /\ r.account = a /\ r.sub = b /\ r.home = ClientFor(a)
    BY <1>3, <1>4 DEF ThingRow
  <1>6. thing' = [thing EXCEPT ![x] = r]
    BY <1>2, <1>4 DEF Create
  <1> QED BY <1>1, <1>2, <1>5, <1>6, ThingSteps DEF Create, Up

LEMMA MoveStep ==
  ASSUME RInv, NEW j \in Job, Move(j)
  PROVE  RInv'
  <1>1. CASE thing' = thing
    BY <1>1, NothingWritten DEF Move, Set, Up
  <1>2. CASE thing' # thing
    <2>1. PICK y \in Thing, c \in Sub :
            /\ y = job[j].thing /\ c = job[j].sub /\ thing[y] # None /\ sub[c] # None
            /\ ClientFor(sub[c].pair.account) = thing[y].home
      BY DEF RInv, JobsSound, JobSound, Move
    <2>2. thing[y] \in ThingRow /\ ClientFor(thing[y].account) = thing[y].home
      BY <2>1, RowFields DEF RInv, ThingsSound
    <2>3. PICK r : r = [thing[y] EXCEPT !.sub = c]
      OBVIOUS
    <2>4. r \in ThingRow /\ r.sub = c /\ r.account = thing[y].account /\ r.home = thing[y].home
      BY <2>2, <2>3 DEF ThingRow
    <2>5. thing' = [thing EXCEPT ![y] = r]
      BY <1>2, <2>1, <2>3 DEF Move
    <2> QED BY <2>1, <2>2, <2>4, <2>5, ThingSteps DEF Move, Set, Up
  <1> QED BY <1>1, <1>2

LEMMA RoutingBegin ==
  ASSUME ~Orphan, Init
  PROVE  RInv
  <1>1. /\ pack \in [Account -> [Package -> {"absent", "on", "off"}]] /\ boot = "down"
        /\ job \in [Job -> JobRow] /\ \A j \in Job : job[j] = Idle
    BY IdleJob DEF Init
  <1>2. CASE /\ acct = [a \in Account |-> "on"]
             /\ plan = [p \in Plan |-> None] /\ sub = [b \in Sub |-> None] /\ thing = [x \in Thing |-> None]
    <2>1. TypeOK
      BY <1>1, <1>2 DEF TypeOK, JobRow
    <2>2. StartSound /\ SubsSound /\ ThingsSound
      BY <1>1, <1>2 DEF StartSound, SubsSound, ThingsSound
    <2> QED BY <1>1, <2>1, <2>2, IdleJob DEF RInv, JobsSound
  <1>3. ASSUME NEW p \in Plan, NEW x \in Thing,
               acct = [a \in Account |-> "absent"],
               plan = [q \in Plan |-> IF q = p THEN [on |-> TRUE, pair |-> NoPair] ELSE None],
               sub = [c \in Sub |-> IF c = 1 THEN [live |-> TRUE, plan |-> p, pair |-> NoPair] ELSE None],
               thing = [y \in Thing |-> IF y = x THEN [account |-> None, sub |-> 1, home |-> Env] ELSE None]
        PROVE  RInv
    <2>1. /\ [on |-> TRUE, pair |-> NoPair] \in PlanRow
          /\ [live |-> TRUE, plan |-> p, pair |-> NoPair] \in SubRow
          /\ [account |-> None, sub |-> 1, home |-> Env] \in ThingRow
      BY RoutingAssumption DEF PlanRow, SubRow, ThingRow, Pairs
    <2>2. TypeOK
      BY <1>1, <1>3, <2>1 DEF TypeOK, JobRow
    <2>3. StartSound
      BY <1>1, <1>3 DEF StartSound
    <2>4. SubsSound
      BY <1>3, <2>1, NoRowAssumption DEF SubsSound
    <2>5. ThingsSound
      BY <1>3, <2>1, RoutingAssumption, NoRowAssumption, EnvPairType DEF ThingsSound, ClientFor
    <2> QED BY <1>1, <2>2, <2>3, <2>4, <2>5, IdleJob DEF RInv, JobsSound
  <1>4. CASE \E p \in Plan, x \in Thing, b \in {1} \cup (IF Orphan THEN {0} ELSE {}) :
          /\ acct = [a \in Account |-> "absent"]
          /\ plan = [q \in Plan |-> IF q = p THEN [on |-> TRUE, pair |-> NoPair] ELSE None]
          /\ sub = [c \in Sub |-> IF c = 1 /\ b = 1 THEN [live |-> TRUE, plan |-> p, pair |-> NoPair] ELSE None]
          /\ thing = [y \in Thing |-> IF y = x THEN [account |-> None, sub |-> b, home |-> Env] ELSE None]
    BY <1>3, <1>4
  <1> QED BY <1>2, <1>4 DEF Init

LEMMA RoutingNext ==
  ASSUME RInv, Next \/ UNCHANGED vars
  PROVE  RInv'
  <1>1. CASE UNCHANGED vars
    BY <1>1 DEF vars, RInv, TypeOK, StartSound, Legacy, Counted, SubsSound, ThingsSound, JobsSound, JobSound,
                ClientFor, PlanRow, SubRow, ThingRow, Pairs, Pair
  <1>2. CASE Start \/ MigratePackage \/ MigratePlans \/ MigrateSubs \/ MigrateThings \/ Adopt \/ Crash
    BY <1>2, BootStep, PackageStep, PlansStep, SubsStep, ThingsStep, CrashStep
  <1>3. ASSUME NEW a \in Account, TurnOn(a) \/ \E held \in SUBSET Package : Sync(a, held)
        PROVE  RInv'
    BY <1>3, AccountSteps
  <1>4. ASSUME NEW j \in Job,
               \/ \E a \in Account : CheckOff(j, a) \/ \E k \in Package : CheckHide(j, a, k)
               \/ TurnOff(j) \/ Hide(j)
        PROVE  RInv'
    BY <1>4, SwitchSteps, RoutingAssumption
  <1>5. ASSUME NEW j \in Job, NEW p \in Plan,
               CheckPurchase(j, p) \/ CheckAssignment(j, p) \/ \E pair \in Pairs : CheckPlan(j, p, pair)
        PROVE  RInv'
    <2>1. NoPair \in Pairs
      BY DEF Pairs
    <2> QED BY <1>5, <2>1, CheckSteps
  <1>6. ASSUME NEW j \in Job,
               \/ Begin(j) \/ Move(j) \/ \E on \in BOOLEAN : SavePlan(j, on)
               \/ \E x \in Thing, b \in Sub : CheckMove(j, x, b)
        PROVE  RInv'
    BY <1>6, BeginStep, MoveStep, SavePlanStep, CheckMoveStep
  <1>7. ASSUME NEW p \in Plan, DisablePlan(p) \/ \E b \in Sub : ChangePlan(b, p)
        PROVE  RInv'
    BY <1>7, DisablePlanStep, ChangePlanStep
  <1>8. ASSUME NEW b \in Sub, End(b) \/ \E x \in Thing : Create(x, b)
        PROVE  RInv'
    BY <1>8, EndStep, CreateStep
  <1> QED BY <1>1, <1>2, <1>3, <1>4, <1>5, <1>6, <1>7, <1>8 DEF Next

-----------------------------------------------------------------------------
(* The types of module Upstreams, with the shape of what a process keeps.  *)
TaskRec ==
  [pc : {"idle", "ask", "take", "use", "write"}, proc : Proc \cup {None}, probe : BOOLEAN,
   account : Watched \cup {None}, package : Package \cup {None}, row : U!Rows \cup {None},
   client : U!Clients \cup {None}, ok : BOOLEAN, failed : 0..3, streak : 0..3]

ClientKey == Watched \X (0..MaxTime) \X (Package \cup {None})

ClientTyped == U!TypeOK /\ DOMAIN clients = Proc /\ clients = [p \in Proc |-> clients[p]]

Reading(w) == w.pc \in {"take", "use"}

(* A client that is kept: its name says whose it is, and what it was built *)
(* from is the row as it stands, or an earlier one.                        *)
KeptSound ==
  \A p \in Proc : \A key \in DOMAIN clients[p] :
    /\ key \in ClientKey
    /\ clients[p][key].account = key[1] /\ clients[p][key].package = key[3]
    /\ key[2] <= row[key[1]].stamp
    /\ key[2] = row[key[1]].stamp => clients[p][key].secret = row[key[1]].secret

(* The row that a task has read: as it stands, or earlier; the clients of  *)
(* that second have its credentials.                                       *)
ReadSound(w) ==
  Reading(w) =>
    /\ w.row \in U!Rows
    /\ w.row.stamp <= row[w.account].stamp
    /\ w.row.stamp = row[w.account].stamp => w.row.secret = row[w.account].secret
    /\ \A p \in Proc : \A key \in DOMAIN clients[p] :
         key[1] = w.account /\ key[2] = w.row.stamp => clients[p][key].secret = w.row.secret

TaskSound(w) ==
  /\ w.pc # "idle" => w.proc \in Proc /\ w.account \in Watched
  /\ w.client # None => /\ Reading(w) /\ w.client.secret = w.row.secret
                        /\ w.client.account = w.account /\ w.client.package = w.package
  /\ w.failed = w.streak
  /\ ReadSound(w)

TasksSound ==
  /\ \A t \in Task : TaskSound(task[t])
  /\ \A t, v \in Task :
       Reading(task[t]) /\ Reading(task[v]) /\ task[t].account = task[v].account
         /\ task[t].row.stamp = task[v].row.stamp => task[t].row.secret = task[v].row.secret

RowsDated == \A a \in Watched : row[a].stamp <= now

EditsSound ==
  \A p \in Proc : edit[p].pc = "save" => edit[p].account \in Watched /\ edit[p].secret \in 1..MaxSecret

CInv == ClientTyped /\ KeptSound /\ TasksSound /\ RowsDated /\ EditsSound /\ failures = streak

-----------------------------------------------------------------------------
LEMMA TaskType ==
  ASSUME ClientTyped, NEW t \in Task
  PROVE  task[t] \in TaskRec
  BY DEF ClientTyped, U!TypeOK, TaskRec

LEMMA RowType ==
  ASSUME ClientTyped, NEW a \in Watched
  PROVE  /\ row[a] \in U!Rows /\ row[a].secret \in 1..MaxSecret /\ row[a].stamp \in 0..MaxTime
         /\ row[a].stamp \in Nat /\ now \in Nat /\ now \in 0..MaxTime
  BY ClientsAssumption DEF ClientTyped, U!TypeOK, U!Rows

LEMMA IdleTask ==
  /\ U!Idle \in TaskRec /\ TaskSound(U!Idle) /\ ~Reading(U!Idle)
  BY DEF U!Idle, TaskRec, TaskSound, Reading, ReadSound

(* A step that changes one task, and neither rows nor clients.             *)
LEMMA OneTask ==
  ASSUME CInv, NEW t \in Task, NEW new \in TaskRec, task' = [task EXCEPT ![t] = new], TaskSound(new),
         \A v \in Task \ {t} :
           Reading(new) /\ Reading(task[v]) /\ new.account = task[v].account
             /\ new.row.stamp = task[v].row.stamp => new.row.secret = task[v].row.secret,
         row' = row, clients' = clients, now' = now, edit' = edit,
         failures' = streak', failures' \in [Proc -> [Watched -> 0..3]]
  PROVE  CInv'
  <1>1. task' \in [Task -> TaskRec] /\ task'[t] = new /\ \A v \in Task \ {t} : task'[v] = task[v]
    BY DEF CInv, ClientTyped, U!TypeOK, TaskRec
  <1>2. ClientTyped'
    BY <1>1 DEF CInv, ClientTyped, U!TypeOK, TaskRec, U!Rows, U!Clients
  <1>3. KeptSound' /\ RowsDated' /\ EditsSound'
    BY DEF CInv, KeptSound, RowsDated, EditsSound
  <1>4. \A w : TaskSound(w)' <=> TaskSound(w)
    BY DEF TaskSound, ReadSound, Reading, U!Rows
  <1>5. TasksSound'
    <2>1. \A v \in Task : TaskSound(task'[v])
      BY <1>1 DEF CInv, TasksSound
    <2>2. ASSUME NEW u \in Task, NEW v \in Task,
                 Reading(task'[u]), Reading(task'[v]), task'[u].account = task'[v].account,
                 task'[u].row.stamp = task'[v].row.stamp
          PROVE  task'[u].row.secret = task'[v].row.secret
      <3>1. CASE u # t /\ v # t
        BY <1>1, <2>2, <3>1 DEF CInv, TasksSound
      <3>2. CASE u = t \/ v = t
        BY <1>1, <2>2, <3>2
      <3> QED BY <3>1, <3>2
    <2> QED BY <1>4, <2>1, <2>2 DEF TasksSound, TaskSound, ReadSound, Reading, U!Rows
  <1> QED BY <1>2, <1>3, <1>5 DEF CInv

LEMMA CountedType ==
  ASSUME NEW n \in 0..3, NEW ok \in BOOLEAN
  PROVE  /\ U!Counted(n, ok) = IF ok THEN 0 ELSE U!Least(n + 1, 3)
         /\ U!Counted(n, ok) \in 0..3
  BY DEF U!Counted, U!Least

(* A probe that has learnt something.                                      *)
LEMMA LearnStep ==
  ASSUME CInv, NEW t \in Task, task[t].pc # "idle", NEW ok \in BOOLEAN, U!Learn(t, task[t], ok),
         row' = row, clients' = clients, now' = now, edit' = edit
  PROVE  CInv'
  <1> DEFINE w == task[t]
             n == failures'[w.proc][w.account]
             s == streak'[w.proc][w.account]
  <1>1. w \in TaskRec /\ w.proc \in Proc /\ w.account \in Watched
    BY TaskType DEF CInv, TasksSound, TaskSound
  <1>2. failures \in [Proc -> [Watched -> 0..3]] /\ failures = streak
    BY DEF CInv, ClientTyped, U!TypeOK
  <1>3. failures' = streak' /\ failures' \in [Proc -> [Watched -> 0..3]]
    <2>1. failures[w.proc][w.account] \in 0..3
      BY <1>1, <1>2
    <2>2. streak' = failures'
      BY <1>2 DEF U!Learn, U!Counted
    <2>3. failures' = [failures EXCEPT ![w.proc] = [failures[w.proc] EXCEPT ![w.account] = U!Counted(failures[w.proc][w.account], ok)]]
      BY <1>2 DEF U!Learn
    <2> QED BY <1>1, <1>2, <2>1, <2>2, <2>3, CountedType
  <1>4. n = s /\ n \in 0..3
    BY <1>1, <1>3
  <1>5. PICK new : new = [w EXCEPT !.pc = "write", !.ok = ok, !.row = None, !.client = None,
                                   !.failed = n, !.streak = s]
    OBVIOUS
  <1>6. task' = [task EXCEPT ![t] = new]
    BY <1>5 DEF U!Learn, U!Set
  <1>7. new \in TaskRec /\ ~Reading(new) /\ new.pc = "write" /\ new.proc = w.proc /\ new.account = w.account
        /\ new.client = None /\ new.failed = new.streak
    <2> HIDE DEF n, s
    <2> QED BY <1>1, <1>4, <1>5 DEF TaskRec, Reading
  <1>8. TaskSound(new)
    BY <1>1, <1>7 DEF TaskSound, ReadSound
  <1> QED BY <1>3, <1>6, <1>7, <1>8, OneTask

LEMMA StartStep ==
  ASSUME CInv, NEW t \in Task, NEW p \in Proc, NEW a \in Watched, NEW k \in Package, U!Start(t, p, a, k)
  PROVE  CInv'
  <1>1. failures' = streak' /\ failures' \in [Proc -> [Watched -> 0..3]]
        /\ row' = row /\ clients' = clients /\ now' = now /\ edit' = edit
    BY DEF CInv, ClientTyped, U!TypeOK, U!Start
  <1>2. PICK new : new = [U!Idle EXCEPT !.pc = "ask", !.proc = p, !.account = a, !.package = k]
    OBVIOUS
  <1>3. new \in TaskRec /\ new.pc = "ask" /\ new.client = None /\ new.proc = p /\ new.account = a
        /\ new.failed = new.streak
    BY <1>2, IdleTask DEF U!Idle, TaskRec
  <1>4. TaskSound(new) /\ ~Reading(new)
    BY <1>3 DEF TaskSound, Reading, ReadSound
  <1> QED BY <1>1, <1>2, <1>3, <1>4, OneTask DEF U!Start, U!Set

LEMMA StartProbeStep ==
  ASSUME CInv, NEW t \in Task, NEW p \in Proc, NEW a \in Watched, U!StartProbe(t, p, a)
  PROVE  CInv'
  <1>1. failures' = streak' /\ failures' \in [Proc -> [Watched -> 0..3]]
        /\ row' = row /\ clients' = clients /\ now' = now /\ edit' = edit
    BY DEF CInv, ClientTyped, U!TypeOK, U!StartProbe
  <1>2. PICK new : new = [U!Idle EXCEPT !.pc = "ask", !.proc = p, !.account = a, !.probe = TRUE]
    OBVIOUS
  <1>3. new \in TaskRec /\ new.pc = "ask" /\ new.client = None /\ new.proc = p /\ new.account = a
        /\ new.failed = new.streak
    BY <1>2, IdleTask DEF U!Idle, TaskRec
  <1>4. TaskSound(new) /\ ~Reading(new)
    BY <1>3 DEF TaskSound, Reading, ReadSound
  <1> QED BY <1>1, <1>2, <1>3, <1>4, OneTask DEF U!StartProbe, U!Set

LEMMA FinishStep ==
  ASSUME CInv, NEW t \in Task, U!Finish(t)
  PROVE  CInv'
  <1>1. failures' = streak' /\ failures' \in [Proc -> [Watched -> 0..3]]
        /\ row' = row /\ clients' = clients /\ now' = now /\ edit' = edit
    BY DEF CInv, ClientTyped, U!TypeOK, U!Finish
  <1> QED BY <1>1, IdleTask, OneTask DEF U!Finish, U!Set

LEMMA AskStep ==
  ASSUME CInv, NEW t \in Task, U!Ask(t)
  PROVE  CInv'
  <1> DEFINE w == task[t]
  <1>1. failures' = streak' /\ failures' \in [Proc -> [Watched -> 0..3]]
        /\ row' = row /\ clients' = clients /\ now' = now /\ edit' = edit
    BY DEF CInv, ClientTyped, U!TypeOK, U!Ask
  <1>2. w \in TaskRec /\ w.pc = "ask" /\ w.proc \in Proc /\ w.account \in Watched
        /\ w.client = None /\ w.failed = w.streak
    BY TaskType DEF CInv, TasksSound, TaskSound, Reading, U!Ask
  <1>3. PICK new : new = [w EXCEPT !.pc = "take", !.row = row[w.account]]
    OBVIOUS
  <1>4. task' = [task EXCEPT ![t] = new]
    BY <1>3 DEF U!Ask, U!Set
  <1>5. row[w.account] \in U!Rows /\ row[w.account].stamp \in Nat
    BY <1>2, RowType DEF CInv
  <1>6. /\ new \in TaskRec /\ new.pc = "take" /\ new.proc = w.proc /\ new.account = w.account
        /\ new.row = row[w.account] /\ new.client = None /\ new.failed = new.streak
    BY <1>2, <1>3, <1>5 DEF TaskRec
  <1>7. TaskSound(new)
    BY <1>2, <1>5, <1>6 DEF TaskSound, ReadSound, Reading, CInv, KeptSound
  <1>8. ASSUME NEW v \in Task \ {t}, Reading(task[v]), new.account = task[v].account,
               new.row.stamp = task[v].row.stamp
        PROVE  new.row.secret = task[v].row.secret
    BY <1>6, <1>8 DEF CInv, TasksSound, TaskSound, ReadSound
  <1> QED BY <1>1, <1>4, <1>6, <1>7, <1>8, OneTask

LEMMA AskOffStep ==
  ASSUME CInv, NEW t \in Task, U!AskOff(t)
  PROVE  CInv'
  <1>1. CASE task[t].probe
    BY <1>1, LearnStep DEF U!AskOff
  <1>2. CASE ~task[t].probe
    <2>1. failures' = streak' /\ failures' \in [Proc -> [Watched -> 0..3]]
      BY <1>2 DEF CInv, ClientTyped, U!TypeOK, U!AskOff
    <2> QED BY <1>2, <2>1, IdleTask, OneTask DEF U!AskOff, U!Set
  <1> QED BY <1>1, <1>2

LEMMA AnswerStep ==
  ASSUME CInv, NEW t \in Task, NEW ok \in BOOLEAN, U!Answer(t, ok)
  PROVE  CInv'
  BY LearnStep DEF U!Answer

LEMMA TakeStep ==
  ASSUME CInv, NEW t \in Task, U!Take(t)
  PROVE  CInv'
  <1> DEFINE w == task[t]
  <1>1. PICK p \in Proc, a \in Watched : p = w.proc /\ a = w.account
    BY DEF CInv, TasksSound, TaskSound, U!Take
  <1>2. w \in TaskRec /\ w.pc = "take" /\ w.failed = w.streak /\ ReadSound(w) /\ w.row \in U!Rows
        /\ w.row.secret \in 1..MaxSecret /\ w.row.stamp \in 0..MaxTime
    BY TaskType DEF CInv, TasksSound, TaskSound, Reading, ReadSound, U!Take, U!Rows
  <1>3. PICK key \in ClientKey : key = U!Key(w) /\ key[1] = a /\ key[2] = w.row.stamp /\ key[3] = w.package
    <2>1. w.package \in Package \cup {None}
      BY <1>2 DEF TaskRec
    <2>2. U!Key(w) = <<a, w.row.stamp, w.package>>
      BY <1>1 DEF U!Key
    <2>3. <<a, w.row.stamp, w.package>> \in ClientKey
      BY <1>1, <1>2, <2>1 DEF ClientKey
    <2> QED BY <2>2, <2>3
  <1>4. failures' = streak' /\ failures' \in [Proc -> [Watched -> 0..3]]
        /\ row' = row /\ now' = now /\ edit' = edit
    BY DEF CInv, ClientTyped, U!TypeOK, U!Take
  <1>5. ASSUME NEW c \in U!Clients, c.secret = w.row.secret, c.account = a, c.package = w.package,
               NEW new, new = [w EXCEPT !.pc = "use", !.client = c]
        PROVE  /\ new \in TaskRec /\ TaskSound(new) /\ new.row = w.row /\ new.account = a /\ Reading(new)
               /\ \A v \in Task \ {t} :
                    Reading(task[v]) /\ new.account = task[v].account
                      /\ new.row.stamp = task[v].row.stamp => new.row.secret = task[v].row.secret
    <2>1. /\ new \in TaskRec /\ new.pc = "use" /\ new.proc = w.proc /\ new.account = a
          /\ new.row = w.row /\ new.client = c /\ new.failed = new.streak /\ new.package = w.package
      BY <1>1, <1>2, <1>5 DEF TaskRec
    <2>2. Reading(w) /\ Reading(new)
      BY <1>2, <2>1 DEF Reading
    <2>3. TaskSound(new)
      BY <1>1, <1>2, <1>5, <2>1, <2>2 DEF TaskSound, ReadSound
    <2>4. ASSUME NEW v \in Task \ {t}, Reading(task[v]), new.account = task[v].account,
                 new.row.stamp = task[v].row.stamp
          PROVE  new.row.secret = task[v].row.secret
      BY <1>1, <2>1, <2>2, <2>4 DEF CInv, TasksSound
    <2> QED BY <2>1, <2>2, <2>3, <2>4
  <1>6. CASE key \in DOMAIN clients[p]
    <2>1. PICK c \in U!Clients : c = clients[p][key]
      BY <1>6 DEF CInv, ClientTyped, U!TypeOK
    <2>2. c.account = a /\ c.package = w.package
      BY <1>3, <1>6, <2>1 DEF CInv, KeptSound
    <2>3. c.secret = w.row.secret
      BY <1>1, <1>2, <1>3, <1>6, <2>1 DEF ReadSound, Reading
    <2>4. PICK new : new = [w EXCEPT !.pc = "use", !.client = c]
      OBVIOUS
    <2>5. task' = [task EXCEPT ![t] = new] /\ clients' = clients
      BY <1>1, <1>3, <1>6, <2>1, <2>4 DEF U!Take, U!Set
    <2>6. /\ new \in TaskRec /\ TaskSound(new)
          /\ \A v \in Task \ {t} :
               Reading(task[v]) /\ new.account = task[v].account
                 /\ new.row.stamp = task[v].row.stamp => new.row.secret = task[v].row.secret
      BY <1>5, <2>2, <2>3, <2>4
    <2> QED BY <1>4, <2>5, <2>6, OneTask
  <1>7. CASE key \notin DOMAIN clients[p]
    <2>1. PICK c : c = [account |-> a, secret |-> w.row.secret, package |-> w.package]
      OBVIOUS
    <2>2. c \in U!Clients /\ c.account = a /\ c.secret = w.row.secret /\ c.package = w.package
      BY <1>2, <2>1 DEF U!Clients, TaskRec
    <2>3. PICK new : new = [w EXCEPT !.pc = "use", !.client = c]
      OBVIOUS
    <2>4. task' = [task EXCEPT ![t] = new]
          /\ clients' = [clients EXCEPT ![p] = U!Kept(clients[p], key, c)]
      BY <1>1, <1>3, <1>7, <2>1, <2>3 DEF U!Take, U!Set
    <2>5. /\ new \in TaskRec /\ TaskSound(new) /\ new.row = w.row /\ new.account = a /\ Reading(new)
          /\ \A v \in Task \ {t} :
               Reading(task[v]) /\ new.account = task[v].account
                 /\ new.row.stamp = task[v].row.stamp => new.row.secret = task[v].row.secret
      BY <1>5, <2>2, <2>3
    <2>6. DOMAIN clients = Proc /\ clients = [q \in Proc |-> clients[q]]
      BY DEF CInv, ClientTyped
    <2>7. /\ DOMAIN clients'[p] = DOMAIN clients[p] \cup {key} /\ clients'[p][key] = c
          /\ \A other \in DOMAIN clients[p] : clients'[p][other] = clients[p][other]
          /\ \A q \in Proc \ {p} : clients'[q] = clients[q]
          /\ DOMAIN clients' = Proc /\ clients' = [q \in Proc |-> clients'[q]]
      BY <1>7, <2>4, <2>6 DEF U!Kept
    <2>8. ASSUME NEW q \in Proc, NEW other \in DOMAIN clients'[q]
          PROVE  \/ q = p /\ other = key /\ clients'[q][other] = c
                 \/ other \in DOMAIN clients[q] /\ clients'[q][other] = clients[q][other]
      BY <2>7
    <2>9. task' \in [Task -> TaskRec] /\ task'[t] = new /\ \A v \in Task \ {t} : task'[v] = task[v]
      BY <2>4, <2>5 DEF CInv, ClientTyped, U!TypeOK, TaskRec
    <2>10. ClientTyped'
      BY <1>4, <2>2, <2>7, <2>8, <2>9 DEF CInv, ClientTyped, U!TypeOK, TaskRec, U!Rows, U!Clients
    <2>11. KeptSound'
      <3>1. /\ key[2] <= row[key[1]].stamp
            /\ key[2] = row[key[1]].stamp => c.secret = row[key[1]].secret
        BY <1>1, <1>2, <1>3, <2>2 DEF ReadSound, Reading
      <3> QED BY <1>3, <1>4, <2>2, <2>8, <3>1 DEF CInv, KeptSound
    <2>12. RowsDated' /\ EditsSound'
      BY <1>4 DEF CInv, RowsDated, EditsSound
    <2>13. ASSUME NEW v \in Task PROVE TaskSound(task[v])'
      <3>1. PICK x : x = task'[v]
        OBVIOUS
      <3>2. TaskSound(x)
        BY <2>5, <2>9, <3>1 DEF CInv, TasksSound
      <3>3. Reading(x) /\ x.account = a /\ x.row.stamp = w.row.stamp => x.row.secret = w.row.secret
        BY <2>5, <2>9, <3>1
      <3>4. ASSUME Reading(x), NEW q \in Proc, NEW other \in DOMAIN clients'[q],
                   other[1] = x.account, other[2] = x.row.stamp
            PROVE  clients'[q][other].secret = x.row.secret
        BY <1>3, <2>2, <2>8, <3>2, <3>3, <3>4 DEF ReadSound, TaskSound
      <3>5. ReadSound(x)'
        BY <1>4, <3>2, <3>4 DEF ReadSound, TaskSound, Reading, U!Rows
      <3>6. TaskSound(x)'
        BY <3>2, <3>5 DEF TaskSound, Reading
      <3> QED BY <3>1, <3>6 DEF TaskSound, ReadSound, Reading, U!Rows
    <2>14. ASSUME NEW u \in Task, NEW v \in Task,
                  Reading(task'[u]), Reading(task'[v]), task'[u].account = task'[v].account,
                  task'[u].row.stamp = task'[v].row.stamp
           PROVE  task'[u].row.secret = task'[v].row.secret
      <3>1. CASE u # t /\ v # t
        BY <2>9, <2>14, <3>1 DEF CInv, TasksSound
      <3>2. CASE u = t \/ v = t
        BY <2>5, <2>9, <2>14, <3>2
      <3> QED BY <3>1, <3>2
    <2>15. TasksSound'
      BY <2>13, <2>14 DEF TasksSound, Reading
    <2> QED BY <1>4, <2>10, <2>11, <2>12, <2>15 DEF CInv
  <1> QED BY <1>6, <1>7

(* The state of an account's health, which no client depends on.           *)
LEMMA WriteStep ==
  ASSUME CInv, NEW t \in Task, U!Write(t)
  PROVE  CInv'
  <1> DEFINE w == task[t]
  <1>1. w \in TaskRec /\ w.account \in Watched
    BY TaskType DEF CInv, TasksSound, TaskSound, U!Write
  <1>2. PICK h \in {None, "healthy", "unhealthy"} : row' = [row EXCEPT ![w.account].health = h]
    <2>1. row[w.account].health \in {None, "healthy", "unhealthy"}
      BY <1>1, RowType DEF CInv, U!Rows
    <2> QED BY <2>1 DEF U!Write
  <1>3. row' \in [Watched -> U!Rows] /\ \A a \in Watched : row'[a].stamp = row[a].stamp /\ row'[a].secret = row[a].secret
    <2>1. row \in [Watched -> U!Rows]
      BY DEF CInv, ClientTyped, U!TypeOK
    <2>2. /\ [row[w.account] EXCEPT !.health = h] \in U!Rows
          /\ [row[w.account] EXCEPT !.health = h].stamp = row[w.account].stamp
          /\ [row[w.account] EXCEPT !.health = h].secret = row[w.account].secret
      BY <1>1, <2>1 DEF U!Rows
    <2> QED BY <1>1, <1>2, <2>1, <2>2
  <1>4. task' \in [Task -> TaskRec] /\ task'[t] = U!Idle /\ \A v \in Task \ {t} : task'[v] = task[v]
    BY IdleTask DEF CInv, ClientTyped, U!TypeOK, TaskRec, U!Write, U!Set
  <1>5. clients' = clients /\ now' = now /\ edit' = edit /\ failures' = failures /\ streak' = streak
    BY DEF U!Write
  <1>6. ClientTyped'
    BY <1>3, <1>4, <1>5 DEF CInv, ClientTyped, U!TypeOK, TaskRec, U!Rows, U!Clients
  <1>7. KeptSound'
    BY <1>3, <1>5 DEF CInv, KeptSound, ClientKey
  <1>8. RowsDated' /\ EditsSound'
    BY <1>3, <1>5 DEF CInv, RowsDated, EditsSound
  <1>9. ASSUME NEW v \in Task PROVE TaskSound(task[v])'
    <2>1. PICK x : x = task'[v]
      OBVIOUS
    <2>2. TaskSound(x) /\ (Reading(x) => x.account \in Watched)
      BY <1>4, <2>1, IdleTask DEF CInv, TasksSound, TaskSound, Reading
    <2>3. TaskSound(x)'
      BY <1>3, <1>5, <2>2 DEF TaskSound, ReadSound, Reading, U!Rows
    <2> QED BY <2>1, <2>3 DEF TaskSound, ReadSound, Reading, U!Rows
  <1>10. ASSUME NEW u \in Task, NEW v \in Task,
                Reading(task'[u]), Reading(task'[v]), task'[u].account = task'[v].account,
                task'[u].row.stamp = task'[v].row.stamp
         PROVE  task'[u].row.secret = task'[v].row.secret
    BY <1>4, <1>10, IdleTask DEF CInv, TasksSound
  <1>11. TasksSound'
    BY <1>9, <1>10 DEF TasksSound, Reading
  <1> QED BY <1>5, <1>6, <1>7, <1>8, <1>11 DEF CInv

(* An account that is saved gets a second of its own, which no client that *)
(* is kept and no row that was read has.                                   *)
LEMMA SaveStep ==
  ASSUME Apart, CInv, NEW p \in Proc, NEW fresh \in BOOLEAN, NEW on \in BOOLEAN, U!Save(p, fresh, on)
  PROVE  CInv'
  <1>1. PICK a \in Watched : a = edit[p].account
    BY DEF CInv, EditsSound, U!Save
  <1>2. PICK x \in 1..MaxSecret :
          row' = [row EXCEPT ![a] = [row[a] EXCEPT !.secret = x, !.stamp = now, !.on = on]]
    <2>1. edit[p].secret \in 1..MaxSecret
      BY DEF CInv, EditsSound, U!Save
    <2>2. PICK x : x = IF fresh THEN row[a].secret + 1 ELSE edit[p].secret
      OBVIOUS
    <2>3. x \in 1..MaxSecret
      BY <1>1, <2>1, <2>2, RowType, ClientsAssumption DEF CInv, U!Save
    <2>4. row' = [row EXCEPT ![a].secret = x, ![a].stamp = now, ![a].on = on]
      BY <1>1, <2>2 DEF U!Save
    <2>5. row \in [Watched -> U!Rows]
      BY DEF CInv, ClientTyped, U!TypeOK
    <2> QED BY <2>3, <2>4, <2>5 DEF U!Rows
  <1>3. /\ row' \in [Watched -> U!Rows] /\ row'[a].stamp = now
        /\ \A b \in Watched \ {a} : row'[b] = row[b]
    <2>1. row \in [Watched -> U!Rows] /\ now \in 0..MaxTime
      BY DEF CInv, ClientTyped, U!TypeOK
    <2>2. /\ [row[a] EXCEPT !.secret = x, !.stamp = now, !.on = on] \in U!Rows
          /\ [row[a] EXCEPT !.secret = x, !.stamp = now, !.on = on].stamp = now
      BY <2>1 DEF U!Rows
    <2> QED BY <1>2, <2>1, <2>2
  <1>4. row[a].stamp < now /\ row[a].stamp \in Nat /\ now \in Nat
    <2>1. now # row[a].stamp
      BY <1>1 DEF U!Save
    <2> QED BY <2>1, RowType DEF CInv, RowsDated
  <1>5. /\ edit' = [edit EXCEPT ![p] = [U!NoEdit EXCEPT !.pc = "clear"]]
        /\ clients' = clients /\ now' = now /\ task' = task /\ failures' = failures /\ streak' = streak
    BY DEF U!Save
  <1>6. ClientTyped' /\ EditsSound'
    <2>1. /\ edit' \in [Proc -> [pc : {"idle", "save", "clear"}, account : Watched \cup {None}, secret : 0..MaxSecret]]
          /\ EditsSound'
      BY <1>5, ClientsAssumption DEF CInv, ClientTyped, U!TypeOK, EditsSound, U!NoEdit
    <2> QED BY <1>3, <1>5, <2>1 DEF CInv, ClientTyped, U!TypeOK, U!Rows, U!Clients
  <1>7. KeptSound'
    <2>1. ASSUME NEW q \in Proc, NEW key \in DOMAIN clients[q]
          PROVE  /\ key \in ClientKey /\ key[1] \in Watched /\ key[2] \in Nat
                 /\ clients[q][key].account = key[1] /\ clients[q][key].package = key[3]
                 /\ key[2] <= row'[key[1]].stamp
                 /\ key[2] = row'[key[1]].stamp => clients[q][key].secret = row'[key[1]].secret
      <3>1. /\ key \in ClientKey /\ key[2] <= row[key[1]].stamp
            /\ clients[q][key].account = key[1] /\ clients[q][key].package = key[3]
            /\ key[2] = row[key[1]].stamp => clients[q][key].secret = row[key[1]].secret
        BY DEF CInv, KeptSound
      <3>2. key[1] \in Watched /\ key[2] \in Nat
        BY <3>1, ClientsAssumption DEF ClientKey
      <3>3. CASE key[1] = a
        BY <1>3, <1>4, <3>1, <3>2, <3>3
      <3>4. CASE key[1] # a
        BY <1>3, <3>1, <3>2, <3>4
      <3> QED BY <3>1, <3>2, <3>3, <3>4
    <2> QED BY <1>5, <2>1 DEF KeptSound, ClientKey
  <1>8. RowsDated'
    BY <1>3, <1>4, <1>5 DEF CInv, RowsDated
  <1>9. ASSUME NEW t \in Task PROVE TaskSound(task[t])'
    <2>1. PICK w : w = task[t] /\ w = task'[t]
      BY <1>5
    <2>2. TaskSound(w) /\ (Reading(w) => w.account \in Watched)
      BY <2>1 DEF CInv, TasksSound, TaskSound, Reading
    <2>3. Reading(w) => /\ w.row.stamp \in Nat /\ w.row.stamp <= row'[w.account].stamp
                        /\ w.row.stamp = row'[w.account].stamp => w.row.secret = row'[w.account].secret
      <3>1. Reading(w) => w.row.stamp \in Nat
        BY <2>2, ClientsAssumption DEF TaskSound, ReadSound, U!Rows
      <3>2. CASE w.account = a
        BY <1>3, <1>4, <2>2, <3>1, <3>2 DEF TaskSound, ReadSound
      <3>3. CASE w.account # a
        BY <1>3, <2>2, <3>1, <3>3 DEF TaskSound, ReadSound
      <3> QED BY <3>2, <3>3
    <2>4. TaskSound(w)'
      BY <1>5, <2>2, <2>3 DEF TaskSound, ReadSound, Reading, U!Rows
    <2> QED BY <2>1, <2>4 DEF TaskSound, ReadSound, Reading, U!Rows
  <1>10. TasksSound'
    BY <1>5, <1>9 DEF CInv, TasksSound, Reading
  <1> QED BY <1>5, <1>6, <1>7, <1>8, <1>10 DEF CInv

LEMMA ReadStep ==
  ASSUME CInv, NEW p \in Proc, NEW a \in Watched, U!Read(p, a)
  PROVE  CInv'
  <1>1. row[a].secret \in 1..MaxSecret /\ row[a].secret \in 0..MaxSecret
    BY RowType DEF CInv
  <1>2. row' = row /\ task' = task /\ failures' = failures /\ streak' = streak
        /\ clients' = clients /\ now' = now
    BY DEF U!Read
  <1>3. /\ edit' \in [Proc -> [pc : {"idle", "save", "clear"}, account : Watched \cup {None}, secret : 0..MaxSecret]]
        /\ EditsSound'
    BY <1>1 DEF CInv, ClientTyped, U!TypeOK, EditsSound, U!Read
  <1>4. ClientTyped'
    BY <1>2, <1>3 DEF CInv, ClientTyped, U!TypeOK, U!Rows, U!Clients
  <1>5. KeptSound' /\ TasksSound' /\ RowsDated'
    BY <1>2 DEF CInv, KeptSound, TasksSound, TaskSound, ReadSound, Reading, ClientKey, RowsDated, U!Rows
  <1> QED BY <1>2, <1>3, <1>4, <1>5 DEF CInv

LEMMA ClearStep ==
  ASSUME CInv, NEW p \in Proc, U!Clear(p)
  PROVE  CInv'
  <1>1. row' = row /\ task' = task /\ failures' = failures /\ streak' = streak
        /\ now' = now /\ edit' = [edit EXCEPT ![p] = U!NoEdit]
    BY DEF U!Clear
  <1>2. /\ DOMAIN clients = Proc /\ clients = [q \in Proc |-> clients[q]]
        /\ clients' = [clients EXCEPT ![p] = << >>]
    BY DEF CInv, ClientTyped, U!Clear
  <1>3. /\ DOMAIN clients' = Proc /\ clients' = [q \in Proc |-> clients'[q]]
        /\ \A q \in Proc : \A key \in DOMAIN clients'[q] :
             key \in DOMAIN clients[q] /\ clients'[q][key] = clients[q][key]
    BY <1>2
  <1>4. ClientTyped' /\ EditsSound'
    <2>1. /\ edit' \in [Proc -> [pc : {"idle", "save", "clear"}, account : Watched \cup {None}, secret : 0..MaxSecret]]
          /\ EditsSound'
      BY <1>1, ClientsAssumption DEF CInv, ClientTyped, U!TypeOK, U!NoEdit, EditsSound
    <2>2. \A q \in Proc : \A key \in DOMAIN clients'[q] : clients'[q][key] \in U!Clients
      BY <1>3 DEF CInv, ClientTyped, U!TypeOK
    <2> QED BY <1>1, <1>3, <2>1, <2>2 DEF CInv, ClientTyped, U!TypeOK, U!Rows, U!Clients
  <1>5. KeptSound' /\ RowsDated' /\ TasksSound'
    BY <1>1, <1>3 DEF CInv, KeptSound, RowsDated, TasksSound, TaskSound, ReadSound, Reading,
                      ClientKey, U!Rows
  <1> QED BY <1>1, <1>4, <1>5 DEF CInv

LEMMA ClientsBegin ==
  ASSUME U!Init
  PROVE  CInv
  <1>1. /\ row \in [Watched -> U!Rows] /\ now = 0 /\ \A a \in Watched : row[a].stamp = 0
    BY ClientsAssumption DEF U!Init, U!Rows
  <1>2. /\ clients = [p \in Proc |-> << >>] /\ \A p \in Proc : DOMAIN clients[p] = {}
    BY DEF U!Init
  <1>3. task \in [Task -> TaskRec] /\ \A t \in Task : task[t] = U!Idle
    BY IdleTask DEF U!Init
  <1>4. failures = streak /\ failures \in [Proc -> [Watched -> 0..3]]
    BY DEF U!Init
  <1>5. /\ edit \in [Proc -> [pc : {"idle", "save", "clear"}, account : Watched \cup {None}, secret : 0..MaxSecret]]
        /\ EditsSound
    BY ClientsAssumption DEF U!Init, U!NoEdit, EditsSound
  <1>6. ClientTyped
    BY <1>1, <1>2, <1>3, <1>4, <1>5, ClientsAssumption DEF ClientTyped, U!TypeOK, TaskRec
  <1>7. KeptSound /\ RowsDated
    BY <1>1, <1>2 DEF KeptSound, RowsDated
  <1>8. TasksSound
    BY <1>3, IdleTask DEF TasksSound
  <1> QED BY <1>4, <1>5, <1>6, <1>7, <1>8 DEF CInv

LEMMA ClientsNext ==
  ASSUME Apart, CInv, U!Next \/ UNCHANGED upstreams
  PROVE  CInv'
  <1>1. CASE UNCHANGED upstreams
    BY <1>1 DEF upstreams, CInv, ClientTyped, U!TypeOK, KeptSound, TasksSound, TaskSound, ReadSound, Reading,
                RowsDated, EditsSound, ClientKey, U!Rows, U!Clients
  <1>2. CASE U!Tick
    <2>1. now' \in 0..MaxTime /\ now' >= now /\ now \in Nat
      BY <1>2, ClientsAssumption DEF CInv, ClientTyped, U!TypeOK, U!Tick
    <2>2. RowsDated'
      BY <1>2, <2>1, RowType DEF CInv, RowsDated, U!Tick
    <2> QED BY <1>2, <2>1, <2>2 DEF U!Tick, CInv, ClientTyped, U!TypeOK, KeptSound, TasksSound, TaskSound,
                ReadSound, Reading, EditsSound, ClientKey, U!Rows, U!Clients
  <1>3. ASSUME NEW t \in Task,
               \/ \E p \in Proc, a \in Watched : U!StartProbe(t, p, a) \/ \E k \in Package : U!Start(t, p, a, k)
               \/ U!Ask(t) \/ U!AskOff(t) \/ U!Take(t) \/ U!Finish(t) \/ U!Write(t)
               \/ \E ok \in BOOLEAN : U!Answer(t, ok)
        PROVE  CInv'
    BY <1>3, StartStep, StartProbeStep, FinishStep, AskStep, AskOffStep, TakeStep, WriteStep, AnswerStep
  <1>4. ASSUME NEW p \in Proc,
               \/ \E a \in Watched : U!Read(p, a)
               \/ \E fresh, on \in BOOLEAN : U!Save(p, fresh, on)
               \/ U!Clear(p)
        PROVE  CInv'
    BY <1>4, ReadStep, ClearStep, SaveStep
  <1> QED BY <1>1, <1>2, <1>3, <1>4 DEF U!Next

-----------------------------------------------------------------------------
LEMMA Clients ==
  ASSUME CInv
  PROVE  ClientsSound
  <1>1. U!TypeOK
    BY DEF CInv, ClientTyped
  <1>2. U!CurrentClients
    BY DEF CInv, TasksSound, TaskSound, ReadSound, Reading, U!CurrentClients
  <1>3. U!UnhealthyEarned
    BY DEF CInv, TasksSound, TaskSound, U!UnhealthyEarned
  <1> QED BY <1>1, <1>2, <1>3 DEF ClientsSound

(* RoutesSound: what a customer has is asked for at the account it is at,  *)
(* and counted for a subscription of that account, whatever plans, moves,  *)
(* ends and interrupted starts do (clientForSite, ensureResourceAssignments*)
(* and the first migration of upstreams.js).                               *)
THEOREM RoutesStaySound ==
  ASSUME ~Orphan
  PROVE  MCSpec => []RoutesSound
  <1>1. MCInit => RInv
    BY RoutingBegin DEF MCInit
  <1>2. RInv /\ [MCNext]_<<part, vars, upstreams>> => RInv'
    BY RoutingNext DEF MCNext
  <1>3. RInv => RoutesSound
    BY Routes DEF RInv, RoutesSound
  <1> QED BY <1>1, <1>2, <1>3, PTL DEF MCSpec

(* ClientsSound: a request is signed with the credentials of its account's *)
(* row, whichever process kept the client and however the two interleave   *)
(* with a save (clientForAccount, update); an account is marked unhealthy  *)
(* only after three probes in a row that failed (test).                    *)
THEOREM ClientsStaySound ==
  ASSUME Apart
  PROVE  MCSpec => []ClientsSound
  <1>1. MCInit => CInv
    BY ClientsBegin DEF MCInit
  <1>2. CInv /\ [MCNext]_<<part, vars, upstreams>> => CInv'
    BY ClientsNext DEF MCNext
  <1>3. CInv => ClientsSound
    BY Clients
  <1> QED BY <1>1, <1>2, <1>3, PTL DEF MCSpec
=============================================================================
