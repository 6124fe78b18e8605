------------------------------- MODULE Quota --------------------------------
(***************************************************************************)
(* What enforceUser does to the sites of one subscription when it is over  *)
(* quota and when it is not any more (suspend and restoreUnlocked of       *)
(* src/src/billing.js), next to the requests that turn the same sites on   *)
(* and off: the customer's and the administrator's PUT, the compatible     *)
(* API's PUT, and the inspection that isolates a site and releases it.     *)
(*                                                                         *)
(* Each of them changes the CDN first and the database after it, one       *)
(* statement at a time.  The requests and restore run under the            *)
(* customer's resource lock (module AdvisoryLock); suspend does not.  A    *)
(* PUT ends with a call of enforceUser under the lock it holds.            *)
(***************************************************************************)
EXTENDS Integers

CONSTANTS
  Site,       (* Sites bound to the subscription.                          *)
  Scheduler,  (* Calls of enforceUser by billing schedulers and others     *)
              (* without the lock.                                         *)
  Request,    (* Concurrent requests.                                      *)
  Jobs,       (* The requests they may be.                                 *)
  MaxJobs,    (* Bound: requests made.                                     *)
  MaxFaults,  (* Bound: failed calls of the CDN, and crashes.              *)
  Nothing

Actor == Scheduler \cup Request

(* on, off: PUT enabled of app.js and admin-api.js.  compat_on and         *)
(* compat_off: PUT enable of the compatible API.  isolate and release:     *)
(* actions disable and enable of the inspection.                           *)
AllJobs == {"on", "off", "compat_on", "compat_off", "isolate", "release"}

ASSUME QuotaAssumption ==
  /\ Jobs \subseteq AllJobs
  /\ Scheduler \cap Request = {}
  /\ Nothing \notin Site \cup Actor \cup AllJobs \cup {"suspend", "restore"}
  /\ MaxJobs \in Nat /\ MaxFaults \in Nat

VARIABLES
  over,     (* The subscription is over quota.                             *)
  up,       (* Sites the CDN serves.                                       *)
  enabled,  (* sites.enabled.                                              *)
  row,      (* Sites with an open row in quota_suspensions.                *)
  held,     (* Sites with a row in site_policy_holds.                      *)
  wish,     (* History: sites whose customer last asked for them to be on. *)
  lock,     (* Who holds resource-mutation:<user>.                         *)
  act,      (* What each actor is doing.                                   *)
  jobs,     (* Requests so far.                                            *)
  faults    (* Failed calls and crashes so far.                            *)

quotaVars == <<over, up, enabled, row, held, wish, lock, act, jobs, faults>>

Idle == [pc |-> "idle", job |-> Nothing, site |-> Nothing, todo |-> {}]

(* pc: what comes next, a call of the CDN (cdn), the statement on sites    *)
(* (db), the statement on the row that records it (row), or, in            *)
(* enforceUser, its start and its next site.                               *)
QuotaTypeOK ==
  /\ over \in BOOLEAN
  /\ up \subseteq Site /\ enabled \subseteq Site /\ row \subseteq Site
  /\ held \subseteq Site /\ wish \subseteq Site
  /\ lock \in Actor \cup {Nothing}
  /\ act \in [Actor -> [pc : {"idle", "cdn", "db", "row", "enforce", "next"},
                        job : AllJobs \cup {"suspend", "restore", Nothing},
                        site : Site \cup {Nothing}, todo : SUBSET Site]]
  /\ jobs \in 0..MaxJobs /\ faults \in 0..MaxFaults
  /\ lock # Nothing => act[lock].pc # "idle"

QuotaInit ==
  /\ over = FALSE
  /\ up = Site /\ enabled = Site /\ wish = Site
  /\ row = {} /\ held = {}
  /\ lock = Nothing
  /\ act = [a \in Actor |-> Idle]
  /\ jobs = 0 /\ faults = 0

(* The month's traffic is synchronised, a pack is bought, a limit changes. *)
OverChanges ==
  /\ over' = ~over
  /\ UNCHANGED <<up, enabled, row, held, wish, lock, act, jobs, faults>>

-----------------------------------------------------------------------------
Turns(job) == job \in {"on", "compat_on", "release", "restore"}

Set(S, s, in) == IF in THEN S \cup {s} ELSE S \ {s}

LockKeptBug(a) ==
  /\ act' = [act EXCEPT ![a] = Idle]
  /\ UNCHANGED lock

Finish(a) ==
  /\ act' = [act EXCEPT ![a] = Idle]
  /\ lock' = IF lock = a THEN Nothing ELSE lock

(* What a request checks under the lock before its first write.            *)
Allowed(job, s) ==
  IF job = "isolate" THEN TRUE
  ELSE IF job = "release" THEN s \in held /\ s \notin row /\ ~over
  ELSE s \notin held /\ (job = "on" => ~over)

(* A request takes the lock and passes its checks; isolating a site        *)
(* records the hold before anything else.                                  *)
StartJob(a, job, s) ==
  /\ act[a].pc = "idle" /\ lock = Nothing /\ jobs < MaxJobs
  /\ Allowed(job, s)
  /\ lock' = a
  /\ jobs' = jobs + 1
  /\ held' = IF job = "isolate" THEN held \cup {s} ELSE held
  /\ act' = [act EXCEPT ![a] = [pc |-> "cdn", job |-> job, site |-> s, todo |-> {}]]
  /\ UNCHANGED <<over, up, enabled, row, wish, faults>>

(* enforceUser from the scheduler, without the lock.                       *)
Tick(a) ==
  /\ act[a].pc = "idle"
  /\ act' = [act EXCEPT ![a].pc = "enforce"]
  /\ UNCHANGED <<over, up, enabled, row, held, wish, lock, jobs, faults>>

-----------------------------------------------------------------------------
(* The holders under whom a may enter withResourceMutation: nobody, or a   *)
(* itself, reentrant.                                                      *)
MayEnter(a) == {Nothing, a}

(* Over quota: the sites that are on are to be suspended.                  *)
ChooseSuspend(a) ==
  /\ act[a].pc = "enforce" /\ over
  /\ act' = [act EXCEPT ![a] = [Idle EXCEPT !.pc = "next", !.job = "suspend", !.todo = enabled]]
  /\ UNCHANGED <<over, up, enabled, row, held, wish, lock, jobs, faults>>

(* Not over quota: the open rows are to be restored, under the lock.       *)
ChooseRestore(a) ==
  /\ act[a].pc = "enforce" /\ ~over /\ lock \in MayEnter(a)
  /\ lock' = IF lock = Nothing THEN a ELSE lock
  /\ act' = [act EXCEPT ![a] = [Idle EXCEPT !.pc = "next", !.job = "restore", !.todo = row]]
  /\ UNCHANGED <<over, up, enabled, row, held, wish, jobs, faults>>

(* The lock is taken: restore throws, enforceUser ends.                    *)
Busy(a) ==
  /\ act[a].pc = "enforce" /\ ~over /\ lock \notin MayEnter(a)
  /\ act' = [act EXCEPT ![a] = Idle]
  /\ UNCHANGED <<over, up, enabled, row, held, wish, lock, jobs, faults>>

HoldIgnoredBug(a, s) == FALSE

(* restoreUnlocked closes the row of a site that is held, and no more.     *)
Withheld(a, s) == act[a].job = "restore" /\ s \in held

TakeSite(a, s) ==
  /\ act[a].pc = "next" /\ s \in act[a].todo
  /\ IF Withheld(a, s)
     THEN row' = row \ {s} /\ act' = [act EXCEPT ![a].todo = @ \ {s}]
     ELSE /\ act' = [act EXCEPT ![a].pc = "cdn", ![a].site = s, ![a].todo = @ \ {s}]
          /\ UNCHANGED row
  /\ UNCHANGED <<over, up, enabled, held, wish, lock, jobs, faults>>

EnforceDone(a) ==
  /\ act[a].pc = "next" /\ act[a].todo = {}
  /\ Finish(a)
  /\ UNCHANGED <<over, up, enabled, row, held, wish, jobs, faults>>

-----------------------------------------------------------------------------
Enforcing(a) == act[a].job \in {"suspend", "restore"}

CdnOk(a) ==
  /\ act[a].pc = "cdn"
  /\ up' = Set(up, act[a].site, Turns(act[a].job))
  /\ act' = [act EXCEPT ![a].pc = "db"]
  /\ UNCHANGED <<over, enabled, row, held, wish, lock, jobs, faults>>

(* The call fails, whether or not the CDN has acted on it: enforceUser     *)
(* logs it and goes on with the next site, a request ends with an error.   *)
CdnFails(a) ==
  /\ act[a].pc = "cdn" /\ faults < MaxFaults
  /\ faults' = faults + 1
  /\ \E acted \in BOOLEAN :
       up' = IF acted THEN Set(up, act[a].site, Turns(act[a].job)) ELSE up
  /\ IF Enforcing(a)
     THEN act' = [act EXCEPT ![a].pc = "next", ![a].site = Nothing] /\ UNCHANGED lock
     ELSE Finish(a)
  /\ UNCHANGED <<over, enabled, row, held, wish, jobs>>

SuspendLeavesEnabledBug(a) ==
  /\ act[a].pc = "db"
  /\ enabled' = IF act[a].job = "suspend" THEN enabled
                ELSE Set(enabled, act[a].site, Turns(act[a].job))
  /\ wish' = IF act[a].job \in {"on", "off", "compat_on", "compat_off"}
             THEN Set(wish, act[a].site, Turns(act[a].job)) ELSE wish
  /\ act' = [act EXCEPT ![a].pc = "row"]
  /\ UNCHANGED <<over, up, row, held, lock, jobs, faults>>

(* UPDATE sites SET enabled.                                               *)
WriteSite(a) ==
  /\ act[a].pc = "db"
  /\ enabled' = Set(enabled, act[a].site, Turns(act[a].job))
  /\ wish' = IF act[a].job \in {"on", "off", "compat_on", "compat_off"}
             THEN Set(wish, act[a].site, Turns(act[a].job)) ELSE wish
  /\ act' = [act EXCEPT ![a].pc = "row"]
  /\ UNCHANGED <<over, up, row, held, lock, jobs, faults>>

NeverClosesBug(job) == job \in {"on", "off"}

(* Whether a job closes the row of quota_suspensions; suspend opens it.    *)
Closes(job) == job \in {"on", "off", "restore"}

(* The row that records it: a quota suspension is opened or closed, a hold *)
(* is lifted.  A PUT then calls enforceUser under its lock.                *)
WriteRow(a) ==
  LET job == act[a].job
      s == act[a].site
  IN /\ act[a].pc = "row"
     /\ row' = IF job = "suspend" THEN row \cup {s} ELSE IF Closes(job) THEN row \ {s} ELSE row
     /\ held' = IF job = "release" THEN held \ {s} ELSE held
     /\ IF job \in {"isolate", "release"}
        THEN Finish(a)
        ELSE /\ act' = [act EXCEPT ![a].pc = IF Enforcing(a) THEN "next" ELSE "enforce",
                                   ![a].site = Nothing]
             /\ UNCHANGED lock
     /\ UNCHANGED <<over, up, enabled, wish, jobs, faults>>

(* The process dies: its actors are gone, PostgreSQL frees the lock.       *)
ProcessDies ==
  /\ faults < MaxFaults
  /\ faults' = faults + 1
  /\ act' = [a \in Actor |-> Idle]
  /\ lock' = Nothing
  /\ UNCHANGED <<over, up, enabled, row, held, wish, jobs>>

-----------------------------------------------------------------------------
GoOn(a) ==
  \/ ChooseSuspend(a) \/ ChooseRestore(a) \/ Busy(a)
  \/ \E s \in Site : TakeSite(a, s)
  \/ EnforceDone(a)
  \/ CdnOk(a) \/ WriteSite(a) \/ WriteRow(a)

QuotaNext ==
  \/ OverChanges \/ ProcessDies
  \/ \E a \in Actor : GoOn(a) \/ CdnFails(a)
  \/ \E a \in Scheduler : Tick(a)
  \/ \E a \in Request, job \in Jobs, s \in Site : StartJob(a, job, s)

QuotaSpec == QuotaInit /\ [][QuotaNext]_quotaVars

(* What was begun goes on; the timer calls enforceUser again and again.    *)
FairQuota ==
  /\ QuotaSpec
  /\ \A a \in Actor : WF_quotaVars(GoOn(a))
  /\ \A a \in Scheduler : WF_quotaVars(Tick(a))

-----------------------------------------------------------------------------
(* An isolated site is turned on again by its release and by nothing else: *)
(* neither a quota that recovers nor a PUT that was under way              *)
(* (site-inspection.js:62-75, billing.js:453, app.js:782).                 *)
HeldOnlyReleased ==
  [][\A s \in Site : s \in held /\ (s \in up' \ up \/ s \in enabled' \ enabled) =>
       \E a \in Request : act[a].job = "release" /\ act[a].site = s]_quotaVars

(* Over quota for good, every site is turned off in the database, calls    *)
(* that failed being made again at the next pass                           *)
(* (BILLING_COMPATIBILITY.md:105).                                         *)
OverQuotaSuspends == <>[]over => \A s \in Site : [](s \in enabled => <>(s \notin enabled))

(* Within quota for good, every suspension is closed, whatever failed or   *)
(* crashed before (billing.js:447-475).                                    *)
SuspensionsClose == <>[]~over => \A s \in Site : <>[](s \notin row)

(* restore turns on only what the quota turned off                         *)
(* (BILLING_COMPATIBILITY.md:15), not what the customer turned off.        *)
RestoresItsOwn ==
  [][\A a \in Actor, s \in Site : act[a].job = "restore" /\ act'[a] # act[a]
       /\ s \in up' \ up => s \in wish]_quotaVars

(* The holds of the inspection and the switches stay what they are said to *)
(* be, whatever runs at the same time.                                     *)
HoldsSound == []QuotaTypeOK /\ HeldOnlyReleased
=============================================================================
