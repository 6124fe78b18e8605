------------------------------ MODULE Recovery ------------------------------
(***************************************************************************)
(* Claiming the sites that an upstream still has after the customers' data *)
(* was lost (recovery.js).  An administrator imports the list; a customer  *)
(* asks for a challenge, publishes it under every domain of the site, and  *)
(* has it verified.  The lookups are made before the transaction that      *)
(* gives the site away, so the row, the challenge and the list may all     *)
(* have changed by then.                                                   *)
(***************************************************************************)
EXTENDS Integers, FiniteSets

CONSTANTS User, Site, Domain, Req, None,
          Limit,      \* domains the recovery plan allows (15 in the code)
          MaxCodes,   \* challenges made for one customer and site
          MaxEvents   \* edits, expiries and deletions that happen meanwhile

VARIABLES cdn,      \* the domains of each site at the upstream
          rec,      \* recovery_sites
          index,    \* recovery_site_domains: the site a domain is found under
          claim,    \* the newest row of recovery_claims for a customer and site
          sub,      \* the subscription of a customer's activation grant
          local,    \* the rows of sites
          proc,     \* what each request is doing
          seen,     \* history: <<user, domain, challenge>> found in the DNS
          grants,   \* history: grants made for a customer
          events    \* MaxEvents bounds it

vars == <<cdn, rec, index, claim, sub, local, proc, seen, grants, events>>
data == <<cdn, rec, index, claim, sub, local, seen, grants, events>>

Code == 0..MaxCodes
Idle == [pc |-> "idle", user |-> None, site |-> None, code |-> 0, domains |-> {}, list |-> None, used |-> 0]

TypeOK ==
  /\ cdn \in [Site -> SUBSET Domain]
  /\ \A s \in Site : rec[s] = None \/ (rec[s].domains \in SUBSET Domain /\ rec[s].owner \in User \cup {None} /\ rec[s].by \in Code)
  /\ index \in [Domain -> Site \cup {None}]
  /\ \A d \in Domain : index[d] # None => (rec[index[d]] # None /\ d \in rec[index[d]].domains)
  /\ \A u \in User, s \in Site : claim[<<u, s>>] = None \/
       (claim[<<u, s>>].code \in Code /\ claim[<<u, s>>].good \in BOOLEAN)
  /\ sub \in [User -> {"none", "live", "ended"}]
  /\ \A s \in Site : local[s] = None \/ (local[s].owner \in User /\ local[s].domains \in SUBSET Domain)
  /\ \A r \in Req : proc[r].pc \in {"idle", "asked", "looking", "found", "locked", "granted", "import", "done"}
  /\ seen \in SUBSET (User \X Domain \X Code) /\ grants \in [User -> 0..2] /\ events \in 0..MaxEvents

Disjoint(f) == \A s, t \in Site : s # t => f[s] \cap f[t] = {}

(* The list has been imported, the customers have asked for challenges,    *)
(* and some sites were never lost.                                         *)
Init ==
  /\ cdn \in {f \in [Site -> SUBSET Domain] : Disjoint(f)}
  /\ rec = [s \in Site |-> IF cdn[s] = {} THEN None ELSE [domains |-> cdn[s], owner |-> None, by |-> 0]]
  /\ index = [d \in Domain |-> IF \E s \in Site : d \in cdn[s] THEN CHOOSE s \in Site : d \in cdn[s] ELSE None]
  /\ claim = [p \in User \X Site |-> IF cdn[p[2]] # {} THEN [code |-> 0, good |-> TRUE] ELSE None]
  /\ sub \in [User -> {"none", "live"}]
  /\ \E kept \in {f \in [Site -> User \cup {None}] : \A s \in Site : cdn[s] = {} => f[s] = None} :
       local = [s \in Site |-> IF kept[s] = None THEN None ELSE [owner |-> kept[s], domains |-> cdn[s], recovered |-> FALSE]]
  /\ proc = [r \in Req |-> Idle]
  /\ seen = {} /\ grants = [u \in User |-> IF sub[u] = "live" THEN 1 ELSE 0] /\ events = 0

-----------------------------------------------------------------------------
At(r, pc) == proc[r].pc = pc
End(r) == proc' = [proc EXCEPT ![r] = [Idle EXCEPT !.pc = "done"]]
Foreign(s, u) == rec[s].owner \notin {None, u}
Good(u, s) == IF claim[<<u, s>>] = None THEN FALSE ELSE claim[<<u, s>>].good

Meanwhile == events < MaxEvents /\ events' = events + 1

(* A row, and the row of a customer, are kept by SELECT ... FOR UPDATE     *)
(* until the transaction ends.                                             *)
SiteNotLockedBug(s) == TRUE
SiteFree(s) == \A r \in Req : At(r, "locked") \/ At(r, "granted") => proc[r].site # s
UserNotLockedBug(u) == TRUE
UserFree(u) == \A r \in Req : At(r, "granted") => proc[r].user # u

-----------------------------------------------------------------------------
(* The list is read page by page before the transaction that stores it.    *)
ImportRead(r) ==
  /\ At(r, "idle")
  /\ proc' = [proc EXCEPT ![r] = [Idle EXCEPT !.pc = "import", !.list = cdn]]
  /\ UNCHANGED data

ClaimedTooBug(list) == {s \in Site : list[s] # {}}
Imported(list) == {s \in Site : list[s] # {} /\ (IF rec[s] = None THEN TRUE ELSE rec[s].owner = None)}

First(sites, rank) == CHOOSE s \in sites : \A t \in sites : rank[s] <= rank[t]
Ranks(sites) == {rank \in [sites -> 1..Cardinality(sites)] : \A s, t \in sites : rank[s] = rank[t] => s = t}

(* Sites are stored one after another; a domain that another site still    *)
(* has in the index stays there (ON CONFLICT DO NOTHING).                  *)
OldKeptBug(list, rank) ==
  [d \in Domain |->
    LET found == {s \in Imported(list) : d \in list[s]} IN
    IF index[d] # None THEN index[d] ELSE IF found = {} THEN None ELSE First(found, rank)]
Reindexed(list, rank) ==
  [d \in Domain |->
    LET old == index[d]
        found == {s \in Imported(list) : d \in list[s] /\ (old \in {None, s} \/ (old \in Imported(list) /\ rank[old] < rank[s]))} IN
    IF found # {} THEN First(found, rank) ELSE IF old \in Imported(list) THEN None ELSE old]

ImportWrite(r) ==
  LET list == proc[r].list IN
  /\ At(r, "import") /\ \A s \in Site : SiteFree(s)
  /\ rec' = [s \in Site |->
               IF s \notin Imported(list) THEN rec[s]
               ELSE IF rec[s] = None THEN [domains |-> list[s], owner |-> None, by |-> 0]
               ELSE [rec[s] EXCEPT !.domains = list[s]]]
  /\ \E rank \in Ranks(Imported(list)) : index' = Reindexed(list, rank)
  /\ End(r)
  /\ UNCHANGED <<cdn, claim, sub, local, seen, grants, events>>

(* Sites are edited at the upstream.                                       *)
Edit(s, ds) ==
  /\ ds # cdn[s] /\ Meanwhile
  /\ cdn' = [cdn EXCEPT ![s] = ds] /\ Disjoint(cdn')
  /\ UNCHANGED <<rec, index, claim, sub, local, proc, seen, grants>>

-----------------------------------------------------------------------------
(* A challenge: the site is found by the domain, then locked.              *)
AskClaim(r, u, d) ==
  /\ At(r, "idle") /\ index[d] # None
  /\ ~Foreign(index[d], u) /\ rec[index[d]].owner # u
  /\ sub[u] # "ended"
  /\ proc' = [proc EXCEPT ![r] = [Idle EXCEPT !.pc = "asked", !.user = u, !.site = index[d]]]
  /\ UNCHANGED data

MakeClaim(r) ==
  LET u == proc[r].user
      s == proc[r].site
      old == claim[<<u, s>>]
      code == IF old = None THEN 0 ELSE old.code + 1
  IN /\ At(r, "asked") /\ SiteFree(s) /\ code \in Code
     /\ claim' = IF Foreign(s, u) THEN claim ELSE [claim EXCEPT ![<<u, s>>] = [code |-> code, good |-> TRUE]]
     /\ End(r)
     /\ UNCHANGED <<cdn, rec, index, sub, local, seen, grants, events>>

ClaimExpires(u, s) ==
  /\ Good(u, s) /\ Meanwhile
  /\ claim' = [claim EXCEPT ![<<u, s>>].good = FALSE]
  /\ UNCHANGED <<cdn, rec, index, sub, local, proc, seen, grants>>

-----------------------------------------------------------------------------
(* The claim is read together with the domains the site has now; the name  *)
(* it was asked for and then every other one is looked up; nothing else is *)
(* read in between, so the lookups are one step.                           *)
Verify(r, u, s) ==
  /\ At(r, "idle") /\ Good(u, s)
  /\ proc' = [proc EXCEPT ![r] = [Idle EXCEPT !.pc = "looking", !.user = u, !.site = s, !.code = claim[<<u, s>>].code,
                                    !.domains = rec[s].domains]]
  /\ UNCHANGED data

Lookup(r) ==
  /\ At(r, "looking")
  /\ \/ /\ proc' = [proc EXCEPT ![r].pc = "found"]
        /\ seen' = seen \cup {<<proc[r].user, d, proc[r].code>> : d \in proc[r].domains}
     \/ End(r) /\ UNCHANGED seen
  /\ UNCHANGED <<cdn, rec, index, claim, sub, local, grants, events>>

(* The transaction reads claim and site again, and refuses what is not     *)
(* what was verified.                                                      *)
AnyCodeBug(r) == Good(proc[r].user, proc[r].site)
SameCode(r) == Good(proc[r].user, proc[r].site) /\ claim[<<proc[r].user, proc[r].site>>].code = proc[r].code
AnyDomainsBug(r) == TRUE
SameDomains(r) == rec[proc[r].site].domains = proc[r].domains

Lock(r) ==
  /\ At(r, "found") /\ SiteFree(proc[r].site)
  /\ IF SameCode(r) /\ SameDomains(r) /\ ~Foreign(proc[r].site, proc[r].user)
     THEN proc' = [proc EXCEPT ![r].pc = "locked", ![r].code = claim[<<proc[r].user, proc[r].site>>].code]
     ELSE End(r)
  /\ UNCHANGED data

Recovered(u) == {s \in Site : IF local[s] = None THEN FALSE ELSE local[s].recovered /\ local[s].owner = u}
Domains(sites) == Cardinality({p \in sites \X Domain : p[2] \in local[p[1]].domains})

(* With the customer's row locked: the grant it has, and what its sites    *)
(* use of the plan.                                                        *)
Grant(r) ==
  LET u == proc[r].user IN
  /\ At(r, "locked") /\ UserFree(u)
  /\ IF sub[u] = "ended" THEN End(r)
     ELSE proc' = [proc EXCEPT ![r].pc = "granted", ![r].list = sub[u], ![r].used = Domains(Recovered(u))]
  /\ UNCHANGED data

(* Everything is stored together, or nothing when the site is bound to     *)
(* another customer, the plan has no room for its domains, or the unique   *)
(* index refuses a second grant.                                           *)
Activate(r) ==
  LET u == proc[r].user
      s == proc[r].site
      new == local[s] = None
      fits == IF new THEN proc[r].used + Cardinality(rec[s].domains) <= Limit ELSE local[s].owner = u
      once == proc[r].list = "live" \/ sub[u] = "none"
  IN /\ At(r, "granted")
     /\ IF ~fits \/ ~once THEN UNCHANGED data
        ELSE /\ rec' = [rec EXCEPT ![s].owner = u, ![s].by = proc[r].code]
             /\ claim' = [claim EXCEPT ![<<u, s>>].good = FALSE]
             /\ sub' = [sub EXCEPT ![u] = IF proc[r].list = "none" THEN "live" ELSE @]
             /\ grants' = [grants EXCEPT ![u] = IF proc[r].list = "none" THEN @ + 1 ELSE @]
             /\ local' = IF new THEN [local EXCEPT ![s] = [owner |-> u, domains |-> rec[s].domains, recovered |-> TRUE]] ELSE local
             /\ UNCHANGED <<cdn, index, seen, events>>
     /\ End(r)

SubscriptionEnds(u) ==
  /\ sub[u] = "live" /\ Meanwhile
  /\ sub' = [sub EXCEPT ![u] = "ended"]
  /\ UNCHANGED <<cdn, rec, index, claim, local, proc, seen, grants>>

(* The customer deletes a site it has recovered, here and at the upstream. *)
DeleteSite(s) ==
  /\ local[s] # None /\ Meanwhile
  /\ local' = [local EXCEPT ![s] = None] /\ cdn' = [cdn EXCEPT ![s] = {}]
  /\ UNCHANGED <<rec, index, claim, sub, proc, seen, grants>>

Next ==
  \/ \E r \in Req :
       \/ ImportRead(r) \/ ImportWrite(r) \/ MakeClaim(r) \/ Lookup(r) \/ Lock(r) \/ Grant(r) \/ Activate(r)
       \/ \E u \in User : (\E d \in Domain : AskClaim(r, u, d)) \/ (\E s \in Site : Verify(r, u, s))
  \/ \E s \in Site : DeleteSite(s) \/ \E ds \in SUBSET Domain : Edit(s, ds)
  \/ \E u \in User : SubscriptionEnds(u) \/ \E s \in Site : ClaimExpires(u, s)

Spec == Init /\ [][Next]_vars

-----------------------------------------------------------------------------
(* A site goes only to a customer whose challenge, the one that was good   *)
(* at that moment, was found under every domain the site has, though list  *)
(* and challenge may be replaced between the lookups and the transaction.  *)
ClaimsProved ==
  \A s \in Site : rec[s] # None =>
    (rec[s].owner # None => \A d \in rec[s].domains : <<rec[s].owner, d, rec[s].by>> \in seen)

(* However many sites a customer claims at once, they keep to the domains  *)
(* of the one recovery subscription the customer is given.                 *)
OnePlan ==
  \A u \in User : grants[u] <= 1 /\ Domains(Recovered(u)) <= Limit

(* A site that has been given to a customer is given to nobody else, not   *)
(* by a claim that was under way, nor after its owner has deleted it, nor  *)
(* by an import of an older list.                                          *)
ClaimsFinal ==
  [][\A s \in Site : IF rec[s] = None THEN TRUE
                      ELSE rec[s].owner # None => rec'[s].owner = rec[s].owner /\ rec'[s].domains = rec[s].domains]_vars
=============================================================================
