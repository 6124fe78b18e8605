----------------------------- MODULE Resources -----------------------------
(***************************************************************************)
(* The resources of several customers in several upstream accounts         *)
(* (tenant-proxy.js): credentials, certificates that refer to them, rules  *)
(* of the firewall that the platform shares, and the domains of sites.     *)
(* Every account numbers each kind anew, so that one number stands for     *)
(* different things; a row says whose the resource of an account is.  A    *)
(* request translates the numbers of rows into those of the CDN, awaits    *)
(* the CDN, and then writes rows; requests of one customer run side by     *)
(* side, for these kinds take no lock.  Translating and asking are one     *)
(* step: meanwhile a resource can only go, and numbers are not used again. *)
(***************************************************************************)
EXTENDS Integers, FiniteSets

CONSTANTS User, Account, Req, None,
          MaxMade,    \* creations
          Alike       \* the shared rules have the same number everywhere

VARIABLES kinds,    \* the kinds that a behaviour is about
          cdn,      \* who made each resource, None before that, "gone" after
          row,      \* owner (None: shared) and subscription of each row
          site,     \* the accounts in which a customer has a site
          req,      \* the requests
          made,     \* creations
          sent,     \* what a request has just named at the CDN, and for whom
          shown     \* what a list has just shown, and to whom

vars == <<kinds, cdn, row, site, req, made, sent, shown>>

Kind == {"dnsapis", "certs", "waf-rules", "domains"}
Themes == {{"dnsapis", "certs"}, {"waf-rules"}, {"domains"}}
Number(k) == IF k = "waf-rules" THEN 1..2 ELSE {1}   \* enough for numbers to be alike
Slot == {s \in Kind \X Account \X (1..2) : s[3] \in Number(s[1])}
Kinds(k, a) == {s \in Slot : s[1] = k /\ s[2] = a}
Alive(s) == cdn[s] \notin {None, "gone"}
Shared(s) == row[s] # None /\ row[s].owner = None

Idle == [pc |-> "idle", user |-> None, slots |-> {}]
Quiet == sent' = None /\ shown' = {}

TypeOK ==
  /\ kinds \in Themes /\ cdn \in [Slot -> User \cup {None, "gone", "platform"}]
  /\ row \in [Slot -> {None} \cup [owner : User \cup {None}, sub : User \cup {None}]]
  /\ site \in [User -> SUBSET Account] /\ made \in 0..MaxMade
  /\ req \in [Req -> [pc : {"idle", "save", "adopt", "keep", "remove", "found", "domains"}, user : User \cup {None}, slots : SUBSET Slot]]
  /\ sent \in {None} \cup [user : User, slots : SUBSET Slot]
  /\ shown \subseteq [user : User, slot : Slot, sub : User \cup {None}]

Init ==
  /\ kinds \in Themes /\ site \in [User -> SUBSET Account]
  /\ Cardinality({w \in User \X Account : w[2] \in site[w[1]]}) = IF "domains" \in kinds THEN 1 ELSE 0
  /\ \E sharing \in SUBSET Account \ {{}} :
       /\ Alike => sharing = Account
       /\ cdn = [s \in Slot |->
            CASE s[1] = "waf-rules" /\ s[3] = 1 /\ s[2] \in sharing -> "platform"
              [] s[1] = "domains" /\ (\E u \in User : s[2] \in site[u]) -> CHOOSE u \in User : s[2] \in site[u]
              [] OTHER -> None]
  /\ row = [s \in Slot |-> None] /\ req = [r \in Req |-> Idle] /\ made = 0 /\ sent = None /\ shown = {}

-----------------------------------------------------------------------------
(* Plausible faults of the code.                                           *)
AnyAccountBug(u, k, a) ==
  {<<k, a, s[3]>> : s \in {s \in Slot : s[1] = k /\ row[s] # None /\ row[s].owner \in {u, None}}}
NoSubscriptionBug(s, owner) == IF row[s] = None THEN [row EXCEPT ![s] = [owner |-> owner]] ELSE row
DefaultSlotBug(s) == CHOOSE t \in Slot : t[1] = s[1] /\ t[3] = s[3] /\ t[2] # s[2]

(* resourceByLocal: one's own row, or a shared one where that is allowed.  *)
ByLocal(u, k) == {s \in Slot : s[1] = k /\ row[s] # None /\ row[s].owner = u}
SharedRules == {s \in Slot : s[1] = "waf-rules" /\ Shared(s)}

(* translateScalar: the number of the row, for the account that is asked;  *)
(* one's own row has to be in that account, a shared rule need not be.     *)
OwnNumbers(u, k, a) == {s \in ByLocal(u, k) : s[2] = a}
Numbers(u, k, a) == OwnNumbers(u, k, a) \cup (IF k = "waf-rules" THEN {<<k, a, s[3]>> : s \in SharedRules} ELSE {})

(* resourceByUpstream: the row of a number in the account that answered.   *)
ByUpstream(u, k, a) == {s \in Kinds(k, a) : row[s] # None /\ (row[s].owner = u \/ (k = "waf-rules" /\ Shared(s)))}

(* saveResource: a row that is there stays whose it is.                    *)
Saved(s, owner) == IF row[s] = None THEN [row EXCEPT ![s] = [owner |-> owner, sub |-> None]] ELSE row
(* The row is saved under the account of the client that was asked.        *)
Home(s) == s

Leave(r) == req' = [req EXCEPT ![r] = Idle]
Wait(r, pc, u, slots) == req' = [req EXCEPT ![r] = [pc |-> pc, user |-> u, slots |-> slots]]
Only(r) == CHOOSE s \in req[r].slots : TRUE
Name(u, slots) == sent' = [user |-> u, slots |-> slots] /\ shown' = {}

-----------------------------------------------------------------------------
(* Creation, in the account of the subscription that is named.  The CDN    *)
(* may carry it out and not answer.                                        *)
Fresh(k, a) == {s \in Kinds(k, a) : cdn[s] = None /\ \A t \in Kinds(k, a) : t[3] < s[3] => cdn[t] # None}
RefsOf(u, k, a) == IF k = "certs" THEN {{}} \cup {{s} : s \in Numbers(u, "dnsapis", a)} ELSE {{}}

Create(r) ==
  /\ req[r].pc = "idle" /\ made < MaxMade /\ made' = made + 1
  /\ \E u \in User, k \in kinds \ {"domains"}, a \in Account : \E s \in Fresh(k, a), refs \in RefsOf(u, k, a) :
       /\ Name(u, refs) /\ cdn' = [cdn EXCEPT ![s] = u]
       /\ Wait(r, "save", u, {s}) \/ UNCHANGED req
  /\ UNCHANGED <<kinds, row, site>>
SaveCreate(r) ==
  /\ req[r].pc = "save" /\ row' = Saved(Home(Only(r)), req[r].user) /\ req' = [req EXCEPT ![r].pc = "adopt"]
  /\ Quiet /\ UNCHANGED <<kinds, cdn, site, made>>
SetSubscription(r) ==
  /\ req[r].pc = "adopt"
  /\ row' = IF row[Only(r)] # None THEN [row EXCEPT ![Only(r)].sub = req[r].user] ELSE row
  /\ Leave(r) /\ Quiet /\ UNCHANGED <<kinds, cdn, site, made>>

-----------------------------------------------------------------------------
(* An update of one's own row, which may be gone when the CDN answers.     *)
Update(r) ==
  /\ req[r].pc = "idle"
  /\ \E u \in User, k \in kinds \ {"domains"} : \E s \in ByLocal(u, k) : \E refs \in RefsOf(u, k, s[2]) :
       Name(u, refs \cup {s}) /\ IF Alive(s) THEN Wait(r, "keep", u, {s}) ELSE UNCHANGED req
  /\ UNCHANGED <<kinds, cdn, row, site, made>>
SaveUpdate(r) ==
  /\ req[r].pc = "keep" /\ row' = Saved(Only(r), req[r].user) /\ Leave(r)
  /\ Quiet /\ UNCHANGED <<kinds, cdn, site, made>>

(* A site names certificates and rules, in whichever account it is; the    *)
(* list of its rules only those of the account; and domains of one's own   *)
(* are synchronised.                                                       *)
SiteWrite ==
  /\ \E u \in User : \E a \in site[u] : \E s \in Numbers(u, "certs", a) \cup Numbers(u, "waf-rules", a) : Name(u, {s})
  /\ UNCHANGED <<kinds, cdn, row, site, req, made>>
RulesWrite ==
  /\ \E u \in User : \E a \in site[u] : \E s \in ByUpstream(u, "waf-rules", a) : Name(u, {s})
  /\ UNCHANGED <<kinds, cdn, row, site, req, made>>
SyncDomains ==
  /\ \E u \in User : \E s \in ByLocal(u, "domains") : Name(u, {s})
  /\ UNCHANGED <<kinds, cdn, row, site, req, made>>

Delete(r) ==
  /\ req[r].pc = "idle"
  /\ \E u \in User, k \in kinds \ {"domains"} : \E s \in ByLocal(u, k) :
       /\ Name(u, {s})
       /\ \/ Alive(s) /\ cdn' = [cdn EXCEPT ![s] = "gone"] /\ (Wait(r, "remove", u, {s}) \/ UNCHANGED req)
          \/ UNCHANGED <<kinds, cdn, req>>
  /\ UNCHANGED <<kinds, row, site, made>>
Remove(r) ==
  /\ req[r].pc = "remove" /\ row' = [row EXCEPT ![Only(r)] = None] /\ Leave(r)
  /\ Quiet /\ UNCHANGED <<kinds, cdn, site, made>>

-----------------------------------------------------------------------------
(* A list: what the CDN shows of the account is looked up, a shared rule   *)
(* gets its row, and every record that was found is saved again.           *)
Look(r) ==
  /\ req[r].pc = "idle"
  /\ \E u \in User, k \in kinds \ {"domains"}, a \in Account :
       LET new == {s \in Kinds(k, a) : k = "waf-rules" /\ cdn[s] = "platform" /\ row[s] = None} IN
         /\ row' = [s \in Slot |-> IF s \in new THEN [owner |-> None, sub |-> None] ELSE row[s]]
         /\ Wait(r, "found", u, {s \in ByUpstream(u, k, a) : Alive(s)} \cup new)
  /\ Quiet /\ UNCHANGED <<kinds, cdn, site, made>>
Adopted(s, u) ==
  CASE row[s] = None -> [owner |-> IF cdn[s] = "platform" THEN None ELSE u, sub |-> None]
    [] row[s] # None /\ row[s].sub = None -> [row[s] EXCEPT !.sub = u]
    [] OTHER -> row[s]
Show(r) ==
  /\ req[r].pc = "found"
  /\ row' = [s \in Slot |-> IF s \in req[r].slots THEN Adopted(s, req[r].user) ELSE row[s]]
  /\ shown' = {[user |-> req[r].user, slot |-> s, sub |-> row'[s].sub] : s \in req[r].slots}
  /\ sent' = None /\ Leave(r) /\ UNCHANGED <<kinds, cdn, site, made>>

(* A site is deleted, and the CDN deletes the records of its domains.      *)
SiteGone ==
  /\ \E u \in User : \E a \in site[u] :
       /\ site' = [site EXCEPT ![u] = @ \ {a}]
       /\ cdn' = [s \in Slot |-> IF s \in Kinds("domains", a) /\ cdn[s] = u THEN "gone" ELSE cdn[s]]
  /\ Quiet /\ UNCHANGED <<kinds, row, req, made>>

(* Domains are listed by the sites they belong to, after the rows whose    *)
(* site is no more have been removed.                                      *)
OwnDomains(u, a) == {s \in Kinds("domains", a) : a \in site[u] /\ cdn[s] = u}
LookDomains(r) ==
  /\ req[r].pc = "idle"
  /\ \E u \in User, a \in Account :
       /\ Wait(r, "domains", u, OwnDomains(u, a))
       /\ row' = [s \in Slot |-> IF s \in ByUpstream(u, "domains", a) /\ s \notin OwnDomains(u, a) THEN None ELSE row[s]]
  /\ Quiet /\ UNCHANGED <<kinds, cdn, site, made>>
ShowDomains(r) ==
  /\ req[r].pc = "domains"
  /\ row' = [s \in Slot |-> IF s \in req[r].slots THEN [owner |-> req[r].user, sub |-> req[r].user] ELSE row[s]]
  /\ shown' = {[user |-> req[r].user, slot |-> s, sub |-> req[r].user] : s \in req[r].slots}
  /\ sent' = None /\ Leave(r) /\ UNCHANGED <<kinds, cdn, site, made>>

Next ==
  \/ \E r \in Req :
       \/ Create(r) \/ SaveCreate(r) \/ SetSubscription(r) \/ Update(r) \/ SaveUpdate(r) \/ Delete(r) \/ Remove(r)
       \/ Look(r) \/ Show(r) \/ LookDomains(r) \/ ShowDomains(r)
  \/ SiteWrite \/ RulesWrite \/ SyncDomains \/ SiteGone
Spec == Init /\ [][Next]_vars

-----------------------------------------------------------------------------
(* DATA_COMPATIBILITY.md: what a customer's request names in an account is *)
(* that customer's own there, or the platform's, or is gone.               *)
SentOwn == sent # None => \A s \in sent.slots : cdn[s] \in {sent.user, "platform", "gone"}

(* A list shows a customer nothing that somebody else made.                *)
ShownOwn == \A x \in shown : cdn[x.slot] \in {x.user, "platform", "gone"}

(* However requests overlap, a row never says that a resource is somebody  *)
(* else's, and the shared ones stay the platform's.                        *)
RowsTrue ==
  \A s \in Slot : row[s] # None /\ Alive(s) => cdn[s] = IF Shared(s) THEN "platform" ELSE row[s].owner
=============================================================================
