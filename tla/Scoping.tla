------------------------------ MODULE Scoping ------------------------------
(***************************************************************************)
(* What a customer is shown of an account that several customers share     *)
(* (data-proxy.js): logs and figures by domain, figures by the number of a *)
(* site, traffic by port, and the jobs that are sent.  The CDN does not    *)
(* know the customers: a query is narrowed before it is sent and what      *)
(* comes back is narrowed again.  A row counts the traffic of some sites   *)
(* or streams, and it may not say which.  "me" asks.  The sites stand      *)
(* still; streams are created and deleted by everybody while a query about *)
(* ports is under way.                                                     *)
(***************************************************************************)
EXTENDS Integers, FiniteSets

CONSTANTS Site, Account, Stream, Port, None,
          MaxChanges  \* creations and deletions of streams

VARIABLES site,     \* owner, account, number in the account and domain
          cdn,      \* owner and ports of each stream at the CDN
          slist,    \* the list of streams in the cache
          hidden,   \* history: streams whose creation was not answered
          moved,    \* history: the streams have changed since the query began
          changes,
          query,    \* the ports asked for, and what may be shown of them
          shown,    \* the rows of the answer, each the sites or streams it counts
          docs,     \* the log entries remembered for "me"
          job,      \* whose job has the number 1 in each account
          table,    \* the rows of the jobs
          sent      \* the account and the target of a job

unscoped == <<site, cdn, slist, hidden, moved, changes, query>>
vars == <<unscoped, shown, docs, job, table, sent>>

Owner == {"me", "other"}
Domain == {"a", "x.a", "*.a"}
Under == {<<"x.a", "*.a">>}

Sites == [owner : Owner, account : Account, id : 1..2, domain : Domain]
Streams == [owner : Owner \cup {None}, ports : SUBSET Port \ {{}}]
Lists == {None} \cup [Stream -> Streams \cup {None}]
Idle == [kind |-> "none", pc |-> "idle", ports |-> {}, visible |-> {}, all |-> FALSE]

ASSUME ScopingAssumption ==
  /\ Site \cap Stream = {} /\ MaxChanges \in Nat
  /\ None \notin Site /\ None \notin 1..2 /\ None \notin Owner \cup Domain

TypeOK ==
  /\ site \in [Site -> Sites \cup {None}] /\ cdn \in [Stream -> Streams \cup {None}] /\ slist \in Lists
  /\ hidden \subseteq Stream /\ moved \in BOOLEAN /\ changes \in 0..MaxChanges
  /\ query \in [kind : {"none", "realtime", "top"}, pc : {"idle", "ports", "rows"},
                ports : SUBSET Port, visible : SUBSET Port, all : BOOLEAN]
  /\ shown \subseteq SUBSET (Site \cup Stream) /\ docs \subseteq Account \X (1..2)
  /\ job \in [Account -> Owner \cup {None}] /\ table \in SUBSET (Owner \X Account)
  /\ sent \in {None} \cup [account : Account, site : Site \cup {None}, domain : Domain \cup {None}]

Init ==
  /\ \/ site \in [Site -> Sites \cup {None}] /\ cdn = [s \in Stream |-> None] /\ changes = MaxChanges
     \/ site = [s \in Site |-> None] /\ cdn \in [Stream -> Streams \cup {None}] /\ changes = 0
  /\ \A s, t \in Site :
       s # t /\ site[s] # None /\ site[t] # None /\ site[s].account = site[t].account => site[s].id # site[t].id
  /\ slist = None /\ hidden = {} /\ moved = FALSE /\ query = Idle /\ shown = {} /\ sent = None
  /\ docs = {} /\ job = [a \in Account |-> None] /\ table = {}

-----------------------------------------------------------------------------
(* Plausible faults of the code.                                           *)
Clashing(s, t) == site[t] # None /\ site[t].owner # "me" /\ site[t].account = site[s].account
AlikeBug(s) == {site[t].domain : t \in {t \in Site : Clashing(s, t) /\ site[t].domain = site[s].domain}}

Mine == {s \in Site : site[s] # None /\ site[s].owner = "me"}
In(a) == {s \in Site : site[s] # None /\ site[s].account = a}
Accounts(chosen) == {site[s].account : s \in chosen}

(* A site serves its own domain, and a wildcard those below it.            *)
Serves(s, d) == site[s].domain = d \/ <<d, site[s].domain>> \in Under
Overlaps(d, e) == d = e \/ <<d, e>> \in Under \/ <<e, d>> \in Under

(* conflictingDomains: those of other customers in the account of the site. *)
Conflicting(s) == {site[t].domain : t \in {t \in Site : Clashing(s, t)}}
DomainOwned(d, chosen) ==
  \E s \in chosen : Serves(s, d) /\ \A e \in Conflicting(s) : ~Overlaps(d, e)

(* What the CDN counts for a domain in one account.                        *)
CountedBy(a, d) == {s \in In(a) : Overlaps(site[s].domain, d)}

(* An answer is a set of rows.  The CDN may tag each row with what was     *)
(* asked for, answer with a row for everything in the account, or with one *)
(* row for all that was asked for.                                         *)
Answers(asked, every, count) ==
  {{[tag |-> t, counts |-> count[t]] : t \in asked}, {[tag |-> t, counts |-> count[t]] : t \in every},
   {[tag |-> None, counts |-> UNION {count[t] : t \in asked}]}}

(* filterDomainRecords: without a tag a row is not shown.                  *)
Tagged(rows, asked) == {r \in rows : r.tag \in asked}
(* filterScopedRecords, filterResourceRecords: if no row has a tag, the    *)
(* request has narrowed the answer.                                        *)
Scoped(rows, asked) == IF \A r \in rows : r.tag = None THEN rows ELSE Tagged(rows, asked)
Counts(rows) == {r.counts : r \in rows}

Show(rows) == shown' = rows /\ sent' = None /\ query.pc = "idle"

-----------------------------------------------------------------------------
(* Logs and figures by domain: every domain asked for is one's own, and    *)
(* all of them are in one account.                                         *)
Matched(domains) == {s \in Mine : \E d \in domains : DomainOwned(d, {s})}
ScopeDomain(domains, a) ==
  /\ \A d \in domains : DomainOwned(d, Mine)
  /\ Accounts(Matched(domains)) = {a}
DomainAnswers(a, domains) ==
  Answers(domains, {site[s].domain : s \in In(a)}, [d \in Domain |-> CountedBy(a, d)])

Figures ==
  /\ \E domains \in SUBSET Domain \ {{}}, a \in Account :
       ScopeDomain(domains, a) /\ \E rows \in DomainAnswers(a, domains) : Show(Counts(Scoped(rows, domains)))
  /\ UNCHANGED <<unscoped, docs, job, table>>

(* An entry of the log belongs to one site.  The numbers of entries are    *)
(* remembered with the account they came from; one is enough here.         *)
Log ==
  /\ \E domains \in SUBSET Domain \ {{}}, a \in Account :
       /\ ScopeDomain(domains, a)
       /\ LET entries == {s \in In(a) : \E d \in domains : Serves(s, d)} IN
            Show({{s} : s \in entries}) /\ \E s \in entries : docs' = {<<a, site[s].id>>}
  /\ UNCHANGED <<unscoped, job, table>>

LogEntry ==
  /\ \E doc \in docs : Show({{s} : s \in {t \in In(doc[1]) : site[t].id = doc[2]}})
  /\ UNCHANGED <<unscoped, docs, job, table>>

(* The overview asks every account for all domains one has there.          *)
Overview ==
  /\ LET mine(a) == Mine \cap In(a)
         domains(a) == {site[s].domain : s \in mine(a)} IN
       /\ \A a \in Accounts(Mine) : \A d \in domains(a) : DomainOwned(d, mine(a))
       /\ \E a \in Accounts(Mine) : \E rows \in DomainAnswers(a, domains(a)) : Show(Counts(Scoped(rows, domains(a))))
  /\ UNCHANGED <<unscoped, docs, job, table>>

-----------------------------------------------------------------------------
(* Usage, and addresses that are blocked: by the numbers of the sites,     *)
(* which every account gives out anew.                                     *)
IdsIn(chosen, a) == {site[s].id : s \in chosen \cap In(a)}
Usage ==
  /\ \E chosen \in SUBSET Mine \ {{}} : \E a \in Accounts(chosen) :
       LET count == [i \in 1..2 |-> {s \in In(a) : site[s].id = i}]
           ids == IdsIn(chosen, a) IN
         \E rows \in Answers(ids, {site[s].id : s \in In(a)}, count) : Show(Counts(Scoped(rows, ids)))
  /\ UNCHANGED <<unscoped, docs, job, table>>
Blocked ==
  /\ \E s \in Mine : Show({{t} : t \in {t \in In(site[s].account) : site[t].id = site[s].id}})
  /\ UNCHANGED <<unscoped, docs, job, table>>
BlockedCount ==
  /\ \E a \in Accounts(Mine) : Show({{s} : s \in {t \in In(a) : site[t].id \in IdsIn(Mine, a)}})
  /\ UNCHANGED <<unscoped, docs, job, table>>

-----------------------------------------------------------------------------
(* Jobs for a site, or for a URL or a log of one's own domain.  The        *)
(* account is that of the sites the job refers to, and all are in one; the *)
(* row is made if the CDN returns as many numbers as jobs were sent.       *)
Post(target, a) ==
  /\ sent' = [target EXCEPT !.account = a] /\ shown' = {} /\ query.pc = "idle"
  /\ IF job[a] = None
       THEN job' = [job EXCEPT ![a] = "me"] /\ (table' = table \cup {<<"me", a>>} \/ table' = table)
       ELSE UNCHANGED <<job, table>>
Target(s, d, a) == [account |-> a, site |-> s, domain |-> d]
SiteJob ==
  /\ \E s \in Mine : Post(Target(s, None, site[s].account), site[s].account)
  /\ UNCHANGED <<unscoped, docs>>
DomainJob ==
  /\ \E d \in Domain, s \in Site : DomainOwned(d, Mine) /\ s \in Matched({d}) /\ Post(Target(None, d, site[s].account), site[s].account)
  /\ UNCHANGED <<unscoped, docs>>
OtherJob ==
  /\ \E a \in Account : In(a) # {} /\ job[a] = None /\ job' = [job EXCEPT ![a] = "other"] /\ table' = table \cup {<<"other", a>>}
  /\ UNCHANGED <<unscoped, docs, shown, sent>>

(* A job is listed, and its result downloaded, if its row is one's own.    *)
Listed(a) == <<"me", a>> \in table
JobsOf(a) == IF Listed(a) THEN In(a) \cap (IF job[a] = "me" THEN Mine ELSE Site \ Mine) ELSE {}
ListJobs ==
  /\ \E a \in Accounts(Mine) : job[a] # None /\ Show({JobsOf(a)})
  /\ UNCHANGED <<unscoped, docs, job, table>>

-----------------------------------------------------------------------------
(* Traffic by port.  The table has the ports of one's own streams, and has *)
(* just been refreshed (module Streams).                                   *)
Own(l) == {s \in Stream : l[s] # None /\ l[s].owner = "me"}
PortsOf(l, ss) == UNION {l[s].ports : s \in ss}
All(l) == {s \in Stream : l[s] # None}

ScopePorts ==
  /\ query.pc = "idle"
  /\ \E kind \in {"realtime", "top"}, asked \in SUBSET Port :
       LET allowed == PortsOf(cdn, Own(cdn)) IN
         /\ asked \subseteq allowed /\ allowed # {}
         /\ query' = [Idle EXCEPT !.kind = kind, !.pc = "ports", !.ports = IF asked = {} THEN allowed ELSE asked]
  /\ moved' = FALSE /\ shown' = {} /\ sent' = None /\ UNCHANGED <<site, cdn, slist, hidden, changes, docs, job, table>>

(* streamVisibility: nothing, unless the whole list came back; a port only *)
(* if no stream of another customer, or of nobody, has it.                 *)
AllOwned(l) == All(l) = Own(l)
Exclusive(l, p) == p \in PortsOf(l, Own(l)) \ PortsOf(l, All(l) \ Own(l))
Visibility ==
  /\ query.pc = "ports"
  /\ \/ query' = [query EXCEPT !.pc = "rows"] /\ UNCHANGED slist
     \/ \E l \in {cdn} \cup ({slist} \ {None}) :
          /\ slist' = l
          /\ query' = [query EXCEPT !.pc = "rows", !.visible = {p \in query.ports : Exclusive(l, p)},
                         !.all = All(l) # {} /\ AllOwned(l) /\ PortsOf(l, Own(l)) \subseteq query.ports]
  /\ UNCHANGED <<site, cdn, hidden, moved, changes, shown, docs, job, table, sent>>

(* The CDN returns a row for each port in use, or one for the account.     *)
Traffic ==
  /\ query.pc = "rows"
  /\ LET using(p) == {s \in All(cdn) : p \in cdn[s].ports} IN
       \/ shown' = {using(p) : p \in {p \in query.visible : using(p) # {}}}
       \/ shown' = IF query.kind = "realtime" /\ query.all THEN {All(cdn)} ELSE {}
  /\ query' = Idle /\ UNCHANGED <<site, cdn, slist, hidden, moved, changes, docs, job, table, sent>>

(* Streams come and go; a creation may not be answered, and then nobody    *)
(* has a row for it and the cached list stays.                             *)
Create ==
  /\ changes < MaxChanges /\ changes' = changes + 1 /\ moved' = TRUE
  /\ \E s \in Stream, o \in Owner, ports \in SUBSET Port \ {{}} :
       /\ cdn[s] = None
       /\ \/ cdn' = [cdn EXCEPT ![s] = [owner |-> o, ports |-> ports]] /\ slist' = None /\ UNCHANGED hidden
          \/ cdn' = [cdn EXCEPT ![s] = [owner |-> None, ports |-> ports]] /\ hidden' = hidden \cup {s} /\ UNCHANGED slist
  /\ UNCHANGED <<site, query, shown, docs, job, table, sent>>
Delete ==
  /\ changes < MaxChanges /\ changes' = changes + 1 /\ moved' = TRUE
  /\ \E s \in All(cdn) : cdn' = [cdn EXCEPT ![s] = None] /\ hidden' = hidden \ {s}
  /\ slist' = None /\ UNCHANGED <<site, query, shown, docs, job, table, sent>>

Next ==
  \/ Figures \/ Log \/ LogEntry \/ Overview \/ Usage \/ Blocked \/ BlockedCount
  \/ SiteJob \/ DomainJob \/ OtherJob \/ ListJobs
  \/ ScopePorts \/ Visibility \/ Traffic \/ Create \/ Delete
Spec == Init /\ [][Next]_vars

-----------------------------------------------------------------------------
(* DATA_COMPATIBILITY.md: whatever the CDN answers, no row that is shown   *)
(* counts a site of somebody else, and no job of somebody else is listed.  *)
OwnSites == \A row \in shown : \A s \in row \cap Site : site[s].owner = "me"

(* No row counts a stream of somebody else, unless the streams changed     *)
(* while the query was under way or nobody knows of the stream.            *)
OwnTraffic ==
  ~moved => \A row \in shown : \A s \in row \cap Stream : s \in hidden \/ cdn[s].owner = "me"

(* A job goes to the account that serves its target for the customer, and  *)
(* for nobody else.                                                        *)
JobsHome ==
  sent # None =>
    LET targets == IF sent.site # None THEN {sent.site} ELSE CountedBy(sent.account, sent.domain) IN
      targets # {} /\ \A s \in targets : site[s].owner = "me" /\ site[s].account = sent.account
=============================================================================
