----------------------------- MODULE MCTenancy -----------------------------
(* What a customer is shown and sends: of the sites, streams and resources *)
(* of accounts that customers share (Scoping, Resources), and on the pages *)
(* of the web client (Monitor, Pages, Lists).  A behaviour is one of one   *)
(* of the five, and the others stay as they were at the start.             *)
EXTENDS Scoping, TLC

CONSTANTS User, Req, MaxMade, Alike,
          Remote, Local, Web, Rule, Cert, MaxStamp, Patient

ASSUME PartsAssumption ==
  /\ MaxMade \in Nat /\ MaxStamp \in Nat
  /\ User \cap {"gone", "platform"} = {} /\ None \notin User \cup {"gone", "platform"}

VARIABLES part,
          kinds, rcdn, row, rsite, req, made, rsent, rshown,
          endpoint, field, msite, stamp, items, asked, reset,
          page, psite, config, stream, form, saving, calls, psent,
          kind, rows, dialog, waits, saved

resources == <<kinds, rcdn, row, rsite, req, made, rsent, rshown>>
monitor == <<endpoint, field, msite, stamp, items, asked, reset>>
pages == <<page, psite, config, stream, form, saving, calls, psent>>
lists == <<kind, rows, dialog, waits, saved>>

R == INSTANCE Resources WITH cdn <- rcdn, site <- rsite, sent <- rsent, shown <- rshown
M == INSTANCE Monitor WITH Site <- Web, site <- msite
P == INSTANCE Pages WITH Site <- Web, site <- psite, asked <- calls, sent <- psent
L == INSTANCE Lists WITH Kind <- {"acls", "certs"}, Later <- {"certs"}, Res <- Rule \cup Cert, asked <- waits,
                         KindOf <- [x \in Rule \cup Cert |-> IF x \in Rule THEN "acls" ELSE "certs"]

(* The sites are alike, so they are put in some order.                     *)
Rank(x) ==
  IF x = None THEN 0
  ELSE x.id + (IF x.owner = "me" THEN 2 ELSE 0) + (CASE x.domain = "a" -> 4 [] x.domain = "x.a" -> 8 [] OTHER -> 12)
Ordered == \A s, t \in Site : s < t => Rank(site[s]) <= Rank(site[t])

NoReading == (\A s \in Site : site[s] = None) /\ (\A s \in Stream : cdn[s] = None)
NoResources ==
  kinds = {"dnsapis", "certs"} /\ \A a \in Account : rcdn[<<"waf-rules", a, 1>>] = "platform"

MCInit ==
  /\ part \in {"reading", "resources", "monitor", "pages", "lists"}
  /\ M!Init /\ P!Init /\ L!Init
  /\ (part # "monitor" => endpoint = CHOOSE e \in Remote : TRUE) /\ (part # "lists" => kind = "acls")
  /\ R!Init /\ (part # "resources" => NoResources)
  /\ Init /\ Ordered /\ (part # "reading" => NoReading)

MCNext ==
  \/ part = "reading" /\ Next /\ UNCHANGED <<part, resources, monitor, pages, lists>>
  \/ part = "resources" /\ R!Next /\ UNCHANGED <<part, vars, monitor, pages, lists>>
  \/ part = "monitor" /\ M!Next /\ UNCHANGED <<part, vars, resources, pages, lists>>
  \/ part = "pages" /\ P!Next /\ UNCHANGED <<part, vars, resources, monitor, lists>>
  \/ part = "lists" /\ L!Next /\ UNCHANGED <<part, vars, resources, monitor, pages>>

MCSpec == MCInit /\ [][MCNext]_<<part, vars, resources, monitor, pages, lists>>

(* What a customer is shown, figures, traffic, logs, jobs or resources, is *)
(* that customer's own.                                                    *)
AnswersOwn == TypeOK /\ OwnSites /\ OwnTraffic /\ R!ShownOwn
(* What a customer's request names at the CDN is that customer's own, and  *)
(* what the rows say of an owner is what the CDN knows.                    *)
RequestsOwn == R!TypeOK /\ JobsHome /\ R!SentOwn /\ R!RowsTrue
(* Late answers neither show old results nor mix two things in a form that *)
(* is saved (features/monitor/index.js, views/site-detail-view.js,         *)
(* views/data-view.js, views/security-view.js).                            *)
LateAnswersHarmless ==
  [](M!TypeOK /\ P!TypeOK /\ L!TypeOK /\ P!SavedWhole /\ L!WholeSaved) /\ M!ResultsFresh

Symmetry == Permutations(Req) \cup Permutations(User) \cup Permutations(Account)
=============================================================================
