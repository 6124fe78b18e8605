------------------------------- MODULE Monitor -------------------------------
(* The monitoring page of the web client (features/monitor/index.js).  A   *)
(* query takes the fields of a form, its answer may come late or never,    *)
(* and meanwhile the customer asks again, turns to another category, or    *)
(* leaves and comes back.  Queries are numbered by state.monitorRequestId. *)
EXTENDS Integers, FiniteSets

CONSTANTS
  Remote,    \* what is asked of the CDN: figures, rankings, its logs
  Local,     \* what is asked of the platform: the logs of the account
  Site,      \* the sites a query may be about
  None,
  MaxStamp   \* bound: the number given to the last query or reset

VARIABLES
  endpoint,  \* state.monitorEndpoint
  field,     \* the endpoint the form names; it keeps it while Local is shown
  site,      \* the site the form names
  stamp,     \* state.monitorRequestId
  items,     \* the query whose answer is in the table
  asked,     \* queries that are not answered
  reset      \* the number of the last reset (history)

vars == <<endpoint, field, site, stamp, items, asked, reset>>

Query == [stamp : 1 .. MaxStamp, endpoint : Remote, site : Site]

(* state/monitor-state.js, and the page before anything is chosen.          *)
Init ==
  /\ endpoint \in Remote /\ field = endpoint /\ site = None
  /\ stamp = 0 /\ items = None /\ asked = {} /\ reset = 0

-----------------------------------------------------------------------------
(* queryMonitor: the form names the endpoint and the query gets the next    *)
(* number after n.  One about no site is not sent by itself.                *)
Send(n, e, s) ==
  IF s # None
    THEN stamp' = n + 1 /\ asked' = asked \cup {[stamp |-> n + 1, endpoint |-> e, site |-> s]}
    ELSE stamp' = n /\ UNCHANGED asked

(* resetMonitorResults: what is asked is not waited for any more, and the   *)
(* table is emptied.                                                        *)
Emptied(n) == items' = None /\ reset' = n

(* setMonitorContext, from the rail or the endpoint's select: the category  *)
(* changes, the results are reset and asked for anew.                       *)
Choose(e) ==
  /\ stamp + 2 <= MaxStamp
  /\ endpoint' = e /\ Emptied(stamp + 1)
  /\ IF e \in Local THEN stamp' = stamp + 1 /\ UNCHANGED <<field, asked>>
                    ELSE field' = e /\ Send(stamp + 1, e, site)
  /\ UNCHANGED site

(* navigateFromButton and loadDataPane: the page is entered, reset once by  *)
(* the category and once by the page, and the form is sent, on the page of  *)
(* a local log too.                                                         *)
Enter(e) ==
  LET f == IF e \in Local THEN field ELSE e IN
  /\ stamp + 3 <= MaxStamp
  /\ field' = f /\ endpoint' = (IF site = None THEN e ELSE f)
  /\ Emptied(stamp + 2) /\ Send(stamp + 2, f, site)
  /\ UNCHANGED site

(* The form is submitted.  A range that is not one is refused after the     *)
(* query got its number.                                                    *)
Submit(valid) ==
  /\ endpoint \notin Local /\ site # None /\ stamp < MaxStamp
  /\ endpoint' = field
  /\ IF valid THEN Send(stamp, field, site) ELSE stamp' = stamp + 1 /\ UNCHANGED asked
  /\ UNCHANGED <<field, site, items, reset>>

ChooseSite(s) == site' = s /\ UNCHANGED <<endpoint, field, stamp, items, asked, reset>>

AnyAnswerBug(q) == TRUE

(* Whether an answer, or a failure, is still waited for.                    *)
Awaited(q) == q.stamp = stamp

(* The answer of a query: the rows are drawn as the page's endpoint asks.   *)
Answer(q) ==
  /\ asked' = asked \ {q}
  /\ items' = IF Awaited(q) THEN q ELSE items
  /\ UNCHANGED <<endpoint, field, site, stamp, reset>>

Fail(q) == asked' = asked \ {q} /\ UNCHANGED <<endpoint, field, site, stamp, items, reset>>

Next ==
  \/ \E e \in Remote \cup Local : Choose(e) \/ Enter(e)
  \/ \E valid \in BOOLEAN : Submit(valid)
  \/ \E s \in Site : ChooseSite(s)
  \/ \E q \in asked : Answer(q) \/ Fail(q)

Spec == Init /\ [][Next]_vars

-----------------------------------------------------------------------------
TypeOK ==
  /\ endpoint \in Remote \cup Local /\ field \in Remote /\ site \in Site \cup {None}
  /\ stamp \in 0 .. MaxStamp /\ reset \in 0 .. stamp
  /\ items \in Query \cup {None} /\ asked \subseteq Query

(* queryMonitor, resetMonitorResults (ui-layout.test.js:286, "isolates      *)
(* stale answers"): the table shows only what was asked since the category  *)
(* was last changed, of the endpoint by which it is drawn, and an answer is *)
(* never replaced by that of an older question.                             *)
ResultsFresh ==
  /\ [](items # None => items.stamp > reset /\ items.endpoint = endpoint)
  /\ [][items # None /\ items' # None /\ items' # items => items'.stamp > items.stamp]_items
=============================================================================
