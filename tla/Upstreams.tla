----------------------------- MODULE Upstreams -----------------------------
(***************************************************************************)
(* The accounts at the CDN and the clients that each process keeps for     *)
(* them (upstreams.js, upstream-api.js).  A client holds the credentials   *)
(* of the row it was built from and is found again by the number of the    *)
(* account, the second of its last change and the package; an update       *)
(* forgets the clients of its own process alone.  A probe asks the CDN     *)
(* with such a client and writes what it learns on the row.                *)
(***************************************************************************)
EXTENDS Integers, FiniteSets

CONSTANTS Proc,      \* processes of the application
          Account,   \* accounts at the CDN
          Package,   \* packages a client may be for
          Task,      \* requests and probes under way
          MaxTime,   \* seconds that pass
          MaxSecret, \* credentials an account is given
          Apart,     \* no account is saved twice within a second
          None

VARIABLES row,       \* each account
          now,       \* the second
          clients,   \* the clients each process keeps
          failures,  \* failed probes that each process counts
          task,
          edit,      \* the update each process carries out
          streak     \* history: probes of each process that failed since one succeeded

vars == <<row, now, clients, failures, task, edit, streak>>

Rows == [secret : 1..MaxSecret, stamp : 0..MaxTime, on : BOOLEAN, health : {None, "healthy", "unhealthy"}]
Clients == [account : Account, secret : 1..MaxSecret, package : Package \cup {None}]
Idle == [pc |-> "idle", proc |-> None, probe |-> FALSE, account |-> None, package |-> None,
         row |-> None, client |-> None, ok |-> FALSE, failed |-> 0, streak |-> 0]
NoEdit == [pc |-> "idle", account |-> None, secret |-> 0]

TypeOK ==
  /\ row \in [Account -> Rows] /\ now \in 0..MaxTime
  /\ \A p \in Proc : \A key \in DOMAIN clients[p] : clients[p][key] \in Clients
  /\ failures \in [Proc -> [Account -> 0..3]] /\ streak \in [Proc -> [Account -> 0..3]]
  /\ task \in [Task -> [pc : {"idle", "ask", "take", "use", "write"}, proc : Proc \cup {None}, probe : BOOLEAN,
                        account : Account \cup {None}, package : Package \cup {None}, row : Rows \cup {None},
                        client : Clients \cup {None}, ok : BOOLEAN, failed : 0..3, streak : 0..3]]
  /\ edit \in [Proc -> [pc : {"idle", "save", "clear"}, account : Account \cup {None}, secret : 0..MaxSecret]]

Init ==
  /\ row = [a \in Account |-> [secret |-> 1, stamp |-> 0, on |-> TRUE, health |-> None]] /\ now = 0
  /\ clients = [p \in Proc |-> << >>] /\ failures = [p \in Proc |-> [a \in Account |-> 0]] /\ streak = failures
  /\ task = [t \in Task |-> Idle] /\ edit = [p \in Proc |-> NoEdit]

-----------------------------------------------------------------------------
Least(a, b) == IF a < b THEN a ELSE b

(* Plausible faults of the code.                                           *)
UndatedKeyBug(t) == <<t.account, t.package>>
NeverResetBug(n, ok) == IF ok THEN n ELSE Least(n + 1, 3)

(* The name a client is kept under, and the failures counted after a probe.*)
Key(t) == <<t.account, t.row.stamp, t.package>>
Counted(n, ok) == IF ok THEN 0 ELSE Least(n + 1, 3)

Kept(mine, key, client) ==
  [other \in DOMAIN mine \cup {key} |-> IF other = key THEN client ELSE mine[other]]

Set(t, new) == task' = [task EXCEPT ![t] = new]

(* A request of a process needs a client for an account and a package; a   *)
(* probe first looks the account up, which must be active.                 *)
Start(t, p, a, k) ==
  /\ task[t].pc = "idle"
  /\ Set(t, [Idle EXCEPT !.pc = "ask", !.proc = p, !.account = a, !.package = k])
  /\ UNCHANGED <<row, now, clients, failures, edit, streak>>

StartProbe(t, p, a) ==
  /\ task[t].pc = "idle" /\ row[a].on
  /\ Set(t, [Idle EXCEPT !.pc = "ask", !.proc = p, !.account = a, !.probe = TRUE])
  /\ UNCHANGED <<row, now, clients, failures, edit, streak>>

(* What a probe has learnt is counted at once and written afterwards.      *)
Learn(t, w, ok) ==
  /\ failures' = [failures EXCEPT ![w.proc][w.account] = Counted(@, ok)]
  /\ streak' = [streak EXCEPT ![w.proc][w.account] = IF ok THEN 0 ELSE Least(@ + 1, 3)]
  /\ Set(t, [w EXCEPT !.pc = "write", !.ok = ok, !.row = None, !.client = None,
                      !.failed = failures'[w.proc][w.account], !.streak = streak'[w.proc][w.account]])

(* The row is read, if the account is active.                              *)
Ask(t) ==
  LET w == task[t] IN
  /\ w.pc = "ask" /\ row[w.account].on
  /\ Set(t, [w EXCEPT !.pc = "take", !.row = row[w.account]])
  /\ UNCHANGED <<row, now, clients, failures, edit, streak>>

(* An account that was switched off meanwhile fails the request, or the    *)
(* probe.                                                                  *)
AskOff(t) ==
  LET w == task[t] IN
  /\ w.pc = "ask" /\ ~row[w.account].on
  /\ IF w.probe THEN Learn(t, w, FALSE)
     ELSE Set(t, Idle) /\ UNCHANGED <<failures, streak>>
  /\ UNCHANGED <<row, now, clients, edit>>

(* The client that is kept under this name, or a new one.                  *)
Take(t) ==
  LET w == task[t]
      mine == clients[w.proc]
      built == [account |-> w.account, secret |-> w.row.secret, package |-> w.package] IN
  /\ w.pc = "take"
  /\ IF Key(w) \in DOMAIN mine
     THEN Set(t, [w EXCEPT !.pc = "use", !.client = mine[Key(w)]]) /\ UNCHANGED clients
     ELSE /\ Set(t, [w EXCEPT !.pc = "use", !.client = built])
          /\ clients' = [clients EXCEPT ![w.proc] = Kept(mine, Key(w), built)]
  /\ UNCHANGED <<row, now, failures, edit, streak>>

Finish(t) ==
  /\ task[t].pc = "use" /\ ~task[t].probe /\ Set(t, Idle)
  /\ UNCHANGED <<row, now, clients, failures, edit, streak>>

Answer(t, ok) ==
  /\ task[t].pc = "use" /\ task[t].probe /\ Learn(t, task[t], ok)
  /\ UNCHANGED <<row, now, clients, edit>>

(* The row keeps its state until the third failure in a row.               *)
Write(t) ==
  LET w == task[t] IN
  /\ w.pc = "write" /\ Set(t, Idle)
  /\ row' = [row EXCEPT ![w.account].health = IF w.ok THEN "healthy" ELSE IF w.failed < 3 THEN @ ELSE "unhealthy"]
  /\ UNCHANGED <<now, clients, failures, edit, streak>>

(* An administrator changes an account: the row as read, with what the     *)
(* request names, is written as a whole.                                   *)
Read(p, a) ==
  /\ edit[p].pc = "idle" /\ edit' = [edit EXCEPT ![p] = [pc |-> "save", account |-> a, secret |-> row[a].secret]]
  /\ UNCHANGED <<row, now, clients, failures, task, streak>>

Save(p, fresh, on) ==
  LET e == edit[p] IN
  /\ e.pc = "save"
  /\ Apart => now # row[e.account].stamp
  /\ fresh => row[e.account].secret < MaxSecret
  /\ row' = [row EXCEPT ![e.account].secret = IF fresh THEN @ + 1 ELSE e.secret,
                        ![e.account].stamp = now, ![e.account].on = on]
  /\ edit' = [edit EXCEPT ![p] = [NoEdit EXCEPT !.pc = "clear"]]
  /\ UNCHANGED <<now, clients, failures, task, streak>>

Clear(p) ==
  /\ edit[p].pc = "clear" /\ edit' = [edit EXCEPT ![p] = NoEdit]
  /\ clients' = [clients EXCEPT ![p] = << >>]
  /\ UNCHANGED <<row, now, failures, task, streak>>

Tick == /\ now < MaxTime /\ now' = now + 1
        /\ UNCHANGED <<row, clients, failures, task, edit, streak>>

Next ==
  \/ \E t \in Task :
       \/ \E p \in Proc, a \in Account : StartProbe(t, p, a) \/ \E k \in Package : Start(t, p, a, k)
       \/ Ask(t) \/ AskOff(t) \/ Take(t) \/ Finish(t) \/ Write(t)
       \/ \E ok \in BOOLEAN : Answer(t, ok)
  \/ \E p \in Proc :
       \/ \E a \in Account : Read(p, a)
       \/ \E fresh, on \in BOOLEAN : Save(p, fresh, on)
       \/ Clear(p)
  \/ Tick

Spec == Init /\ [][Next]_vars

-----------------------------------------------------------------------------
(* A request talks to the CDN with the credentials that stood in the row   *)
(* it has just read, for its own account and package: whoever changed them *)
(* and in whichever process, a client built before is not found again      *)
(* (clientForAccount).                                                     *)
CurrentClients ==
  \A t \in Task : LET w == task[t] IN
    w.client # None => /\ w.client.secret = w.row.secret
                       /\ w.client.account = w.account /\ w.client.package = w.package

(* An account is marked as failing only by the third probe in a row of one *)
(* process that failed; every success between them starts the count again  *)
(* (test).                                                                 *)
UnhealthyEarned == \A t \in Task : task[t].pc = "write" /\ task[t].failed = 3 => task[t].streak = 3
=============================================================================
