---------------------------- MODULE MCUpstreams ----------------------------
(* To which upstream account a customer's request is sent (Routing), and   *)
(* with which client (Upstreams).  A behaviour is one of one of the two,   *)
(* and the other stays as it was at the start.                             *)
EXTENDS Routing, TLC

CONSTANTS Proc, Watched, Task, MaxTime, MaxSecret, Apart

ASSUME ClientsAssumption == MaxTime \in Nat /\ MaxSecret \in Nat \ {0}

VARIABLES part, row, now, clients, failures, task, edit, streak

upstreams == <<row, now, clients, failures, task, edit, streak>>

U == INSTANCE Upstreams WITH Account <- Watched

MCInit ==
  /\ part \in {"routing", "upstreams"}
  /\ U!Init
  /\ Init /\ (part = "upstreams" => \A a \in Account : acct[a] = "on")

MCNext ==
  \/ part = "routing" /\ Next /\ UNCHANGED <<part, upstreams>>
  \/ part = "upstreams" /\ U!Next /\ UNCHANGED <<part, vars>>

MCSpec == MCInit /\ [][MCNext]_<<part, vars, upstreams>>

(* What a customer has goes to the account and the package it was sold at, *)
(* and a mapping moves only with what depends on it (billing.js,           *)
(* upstream-api.js).                                                       *)
RoutesSound == TypeOK /\ RoutesHome
(* A request is signed with the credentials the row has, in every process, *)
(* and an account is failing only after three probes in a row failed       *)
(* (upstreams.js).                                                         *)
ClientsSound == U!TypeOK /\ U!CurrentClients /\ U!UnhealthyEarned

Symmetry == Permutations(Proc)
=============================================================================
