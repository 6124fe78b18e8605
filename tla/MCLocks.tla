------------------------------- MODULE MCLocks -------------------------------
(* Three calls in one process that has a slot for two of them, and two     *)
(* names.  What another process holds is held by another session, as what  *)
(* another call of the same process holds is.  Row locks, in the order in  *)
(* which the transactions of WalletTx take them, are what else a customer  *)
(* may wait for: a behaviour is one of calls or one of three transactions  *)
(* of one customer, and the other part stays as it was at the start.       *)
EXTENDS AdvisoryLock, Integers, TLC

CONSTANTS c1, c2, c3, i1, Tx, User, Code, MaxBalance

VARIABLES calling, tpc, op, got, seen, balance, book, order, uses, used, enabled

MCInst == c1 :> i1 @@ c2 :> i1 @@ c3 :> i1

transactions == <<tpc, op, got, seen, balance, book, order, uses, used, enabled>>

W == INSTANCE WalletTx WITH pc <- tpc, Price <- {1}, Change <- {-1, 0, 1},
                            Value <- [k \in Code |-> 2], MaxUses <- [k \in Code |-> 1]

NoCalls == \A c \in Call : pc[c] = "new" /\ ~reent[c] /\ key[c] = CHOOSE k \in Key : TRUE

MCInit == calling \in BOOLEAN /\ Init /\ (~calling => NoCalls) /\ W!Init

MCNext ==
  \/ calling /\ Next /\ UNCHANGED <<calling, transactions>>
  \/ ~calling /\ W!Next /\ UNCHANGED <<calling, vars>>

MCSpec ==
  /\ MCInit /\ [][MCNext]_<<calling, vars, transactions>>
  /\ \A c \in Call : WF_vars(calling /\ Step(c))
  /\ \A t \in Tx : WF_transactions(~calling /\ W!Step(t))

(* Nobody waits for ever: a call returns, and a transaction ends though    *)
(* others lock the same rows in another order (db.js:86, db.js:102-124).   *)
EveryoneGoesOn == EveryCallReturns /\ W!EveryTxEnds
=============================================================================
