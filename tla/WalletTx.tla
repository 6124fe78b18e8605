------------------------------ MODULE WalletTx ------------------------------
(***************************************************************************)
(* The database transactions that move money (src/src/wallet.js,           *)
(* src/src/billing-api.js, src/src/billing.js), at the granularity of the  *)
(* row locks their statements take in PostgreSQL.                          *)
(*                                                                         *)
(* A transaction takes the locks of its kind in the order of the code's    *)
(* statements, reads each row once it has locked it, gives up (ROLLBACK)   *)
(* when a check on what it read fails, and makes all its writes visible at *)
(* COMMIT.  Kinds lock the same rows in different orders, so transactions  *)
(* can wait in a ring; PostgreSQL then aborts one of them.                 *)
(***************************************************************************)
EXTENDS Integers, Sequences, FiniteSets

CONSTANTS
  Tx,          (* Transactions; an order is named by the one that made it. *)
  User,        (* Customers, each with a wallet and one subscription.      *)
  Code,        (* Recharge codes.                                          *)
  Value,       (* amount_cents of each code.                               *)
  MaxUses,     (* max_uses of each code.                                   *)
  Price,       (* Prices of plans, renewals, upgrades and traffic packs.   *)
  Change,      (* Adjustments and plan-change differences, either sign.    *)
  MaxBalance,  (* Number.MAX_SAFE_INTEGER in the code.                     *)
  None         (* No operation, no order, no item.                         *)

ASSUME ConstantsAssumption ==
  /\ IsFiniteSet(User)
  /\ Value \in [Code -> Nat \ {0}]
  /\ MaxUses \in [Code -> Nat \ {0}]
  /\ Price \subseteq Nat
  /\ Change \subseteq Int
  /\ MaxBalance \in Nat
  /\ None \notin Tx \cup Code

VARIABLES
  pc,        (* "idle", "open" or "closed" for each transaction.           *)
  op,        (* What an open transaction does.                             *)
  got,       (* How many of its row locks it has.                          *)
  seen,      (* The balance it read when it locked the wallet.             *)
  balance,   (* wallets.balance_cents.                                     *)
  book,      (* wallet_transactions.                                       *)
  order,     (* orders: status, type, customer, amount.                    *)
  uses,      (* recharge_code_uses: the customers of each code.            *)
  used,      (* recharge_codes.used_count.                                 *)
  enabled    (* recharge_codes.status = 'active'.                          *)

tables == <<balance, book, order, uses, used, enabled>>
vars == <<pc, op, got, seen, balance, book, order, uses, used, enabled>>

(* Kinds of transactions.  Those that sell something make an order that    *)
(* can be refunded; a plan change makes one that cannot.                   *)
Sale == {"plan", "renewal", "upgrade", "traffic"}
Kind == Sale \cup {"adjust", "recharge", "refund", "change"}

(* delta is what is asked of the wallet; item is the code of a recharge    *)
(* and the order a refund is for.                                          *)
Op == [kind : Kind, user : User, delta : Int, item : Code \cup Tx \cup {None}]

OrderRow == [status : {"paid", "refunded"}, kind : Sale \cup {"change"},
             user : User, amount : Nat]

Ref == ({"admin-adjustment", "order", "order-refund"} \X Tx)
       \cup ({"recharge-code"} \X Code \X User)

Entry == [delta : Int, after : Nat, ref : Ref]

ASSUME NoneAssumption == None \notin Op /\ None \notin OrderRow

TypeOK ==
  /\ pc \in [Tx -> {"idle", "open", "closed"}]
  /\ op \in [Tx -> Op \cup {None}]
  /\ got \in [Tx -> Nat]
  /\ seen \in [Tx -> Nat]
  /\ balance \in [User -> 0..MaxBalance]
  /\ book \in [User -> Seq(Entry)]
  /\ order \in [Tx -> OrderRow \cup {None}]
  /\ uses \in [Code -> SUBSET User]
  /\ used \in [Code -> Nat]
  /\ enabled \in [Code -> BOOLEAN]

Init ==
  /\ pc = [t \in Tx |-> "idle"]
  /\ op = [t \in Tx |-> None]
  /\ got = [t \in Tx |-> 0]
  /\ seen = [t \in Tx |-> 0]
  /\ balance = [u \in User |-> 0]
  /\ book = [u \in User |-> << >>]
  /\ order = [t \in Tx |-> None]
  /\ uses = [k \in Code |-> {}]
  /\ used = [k \in Code |-> 0]
  /\ enabled = [k \in Code |-> TRUE]

-----------------------------------------------------------------------------
(* The requests: an administrator's adjustment or refund, a recharge, the  *)
(* purchases, a manual or automatic renewal, a plan change.                *)
Adjustments == [kind : {"adjust"}, user : User, delta : Change \ {0}, item : {None}]

Recharges ==
  {[kind |-> "recharge", user |-> u, delta |-> Value[k], item |-> k] : u \in User, k \in Code}

Purchases ==
  {[kind |-> s, user |-> u, delta |-> -p, item |-> None] : s \in Sale, u \in User, p \in Price}

PlanChanges == [kind : {"change"}, user : User, delta : Change, item : {None}]

Refunds ==
  {[kind |-> "refund", user |-> order[o].user, delta |-> order[o].amount, item |-> o] :
     o \in {o \in Tx : order[o] # None}}

Begin(t) ==
  /\ pc[t] = "idle"
  /\ \E o \in Adjustments \cup Recharges \cup Purchases \cup PlanChanges \cup Refunds :
       op' = [op EXCEPT ![t] = o]
  /\ pc' = [pc EXCEPT ![t] = "open"]
  /\ UNCHANGED <<got, seen, tables>>

-----------------------------------------------------------------------------
(* Row locks: "update" is SELECT ... FOR UPDATE, "nokey" an UPDATE of a    *)
(* row not locked before, "share" the FOR KEY SHARE of a foreign key.      *)
Compatible(m, n) == "share" \in {m, n} /\ "update" \notin {m, n}

Lock(table, id, mode) == [row |-> <<table, id>>, mode |-> mode]

(* The locks of a transaction in the order its statements take them; a     *)
(* refund's depend on what the order was for.                              *)
LocksOf(o, sold) ==
  LET wallet == Lock("wallet", o.user, "update")
      fkey == Lock("user", o.user, "share")
      sub(m) == Lock("sub", o.user, m)
      upgrade == Lock("upgrade", o.user, "update")
      refunded == Lock("order", o.item, "update")
  IN CASE o.kind = "adjust" -> <<wallet, fkey>>
       [] o.kind = "recharge" -> <<Lock("code", o.item, "update"), wallet, fkey>>
       [] o.kind \in {"plan", "change"} -> <<Lock("user", o.user, "update"), sub("update"), wallet>>
       [] o.kind = "renewal" -> <<sub("update"), wallet, fkey>>
       [] o.kind = "upgrade" -> <<wallet, fkey, sub("share"), upgrade>>
       [] o.kind = "traffic" -> <<wallet, fkey, sub("share")>>
       [] o.kind = "refund" ->
            CASE sold = "plan" -> <<refunded, sub("nokey"), wallet, fkey>>
              [] sold = "renewal" -> <<refunded, sub("update"), wallet, fkey>>
              [] sold = "upgrade" -> <<refunded, upgrade, wallet, fkey>>
              [] OTHER -> <<refunded, wallet, fkey>>

LockPlan(o) == LocksOf(o, IF o.kind = "refund" THEN order[o.item].kind ELSE None)

Ready(t) == got[t] = Len(LockPlan(op[t]))

Wanted(t) == LockPlan(op[t])[got[t] + 1]

Holds(t) == {LockPlan(op[t])[i] : i \in 1..got[t]}

(* t cannot have its next lock while s keeps a conflicting one.            *)
Waits(t, s) ==
  /\ pc[t] = "open" /\ pc[s] = "open" /\ t # s
  /\ ~Ready(t)
  /\ \E l \in Holds(s) : l.row = Wanted(t).row /\ ~Compatible(l.mode, Wanted(t).mode)

WalletNotLockedBug(t) == Wanted(t).row[1] = "wallet" \/ \A s \in Tx : ~Waits(t, s)

CodeNotLockedBug(t) == Wanted(t).row[1] = "code" \/ \A s \in Tx : ~Waits(t, s)

Free(t) == \A s \in Tx : ~Waits(t, s)

(* What the code checks once it has read the row it just locked.           *)
CodeUsable(o) ==
  enabled[o.item] /\ used[o.item] < MaxUses[o.item] /\ o.user \notin uses[o.item]

OrderRefundable(o) == order[o.item].status = "paid" /\ order[o.item].kind \in Sale

OverdraftBug(o) == balance[o.user] + o.delta <= MaxBalance

BalanceCovers(o) == balance[o.user] + o.delta \in 0..MaxBalance

Passes(t) ==
  CASE Wanted(t).row[1] = "code" -> CodeUsable(op[t])
    [] Wanted(t).row[1] = "order" -> OrderRefundable(op[t])
    [] Wanted(t).row[1] = "wallet" -> BalanceCovers(op[t])
    [] OTHER -> TRUE

Acquire(t) ==
  /\ pc[t] = "open" /\ ~Ready(t)
  /\ Free(t) /\ Passes(t)
  /\ got' = [got EXCEPT ![t] = @ + 1]
  /\ seen' = IF Wanted(t).row[1] = "wallet"
             THEN [seen EXCEPT ![t] = balance[op[t].user]] ELSE seen
  /\ UNCHANGED <<pc, op, tables>>

-----------------------------------------------------------------------------
(* COMMIT or ROLLBACK: the locks of t are gone.                            *)
Close(t) ==
  /\ pc' = [pc EXCEPT ![t] = "closed"]
  /\ op' = [op EXCEPT ![t] = None]
  /\ got' = [got EXCEPT ![t] = 0]
  /\ seen' = [seen EXCEPT ![t] = 0]

RefOf(t) ==
  LET o == op[t] IN
  CASE o.kind = "adjust" -> <<"admin-adjustment", t>>
    [] o.kind = "recharge" -> <<"recharge-code", o.item, o.user>>
    [] o.kind = "refund" -> <<"order-refund", o.item>>
    [] o.kind = "change" /\ o.delta > 0 -> <<"order-refund", t>>
    [] OTHER -> <<"order", t>>

Posted(r) == \E u \in User : \E i \in DOMAIN book[u] : book[u][i].ref = r

(* The unique index on the reference of an entry.                          *)
Unique(t) == op[t].delta # 0 => ~Posted(RefOf(t))

(* changeBalance: the new balance comes from the one read under the lock;  *)
(* an operation of nothing leaves no entry.                                *)
ChangeBalance(t) ==
  LET u == op[t].user
      next == seen[t] + op[t].delta
  IN /\ balance' = [balance EXCEPT ![u] = next]
     /\ book' = IF op[t].delta = 0 THEN book
                ELSE [book EXCEPT ![u] =
                        Append(@, [delta |-> op[t].delta, after |-> next, ref |-> RefOf(t)])]

Abs(n) == IF n < 0 THEN -n ELSE n

RefundLeavesOrderPaidBug(t) ==
  IF op[t].kind \in Sale \cup {"change"}
  THEN [order EXCEPT ![t] = [status |-> "paid", kind |-> op[t].kind,
                             user |-> op[t].user, amount |-> Abs(op[t].delta)]]
  ELSE order

Ordered(t) ==
  IF op[t].kind \in Sale \cup {"change"}
  THEN [order EXCEPT ![t] = [status |-> "paid", kind |-> op[t].kind,
                             user |-> op[t].user, amount |-> Abs(op[t].delta)]]
  ELSE IF op[t].kind = "refund" THEN [order EXCEPT ![op[t].item].status = "refunded"]
  ELSE order

UseCode(t) ==
  IF op[t].kind = "recharge"
  THEN /\ uses' = [uses EXCEPT ![op[t].item] = @ \cup {op[t].user}]
       /\ used' = [used EXCEPT ![op[t].item] = @ + 1]
  ELSE UNCHANGED <<uses, used>>

Commit(t) ==
  /\ pc[t] = "open" /\ Ready(t) /\ Unique(t)
  /\ ChangeBalance(t)
  /\ order' = Ordered(t)
  /\ UseCode(t)
  /\ Close(t)
  /\ UNCHANGED enabled

(* A check fails, or an INSERT meets the unique index.                     *)
Refused(t) == IF Ready(t) THEN ~Unique(t) ELSE Free(t) /\ ~Passes(t)

Reject(t) ==
  /\ pc[t] = "open" /\ Refused(t)
  /\ Close(t)
  /\ UNCHANGED tables

(* Transactions that wait for each other, none of them outside a ring.     *)
Stuck(R) == R # {} /\ \A x \in R : \E y \in R : Waits(x, y)

Ring(R) == Stuck(R) /\ \A S \in SUBSET R : Stuck(S) => S = R

RingNotFoundBug(t) == t \in Tx /\ FALSE /\ UNCHANGED vars

(* PostgreSQL finds the ring and aborts one of its transactions.           *)
DeadlockAbort(t) ==
  /\ \E R \in SUBSET Tx : t \in R /\ Ring(R)
  /\ Close(t)
  /\ UNCHANGED tables

(* Any other failure: a statement, the connection or the process.          *)
Abort(t) ==
  /\ pc[t] = "open"
  /\ Close(t)
  /\ UNCHANGED tables

(* An administrator disables a code: one UPDATE, with no transaction.      *)
Disable(k) ==
  /\ enabled[k]
  /\ \A t \in Tx : pc[t] = "open" => Lock("code", k, "update") \notin Holds(t)
  /\ enabled' = [enabled EXCEPT ![k] = FALSE]
  /\ UNCHANGED <<pc, op, got, seen, balance, book, order, uses, used>>

Step(t) == Acquire(t) \/ Commit(t) \/ Reject(t) \/ DeadlockAbort(t)

Next ==
  \/ \E t \in Tx : Begin(t) \/ Step(t) \/ Abort(t)
  \/ \E k \in Code : Disable(k)

Spec == Init /\ [][Next]_vars

(* Statements answer, and PostgreSQL resolves every ring.                  *)
FairSpec == Spec /\ \A t \in Tx : WF_vars(Step(t))

-----------------------------------------------------------------------------
(* No two open transactions keep conflicting locks on a row.               *)
LocksCompatible ==
  \A s, t \in Tx : s # t /\ pc[s] = "open" /\ pc[t] = "open" =>
    \A l \in Holds(s), m \in Holds(t) : l.row = m.row => Compatible(l.mode, m.mode)

(* What an open transaction is about stays what it asked for, and a        *)
(* transaction that has not closed has made no order.                      *)
OpSound(t) ==
  LET o == op[t] IN
  IF pc[t] # "open" THEN o = None /\ got[t] = 0
  ELSE /\ o \in Op
       /\ got[t] \in 0..Len(LockPlan(o))
       /\ o.kind = "recharge" => o.item \in Code /\ o.delta = Value[o.item]
       /\ o.kind = "refund" => /\ o.item \in Tx /\ order[o.item] # None
                               /\ o.user = order[o.item].user
                               /\ o.delta = order[o.item].amount
       /\ o.kind \in Sale => o.delta <= 0
       /\ o.kind = "adjust" => o.delta # 0

OrdersNew == \A t \in Tx : pc[t] # "closed" => order[t] = None

HoldsRow(t, table) == \E i \in 1..got[t] : LockPlan(op[t])[i].row[1] = table

(* What was read and checked under a lock is still so while it is held.    *)
StillSound(t) ==
  pc[t] = "open" =>
    /\ HoldsRow(t, "wallet") => seen[t] = balance[op[t].user] /\ BalanceCovers(op[t])
    /\ HoldsRow(t, "order") => OrderRefundable(op[t])
    /\ HoldsRow(t, "code") => CodeUsable(op[t])

(* The book explains the balance: each entry continues from the balance    *)
(* the previous one left, and the last one left the current balance        *)
(* (balance_after_cents, ACCOUNT_ADMIN.md:104); no update is lost between  *)
(* wallet.js:33 and wallet.js:37.                                          *)
Explains(q, b) ==
  LET after(i) == IF i = 0 THEN 0 ELSE q[i].after
  IN (\A i \in DOMAIN q : q[i].after = after(i - 1) + q[i].delta) /\ b = after(Len(q))

BookSound == \A u \in User : Explains(book[u], balance[u])

(* Every order agrees with the book: a paid order was charged its amount   *)
(* to its customer, once, and has given nothing back; a refunded one has   *)
(* given all of it back, once; a transaction that rolled back left neither *)
(* an order nor an entry (billing-api.js:63-135, 257-319).                 *)
Deltas(u, r) == {<<i, book[u][i].delta>> : i \in {i \in DOMAIN book[u] : book[u][i].ref = r}}

Sum(u, r, d) == IF d = 0 THEN Deltas(u, r) = {} ELSE \E i \in DOMAIN book[u] : Deltas(u, r) = {<<i, d>>}

OrderSettled(o) ==
  LET row == order[o]
      u == row.user
  IN IF row = None THEN ~Posted(<<"order", o>>) /\ ~Posted(<<"order-refund", o>>)
     ELSE row.kind \in Sale =>
            /\ Sum(u, <<"order", o>>, -row.amount)
            /\ Sum(u, <<"order-refund", o>>, IF row.status = "paid" THEN 0 ELSE row.amount)

OrdersSettled == \A o \in Tx : OrderSettled(o)

(* A code is used at most max_uses times, by a customer at most once; its  *)
(* counter, its list of uses and the credits in the book are one           *)
(* (wallet.js:90-107).                                                     *)
CodesSound ==
  \A k \in Code :
    /\ used[k] = Cardinality(uses[k])
    /\ used[k] <= MaxUses[k]
    /\ \A u \in User : u \in uses[k] <=> Posted(<<"recharge-code", k, u>>)

(* The inductive invariant; its first part needs nothing of the rest.      *)
LockInv ==
  /\ TypeOK /\ LocksCompatible /\ OrdersNew
  /\ \A t \in Tx : OpSound(t) /\ StillSound(t)
  /\ BookSound

IInv == LockInv /\ OrdersSettled /\ CodesSound

(* A transaction that has begun ends, also when transactions lock the same *)
(* rows in different orders (billing-api.js:68 locks the wallet before the *)
(* rows that billing-api.js:85-94 locks before the wallet).                *)
EveryTxEnds == \A t \in Tx : pc[t] = "open" ~> pc[t] = "closed"

(* Money moves as the ledger allows.                                       *)
L == INSTANCE Ledger WITH Order <- Tx

LedgerSpec == L!Spec
=============================================================================
