------------------------------- MODULE Ledger -------------------------------
(***************************************************************************)
(* What the wallet promises a customer, whatever runs at the same time: a  *)
(* balance that never goes below zero and is explained, entry by entry, by *)
(* an append-only book; an order that is charged once and refunded at most *)
(* once, to whoever paid it and in full; a recharge code that credits a    *)
(* customer once and no more customers than it has uses.                   *)
(* Module WalletTx shows that the transactions of src/src/wallet.js,       *)
(* src/src/billing-api.js and src/src/billing.js implement it.             *)
(***************************************************************************)
EXTENDS Integers, Sequences, FiniteSets

CONSTANTS
  User,        (* Customers.                                               *)
  Order,       (* Order ids, and the ids of administrative adjustments.    *)
  Code,        (* Recharge codes.                                          *)
  Value,       (* Value[k] is what a use of code k credits.                *)
  MaxUses,     (* MaxUses[k] is the number of customers code k serves.     *)
  MaxBalance   (* The largest balance (2^53 - 1 in the code).              *)

VARIABLES
  balance,     (* wallets.balance_cents of each customer.                  *)
  book         (* wallet_transactions of each customer, oldest first.      *)

vars == <<balance, book>>

Init ==
  /\ balance = [u \in User |-> 0]
  /\ book = [u \in User |-> << >>]

EntryFor(u, r) == {i \in DOMAIN book[u] : book[u][i].ref = r}

Posted(r) == \E u \in User : EntryFor(u, r) # {}

Credited(k) == {u \in User : EntryFor(u, <<"recharge-code", k, u>>) # {}}

(* One entry: its delta, the balance it leaves and what it is for.         *)
Post(u, d, r) ==
  /\ ~Posted(r)
  /\ d # 0
  /\ balance[u] + d \in 0..MaxBalance
  /\ balance' = [balance EXCEPT ![u] = @ + d]
  /\ book' = [book EXCEPT ![u] =
                Append(@, [delta |-> d, after |-> balance[u] + d, ref |-> r])]

Adjust(u, d, o) == Post(u, d, <<"admin-adjustment", o>>)

Charge(u, d, o) == d < 0 /\ Post(u, d, <<"order", o>>)

(* A downgrade gives money back under an order of its own.                 *)
Downgrade(u, d, o) == d > 0 /\ Post(u, d, <<"order-refund", o>>)

Refund(u, o) ==
  \E i \in EntryFor(u, <<"order", o>>) : Post(u, -book[u][i].delta, <<"order-refund", o>>)

Recharge(u, k) ==
  /\ Cardinality(Credited(k)) < MaxUses[k]
  /\ Post(u, Value[k], <<"recharge-code", k, u>>)

(* No entry is larger than the largest balance.                            *)
Delta == (-MaxBalance)..MaxBalance

Next ==
  \E u \in User :
    \/ \E o \in Order, d \in Delta : Adjust(u, d, o) \/ Charge(u, d, o) \/ Downgrade(u, d, o)
    \/ \E o \in Order : Refund(u, o)
    \/ \E k \in Code : Recharge(u, k)

Spec == Init /\ [][Next]_vars
=============================================================================
