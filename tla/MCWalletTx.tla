----------------------------- MODULE MCWalletTx -----------------------------
(* Instances of the wallet transactions: one code that serves one customer *)
(* and credits two cents, prices of nothing and one cent, balances up to   *)
(* two cents.                                                              *)
EXTENDS WalletTx, TLC

CONSTANTS t1, t2, t3, u1, u2, k1

MCValue == k1 :> 2

MCMaxUses == k1 :> 1

MCChange == {-1, 0, 1}

Alike == Permutations({t1, t2, t3}) \cup Permutations({u1, u2})
=============================================================================
