----------------------------- MODULE MoneyProofs -----------------------------
(***************************************************************************)
(* Proofs about module WalletTx for any number of transactions, customers, *)
(* codes and prices, and, in the second part, about what is bought: module *)
(* Subscriptions, as module MCSubscriptions composes its behaviours, for   *)
(* any number of subscriptions, plans, passes of the scheduler, calls of   *)
(* enforceUser, orders and days.                                           *)
(***************************************************************************)
EXTENDS WalletTx, MCSubscriptions, FiniteSetTheorems, WellFoundedInduction, TLAPS

WalletLock(o) == Lock("wallet", o.user, "update")
OrderLock(o) == Lock("order", o.item, "update")
CodeLock(o) == Lock("code", o.item, "update")

(* What every kind of transaction locks: the wallet always, the order of a *)
(* refund, the code of a recharge, each of them exclusively.               *)
PlanSound(o, sold) ==
  LET plan == LocksOf(o, sold) IN
  /\ Len(plan) \in Nat
  /\ \E i \in 1..Len(plan) : plan[i] = WalletLock(o)
  /\ o.kind = "refund" => \E i \in 1..Len(plan) : plan[i] = OrderLock(o)
  /\ o.kind = "recharge" => \E i \in 1..Len(plan) : plan[i] = CodeLock(o)
  /\ \A i \in 1..Len(plan) :
       /\ plan[i].row[1] = "wallet" => plan[i] = WalletLock(o)
       /\ plan[i].row[1] = "order" => plan[i] = OrderLock(o) /\ o.kind = "refund"
       /\ plan[i].row[1] = "code" => plan[i] = CodeLock(o) /\ o.kind = "recharge"

LEMMA Plans == \A o \in Op : \A sold \in Sale \cup {"change", None} : PlanSound(o, sold)
  <1> SUFFICES ASSUME NEW o \in Op, NEW sold \in Sale \cup {"change", None} PROVE PlanSound(o, sold)
    OBVIOUS
  <1> DEFINE plan == LocksOf(o, sold)
  <1> USE DEF Lock, WalletLock, OrderLock, CodeLock
  <1>1. CASE o.kind = "adjust"
    <2>1. plan = <<WalletLock(o), Lock("user", o.user, "share")>>
      BY <1>1 DEF LocksOf
    <2>2. /\ Len(plan) = 2
          /\ plan[1] = WalletLock(o) /\ plan[1].row[1] = "wallet"
          /\ plan[2].row[1] = "user"
      BY <2>1
    <2> QED BY <1>1, <2>2 DEF PlanSound
  <1>2. CASE o.kind = "recharge"
    <2>1. plan = <<CodeLock(o), WalletLock(o), Lock("user", o.user, "share")>>
      BY <1>2 DEF LocksOf
    <2>2. /\ Len(plan) = 3
          /\ plan[1] = CodeLock(o) /\ plan[1].row[1] = "code"
          /\ plan[2] = WalletLock(o) /\ plan[2].row[1] = "wallet"
          /\ plan[3].row[1] = "user"
      BY <2>1
    <2> QED BY <1>2, <2>2 DEF PlanSound
  <1>3. CASE o.kind \in {"plan", "change"}
    <2>1. plan = <<Lock("user", o.user, "update"), Lock("sub", o.user, "update"), WalletLock(o)>>
      BY <1>3 DEF LocksOf
    <2>2. /\ Len(plan) = 3
          /\ plan[1].row[1] = "user"
          /\ plan[2].row[1] = "sub"
          /\ plan[3] = WalletLock(o) /\ plan[3].row[1] = "wallet"
      BY <2>1
    <2> QED BY <1>3, <2>2 DEF PlanSound
  <1>4. CASE o.kind = "renewal"
    <2>1. plan = <<Lock("sub", o.user, "update"), WalletLock(o), Lock("user", o.user, "share")>>
      BY <1>4 DEF LocksOf
    <2>2. /\ Len(plan) = 3
          /\ plan[1].row[1] = "sub"
          /\ plan[2] = WalletLock(o) /\ plan[2].row[1] = "wallet"
          /\ plan[3].row[1] = "user"
      BY <2>1
    <2> QED BY <1>4, <2>2 DEF PlanSound
  <1>5. CASE o.kind = "upgrade"
    <2>1. plan = <<WalletLock(o), Lock("user", o.user, "share"), Lock("sub", o.user, "share"), Lock("upgrade", o.user, "update")>>
      BY <1>5 DEF LocksOf
    <2>2. /\ Len(plan) = 4
          /\ plan[1] = WalletLock(o) /\ plan[1].row[1] = "wallet"
          /\ plan[2].row[1] = "user"
          /\ plan[3].row[1] = "sub"
          /\ plan[4].row[1] = "upgrade"
      BY <2>1
    <2> QED BY <1>5, <2>2 DEF PlanSound
  <1>6. CASE o.kind = "traffic"
    <2>1. plan = <<WalletLock(o), Lock("user", o.user, "share"), Lock("sub", o.user, "share")>>
      BY <1>6 DEF LocksOf
    <2>2. /\ Len(plan) = 3
          /\ plan[1] = WalletLock(o) /\ plan[1].row[1] = "wallet"
          /\ plan[2].row[1] = "user"
          /\ plan[3].row[1] = "sub"
      BY <2>1
    <2> QED BY <1>6, <2>2 DEF PlanSound
  <1>7. CASE o.kind = "refund" /\ sold = "plan"
    <2>1. plan = <<OrderLock(o), Lock("sub", o.user, "nokey"), WalletLock(o), Lock("user", o.user, "share")>>
      BY <1>7 DEF LocksOf
    <2>2. /\ Len(plan) = 4
          /\ plan[1] = OrderLock(o) /\ plan[1].row[1] = "order"
          /\ plan[2].row[1] = "sub"
          /\ plan[3] = WalletLock(o) /\ plan[3].row[1] = "wallet"
          /\ plan[4].row[1] = "user"
      BY <2>1
    <2> QED BY <1>7, <2>2 DEF PlanSound
  <1>8. CASE o.kind = "refund" /\ sold = "renewal"
    <2>1. plan = <<OrderLock(o), Lock("sub", o.user, "update"), WalletLock(o), Lock("user", o.user, "share")>>
      BY <1>8 DEF LocksOf
    <2>2. /\ Len(plan) = 4
          /\ plan[1] = OrderLock(o) /\ plan[1].row[1] = "order"
          /\ plan[2].row[1] = "sub"
          /\ plan[3] = WalletLock(o) /\ plan[3].row[1] = "wallet"
          /\ plan[4].row[1] = "user"
      BY <2>1
    <2> QED BY <1>8, <2>2 DEF PlanSound
  <1>9. CASE o.kind = "refund" /\ sold = "upgrade"
    <2>1. plan = <<OrderLock(o), Lock("upgrade", o.user, "update"), WalletLock(o), Lock("user", o.user, "share")>>
      BY <1>9 DEF LocksOf
    <2>2. /\ Len(plan) = 4
          /\ plan[1] = OrderLock(o) /\ plan[1].row[1] = "order"
          /\ plan[2].row[1] = "upgrade"
          /\ plan[3] = WalletLock(o) /\ plan[3].row[1] = "wallet"
          /\ plan[4].row[1] = "user"
      BY <2>1
    <2> QED BY <1>9, <2>2 DEF PlanSound
  <1>10. CASE o.kind = "refund" /\ sold \notin {"plan", "renewal", "upgrade"}
    <2>1. plan = <<OrderLock(o), WalletLock(o), Lock("user", o.user, "share")>>
      BY <1>10 DEF LocksOf
    <2>2. /\ Len(plan) = 3
          /\ plan[1] = OrderLock(o) /\ plan[1].row[1] = "order"
          /\ plan[2] = WalletLock(o) /\ plan[2].row[1] = "wallet"
          /\ plan[3].row[1] = "user"
      BY <2>1
    <2> QED BY <1>10, <2>2 DEF PlanSound
  <1> QED
    BY <1>1, <1>2, <1>3, <1>4, <1>5, <1>6, <1>7, <1>8, <1>9, <1>10 DEF Op, Kind, Sale

-----------------------------------------------------------------------------
(* What a transaction that is open holds and wants.                        *)
LEMMA Held ==
  ASSUME TypeOK, NEW t \in Tx, pc[t] = "open", OpSound(t)
  PROVE  /\ op[t] \in Op /\ got[t] \in Nat /\ Len(LockPlan(op[t])) \in Nat
         /\ HoldsRow(t, "wallet") => WalletLock(op[t]) \in Holds(t)
         /\ HoldsRow(t, "order") => OrderLock(op[t]) \in Holds(t) /\ op[t].kind = "refund"
         /\ HoldsRow(t, "code") => CodeLock(op[t]) \in Holds(t) /\ op[t].kind = "recharge"
         /\ Ready(t) => /\ HoldsRow(t, "wallet")
                        /\ op[t].kind = "refund" => HoldsRow(t, "order")
                        /\ op[t].kind = "recharge" => HoldsRow(t, "code")
  <1> DEFINE o == op[t]
             sold == IF o.kind = "refund" THEN order[o.item].kind ELSE None
             plan == LockPlan(o)
  <1>1. o \in Op /\ got[t] \in 0..Len(plan)
    BY DEF OpSound
  <1>2. sold \in Sale \cup {"change", None}
    <2>1. CASE o.kind = "refund"
      BY <2>1 DEF OpSound, TypeOK, OrderRow
    <2> QED BY <2>1
  <1>3. PlanSound(o, sold) /\ plan = LocksOf(o, sold)
    BY <1>1, <1>2, Plans DEF LockPlan
  <1>4. Len(plan) \in Nat /\ got[t] \in Nat
    <2>1. Len(plan) \in Nat
      BY <1>3 DEF PlanSound
    <2> HIDE DEF plan, o
    <2> QED BY <1>1, <2>1
  <1>5. \A i \in 1..got[t] : i \in 1..Len(plan)
    BY <1>1, <1>4
  <1>6. HoldsRow(t, "wallet") => WalletLock(o) \in Holds(t)
    BY <1>3, <1>5 DEF PlanSound, HoldsRow, Holds
  <1>7. HoldsRow(t, "order") => OrderLock(o) \in Holds(t) /\ o.kind = "refund"
    BY <1>3, <1>5 DEF PlanSound, HoldsRow, Holds
  <1>8. HoldsRow(t, "code") => CodeLock(o) \in Holds(t) /\ o.kind = "recharge"
    BY <1>3, <1>5 DEF PlanSound, HoldsRow, Holds
  <1>9. ASSUME Ready(t)
        PROVE  /\ HoldsRow(t, "wallet")
               /\ o.kind = "refund" => HoldsRow(t, "order")
               /\ o.kind = "recharge" => HoldsRow(t, "code")
    <2>1. got[t] = Len(plan)
      BY <1>9 DEF Ready
    <2>2. WalletLock(o).row[1] = "wallet" /\ OrderLock(o).row[1] = "order" /\ CodeLock(o).row[1] = "code"
      BY DEF WalletLock, OrderLock, CodeLock, Lock
    <2> QED BY <1>3, <2>1, <2>2 DEF PlanSound, HoldsRow
  <1> QED BY <1>1, <1>4, <1>6, <1>7, <1>8, <1>9

(* Two open transactions never have the same wallet, order or code.        *)
LEMMA OneHolder ==
  ASSUME TypeOK, LocksCompatible, NEW s \in Tx, NEW t \in Tx, s # t,
         pc[s] = "open", pc[t] = "open", OpSound(s), OpSound(t)
  PROVE  /\ HoldsRow(s, "wallet") /\ HoldsRow(t, "wallet") => op[s].user # op[t].user
         /\ HoldsRow(s, "order") /\ HoldsRow(t, "order") => op[s].item # op[t].item
         /\ HoldsRow(s, "code") /\ HoldsRow(t, "code") => op[s].item # op[t].item
  <1>1. \A l \in Holds(s) : \A m \in Holds(t) : l.row = m.row => Compatible(l.mode, m.mode)
    BY DEF LocksCompatible
  <1>2. ~Compatible("update", "update")
    BY DEF Compatible
  <1>3. HoldsRow(s, "wallet") /\ HoldsRow(t, "wallet") => op[s].user # op[t].user
    BY <1>1, <1>2, Held DEF WalletLock, Lock
  <1>4. HoldsRow(s, "order") /\ HoldsRow(t, "order") => op[s].item # op[t].item
    BY <1>1, <1>2, Held DEF OrderLock, Lock
  <1>5. HoldsRow(s, "code") /\ HoldsRow(t, "code") => op[s].item # op[t].item
    BY <1>1, <1>2, Held DEF CodeLock, Lock
  <1> QED BY <1>3, <1>4, <1>5

(* A transaction that a step leaves alone keeps its locks: an order's kind *)
(* never changes.                                                          *)
OrdersKept ==
  \A i \in Tx : order[i] # None =>
    /\ order'[i] # None /\ order'[i].kind = order[i].kind
    /\ order'[i].user = order[i].user /\ order'[i].amount = order[i].amount

Alone(s) == pc'[s] = pc[s] /\ op'[s] = op[s] /\ got'[s] = got[s] /\ seen'[s] = seen[s]

LEMMA LocksKept ==
  ASSUME NEW s \in Tx, OpSound(s), OrdersKept, Alone(s)
  PROVE  /\ OpSound(s)'
         /\ pc[s] = "open" => /\ Holds(s)' = Holds(s)
                              /\ \A table : HoldsRow(s, table)' <=> HoldsRow(s, table)
  <1>1. CASE pc[s] = "open"
    <2>1. LockPlan(op[s])' = LockPlan(op[s])
      BY <1>1 DEF OpSound, OrdersKept, Alone, LockPlan
    <2>2. OpSound(s)'
      BY <1>1, <2>1 DEF OpSound, OrdersKept, Alone
    <2> QED BY <2>1, <2>2 DEF Holds, HoldsRow, Alone
  <1>2. CASE pc[s] # "open"
    BY <1>2 DEF OpSound, Alone
  <1> QED BY <1>1, <1>2

-----------------------------------------------------------------------------
(* The part of the invariant about locks and balances.                     *)
LEMMA LockInvInit == Init => LockInv
  <1> SUFFICES ASSUME Init PROVE LockInv
    OBVIOUS
  <1> USE DEF Init
  <1>1. TypeOK
    BY ConstantsAssumption DEF TypeOK
  <1>2. LocksCompatible /\ OrdersNew
    BY DEF LocksCompatible, OrdersNew
  <1>3. \A t \in Tx : OpSound(t) /\ StillSound(t)
    BY DEF OpSound, StillSound
  <1>4. BookSound
    BY DEF BookSound, Explains
  <1> QED BY <1>1, <1>2, <1>3, <1>4 DEF LockInv

Others(t) == \A s \in Tx \ {t} : Alone(s)

(* What a step of t that only touches t leaves as it was.                  *)
LEMMA OthersKept ==
  ASSUME LockInv, NEW t \in Tx, Others(t), UNCHANGED tables
  PROVE  /\ \A s \in Tx \ {t} : OpSound(s)' /\ StillSound(s)'
         /\ \A s \in Tx \ {t} : pc[s] = "open" => Holds(s)' = Holds(s)
         /\ \A r, s \in Tx \ {t} : r # s /\ pc'[r] = "open" /\ pc'[s] = "open" =>
              \A l \in Holds(r)', m \in Holds(s)' : l.row = m.row => Compatible(l.mode, m.mode)
         /\ BookSound'
  <1>1. OrdersKept
    BY DEF OrdersKept, tables
  <1>2. ASSUME NEW s \in Tx \ {t}
        PROVE  /\ OpSound(s)' /\ StillSound(s)'
               /\ pc[s] = "open" => Holds(s)' = Holds(s)
    <2>1. Alone(s) /\ OpSound(s) /\ StillSound(s)
      BY DEF Others, LockInv
    <2>2. /\ OpSound(s)'
          /\ pc[s] = "open" => /\ Holds(s)' = Holds(s)
                               /\ \A table : HoldsRow(s, table)' <=> HoldsRow(s, table)
      BY <1>1, <2>1, LocksKept
    <2>3. StillSound(s)'
      <3>1. SUFFICES ASSUME pc[s] = "open" PROVE StillSound(s)'
        BY <2>1 DEF StillSound, Alone
      <3> QED BY <2>1, <2>2, <3>1 DEF StillSound, Alone, tables, BalanceCovers, OrderRefundable, CodeUsable
    <2> QED BY <2>2, <2>3
  <1>3. BookSound'
    BY DEF LockInv, BookSound, tables
  <1>4. \A s \in Tx \ {t} : pc'[s] = pc[s]
    BY DEF Others, Alone
  <1>5. \A r, s \in Tx \ {t} : r # s /\ pc'[r] = "open" /\ pc'[s] = "open" =>
          \A l \in Holds(r)', m \in Holds(s)' : l.row = m.row => Compatible(l.mode, m.mode)
    BY <1>2, <1>4 DEF LockInv, LocksCompatible
  <1> QED BY <1>2, <1>3, <1>5

(* A transaction that rolls back.                                          *)
LEMMA RollbackKeeps ==
  ASSUME LockInv, NEW t \in Tx, Close(t), UNCHANGED tables
  PROVE  LockInv'
  <1>1. Others(t) /\ pc'[t] = "closed" /\ op'[t] = None /\ got'[t] = 0
    BY DEF Close, Others, Alone, LockInv, TypeOK
  <1>2. TypeOK'
    BY DEF Close, LockInv, TypeOK, tables
  <1>3. OrdersNew'
    BY <1>1 DEF Others, Alone, LockInv, OrdersNew, tables
  <1>4. OpSound(t)' /\ StillSound(t)'
    BY <1>1 DEF OpSound, StillSound
  <1>5. LocksCompatible'
    BY <1>1, OthersKept DEF LocksCompatible
  <1>6. \A s \in Tx : OpSound(s)' /\ StillSound(s)'
    BY <1>1, <1>4, OthersKept
  <1> QED BY <1>1, <1>2, <1>3, <1>5, <1>6, OthersKept DEF LockInv

LEMMA BeginKeeps ==
  ASSUME LockInv, NEW t \in Tx, Begin(t)
  PROVE  LockInv'
  <1>1. PICK o \in Adjustments \cup Recharges \cup Purchases \cup PlanChanges \cup Refunds :
          op' = [op EXCEPT ![t] = o]
    BY DEF Begin
  <1>2. /\ o \in Op
        /\ o.kind = "recharge" => o.item \in Code /\ o.delta = Value[o.item]
        /\ o.kind = "refund" => /\ o.item \in Tx /\ order[o.item] # None
                                /\ o.user = order[o.item].user
                                /\ o.delta = order[o.item].amount
        /\ o.kind \in Sale => o.delta <= 0
        /\ o.kind = "adjust" => o.delta # 0
    <2>1. CASE o \in Adjustments
      BY <2>1, ConstantsAssumption DEF Adjustments, Op, Kind, Sale
    <2>2. CASE o \in Recharges
      BY <2>2, ConstantsAssumption DEF Recharges, Op, Kind, Sale
    <2>3. CASE o \in Purchases
      BY <2>3, ConstantsAssumption DEF Purchases, Op, Kind, Sale
    <2>4. CASE o \in PlanChanges
      BY <2>4, ConstantsAssumption DEF PlanChanges, Op, Kind, Sale
    <2>5. CASE o \in Refunds
      BY <2>5 DEF Refunds, Op, Kind, Sale, LockInv, TypeOK, OrderRow
    <2> QED BY <2>1, <2>2, <2>3, <2>4, <2>5
  <1>3. /\ Others(t) /\ UNCHANGED tables /\ pc[t] = "idle" /\ pc'[t] = "open"
        /\ op'[t] = o /\ got'[t] = 0
    <2>1. got[t] = 0
      BY DEF Begin, LockInv, OpSound
    <2> QED BY <1>1, <2>1 DEF Begin, Others, Alone, LockInv, TypeOK
  <1>4. TypeOK'
    BY <1>1, <1>2 DEF Begin, LockInv, TypeOK, tables
  <1>5. OrdersNew'
    BY <1>3 DEF Others, Alone, LockInv, OrdersNew, tables
  <1>6. Holds(t)' = {} /\ \A table : ~HoldsRow(t, table)'
    BY <1>3 DEF Holds, HoldsRow
  <1>7. OpSound(t)' /\ StillSound(t)'
    <2> DEFINE sold == IF o.kind = "refund" THEN order[o.item].kind ELSE None
    <2>1. sold \in Sale \cup {"change", None}
      BY <1>2 DEF LockInv, TypeOK, OrderRow
    <2>2. Len(LocksOf(o, sold)) \in Nat
      BY <1>2, <2>1, Plans DEF PlanSound
    <2>3. LockPlan(o)' = LocksOf(o, sold)
      BY <1>3 DEF LockPlan, tables
    <2>4. OpSound(t)'
      BY <1>2, <1>3, <2>2, <2>3 DEF OpSound, tables
    <2> QED BY <1>6, <2>4 DEF StillSound
  <1>8. LocksCompatible'
    BY <1>3, <1>6, OthersKept DEF LocksCompatible
  <1>9. \A s \in Tx : OpSound(s)' /\ StillSound(s)'
    BY <1>3, <1>7, OthersKept
  <1> QED BY <1>3, <1>4, <1>5, <1>8, <1>9, OthersKept DEF LockInv

(* A transaction that gets its next lock.                                  *)
LEMMA AcquireKeeps ==
  ASSUME LockInv, NEW t \in Tx, Acquire(t)
  PROVE  LockInv'
  <1>1. /\ Others(t) /\ UNCHANGED tables /\ pc[t] = "open" /\ pc'[t] = "open"
        /\ op'[t] = op[t] /\ got[t] \in Nat /\ got'[t] = got[t] + 1
        /\ TypeOK /\ OpSound(t) /\ StillSound(t) /\ LocksCompatible
    BY DEF Acquire, Others, Alone, LockInv, TypeOK
  <1>2. op[t] \in Op /\ Len(LockPlan(op[t])) \in Nat
    BY <1>1, Held
  <1>3. LockPlan(op[t])' = LockPlan(op[t])
    BY <1>1 DEF LockPlan, tables
  <1>4. Wanted(t).row[1] = "wallet" => seen'[t] = balance[op[t].user]
    BY <1>1 DEF Acquire, TypeOK
  <1>5. Wanted(t).row[1] # "wallet" => seen'[t] = seen[t]
    BY DEF Acquire
  <1>6. TypeOK'
    <2>1. got' \in [Tx -> Nat]
      BY <1>1 DEF Acquire, TypeOK
    <2>2. balance[op[t].user] \in Nat
      BY <1>1, <1>2, ConstantsAssumption DEF TypeOK, Op
    <2>3. seen' \in [Tx -> Nat]
      BY <1>1, <2>2 DEF Acquire, TypeOK
    <2> QED BY <1>1, <2>1, <2>3 DEF Acquire, TypeOK, tables
  <1>7. OrdersNew'
    BY <1>1 DEF Others, Alone, LockInv, OrdersNew, tables
  <1>8. OpSound(t)'
    <2>1. got'[t] \in 0..Len(LockPlan(op[t]))
      BY <1>1, <1>2 DEF OpSound, Acquire, Ready
    <2> QED BY <1>1, <1>3, <2>1 DEF OpSound, tables
  <1>9. Holds(t)' = Holds(t) \cup {Wanted(t)}
    <2> DEFINE n == got[t]
               plan == LockPlan(op[t])
    <2>1. Holds(t)' = {plan[i] : i \in 1..(n + 1)} /\ Holds(t) = {plan[i] : i \in 1..n}
      BY <1>1, <1>3 DEF Holds
    <2>2. 1..(n + 1) = (1..n) \cup {n + 1}
      BY <1>1
    <2> QED BY <2>1, <2>2 DEF Wanted
  <1>10. \A table : HoldsRow(t, table)' <=> HoldsRow(t, table) \/ Wanted(t).row[1] = table
    <2> DEFINE n == got[t]
               plan == LockPlan(op[t])
    <2>1. \A table : HoldsRow(t, table)' <=> \E i \in 1..(n + 1) : plan[i].row[1] = table
      BY <1>1, <1>3 DEF HoldsRow
    <2>2. 1..(n + 1) = (1..n) \cup {n + 1}
      BY <1>1
    <2> QED BY <2>1, <2>2 DEF Wanted, HoldsRow
  <1>11. StillSound(t)'
    <2>1. /\ BalanceCovers(op[t])' <=> BalanceCovers(op[t])
          /\ OrderRefundable(op[t])' <=> OrderRefundable(op[t])
          /\ CodeUsable(op[t])' <=> CodeUsable(op[t])
      BY <1>1 DEF BalanceCovers, OrderRefundable, CodeUsable, tables
    <2>2. HoldsRow(t, "wallet")' => seen'[t] = balance'[op'[t].user] /\ BalanceCovers(op[t])
      BY <1>1, <1>4, <1>5, <1>10 DEF StillSound, Acquire, Passes, tables
    <2>3. HoldsRow(t, "order")' => OrderRefundable(op[t])
      BY <1>1, <1>10 DEF StillSound, Acquire, Passes
    <2>4. HoldsRow(t, "code")' => CodeUsable(op[t])
      BY <1>1, <1>10 DEF StillSound, Acquire, Passes
    <2> QED BY <1>1, <2>1, <2>2, <2>3, <2>4 DEF StillSound
  <1>12. ASSUME NEW s \in Tx \ {t}, pc'[s] = "open", NEW l \in Holds(t)', NEW m \in Holds(s)', l.row = m.row
         PROVE  Compatible(l.mode, m.mode)
    <2>1. pc[s] = "open" /\ m \in Holds(s)
      BY <1>1, <1>12, OthersKept DEF Others, Alone
    <2>2. CASE l \in Holds(t)
      BY <1>1, <1>12, <2>1, <2>2 DEF LocksCompatible
    <2>3. CASE l = Wanted(t)
      <3>1. ~Waits(t, s)
        BY DEF Acquire, Free
      <3>2. Compatible(m.mode, l.mode)
        BY <1>1, <1>12, <2>1, <2>3, <3>1 DEF Waits, Acquire
      <3> QED BY <3>2 DEF Compatible
    <2> QED BY <1>9, <2>2, <2>3
  <1>13. \A x, y : Compatible(x, y) <=> Compatible(y, x)
    BY DEF Compatible
  <1>14. LocksCompatible'
    <2> SUFFICES ASSUME NEW r \in Tx, NEW s \in Tx, r # s, pc'[r] = "open", pc'[s] = "open",
                        NEW l \in Holds(r)', NEW m \in Holds(s)', l.row = m.row
                 PROVE  Compatible(l.mode, m.mode)
      BY DEF LocksCompatible
    <2>1. CASE r = t
      BY <1>12, <2>1
    <2>2. CASE s = t
      BY <1>12, <1>13, <2>2
    <2>3. CASE r # t /\ s # t
      BY <1>1, <2>3, OthersKept
    <2> QED BY <2>1, <2>2, <2>3
  <1>15. \A s \in Tx : OpSound(s)' /\ StillSound(s)'
    BY <1>1, <1>8, <1>11, OthersKept
  <1> QED BY <1>1, <1>6, <1>7, <1>14, <1>15, OthersKept DEF LockInv

-----------------------------------------------------------------------------
(* A transaction that commits: what it wrote, from what it held.           *)
LEMMA CommitFacts ==
  ASSUME LockInv, NEW t \in Tx, Commit(t)
  PROVE  /\ Others(t) /\ pc[t] = "open" /\ pc'[t] = "closed" /\ op'[t] = None /\ got'[t] = 0
         /\ op[t] \in Op /\ OpSound(t) /\ order[t] = None
         /\ HoldsRow(t, "wallet") /\ seen[t] = balance[op[t].user] /\ BalanceCovers(op[t])
         /\ op[t].kind = "refund" => HoldsRow(t, "order") /\ OrderRefundable(op[t])
         /\ op[t].kind = "recharge" => HoldsRow(t, "code") /\ CodeUsable(op[t])
         /\ OrdersKept
         /\ \A i \in Tx : i # t /\ (op[t].kind = "refund" => i # op[t].item) => order'[i] = order[i]
  <1>1. /\ Others(t) /\ pc[t] = "open" /\ pc'[t] = "closed" /\ op'[t] = None /\ got'[t] = 0
        /\ TypeOK /\ OpSound(t) /\ StillSound(t) /\ order[t] = None
    BY DEF Commit, Close, Others, Alone, LockInv, TypeOK, OrdersNew
  <1>2. /\ op[t] \in Op /\ HoldsRow(t, "wallet")
        /\ op[t].kind = "refund" => HoldsRow(t, "order")
        /\ op[t].kind = "recharge" => HoldsRow(t, "code")
    BY <1>1, Held DEF Commit
  <1>3. /\ seen[t] = balance[op[t].user] /\ BalanceCovers(op[t])
        /\ op[t].kind = "refund" => OrderRefundable(op[t])
        /\ op[t].kind = "recharge" => CodeUsable(op[t])
    BY <1>1, <1>2 DEF StillSound
  <1>4. \A i \in Tx : i # t /\ (op[t].kind = "refund" => i # op[t].item) => order'[i] = order[i]
    BY <1>1 DEF Commit, Ordered, TypeOK
  <1>5. op[t].kind = "refund" =>
          /\ op[t].item \in Tx /\ order[op[t].item] # None
          /\ order' = [order EXCEPT ![op[t].item].status = "refunded"]
    BY <1>1 DEF Commit, Ordered, OpSound, Sale
  <1>6. OrdersKept
    <2> SUFFICES ASSUME NEW i \in Tx, order[i] # None
                 PROVE  /\ order'[i] # None /\ order'[i].kind = order[i].kind
                        /\ order'[i].user = order[i].user /\ order'[i].amount = order[i].amount
      BY DEF OrdersKept
    <2>1. i # t
      BY <1>1
    <2>2. CASE op[t].kind = "refund" /\ i = op[t].item
      <3>1. order[i] \in OrderRow /\ order'[i] = [order[i] EXCEPT !.status = "refunded"]
        BY <1>1, <1>5, <2>2 DEF TypeOK
      <3>2. order'[i] \in OrderRow
        BY <3>1 DEF OrderRow
      <3> QED BY <3>1, <3>2, NoneAssumption DEF OrderRow
    <2> QED BY <1>4, <2>1, <2>2
  <1> QED BY <1>1, <1>2, <1>3, <1>4, <1>6

LEMMA RefIsRef ==
  ASSUME NEW t \in Tx, pc[t] = "open", OpSound(t)
  PROVE  RefOf(t) \in Ref
  <1>1. /\ op[t].user \in User
        /\ op[t].kind = "recharge" => op[t].item \in Code
        /\ op[t].kind = "refund" => op[t].item \in Tx
    BY DEF OpSound, Op
  <1> QED BY <1>1 DEF RefOf, Ref

LEMMA CommitTypes ==
  ASSUME LockInv, NEW t \in Tx, Commit(t)
  PROVE  TypeOK'
  <1> DEFINE u == op[t].user
             d == op[t].delta
             next == seen[t] + d
  <1>1. /\ TypeOK /\ OpSound(t) /\ pc[t] = "open" /\ op[t] \in Op
        /\ u \in User /\ d \in Int
        /\ seen[t] = balance[u] /\ balance[u] + d \in 0..MaxBalance
    BY CommitFacts DEF LockInv, Op, BalanceCovers
  <1>2. next \in 0..MaxBalance /\ next \in Nat
    BY <1>1, ConstantsAssumption
  <1>3. balance' \in [User -> 0..MaxBalance]
    BY <1>1, <1>2 DEF Commit, ChangeBalance, TypeOK
  <1>4. book' \in [User -> Seq(Entry)]
    <2>1. [delta |-> d, after |-> next, ref |-> RefOf(t)] \in Entry
      BY <1>1, <1>2, RefIsRef DEF Entry
    <2>2. \A q \in Seq(Entry) : Append(q, [delta |-> d, after |-> next, ref |-> RefOf(t)]) \in Seq(Entry)
      BY <2>1
    <2>3. book \in [User -> Seq(Entry)]
      BY <1>1 DEF TypeOK
    <2> QED BY <1>1, <2>2, <2>3 DEF Commit, ChangeBalance
  <1>5. order' \in [Tx -> OrderRow \cup {None}]
    <2>1. CASE op[t].kind \in Sale \cup {"change"}
      <3>1. Abs(d) \in Nat
        BY <1>1 DEF Abs
      <3>2. [status |-> "paid", kind |-> op[t].kind, user |-> u, amount |-> Abs(d)] \in OrderRow
        BY <1>1, <2>1, <3>1 DEF OrderRow
      <3> QED BY <1>1, <2>1, <3>2 DEF Commit, Ordered, TypeOK
    <2>2. CASE op[t].kind = "refund"
      <3>1. op[t].item \in Tx /\ order[op[t].item] \in OrderRow
        BY <1>1, <2>2 DEF OpSound, TypeOK
      <3>2. [order[op[t].item] EXCEPT !.status = "refunded"] \in OrderRow
        BY <3>1 DEF OrderRow
      <3> QED BY <1>1, <2>2, <3>1, <3>2 DEF Commit, Ordered, TypeOK, Sale
    <2>3. CASE op[t].kind \notin Sale \cup {"change", "refund"}
      BY <1>1, <2>3 DEF Commit, Ordered, TypeOK
    <2> QED BY <2>1, <2>2, <2>3
  <1>6. uses' \in [Code -> SUBSET User] /\ used' \in [Code -> Nat]
    <2>1. CASE op[t].kind = "recharge"
      <3> DEFINE k == op[t].item
      <3>1. /\ k \in Code /\ uses[k] \in SUBSET User /\ used[k] \in Nat
            /\ uses' = [uses EXCEPT ![k] = @ \cup {u}] /\ used' = [used EXCEPT ![k] = @ + 1]
        BY <1>1, <2>1 DEF Commit, UseCode, OpSound, TypeOK
      <3> HIDE DEF k
      <3> QED BY <1>1, <3>1 DEF TypeOK
    <2>2. CASE op[t].kind # "recharge"
      BY <1>1, <2>2 DEF Commit, UseCode, TypeOK
    <2> QED BY <2>1, <2>2
  <1> QED BY <1>1, <1>3, <1>4, <1>5, <1>6 DEF Commit, Close, TypeOK

(* An entry that continues from the balance explains the new balance.      *)
LEMMA EntryExplained ==
  ASSUME NEW q \in Seq(Entry), NEW b \in Int, NEW d \in Int, NEW e,
         Explains(q, b), e.delta = d, e.after = b + d
  PROVE  Explains(Append(q, e), b + d)
  <1> DEFINE n == Len(q)
             p == Append(q, e)
  <1>1. /\ n \in Nat /\ Len(p) = n + 1 /\ DOMAIN p = 1..(n + 1) /\ DOMAIN q = 1..n
        /\ p[n + 1] = e /\ \A i \in 1..n : p[i] = q[i]
    OBVIOUS
  <1> HIDE DEF p
  <1>2. b = IF n = 0 THEN 0 ELSE q[n].after
    BY DEF Explains
  <1>3. ASSUME NEW i \in 1..(n + 1)
        PROVE  p[i].after = (IF i - 1 = 0 THEN 0 ELSE p[i - 1].after) + p[i].delta
    <2>1. CASE i = n + 1
      BY <1>1, <1>2, <2>1
    <2>2. CASE i \in 1..n
      <3>1. q[i].after = (IF i - 1 = 0 THEN 0 ELSE q[i - 1].after) + q[i].delta
        BY <1>1, <2>2 DEF Explains
      <3>2. i - 1 = 0 \/ i - 1 \in 1..n
        BY <1>1, <2>2
      <3> QED BY <1>1, <2>2, <3>1, <3>2
    <2> QED BY <1>1, <2>1, <2>2
  <1>4. b + d = IF Len(p) = 0 THEN 0 ELSE p[Len(p)].after
    BY <1>1
  <1> QED BY <1>1, <1>3, <1>4 DEF Explains, p

LEMMA CommitKeeps ==
  ASSUME LockInv, NEW t \in Tx, Commit(t)
  PROVE  LockInv'
  <1> DEFINE u == op[t].user
             d == op[t].delta
  <1>1. /\ TypeOK /\ OpSound(t) /\ pc[t] = "open" /\ pc'[t] = "closed" /\ Others(t) /\ OrdersKept
        /\ op'[t] = None /\ got'[t] = 0 /\ u \in User /\ d \in Int
        /\ seen[t] = balance[u] /\ balance[u] + d \in 0..MaxBalance
        /\ LocksCompatible /\ enabled' = enabled
    BY CommitFacts DEF LockInv, Op, BalanceCovers, Commit
  <1>2. ASSUME NEW s \in Tx \ {t}
        PROVE  /\ Alone(s) /\ OpSound(s) /\ StillSound(s) /\ OpSound(s)'
               /\ pc[s] = "open" => /\ Holds(s)' = Holds(s)
                                    /\ \A table : HoldsRow(s, table)' <=> HoldsRow(s, table)
    <2>1. Alone(s) /\ OpSound(s) /\ StillSound(s)
      BY <1>1 DEF Others, LockInv
    <2> QED BY <1>1, <2>1, LocksKept
  <1>3. ASSUME NEW s \in Tx \ {t}, pc[s] = "open"
        PROVE  /\ HoldsRow(s, "wallet") => op[s].user # u
               /\ HoldsRow(s, "order") /\ op[t].kind = "refund" => op[s].item # op[t].item
               /\ HoldsRow(s, "code") /\ op[t].kind = "recharge" => op[s].item # op[t].item
    BY <1>1, <1>2, <1>3, CommitFacts, OneHolder
  <1>4. ASSUME NEW s \in Tx \ {t}
        PROVE  StillSound(s)'
    <2> SUFFICES ASSUME pc[s] = "open" PROVE StillSound(s)'
      BY <1>2 DEF StillSound, Alone
    <2>1. ASSUME HoldsRow(s, "wallet")
          PROVE  balance'[op[s].user] = balance[op[s].user]
      BY <1>1, <1>3, <2>1 DEF Commit, ChangeBalance, TypeOK
    <2>2. ASSUME HoldsRow(s, "order")
          PROVE  order'[op[s].item] = order[op[s].item]
      <3>1. op[s].kind = "refund" /\ op[s].item \in Tx /\ order[op[s].item] # None
        BY <1>1, <1>2, <2>2, Held DEF OpSound
      <3>2. op[s].item # t
        BY <3>1, CommitFacts
      <3> QED BY <1>3, <2>2, <3>1, <3>2, CommitFacts
    <2>3. ASSUME HoldsRow(s, "code")
          PROVE  uses'[op[s].item] = uses[op[s].item] /\ used'[op[s].item] = used[op[s].item]
      <3>1. op[s].item \in Code
        BY <1>1, <1>2, <2>3, Held DEF OpSound
      <3> QED BY <1>1, <1>3, <2>3, <3>1 DEF Commit, UseCode, TypeOK
    <2>4. StillSound(s) /\ Alone(s) /\ \A table : HoldsRow(s, table)' <=> HoldsRow(s, table)
      BY <1>2
    <2> QED BY <1>1, <2>1, <2>2, <2>3, <2>4 DEF StillSound, Alone, BalanceCovers, OrderRefundable, CodeUsable
  <1>5. OpSound(t)' /\ StillSound(t)'
    BY <1>1 DEF OpSound, StillSound
  <1>6. LocksCompatible'
    BY <1>1, <1>2 DEF LocksCompatible, Alone
  <1>7. OrdersNew'
    <2> SUFFICES ASSUME NEW s \in Tx, pc'[s] # "closed" PROVE order'[s] = None
      BY DEF OrdersNew
    <2>1. s # t /\ order[s] = None
      BY <1>1, <1>2 DEF Alone, LockInv, OrdersNew
    <2>2. op[t].kind = "refund" => order[op[t].item] # None
      BY <1>1 DEF OpSound
    <2> QED BY <2>1, <2>2, CommitFacts
  <1>8. BookSound'
    <2> SUFFICES ASSUME NEW v \in User PROVE Explains(book'[v], balance'[v])
      BY DEF BookSound
    <2>1. Explains(book[v], balance[v])
      BY DEF LockInv, BookSound
    <2>2. CASE v # u \/ d = 0
      <3>1. book'[v] = book[v] /\ balance'[v] = balance[v]
        BY <1>1, <2>2 DEF Commit, ChangeBalance, TypeOK
      <3> QED BY <2>1, <3>1
    <2>3. CASE v = u /\ d # 0
      <3> DEFINE e == [delta |-> d, after |-> seen[t] + d, ref |-> RefOf(t)]
      <3>1. /\ book'[v] = Append(book[v], e) /\ balance'[v] = balance[v] + d /\ book[v] \in Seq(Entry)
            /\ e.delta = d /\ e.after = balance[v] + d /\ balance[v] \in Int
        BY <1>1, <2>3, ConstantsAssumption DEF Commit, ChangeBalance, TypeOK
      <3> QED BY <1>1, <2>1, <3>1, EntryExplained
    <2> QED BY <2>2, <2>3
  <1>9. \A s \in Tx : OpSound(s)' /\ StillSound(s)'
    BY <1>2, <1>4, <1>5
  <1> QED BY <1>6, <1>7, <1>8, <1>9, CommitTypes DEF LockInv

LEMMA DisableKeeps ==
  ASSUME LockInv, NEW k \in Code, Disable(k)
  PROVE  LockInv'
  <1>1. /\ OrdersKept
        /\ \A s \in Tx : Alone(s)
        /\ UNCHANGED <<pc, op, got, seen, balance, book, order, uses, used>>
    BY DEF Disable, OrdersKept, Alone
  <1>2. TypeOK'
    BY <1>1 DEF LockInv, TypeOK, Disable
  <1>3. \A s \in Tx : Holds(s)' = Holds(s)
    BY <1>1 DEF Holds, LockPlan
  <1>4. LocksCompatible' /\ OrdersNew' /\ BookSound'
    BY <1>1, <1>3 DEF LockInv, LocksCompatible, OrdersNew, BookSound
  <1>5. ASSUME NEW s \in Tx
        PROVE  OpSound(s)' /\ StillSound(s)'
    <2>1. OpSound(s) /\ StillSound(s) /\ Alone(s) /\ TypeOK
      BY <1>1 DEF LockInv
    <2>2. OpSound(s)' /\ (pc[s] = "open" => \A table : HoldsRow(s, table)' <=> HoldsRow(s, table))
      BY <1>1, <2>1, LocksKept
    <2>3. ASSUME pc[s] = "open", HoldsRow(s, "code")
          PROVE  CodeUsable(op[s])'
      <3>1. CodeLock(op[s]) \in Holds(s) /\ op[s].item \in Code
        BY <2>1, <2>3, Held DEF OpSound
      <3>2. op[s].item # k
        BY <2>3, <3>1 DEF Disable, CodeLock
      <3> QED BY <1>1, <2>1, <2>3, <3>1, <3>2 DEF Disable, StillSound, CodeUsable, TypeOK
    <2> QED BY <1>1, <2>1, <2>2, <2>3 DEF StillSound, BalanceCovers, OrderRefundable
  <1> QED BY <1>2, <1>4, <1>5 DEF LockInv

LEMMA LockInvNext == LockInv /\ [Next]_vars => LockInv'
  <1> SUFFICES ASSUME LockInv, [Next]_vars PROVE LockInv'
    OBVIOUS
  <1>1. ASSUME NEW t \in Tx, Begin(t) PROVE LockInv'
    BY <1>1, BeginKeeps
  <1>2. ASSUME NEW t \in Tx, Acquire(t) PROVE LockInv'
    BY <1>2, AcquireKeeps
  <1>3. ASSUME NEW t \in Tx, Commit(t) PROVE LockInv'
    BY <1>3, CommitKeeps
  <1>4. ASSUME NEW t \in Tx, Reject(t) \/ DeadlockAbort(t) \/ Abort(t) PROVE LockInv'
    BY <1>4, RollbackKeeps DEF Reject, DeadlockAbort, Abort
  <1>5. ASSUME NEW k \in Code, Disable(k) PROVE LockInv'
    BY <1>5, DisableKeeps
  <1>6. CASE UNCHANGED vars
    <2>1. \A s \in Tx : OpSound(s)' /\ StillSound(s)'
      <3> SUFFICES ASSUME NEW s \in Tx PROVE OpSound(s)' /\ StillSound(s)'
        OBVIOUS
      <3>1. OpSound(s) /\ StillSound(s) /\ OrdersKept /\ Alone(s)
        BY <1>6 DEF LockInv, OrdersKept, Alone, vars
      <3>2. OpSound(s)' /\ (pc[s] = "open" => \A table : HoldsRow(s, table)' <=> HoldsRow(s, table))
        BY <3>1, LocksKept
      <3> QED BY <1>6, <3>1, <3>2 DEF StillSound, BalanceCovers, OrderRefundable, CodeUsable, vars
    <2>2. \A s \in Tx : Holds(s)' = Holds(s)
      BY <1>6 DEF Holds, LockPlan, vars
    <2>3. TypeOK' /\ LocksCompatible' /\ OrdersNew' /\ BookSound'
      BY <1>6, <2>2 DEF LockInv, TypeOK, LocksCompatible, OrdersNew, BookSound, vars
    <2> QED BY <2>1, <2>3 DEF LockInv
  <1> QED BY <1>1, <1>2, <1>3, <1>4, <1>5, <1>6 DEF Next, Step

(* Every reachable state has the type it should.                           *)
THEOREM TypeCorrect == Spec => []TypeOK
  <1>1. LockInv => TypeOK
    BY DEF LockInv
  <1> QED BY <1>1, LockInvInit, LockInvNext, PTL DEF Spec

(* No two open transactions hold conflicting locks on a row: the schedule  *)
(* of src/src/billing-api.js:63-319 and src/src/wallet.js:31-107 is the    *)
(* one PostgreSQL's row locks allow.                                       *)
THEOREM Locks == Spec => []LocksCompatible
  <1>1. LockInv => LocksCompatible
    BY DEF LockInv
  <1> QED BY <1>1, LockInvInit, LockInvNext, PTL DEF Spec

(* The book explains every balance: the balance written at                 *)
(* src/src/wallet.js:37 continues the one read at src/src/wallet.js:33,    *)
(* however many transactions run.                                          *)
THEOREM Explained == Spec => []BookSound
  <1>1. LockInv => BookSound
    BY DEF LockInv
  <1> QED BY <1>1, LockInvInit, LockInvNext, PTL DEF Spec

-----------------------------------------------------------------------------
(* What a commit adds to the book: nothing, or one entry for a reference   *)
(* that has none.                                                          *)
LEMMA BookGrows ==
  ASSUME LockInv, NEW t \in Tx, Commit(t), NEW v \in User
  PROVE  /\ book[v] \in Seq(Entry)
         /\ op[t].delta = 0 \/ v # op[t].user => book'[v] = book[v]
         /\ op[t].delta # 0 /\ v = op[t].user =>
              \E e : e.delta = op[t].delta /\ e.ref = RefOf(t) /\ book'[v] = Append(book[v], e)
  <1>1. book \in [User -> Seq(Entry)]
    BY DEF LockInv, TypeOK
  <1>2. CASE op[t].delta = 0 \/ v # op[t].user
    BY <1>1, <1>2 DEF Commit, ChangeBalance
  <1>3. CASE op[t].delta # 0 /\ v = op[t].user
    <2> DEFINE e == [delta |-> op[t].delta, after |-> seen[t] + op[t].delta, ref |-> RefOf(t)]
    <2>1. book'[v] = Append(book[v], e)
      BY <1>1, <1>3 DEF Commit, ChangeBalance
    <2> QED BY <1>1, <1>3, <2>1
  <1> QED BY <1>1, <1>2, <1>3

LEMMA PostedGrows ==
  ASSUME LockInv, NEW t \in Tx, Commit(t), NEW r
  PROVE  Posted(r)' <=> Posted(r) \/ (op[t].delta # 0 /\ r = RefOf(t))
  <1>1. op[t].user \in User
    BY CommitFacts DEF Op
  <1>2. ASSUME NEW v \in User
        PROVE  (\E i \in DOMAIN book'[v] : book'[v][i].ref = r) <=>
                 \/ \E i \in DOMAIN book[v] : book[v][i].ref = r
                 \/ op[t].delta # 0 /\ v = op[t].user /\ r = RefOf(t)
    <2>1. CASE op[t].delta = 0 \/ v # op[t].user
      BY <2>1, BookGrows
    <2>2. CASE op[t].delta # 0 /\ v = op[t].user
      <3>1. PICK e : e.ref = RefOf(t) /\ book'[v] = Append(book[v], e) /\ book[v] \in Seq(Entry)
        BY <2>2, BookGrows
      <3> DEFINE n == Len(book[v])
      <3>2. /\ n \in Nat /\ DOMAIN book'[v] = 1..(n + 1) /\ DOMAIN book[v] = 1..n
            /\ book'[v][n + 1] = e /\ \A i \in 1..n : book'[v][i] = book[v][i]
        BY <3>1
      <3>3. 1..(n + 1) = (1..n) \cup {n + 1}
        BY <3>2
      <3> HIDE DEF n
      <3> QED BY <2>2, <3>1, <3>2, <3>3
    <2> QED BY <2>1, <2>2
  <1> QED BY <1>1, <1>2 DEF Posted

LEMMA DeltasKept ==
  ASSUME LockInv, NEW t \in Tx, Commit(t), NEW v \in User, NEW r, r # RefOf(t), NEW d \in Int, Sum(v, r, d)
  PROVE  Sum(v, r, d)'
  <1>1. CASE op[t].delta = 0 \/ v # op[t].user
    BY <1>1, BookGrows DEF Sum, Deltas
  <1>2. CASE op[t].delta # 0 /\ v = op[t].user
    <2>1. PICK e : e.ref = RefOf(t) /\ book'[v] = Append(book[v], e) /\ book[v] \in Seq(Entry)
      BY <1>2, BookGrows
    <2> DEFINE n == Len(book[v])
    <2>2. /\ n \in Nat /\ DOMAIN book'[v] = 1..(n + 1) /\ DOMAIN book[v] = 1..n
          /\ book'[v][n + 1] = e /\ \A i \in 1..n : book'[v][i] = book[v][i]
      BY <2>1
    <2>3. 1..(n + 1) = (1..n) \cup {n + 1}
      BY <2>2
    <2> HIDE DEF n
    <2>4. {i \in DOMAIN book'[v] : book'[v][i].ref = r} = {i \in DOMAIN book[v] : book[v][i].ref = r}
      BY <2>1, <2>2, <2>3
    <2>5. Deltas(v, r)' = Deltas(v, r)
      BY <2>2, <2>4 DEF Deltas
    <2>6. DOMAIN book[v] \subseteq DOMAIN book'[v]
      BY <2>2, <2>3
    <2> QED BY <2>5, <2>6 DEF Sum
  <1> QED BY <1>1, <1>2

LEMMA DeltaAdded ==
  ASSUME LockInv, NEW t \in Tx, Commit(t),
         NEW v, NEW r, NEW d, v = op[t].user, r = RefOf(t), d = op[t].delta, Sum(v, r, 0)
  PROVE  Sum(v, r, d)'
  <1> SUFFICES ASSUME Deltas(v, r) = {} PROVE Sum(v, r, d)'
    BY DEF Sum
  <1>1. v \in User /\ d \in Int
    BY CommitFacts DEF Op
  <1>2. CASE d = 0
    <2>1. book'[v] = book[v]
      BY <1>1, <1>2, BookGrows
    <2>2. Deltas(v, r)' = {}
      BY <2>1 DEF Deltas
    <2> QED BY <1>2, <2>2 DEF Sum
  <1>3. CASE d # 0
    <2>1. PICK e : e.delta = d /\ e.ref = r /\ book'[v] = Append(book[v], e) /\ book[v] \in Seq(Entry)
      BY <1>1, <1>3, BookGrows
    <2> DEFINE n == Len(book[v])
    <2>2. /\ n \in Nat /\ DOMAIN book'[v] = 1..(n + 1) /\ DOMAIN book[v] = 1..n
          /\ book'[v][n + 1] = e /\ \A i \in 1..n : book'[v][i] = book[v][i]
      BY <2>1
    <2>3. 1..(n + 1) = (1..n) \cup {n + 1}
      BY <2>2
    <2> HIDE DEF n
    <2>4. {i \in DOMAIN book[v] : book[v][i].ref = r} = {}
      BY DEF Deltas
    <2>5. {i \in DOMAIN book'[v] : book'[v][i].ref = r} = {n + 1}
      BY <2>1, <2>2, <2>3, <2>4
    <2>6. Deltas(v, r)' = {<<n + 1, d>>}
      BY <2>1, <2>2, <2>5 DEF Deltas
    <2> QED BY <1>3, <2>2, <2>3, <2>6 DEF Sum
  <1> QED BY <1>2, <1>3

(* The orders a commit is about are its own and, for a refund, the one it  *)
(* refunds; what the book says of the others does not change.              *)
LEMMA OrdersApart ==
  ASSUME LockInv, NEW t \in Tx, Commit(t), NEW o \in Tx
  PROVE  /\ RefOf(t) = <<"order", o>> => o = t /\ op[t].kind \notin {"adjust", "recharge", "refund"}
         /\ RefOf(t) = <<"order-refund", o>> =>
              \/ o = t /\ op[t].kind = "change"
              \/ o = op[t].item /\ op[t].kind = "refund"
  BY DEF RefOf

LEMMA CommitSettles ==
  ASSUME LockInv, OrdersSettled, NEW t \in Tx, Commit(t)
  PROVE  OrdersSettled'
  <1> DEFINE u == op[t].user
             d == op[t].delta
  <1> SUFFICES ASSUME NEW o \in Tx PROVE OrderSettled(o)'
    BY DEF OrdersSettled
  <1>1. /\ pc[t] = "open" /\ op[t] \in Op /\ OpSound(t) /\ order[t] = None /\ u \in User /\ d \in Int
        /\ op[t].kind = "refund" => OrderRefundable(op[t])
        /\ order \in [Tx -> OrderRow \cup {None}] /\ order' \in [Tx -> OrderRow \cup {None}]
        /\ OrderSettled(o) /\ OrdersKept /\ Unique(t)
    BY CommitFacts, CommitTypes DEF Op, LockInv, TypeOK, OrdersSettled, Commit
  <1>2. Posted(<<"order", o>>) \/ Posted(<<"order-refund", o>>) => order[o] # None
    BY <1>1 DEF OrderSettled
  <1>3. CASE o # t /\ ~(op[t].kind = "refund" /\ o = op[t].item)
    <2>1. order'[o] = order[o] /\ RefOf(t) # <<"order", o>> /\ RefOf(t) # <<"order-refund", o>>
      BY <1>3, CommitFacts, OrdersApart
    <2>2. CASE order[o] = None
      <3>1. ~Posted(<<"order", o>>)' /\ ~Posted(<<"order-refund", o>>)'
        BY <1>2, <2>1, <2>2, PostedGrows
      <3> QED BY <2>1, <2>2, <3>1 DEF OrderSettled
    <2>3. CASE order[o] # None /\ order[o].kind \in Sale
      <3> DEFINE row == order[o]
      <3>1. PICK v \in User, a \in Int, b \in Int :
              v = row.user /\ a = -row.amount /\ b = IF row.status = "paid" THEN 0 ELSE row.amount
        BY <1>1, <2>3 DEF OrderRow
      <3>2. Sum(v, <<"order", o>>, a) /\ Sum(v, <<"order-refund", o>>, b)
        BY <1>1, <2>3, <3>1 DEF OrderSettled
      <3>3. Sum(v, <<"order", o>>, a)' /\ Sum(v, <<"order-refund", o>>, b)'
        BY <2>1, <3>2, DeltasKept
      <3> QED BY <2>1, <2>3, <3>1, <3>3 DEF OrderSettled
    <2>4. CASE order[o] # None /\ order[o].kind \notin Sale
      BY <2>1, <2>4 DEF OrderSettled
    <2> QED BY <2>2, <2>3, <2>4
  <1>4. CASE o = t /\ op[t].kind \in Sale
    <2>1. /\ order'[o] = [status |-> "paid", kind |-> op[t].kind, user |-> u, amount |-> Abs(d)]
          /\ RefOf(t) = <<"order", o>> /\ -Abs(d) = d
      BY <1>1, <1>4 DEF Commit, Ordered, OpSound, RefOf, Abs, Sale
    <2>2. PICK v \in User, c \in Int : v = u /\ c = d
      BY <1>1
    <2>3. Deltas(v, <<"order", o>>) = {} /\ Deltas(v, <<"order-refund", o>>) = {}
      BY <1>1, <1>2, <1>4 DEF Posted, Deltas
    <2>4. Sum(v, <<"order", o>>, 0) /\ Sum(v, <<"order-refund", o>>, 0)
      BY <2>3 DEF Sum
    <2>5. Sum(v, <<"order", o>>, c)'
      BY <2>1, <2>2, <2>4, DeltaAdded
    <2>6. Sum(v, <<"order-refund", o>>, 0)'
      BY <2>1, <2>4, DeltasKept
    <2>7. order'[o] # None
      BY <2>1, <1>1, NoneAssumption, CommitFacts, CommitTypes, <1>4 DEF Commit, Ordered, OrderRow, Abs, Op
    <2> QED BY <2>1, <2>2, <2>5, <2>6, <2>7 DEF OrderSettled
  <1>5. CASE o = t /\ op[t].kind = "change"
    <2>1. order'[o] = [status |-> "paid", kind |-> "change", user |-> u, amount |-> Abs(d)]
      BY <1>1, <1>5 DEF Commit, Ordered
    <2>2. order'[o].kind \notin Sale /\ order'[o] # None
      BY <1>1, <2>1, NoneAssumption DEF Sale, OrderRow, Abs
    <2> QED BY <2>2 DEF OrderSettled
  <1>6. CASE o = t /\ op[t].kind \notin Sale \cup {"change"}
    <2>1. op[t].kind = "refund" => o # op[t].item
      BY <1>1, <1>6 DEF OpSound
    <2>2. order'[o] = None
      BY <1>1, <1>6, <2>1 DEF Commit, Ordered
    <2>3. RefOf(t) # <<"order", o>> /\ RefOf(t) # <<"order-refund", o>>
      BY <1>1, <1>6, <2>1, OrdersApart DEF Op, Kind
    <2>4. ~Posted(<<"order", o>>)' /\ ~Posted(<<"order-refund", o>>)'
      BY <1>1, <1>2, <1>6, <2>3, PostedGrows
    <2> QED BY <2>2, <2>4 DEF OrderSettled
  <1>7. CASE op[t].kind = "refund" /\ o = op[t].item
    <2> DEFINE row == order[o]
    <2>1. /\ row \in OrderRow /\ row # None /\ row.status = "paid" /\ row.kind \in Sale
          /\ u = row.user /\ d = row.amount /\ o # t
          /\ order'[o] = [row EXCEPT !.status = "refunded"] /\ RefOf(t) = <<"order-refund", o>>
      BY <1>1, <1>7 DEF OpSound, OrderRefundable, Commit, Ordered, RefOf, Sale
    <2>2. PICK v \in User, c \in Int, a \in Int : v = u /\ c = d /\ a = -row.amount
      BY <1>1, <2>1
    <2>3. Sum(v, <<"order", o>>, a) /\ Sum(v, <<"order-refund", o>>, 0)
      BY <1>1, <2>1, <2>2 DEF OrderSettled
    <2>4. Sum(v, <<"order", o>>, a)'
      BY <2>1, <2>3, DeltasKept
    <2>5. Sum(v, <<"order-refund", o>>, c)'
      BY <2>1, <2>2, <2>3, DeltaAdded
    <2>6. order'[o] \in OrderRow /\ order'[o].status = "refunded" /\ order'[o].user = v
          /\ -order'[o].amount = a /\ order'[o].amount = c
      BY <2>1, <2>2 DEF OrderRow
    <2>7. order'[o] # None
      BY <2>6, NoneAssumption
    <2> QED BY <2>4, <2>5, <2>6, <2>7 DEF OrderSettled
  <1> QED BY <1>3, <1>4, <1>5, <1>6, <1>7

LEMMA CommitCodes ==
  ASSUME LockInv, CodesSound, NEW t \in Tx, Commit(t)
  PROVE  CodesSound'
  <1> DEFINE u == op[t].user
             k == op[t].item
  <1>1. /\ OpSound(t) /\ pc[t] = "open" /\ op[t] \in Op /\ u \in User
        /\ op[t].kind = "recharge" => CodeUsable(op[t])
        /\ uses \in [Code -> SUBSET User] /\ used \in [Code -> Nat]
    BY CommitFacts DEF Op, LockInv, TypeOK
  <1> SUFFICES ASSUME NEW c \in Code
               PROVE  /\ used'[c] = Cardinality(uses'[c])
                      /\ used'[c] <= MaxUses[c]
                      /\ \A v \in User : v \in uses'[c] <=> Posted(<<"recharge-code", c, v>>)'
    BY DEF CodesSound
  <1>2. /\ used[c] = Cardinality(uses[c])
        /\ used[c] <= MaxUses[c]
        /\ \A v \in User : v \in uses[c] <=> Posted(<<"recharge-code", c, v>>)
    BY DEF CodesSound
  <1>3. CASE op[t].kind = "recharge" /\ c = k
    <2>1. /\ RefOf(t) = <<"recharge-code", k, u>> /\ op[t].delta = Value[k] /\ Value[k] \in Nat \ {0}
      BY <1>1, <1>3, ConstantsAssumption DEF RefOf, OpSound
    <2>2. /\ used[c] < MaxUses[c] /\ u \notin uses[c] /\ MaxUses[c] \in Nat /\ used[c] \in Nat
      BY <1>1, <1>3, ConstantsAssumption DEF CodeUsable
    <2>3. uses'[c] = uses[c] \cup {u} /\ used'[c] = used[c] + 1
      BY <1>1, <1>3 DEF Commit, UseCode
    <2>4. IsFiniteSet(uses[c])
      BY <1>1, ConstantsAssumption, FS_Subset
    <2>5. Cardinality(uses'[c]) = Cardinality(uses[c]) + 1
      BY <2>2, <2>3, <2>4, FS_AddElement
    <2>6. ASSUME NEW v \in User
          PROVE  v \in uses'[c] <=> Posted(<<"recharge-code", c, v>>)'
      BY <1>2, <1>3, <2>1, <2>3, PostedGrows
    <2> QED BY <1>2, <2>2, <2>3, <2>5, <2>6
  <1>4. CASE ~(op[t].kind = "recharge" /\ c = k)
    <2>1. uses'[c] = uses[c] /\ used'[c] = used[c]
      BY <1>1, <1>4 DEF Commit, UseCode
    <2>2. \A v \in User : RefOf(t) # <<"recharge-code", c, v>>
      BY <1>4 DEF RefOf
    <2> QED BY <1>2, <2>1, <2>2, PostedGrows
  <1> QED BY <1>3, <1>4

(* The orders and the codes depend on nothing but what they are about.     *)
LEMMA BooksKept ==
  ASSUME UNCHANGED <<book, order, uses, used>>
  PROVE  /\ OrdersSettled => OrdersSettled'
         /\ CodesSound => CodesSound'
  <1>1. \A r : Posted(r)' <=> Posted(r)
    BY DEF Posted
  <1>2. \A v, r, d : Sum(v, r, d)' <=> Sum(v, r, d)
    BY DEF Sum, Deltas
  <1>3. OrdersSettled => OrdersSettled'
    BY <1>1, <1>2 DEF OrdersSettled, OrderSettled
  <1>4. CodesSound => CodesSound'
    BY <1>1 DEF CodesSound
  <1> QED BY <1>3, <1>4

LEMMA IInvInit == Init => IInv
  <1> SUFFICES ASSUME Init PROVE IInv
    OBVIOUS
  <1>1. \A r : ~Posted(r)
    BY DEF Init, Posted
  <1>2. OrdersSettled
    BY <1>1 DEF Init, OrdersSettled, OrderSettled
  <1>3. CodesSound
    BY <1>1, ConstantsAssumption, FS_EmptySet DEF Init, CodesSound
  <1> QED BY <1>2, <1>3, LockInvInit DEF IInv

LEMMA IInvNext == IInv /\ [Next]_vars => IInv'
  <1> SUFFICES ASSUME IInv, [Next]_vars PROVE IInv'
    OBVIOUS
  <1>1. LockInv /\ OrdersSettled /\ CodesSound /\ LockInv'
    BY LockInvNext DEF IInv
  <1>2. ASSUME NEW t \in Tx, Commit(t) PROVE OrdersSettled' /\ CodesSound'
    BY <1>1, <1>2, CommitSettles, CommitCodes
  <1>3. CASE UNCHANGED <<book, order, uses, used>>
    BY <1>1, <1>3, BooksKept DEF IInv
  <1>4. (\E t \in Tx : Commit(t)) \/ UNCHANGED <<book, order, uses, used>>
    BY DEF Next, Step, Begin, Acquire, Reject, DeadlockAbort, Abort, Disable, tables, vars
  <1> QED BY <1>1, <1>2, <1>3, <1>4 DEF IInv

(* Every order agrees with the book, whatever runs at the same time: it is *)
(* charged once and refunded at most once, in full                         *)
(* (src/src/billing-api.js:63-135, 257-319).                               *)
THEOREM Settled == Spec => []OrdersSettled
  <1>1. IInv => OrdersSettled
    BY DEF IInv
  <1> QED BY <1>1, IInvInit, IInvNext, PTL DEF Spec

(* A recharge code serves no more customers than it may, each once, and    *)
(* its counter is right (src/src/wallet.js:90-107).                        *)
THEOREM Codes == Spec => []CodesSound
  <1>1. IInv => CodesSound
    BY DEF IInv
  <1> QED BY <1>1, IInvInit, IInvNext, PTL DEF Spec

-----------------------------------------------------------------------------
(* A commit is a step of the ledger, or no step of it.                     *)
LEMMA SamePosted == \A r : L!Posted(r) <=> Posted(r)
  BY DEF L!Posted, L!EntryFor, Posted

LEMMA SameCardinality == \A S : L!Cardinality(S) = Cardinality(S)
  BY DEF L!Cardinality, Cardinality

LEMMA CommitRefines ==
  ASSUME IInv, NEW t \in Tx, Commit(t)
  PROVE  [L!Next]_<<balance, book>>
  <1> DEFINE u == op[t].user
             d == op[t].delta
             k == op[t].item
  <1>1. /\ OpSound(t) /\ pc[t] = "open" /\ op[t] \in Op /\ u \in User /\ d \in Int
        /\ seen[t] = balance[u] /\ balance[u] + d \in 0..MaxBalance /\ balance[u] \in 0..MaxBalance
        /\ balance \in [User -> 0..MaxBalance] /\ Unique(t) /\ LockInv
        /\ op[t].kind = "recharge" => CodeUsable(op[t])
        /\ op[t].kind = "refund" => OrderRefundable(op[t])
    BY CommitFacts DEF Op, IInv, LockInv, TypeOK, BalanceCovers, Commit
  <1>2. CASE d = 0
    BY <1>1, <1>2 DEF Commit, ChangeBalance
  <1>3. CASE d # 0
    <2>1. L!Post(u, d, RefOf(t))
      BY <1>1, <1>3, SamePosted DEF L!Post, Commit, ChangeBalance, Unique
    <2>2. d \in L!Delta
      BY <1>1, ConstantsAssumption DEF L!Delta
    <2>3. CASE op[t].kind = "adjust"
      <3>1. L!Adjust(u, d, t)
        BY <2>1, <2>3 DEF L!Adjust, RefOf
      <3> QED BY <1>1, <2>2, <3>1 DEF L!Next
    <2>4. CASE op[t].kind = "recharge"
      <3>1. k \in Code /\ d = Value[k] /\ RefOf(t) = <<"recharge-code", k, u>>
        BY <1>1, <2>4 DEF OpSound, RefOf
      <3>2. L!Credited(k) \subseteq uses[k]
        BY <1>1, <3>1, SamePosted DEF IInv, CodesSound, L!Credited, L!Posted
      <3>3. IsFiniteSet(uses[k])
        BY <1>1, <3>1, ConstantsAssumption, FS_Subset DEF LockInv, TypeOK
      <3>4. Cardinality(L!Credited(k)) < MaxUses[k]
        <4>1. /\ Cardinality(L!Credited(k)) <= Cardinality(uses[k])
              /\ Cardinality(L!Credited(k)) \in Nat /\ Cardinality(uses[k]) \in Nat
          BY <3>2, <3>3, FS_Subset, FS_CardinalityType
        <4>2. Cardinality(uses[k]) < MaxUses[k]
          BY <1>1, <2>4, <3>1 DEF IInv, CodesSound, CodeUsable
        <4> QED BY <3>1, <4>1, <4>2, ConstantsAssumption
      <3>5. L!Post(u, Value[k], <<"recharge-code", k, u>>)
        <4> HIDE DEF u, d, k
        <4> QED BY <2>1, <3>1
      <3>6. L!Recharge(u, k)
        BY <3>4, <3>5, SameCardinality DEF L!Recharge
      <3> QED BY <1>1, <3>1, <3>6 DEF L!Next
    <2>5. CASE op[t].kind = "refund"
      <3>1. /\ k \in Tx /\ order[k] # None /\ order[k].user = u /\ order[k].amount = d
            /\ order[k].kind \in Sale /\ RefOf(t) = <<"order-refund", k>>
        BY <1>1, <2>5 DEF OpSound, OrderRefundable, RefOf
      <3>2. Sum(u, <<"order", k>>, -d)
        BY <3>1 DEF IInv, OrdersSettled, OrderSettled
      <3>3. PICK i \in DOMAIN book[u] : Deltas(u, <<"order", k>>) = {<<i, -d>>}
        BY <1>1, <1>3, <3>2 DEF Sum
      <3>4. i \in L!EntryFor(u, <<"order", k>>) /\ book[u][i].delta = -d
        <4>1. <<i, -d>> \in Deltas(u, <<"order", k>>)
          BY <3>3
        <4>2. PICK j \in DOMAIN book[u] : book[u][j].ref = <<"order", k>> /\ <<i, -d>> = <<j, book[u][j].delta>>
          BY <4>1 DEF Deltas
        <4> QED BY <4>2 DEF L!EntryFor
      <3>5. -book[u][i].delta = d
        BY <1>1, <3>4
      <3>6. L!Refund(u, k)
        BY <2>1, <3>1, <3>4, <3>5 DEF L!Refund
      <3> QED BY <1>1, <3>1, <3>6 DEF L!Next
    <2>6. CASE op[t].kind = "change" /\ d > 0
      <3>1. L!Downgrade(u, d, t)
        BY <2>1, <2>6 DEF L!Downgrade, RefOf
      <3> QED BY <1>1, <2>2, <3>1 DEF L!Next
    <2>7. CASE op[t].kind \in Sale \/ (op[t].kind = "change" /\ ~(d > 0))
      <3>1. d < 0 /\ RefOf(t) = <<"order", t>>
        BY <1>1, <1>3, <2>7 DEF OpSound, RefOf, Sale
      <3>2. L!Charge(u, d, t)
        BY <2>1, <3>1 DEF L!Charge
      <3> QED BY <1>1, <2>2, <3>2 DEF L!Next
    <2> QED BY <1>1, <2>3, <2>4, <2>5, <2>6, <2>7 DEF Op, Kind
  <1> QED BY <1>2, <1>3

(* However many transactions run, and in whatever order their statements   *)
(* reach the database, money moves as module Ledger allows.                *)
THEOREM ImplementsLedger == Spec => LedgerSpec
  <1>1. Init => L!Init
    BY DEF Init, L!Init
  <1>2. IInv /\ [Next]_vars => [L!Next]_<<balance, book>>
    <2> SUFFICES ASSUME IInv, [Next]_vars PROVE [L!Next]_<<balance, book>>
      OBVIOUS
    <2>1. ASSUME NEW t \in Tx, Commit(t) PROVE [L!Next]_<<balance, book>>
      BY <2>1, CommitRefines
    <2>2. (\E t \in Tx : Commit(t)) \/ UNCHANGED <<balance, book>>
      BY DEF Next, Step, Begin, Acquire, Reject, DeadlockAbort, Abort, Disable, tables, vars
    <2> QED BY <2>1, <2>2
  <1> QED BY <1>1, <1>2, IInvInit, IInvNext, PTL DEF Spec, LedgerSpec, L!Spec, L!vars

-----------------------------------------------------------------------------
(* Subscriptions.                                                          *)

(* A set of natural numbers has a least one: what holds up to a number is  *)
(* shown of the least one for which it would fail.                         *)
LEMMA Least ==
  ASSUME NEW S \in SUBSET Nat, S # {}
  PROVE  \E x \in S : \A y \in S : x <= y
  <1> DEFINE R == OpToRel(<, Nat)
  <1>1. \A x, y \in Nat : y < x => <<y, x>> \in R
    BY DEF OpToRel
  <1>2. IsWellFoundedOn(R, Nat)
    BY NatLessThanWellFounded
  <1> HIDE DEF R
  <1>3. PICK x \in S : \A y \in S : <<y, x>> \notin R
    BY <1>2, WFMin
  <1>4. ASSUME NEW y \in S PROVE x <= y
    <2>1. ~(y < x)
      BY <1>1, <1>3, Zenon
    <2> QED BY <2>1
  <1> QED BY <1>4

(* t is the function of the totals of g's first elements.                  *)
Totals(n, g, t) ==
  t \in [0..n -> Int] /\ t[0] = 0 /\ \A i \in 1..n : t[i] = t[i - 1] + g[i]

(* Any sequence of integers has its totals, and Total is the last of them. *)
LEMMA SomeTotals ==
  ASSUME NEW n \in Nat, NEW g \in [1..n -> Int]
  PROVE  \E t : Totals(n, g, t)
  <1> DEFINE Bad == {m \in 0..n : ~\E t : Totals(m, g, t)}
  <1>1. ASSUME Bad # {} PROVE FALSE
    <2>1. Bad \in SUBSET Nat
      OBVIOUS
    <2> HIDE DEF Bad
    <2>2. PICK m \in Bad : \A k \in Bad : m <= k
      BY <1>1, <2>1, Least
    <2>3. m \in 0..n /\ ~\E t : Totals(m, g, t)
      BY <2>2 DEF Bad
    <2>4. m # 0
      <3>1. Totals(0, g, [i \in 0..0 |-> 0])
        BY DEF Totals
      <3> QED BY <2>3, <3>1
    <2>5. m - 1 \in 0..n /\ m - 1 \notin Bad
      BY <2>1, <2>2, <2>3, <2>4
    <2>6. PICK t : Totals(m - 1, g, t)
      BY <2>5 DEF Bad
    <2> DEFINE u == [i \in 0..m |-> IF i = m THEN t[m - 1] + g[m] ELSE t[i]]
    <2>7. Totals(m, g, u)
      BY <2>3, <2>4, <2>6 DEF Totals
    <2> QED BY <2>3, <2>7
  <1>2. n \notin Bad
    BY <1>1
  <1> QED BY <1>2

LEMMA TotalIs ==
  ASSUME NEW n \in Nat, NEW g \in [1..n -> Int], NEW t, Totals(n, g, t)
  PROVE  Total(n, g) = t[n]
  <1>1. t = [i \in 0..n |-> IF i = 0 THEN 0 ELSE t[i - 1] + g[i]]
    <2> DEFINE u == [i \in 0..n |-> IF i = 0 THEN 0 ELSE t[i - 1] + g[i]]
    <2>1. \A i \in 0..n : t[i] = u[i]
      BY DEF Totals
    <2> QED BY <2>1 DEF Totals
  <1>2. PICK u : Total(n, g) = u[n] /\ u = [i \in 0..n |-> IF i = 0 THEN 0 ELSE u[i - 1] + g[i]]
    BY <1>1 DEF Total
  <1> DEFINE Bad == {i \in 0..n : u[i] # t[i]}
  <1>3. ASSUME Bad # {} PROVE FALSE
    <2>0. Bad \in SUBSET Nat
      OBVIOUS
    <2>1. PICK i \in Bad : \A k \in Bad : i <= k
      BY <1>3, <2>0, Least
    <2>2. i # 0 => u[i - 1] = t[i - 1]
      BY <2>1
    <2>3. u[i] = IF i = 0 THEN 0 ELSE u[i - 1] + g[i]
      BY <1>2, <2>1
    <2>4. t[i] = IF i = 0 THEN 0 ELSE t[i - 1] + g[i]
      BY <1>1, <2>1
    <2> QED BY <2>1, <2>2, <2>3, <2>4
  <1> QED BY <1>2, <1>3

LEMMA TotalType ==
  ASSUME NEW n \in Nat, NEW g \in [1..n -> Int]
  PROVE  Total(n, g) \in Int
  <1>1. PICK t : Totals(n, g, t)
    BY SomeTotals
  <1>2. Total(n, g) = t[n]
    BY <1>1, TotalIs
  <1> QED BY <1>1, <1>2 DEF Totals

LEMMA TotalZero ==
  ASSUME NEW g \in [1..0 -> Int]
  PROVE  Total(0, g) = 0
  <1>1. PICK t : Totals(0, g, t)
    BY SomeTotals
  <1> QED BY <1>1, TotalIs DEF Totals

(* One more element adds to the total.                                      *)
LEMMA TotalStep ==
  ASSUME NEW n \in Nat, NEW g \in [1..n -> Int], NEW h \in [1..(n + 1) -> Int],
         \A i \in 1..n : h[i] = g[i]
  PROVE  Total(n + 1, h) = Total(n, g) + h[n + 1]
  <1>1. PICK t : Totals(n, g, t)
    BY SomeTotals
  <1> DEFINE u == [i \in 0..(n + 1) |-> IF i = n + 1 THEN t[n] + h[n + 1] ELSE t[i]]
  <1>2. Totals(n + 1, h, u)
    <2>1. u \in [0..(n + 1) -> Int] /\ u[0] = 0
      BY <1>1 DEF Totals
    <2>2. ASSUME NEW i \in 1..(n + 1) PROVE u[i] = u[i - 1] + h[i]
      BY <1>1 DEF Totals
    <2> QED BY <2>1, <2>2 DEF Totals
  <1>3. Total(n, g) = t[n] /\ Total(n + 1, h) = u[n + 1]
    BY <1>1, <1>2, TotalIs
  <1> QED BY <1>3

(* Another value in one place changes the total by as much.                 *)
LEMMA TotalChange ==
  ASSUME NEW n \in Nat, NEW g \in [1..n -> Int], NEW h \in [1..n -> Int], NEW k \in 1..n,
         \A i \in 1..n \ {k} : h[i] = g[i]
  PROVE  Total(n, h) = Total(n, g) + h[k] - g[k]
  <1>1. PICK t : Totals(n, g, t)
    BY SomeTotals
  <1> DEFINE u == [i \in 0..n |-> IF i < k THEN t[i] ELSE t[i] + h[k] - g[k]]
  <1>2. Totals(n, h, u)
    <2>1. u \in [0..n -> Int] /\ u[0] = 0
      BY <1>1 DEF Totals
    <2>2. ASSUME NEW i \in 1..n PROVE u[i] = u[i - 1] + h[i]
      <3>1. t[i] = t[i - 1] + g[i] /\ t[i] \in Int /\ t[i - 1] \in Int
        BY <1>1 DEF Totals
      <3>2. i # k => h[i] = g[i]
        OBVIOUS
      <3>3. i - 1 \in 0..n /\ i \in 0..n
        OBVIOUS
      <3> QED BY <3>1, <3>2, <3>3
    <2> QED BY <2>1, <2>2 DEF Totals
  <1>3. Total(n, g) = t[n] /\ Total(n, h) = u[n]
    BY <1>1, <1>2, TotalIs
  <1> QED BY <1>3

(* A total is no larger than that of values at least as large.              *)
LEMMA TotalMono ==
  ASSUME NEW n \in Nat, NEW g \in [1..n -> Int], NEW h \in [1..n -> Int],
         \A i \in 1..n : g[i] <= h[i]
  PROVE  Total(n, g) <= Total(n, h)
  <1>1. PICK t : Totals(n, g, t)
    BY SomeTotals
  <1>2. PICK u : Totals(n, h, u)
    BY SomeTotals
  <1> DEFINE Bad == {i \in 0..n : ~(t[i] <= u[i])}
  <1>3. ASSUME Bad # {} PROVE FALSE
    <2>0. Bad \in SUBSET Nat
      OBVIOUS
    <2>1. PICK i \in Bad : \A k \in Bad : i <= k
      BY <1>3, <2>0, Least
    <2>2. i # 0
      BY <1>1, <1>2, <2>1 DEF Totals
    <2>3. i \in 1..n /\ i - 1 \in 0..n /\ t[i - 1] <= u[i - 1]
      BY <2>1, <2>2
    <2>4. t[i] = t[i - 1] + g[i] /\ u[i] = u[i - 1] + h[i]
      BY <1>1, <1>2, <2>3 DEF Totals
    <2>5. t[i - 1] \in Int /\ u[i - 1] \in Int
      BY <1>1, <1>2, <2>3 DEF Totals
    <2>6. g[i] \in Int /\ h[i] \in Int /\ g[i] <= h[i]
      BY <2>3
    <2> QED BY <2>1, <2>3, <2>4, <2>5, <2>6
  <1>4. Total(n, g) = t[n] /\ Total(n, h) = u[n]
    BY <1>1, <1>2, TotalIs
  <1> QED BY <1>3, <1>4

-----------------------------------------------------------------------------
(* What a customer has got for an order that was paid and not refunded: at *)
(* least the days it was for, and what it has to give back.                *)
Gain(s, o) ==
  IF o.sub = s /\ o.type # "change" /\ o.status = "paid" THEN o.ends - o.prev ELSE 0

Gained(s) == Total(Len(orders), [i \in DOMAIN orders |-> Gain(s, orders[i])])

OrdersSound ==
  \A i \in DOMAIN orders :
    /\ Exists(orders[i].sub)
    /\ orders[i].type # "change" => orders[i].ends >= orders[i].prev + Days[orders[i].plan]

(* A plan sold once: what is not acquired was not ordered or assigned, and *)
(* what was is one order or one assignment.                                *)
Acquiring(p) == {i \in DOMAIN orders : orders[i].type # "renewal" /\ orders[i].plan = p}
Assigned(p) == {i \in DOMAIN gifts : gifts[i] = p}

PlansSound ==
  \A p \in Once :
    /\ p \notin acquired => Acquiring(p) = {} /\ Assigned(p) = {}
    /\ Acquiring(p) = {} \/ Assigned(p) = {}
    /\ \A i, j \in Acquiring(p) : i = j
    /\ \A i, j \in Assigned(p) : i = j

AloneSound ==
  /\ alone \in BOOLEAN
  /\ alone => call = [c \in Call |-> Quiet] /\ edits = 0 /\ edit = Nothing

(* What was scanned, listed or read exists: no subscription is removed.    *)
ScansSound ==
  /\ \A p \in Pass : \A r \in pass[p].rows \cup pass[p].due : Exists(r.sub)
  /\ \A c \in Call : \A s \in call[c].todo \cup ({call[c].cur} \ {Nothing}) : Exists(s)
  /\ edit # Nothing => Exists(edit.sub)

TimeSound ==
  /\ \A s \in Sub : Exists(s) => sub[s].ends >= sub[s].start + Gained(s)
  /\ GraceSound /\ AutoRenewalsDue

SubInv ==
  /\ SubTypeOK /\ AloneSound /\ ScansSound /\ OrdersSound /\ PlansSound /\ AutoOncePerPeriod
  /\ alone => TimeSound

-----------------------------------------------------------------------------
LEMMA OrderFields ==
  ASSUME SubTypeOK, NEW i \in DOMAIN orders
  PROVE  /\ orders[i] \in OrderRecord
         /\ orders[i].ends \in Int /\ orders[i].prev \in Int /\ orders[i].at \in Nat
         /\ orders[i].sub \in Sub /\ orders[i].plan \in Plan
         /\ Days[orders[i].plan] \in Nat \ {0}
  <1>1. orders[i] \in OrderRecord
    BY DEF SubTypeOK
  <1> QED BY <1>1, SubAssumption DEF OrderRecord

LEMMA RowFields ==
  ASSUME SubTypeOK, NEW s \in Sub, Exists(s)
  PROVE  /\ sub[s] \in Row
         /\ sub[s].ends \in Int /\ sub[s].start \in Nat /\ sub[s].grace \in Int \cup {Nothing}
         /\ sub[s].plan \in Plan /\ Days[sub[s].plan] \in Nat \ {0}
         /\ sub[s].auto \in BOOLEAN
  <1>1. sub[s] \in Row
    BY DEF SubTypeOK, Exists
  <1> QED BY <1>1, SubAssumption DEF Row

LEMMA GainType ==
  ASSUME SubTypeOK, NEW s \in Sub
  PROVE  /\ [i \in DOMAIN orders |-> Gain(s, orders[i])] \in [1..Len(orders) -> Int]
         /\ Len(orders) \in Nat /\ Gained(s) \in Int
  <1>1. Len(orders) \in Nat /\ DOMAIN orders = 1..Len(orders)
    BY DEF SubTypeOK
  <1>2. ASSUME NEW i \in DOMAIN orders PROVE Gain(s, orders[i]) \in Int
    BY OrderFields DEF Gain
  <1> QED BY <1>1, <1>2, TotalType DEF Gained

LEMMA GainedNone ==
  ASSUME SubTypeOK, OrdersSound, NEW s \in Sub, ~Exists(s)
  PROVE  Gained(s) = 0
  <1> DEFINE g == [i \in DOMAIN orders |-> Gain(s, orders[i])]
  <1>1. g \in [1..Len(orders) -> Int] /\ Len(orders) \in Nat
    BY GainType
  <1>2. \A i \in 1..Len(orders) : g[i] = 0
    BY <1>1 DEF OrdersSound, Gain, SubTypeOK
  <1>3. Totals(Len(orders), g, [i \in 0..Len(orders) |-> 0])
    BY <1>1, <1>2 DEF Totals
  <1> HIDE DEF g
  <1>4. Total(Len(orders), g) = 0
    BY <1>1, <1>3, TotalIs
  <1> QED BY <1>4 DEF Gained, g

LEMMA GainedOrdered ==
  ASSUME SubTypeOK, NEW s \in Sub, NEW o \in OrderRecord, orders' = Append(orders, o)
  PROVE  Gained(s)' = Gained(s) + Gain(s, o)
  <1> DEFINE n == Len(orders)
             g == [i \in DOMAIN orders |-> Gain(s, orders[i])]
             h == [i \in DOMAIN orders' |-> Gain(s, orders'[i])]
  <1>1. g \in [1..n -> Int] /\ n \in Nat
    BY GainType
  <1>2. /\ Len(orders') = n + 1 /\ DOMAIN orders' = 1..(n + 1) /\ orders'[n + 1] = o
        /\ \A i \in 1..n : orders'[i] = orders[i] /\ i \in DOMAIN orders
    BY DEF SubTypeOK
  <1>3. Gain(s, o) \in Int
    BY DEF Gain, OrderRecord
  <1>4. h[n + 1] = Gain(s, o)
    BY <1>1, <1>2
  <1>5. \A i \in 1..n : h[i] = g[i]
    BY <1>1, <1>2
  <1>6. h \in [1..(n + 1) -> Int]
    <2>1. ASSUME NEW i \in 1..(n + 1) PROVE h[i] \in Int
      <3>1. CASE i = n + 1
        BY <3>1, <1>3, <1>4
      <3>2. CASE i # n + 1
        <4>1. i \in 1..n
          BY <3>2, <1>1
        <4> QED BY <4>1, <1>1, <1>5
      <3> QED BY <3>1, <3>2
    <2>2. h = [i \in 1..(n + 1) |-> h[i]]
      BY <1>2
    <2> QED BY <2>1, <2>2
  <1> HIDE DEF g, h, n
  <1>7. Total(n + 1, h) = Total(n, g) + h[n + 1]
    BY <1>1, <1>5, <1>6, TotalStep
  <1>8. Gained(s)' = Total(n + 1, h)
    BY <1>2 DEF Gained, Gain, h
  <1>9. Gained(s) = Total(n, g)
    BY DEF Gained, g, n
  <1> QED BY <1>4, <1>7, <1>8, <1>9

LEMMA GainedRefund ==
  ASSUME SubTypeOK, NEW s \in Sub, NEW k \in DOMAIN orders, orders[k].status = "paid",
         orders' = [orders EXCEPT ![k].status = "refunded"]
  PROVE  Gained(s)' = Gained(s) - Gain(s, orders[k])
  <1> DEFINE n == Len(orders)
             g == [i \in DOMAIN orders |-> Gain(s, orders[i])]
             h == [i \in DOMAIN orders' |-> Gain(s, orders'[i])]
  <1>1. g \in [1..n -> Int] /\ n \in Nat
    BY GainType
  <1>2. /\ Len(orders') = n /\ DOMAIN orders' = 1..n /\ DOMAIN orders = 1..n
        /\ \A i \in 1..n \ {k} : orders'[i] = orders[i]
    BY DEF SubTypeOK
  <1>3. Gain(s, orders'[k]) = 0
    BY OrderFields DEF Gain, OrderRecord
  <1>4. h[k] = 0 /\ g[k] = Gain(s, orders[k]) /\ g[k] \in Int /\ k \in 1..n
    BY <1>1, <1>2, <1>3
  <1>5. \A i \in 1..n \ {k} : h[i] = g[i]
    BY <1>1, <1>2
  <1>6. h \in [1..n -> Int]
    <2>1. ASSUME NEW i \in 1..n PROVE h[i] \in Int
      BY <1>1, <1>4, <1>5
    <2>2. h = [i \in 1..n |-> h[i]]
      BY <1>2
    <2> QED BY <2>1, <2>2
  <1> HIDE DEF g, h, n
  <1>7. Total(n, h) = Total(n, g) + h[k] - g[k]
    BY <1>1, <1>4, <1>5, <1>6, TotalChange
  <1>8. Gained(s)' = Total(n, h)
    BY <1>2 DEF Gained, Gain, h
  <1>9. Gained(s) = Total(n, g) /\ Gained(s) \in Int
    BY GainType DEF Gained, g, n
  <1> QED BY <1>4, <1>7, <1>8, <1>9

LEMMA PaidIsGained ==
  ASSUME SubTypeOK, OrdersSound, NEW s \in Sub
  PROVE  PaidDays(s) \in Int /\ PaidDays(s) <= Gained(s)
  <1> DEFINE n == Len(orders)
             g == [i \in DOMAIN orders |-> PaidFor(s, orders[i])]
             h == [i \in DOMAIN orders |-> Gain(s, orders[i])]
  <1>1. h \in [1..n -> Int] /\ n \in Nat /\ DOMAIN orders = 1..n
    BY GainType DEF SubTypeOK
  <1>2. ASSUME NEW i \in DOMAIN orders PROVE g[i] \in Int /\ g[i] <= h[i]
    BY OrderFields DEF OrdersSound, PaidFor, Gain
  <1>3. g \in [1..n -> Int] /\ \A i \in 1..n : g[i] <= h[i]
    BY <1>1, <1>2
  <1>4. PaidDays(s) = Total(n, g) /\ Gained(s) = Total(n, h)
    BY DEF PaidDays, Gained
  <1> HIDE DEF g, h, n
  <1>5. Total(n, g) \in Int /\ Total(n, g) <= Total(n, h)
    BY <1>1, <1>3, TotalType, TotalMono
  <1> QED BY <1>4, <1>5

-----------------------------------------------------------------------------
LEMMA RenewedRow ==
  ASSUME SubTypeOK, NEW s \in Sub, Exists(s)
  PROVE  /\ RenewedEnds(s) \in Int /\ RenewedEnds(s) >= sub[s].ends + Days[sub[s].plan]
         /\ Renewed(s) \in [Sub -> Row \cup {Nothing}]
         /\ \A x \in Sub \ {s} : Renewed(s)[x] = sub[x]
         /\ Renewed(s)[s] \in Row /\ Renewed(s)[s].ends = RenewedEnds(s)
         /\ Renewed(s)[s].start = sub[s].start /\ Renewed(s)[s].grace = Nothing
         /\ Order("renewal", s, TRUE, RenewedEnds(s)) \in OrderRecord
         /\ Order("renewal", s, FALSE, RenewedEnds(s)) \in OrderRecord
  <1>1. now \in Nat /\ sub \in [Sub -> Row \cup {Nothing}]
    BY SubAssumption DEF SubTypeOK
  <1>2. RenewedEnds(s) \in Int /\ RenewedEnds(s) >= sub[s].ends + Days[sub[s].plan]
    BY <1>1, RowFields DEF RenewedEnds, Later
  <1>3. /\ Renewed(s) = [sub EXCEPT ![s] = Renewed(s)[s]]
        /\ Renewed(s)[s] = [sub[s] EXCEPT !.status = "active", !.ends = RenewedEnds(s), !.grace = Nothing]
    BY <1>1, RowFields DEF Renewed, Row
  <1>4. Renewed(s)[s] \in Row
    BY <1>2, <1>3, RowFields DEF Row, Alive
  <1>5. /\ Renewed(s)[s].ends = RenewedEnds(s)
        /\ Renewed(s)[s].start = sub[s].start /\ Renewed(s)[s].grace = Nothing
    BY <1>2, <1>3, RowFields DEF Row
  <1>6. ASSUME NEW auto \in BOOLEAN PROVE Order("renewal", s, auto, RenewedEnds(s)) \in OrderRecord
    BY <1>1, <1>2, RowFields DEF Order, OrderRecord
  <1> QED BY <1>1, <1>2, <1>3, <1>4, <1>5, <1>6

LEMMA NewRowType ==
  ASSUME SubTypeOK, NEW p \in Plan
  PROVE  NewRow(p) \in Row /\ NewRow(p) # Nothing /\ now \in Nat /\ Days[p] \in Nat \ {0}
  <1>1. now \in Nat /\ Days[p] \in Nat \ {0}
    BY SubAssumption DEF SubTypeOK
  <1>2. NewRow(p) \in Row
    BY <1>1 DEF NewRow, Row, Alive
  <1> QED BY <1>1, <1>2, NoRowAssumption

LEMMA StatusRow ==
  ASSUME NEW r \in Row, NEW x \in Alive \cup {"expired", "cancelled"}
  PROVE  [r EXCEPT !.status = x] \in Row
  BY DEF Row

LEMMA SweptType ==
  ASSUME SubTypeOK
  PROVE  Swept \in [Sub -> Row \cup {Nothing}]
  <1>1. ASSUME NEW s \in Sub PROVE Swept[s] \in Row \cup {Nothing}
    <2>1. CASE sub[s] = Nothing
      BY <2>1 DEF Swept, Exists
    <2>2. CASE sub[s] # Nothing
      BY <2>2, RowFields, StatusRow DEF Swept, Exists, Alive
    <2> QED BY <2>1, <2>2
  <1> QED BY <1>1 DEF Swept

(* Orders, row by row: a handler appends one or refunds one.                *)
LEMMA ByNumber ==
  ASSUME SubTypeOK, NEW o \in OrderRecord, orders' = Append(orders, o)
  PROVE  orders' \in Seq(OrderRecord)
  BY DEF SubTypeOK

LEMMA BuyType ==
  ASSUME SubTypeOK, NEW s \in Sub, NEW p \in Plan, Buy(p, s)
  PROVE  SubTypeOK'
  <1>1. sub' \in [Sub -> Row \cup {Nothing}]
    BY NewRowType DEF SubTypeOK, Buy
  <1>2. orders' \in Seq(OrderRecord)
    BY NewRowType DEF SubTypeOK, Buy, OrderRecord
  <1> QED BY <1>1, <1>2 DEF SubTypeOK, Buy, Scanned

LEMMA StackType ==
  ASSUME SubTypeOK, NEW s \in Sub, NEW p \in Plan, Stack(p, s)
  PROVE  SubTypeOK'
  <1>1. Exists(s)
    BY DEF Stack, Extended, Owned, Is
  <1>2. sub' \in [Sub -> Row \cup {Nothing}]
    BY <1>1, RenewedRow DEF Stack
  <1>3. orders' \in Seq(OrderRecord)
    BY <1>1, RenewedRow, ByNumber DEF Stack
  <1> QED BY <1>2, <1>3 DEF SubTypeOK, Stack, Scanned

LEMMA AssignType ==
  ASSUME SubTypeOK, NEW s \in Sub, NEW p \in Plan, Assign(p, s)
  PROVE  SubTypeOK'
  <1>1. sub' \in [Sub -> Row \cup {Nothing}]
    <2>1. CASE sub' = [sub EXCEPT ![s] = NewRow(p)]
      BY <2>1, NewRowType DEF SubTypeOK
    <2>2. CASE s \in Extended(p) /\ sub' = Renewed(s)
      <3>1. Exists(s)
        BY <2>2 DEF Extended, Owned, Is
      <3> QED BY <3>1, <2>2, RenewedRow
    <2> QED BY <2>1, <2>2 DEF Assign
  <1> QED BY <1>1 DEF SubTypeOK, Assign, Scanned

LEMMA RenewType ==
  ASSUME SubTypeOK, NEW s \in Sub, Renew(s)
  PROVE  SubTypeOK'
  <1>1. Exists(s)
    BY DEF Renew, Is
  <1>2. sub' \in [Sub -> Row \cup {Nothing}]
    BY <1>1, RenewedRow DEF Renew
  <1>3. orders' \in Seq(OrderRecord)
    BY <1>1, RenewedRow, ByNumber DEF Renew
  <1> QED BY <1>2, <1>3 DEF SubTypeOK, Renew, Scanned

LEMMA ChangeOrder ==
  ASSUME SubTypeOK, NEW s \in Sub, NEW p \in Plan, Exists(s)
  PROVE  LET o == [Order("change", s, FALSE, sub[s].ends) EXCEPT !.plan = p]
         IN o \in OrderRecord /\ o.type = "change" /\ o.sub = s /\ o.plan = p /\ o.auto = FALSE
  <1>1. now \in Nat
    BY SubAssumption DEF SubTypeOK
  <1> QED BY <1>1, RowFields DEF Order, OrderRecord

LEMMA ChangeType ==
  ASSUME SubTypeOK, NEW s \in Sub, NEW p \in Plan, ChangePlan(s, p)
  PROVE  SubTypeOK'
  <1>1. Exists(s)
    BY DEF ChangePlan, Is
  <1>2. sub' \in [Sub -> Row \cup {Nothing}]
    <2> DEFINE r == [sub[s] EXCEPT !.plan = p, !.grace = Nothing]
    <2>1. r \in Row
      BY <1>1, RowFields DEF Row
    <2>2. sub' = [sub EXCEPT ![s] = r]
      BY <1>1, RowFields DEF ChangePlan, SubTypeOK, Row
    <2> QED BY <2>1, <2>2 DEF SubTypeOK
  <1>3. orders' \in Seq(OrderRecord)
    BY <1>1, ChangeOrder, ByNumber DEF ChangePlan
  <1> QED BY <1>2, <1>3 DEF SubTypeOK, ChangePlan, Scanned

LEMMA RefundType ==
  ASSUME SubTypeOK, OrdersSound, NEW i \in DOMAIN orders, Refund(i)
  PROVE  SubTypeOK'
  <1> DEFINE s == orders[i].sub
  <1>1. s \in Sub /\ Exists(s) /\ sub[s] \in Row
    BY OrderFields, RowFields DEF OrdersSound
  <1>2. RolledBack(i) \in Int
    BY <1>1, OrderFields, RowFields DEF RolledBack
  <1>3. sub' \in [Sub -> Row \cup {Nothing}]
    <2> DEFINE r == [sub[s] EXCEPT !.status = "cancelled", !.auto = FALSE]
               q == [sub[s] EXCEPT !.status = IF RolledBack(i) > now THEN "active" ELSE "expired",
                                   !.ends = RolledBack(i), !.auto = FALSE, !.grace = Nothing]
    <2>1. r \in Row /\ q \in Row
      BY <1>1, <1>2 DEF Row, Alive
    <2>2. sub' = [sub EXCEPT ![s] = IF orders[i].type = "plan" THEN r ELSE q]
      BY <1>1 DEF Refund, SubTypeOK, Row
    <2> QED BY <1>1, <2>1, <2>2 DEF SubTypeOK
  <1>4. orders' \in Seq(OrderRecord)
    <2>1. [orders[i] EXCEPT !.status = "refunded"] \in OrderRecord
      BY OrderFields DEF OrderRecord
    <2>2. orders' = [orders EXCEPT ![i] = [orders[i] EXCEPT !.status = "refunded"]]
      BY DEF Refund
    <2> QED BY <2>1, <2>2 DEF SubTypeOK
  <1> QED BY <1>3, <1>4 DEF SubTypeOK, Refund, Scanned

(* What handling a scanned row does to the pass.                           *)
LEMMA PassParts ==
  ASSUME SubTypeOK, NEW p \in Pass, NEW r \in pass[p].rows \cup pass[p].due,
         Handled(p, r) \/ Aborted(p) \/ FallsDue(p, r)
  PROVE  /\ pass' \in [Pass -> [at : Nat, rows : SUBSET Scanned, due : SUBSET Scanned]]
         /\ \A q \in Pass : pass'[q].rows \cup pass'[q].due \subseteq pass[q].rows \cup pass[q].due
  <1>1. pass[p] \in [at : Nat, rows : SUBSET Scanned, due : SUBSET Scanned]
    BY DEF SubTypeOK
  <1>2. r \in Scanned
    BY <1>1
  <1>3. PICK q \in [at : Nat, rows : SUBSET Scanned, due : SUBSET Scanned] :
          /\ pass' = [pass EXCEPT ![p] = q]
          /\ q.rows \subseteq pass[p].rows /\ q.due \subseteq {r}
    <2>1. CASE Handled(p, r)
      <3> DEFINE q == [pass[p] EXCEPT !.rows = @ \ {r}, !.due = {}]
      <3>1. /\ q \in [at : Nat, rows : SUBSET Scanned, due : SUBSET Scanned]
            /\ q.rows \subseteq pass[p].rows /\ q.due \subseteq {r}
        BY <1>1
      <3>2. pass' = [pass EXCEPT ![p] = q]
        BY <1>1, <2>1 DEF Handled, SubTypeOK
      <3> QED BY <3>1, <3>2
    <2>2. CASE Aborted(p)
      <3>1. /\ Idle \in [at : Nat, rows : SUBSET Scanned, due : SUBSET Scanned]
            /\ Idle.rows \subseteq pass[p].rows /\ Idle.due \subseteq {r}
        BY DEF Idle
      <3> QED BY <2>2, <3>1 DEF Aborted
    <2>3. CASE FallsDue(p, r)
      <3> DEFINE q == [pass[p] EXCEPT !.rows = @ \ {r}, !.due = {r}]
      <3>1. /\ q \in [at : Nat, rows : SUBSET Scanned, due : SUBSET Scanned]
            /\ q.rows \subseteq pass[p].rows /\ q.due \subseteq {r}
        BY <1>1, <1>2
      <3>2. pass' = [pass EXCEPT ![p] = q]
        BY <1>1, <2>3 DEF FallsDue, SubTypeOK
      <3> QED BY <3>1, <3>2
    <2> QED BY <2>1, <2>2, <2>3
  <1>4. pass'[p] = q /\ \A x \in Pass \ {p} : pass'[x] = pass[x]
    BY <1>3 DEF SubTypeOK
  <1> QED BY <1>3, <1>4 DEF SubTypeOK

LEMMA ScannedRow ==
  ASSUME SubTypeOK, ScansSound, NEW p \in Pass, NEW r \in pass[p].rows \cup pass[p].due
  PROVE  r.sub \in Sub /\ r.row \in Row /\ Exists(r.sub)
  <1>1. r \in Scanned
    BY DEF SubTypeOK
  <1> QED BY <1>1 DEF Scanned, ScansSound

LEMMA PaysType ==
  ASSUME SubTypeOK, ScansSound, NEW p \in Pass, NEW r \in pass[p].rows \cup pass[p].due, RenewPays(p, r)
  PROVE  SubTypeOK'
  <1>1. sub' \in [Sub -> Row \cup {Nothing}]
    BY ScannedRow, RenewedRow DEF RenewPays
  <1>2. orders' \in Seq(OrderRecord)
    BY ScannedRow, RenewedRow, ByNumber DEF RenewPays
  <1>3. pass' \in [Pass -> [at : Nat, rows : SUBSET Scanned, due : SUBSET Scanned]]
    BY PassParts DEF RenewPays
  <1> QED BY <1>1, <1>2, <1>3 DEF SubTypeOK, RenewPays, Scanned

LEMMA FailsType ==
  ASSUME SubTypeOK, ScansSound, NEW p \in Pass, NEW r \in pass[p].rows \cup pass[p].due, RenewFails(p, r)
  PROVE  SubTypeOK'
  <1>1. sub' \in [Sub -> Row \cup {Nothing}]
    <2> DEFINE s == r.sub
               g == IF sub[s].grace = Nothing THEN sub[s].ends + GraceDays ELSE sub[s].grace
    <2>1. [sub[s] EXCEPT !.grace = g] \in Row
      BY ScannedRow, RowFields, SubAssumption DEF Row
    <2>2. sub' = [sub EXCEPT ![s] = [sub[s] EXCEPT !.grace = g]]
      BY DEF RenewFails
    <2> QED BY <2>1, <2>2 DEF SubTypeOK
  <1>2. pass' \in [Pass -> [at : Nat, rows : SUBSET Scanned, due : SUBSET Scanned]]
    BY PassParts DEF RenewFails
  <1> QED BY <1>1, <1>2 DEF SubTypeOK, RenewFails, Scanned

LEMMA ExpireType ==
  ASSUME SubTypeOK, ScansSound, NEW p \in Pass, NEW r \in pass[p].rows \cup pass[p].due, PassExpire(p, r)
  PROVE  SubTypeOK'
  <1>1. sub' \in [Sub -> Row \cup {Nothing}]
    <2>1. [sub[r.sub] EXCEPT !.status = "expired"] \in Row
      BY ScannedRow, RowFields, StatusRow
    <2>2. sub' = sub \/ sub' = [sub EXCEPT ![r.sub] = [sub[r.sub] EXCEPT !.status = "expired"]]
      BY DEF PassExpire
    <2> QED BY <2>1, <2>2 DEF SubTypeOK
  <1>2. pass' \in [Pass -> [at : Nat, rows : SUBSET Scanned, due : SUBSET Scanned]]
    BY PassParts DEF PassExpire
  <1> QED BY <1>1, <1>2 DEF SubTypeOK, PassExpire, Scanned

LEMMA SkipType ==
  ASSUME SubTypeOK, ScansSound, NEW p \in Pass, NEW r \in pass[p].rows \cup pass[p].due,
         RenewThrows(p, r) \/ RenewSkips(p, r)
  PROVE  SubTypeOK'
  <1>1. pass' \in [Pass -> [at : Nat, rows : SUBSET Scanned, due : SUBSET Scanned]]
    BY PassParts DEF RenewThrows, RenewSkips
  <1> QED BY <1>1 DEF SubTypeOK, RenewThrows, RenewSkips, Scanned

LEMMA StartType ==
  ASSUME SubTypeOK, NEW p \in Pass, StartPass(p)
  PROVE  SubTypeOK'
  <1>1. now \in Nat
    BY SubAssumption DEF SubTypeOK
  <1>2. {[sub |-> s, row |-> sub[s]] : s \in {s \in Sub : Is(s, Alive) /\ sub[s].ends <= now}} \subseteq Scanned
    BY RowFields DEF Is, Scanned
  <1>3. pass' \in [Pass -> [at : Nat, rows : SUBSET Scanned, due : SUBSET Scanned]]
    BY <1>1, <1>2 DEF StartPass, SubTypeOK
  <1> QED BY <1>3 DEF SubTypeOK, StartPass, Scanned

LEMMA SmallType ==
  ASSUME SubTypeOK, NEW s \in Sub, NEW auto \in BOOLEAN, SetAuto(s, auto) \/ Cancel(s) \/ EditRead(s) \/ Tick
  PROVE  SubTypeOK'
  <1>1. CASE SetAuto(s, auto)
    <2>1. [sub[s] EXCEPT !.auto = auto] \in Row
      BY <1>1, RowFields DEF SetAuto, Row
    <2>2. sub' \in [Sub -> Row \cup {Nothing}]
      BY <1>1, <2>1 DEF SetAuto, SubTypeOK
    <2> QED BY <1>1, <2>2 DEF SetAuto, SubTypeOK, Scanned
  <1>2. CASE Cancel(s)
    <2>1. sub' \in [Sub -> Row \cup {Nothing}]
      BY <1>2, RowFields, StatusRow DEF Cancel, SubTypeOK
    <2> QED BY <1>2, <2>1 DEF Cancel, SubTypeOK, Scanned
  <1>3. CASE EditRead(s)
    BY <1>3, RowFields DEF EditRead, SubTypeOK, Scanned
  <1>4. CASE Tick
    BY <1>4, SubAssumption DEF Tick, SubTypeOK, Scanned
  <1> QED BY <1>1, <1>2, <1>3, <1>4

LEMMA CallType ==
  ASSUME SubTypeOK, ScansSound, NEW c \in Call, CallStep(c)
  PROVE  SubTypeOK'
  <1> DEFINE CallRow == [todo : SUBSET Sub, cur : Sub \cup {Nothing}, verdict : Alive]
  <1>1. call[c] \in CallRow
    BY DEF SubTypeOK
  <1>2. CASE Open(c)
    <2>1. [call[c] EXCEPT !.todo = {s \in Sub : InForce(s)}] \in CallRow
      BY <1>1
    <2>2. call' = [call EXCEPT ![c] = [call[c] EXCEPT !.todo = {s \in Sub : InForce(s)}]]
      BY <1>2 DEF Open
    <2>3. call' \in [Call -> CallRow]
      BY <2>1, <2>2 DEF SubTypeOK
    <2> QED BY <1>2, <2>3, SweptType DEF Open, SubTypeOK, Scanned
  <1>3. CASE Write(c)
    <2> DEFINE s == call[c].cur
    <2>1. s \in Sub /\ Exists(s) /\ call[c].verdict \in Alive
      BY <1>1, <1>3 DEF Write, ScansSound
    <2>2. [sub[s] EXCEPT !.status = call[c].verdict] \in Row
      BY <2>1, RowFields, StatusRow
    <2>3. sub' \in [Sub -> Row \cup {Nothing}]
      BY <1>3, <2>2 DEF Write, SubTypeOK
    <2>4. [call[c] EXCEPT !.cur = Nothing, !.verdict = "active"] \in CallRow
      BY <1>1 DEF Alive
    <2>5. call' = [call EXCEPT ![c] = [call[c] EXCEPT !.cur = Nothing, !.verdict = "active"]]
      BY <1>1, <1>3 DEF Write, SubTypeOK
    <2>6. call' \in [Call -> CallRow]
      BY <2>4, <2>5 DEF SubTypeOK
    <2> QED BY <1>3, <2>3, <2>6 DEF Write, SubTypeOK, Scanned
  <1>4. ASSUME NEW s \in Sub, Decide(c, s) PROVE SubTypeOK'
    <2>1. PICK v \in Alive : call' = [call EXCEPT ![c] = [todo |-> @.todo \ {s}, cur |-> s, verdict |-> v]]
      BY <1>4 DEF Decide, Alive
    <2>2. call' \in [Call -> CallRow]
      BY <1>1, <2>1 DEF SubTypeOK
    <2> QED BY <1>4, <2>2, SweptType DEF Decide, SubTypeOK, Scanned
  <1> QED BY <1>2, <1>3, <1>4 DEF CallStep

LEMMA EditType ==
  ASSUME SubTypeOK, ScansSound, EditWrite
  PROVE  SubTypeOK'
  <1> DEFINE s == edit.sub
  <1>1. edit \in Scanned /\ s \in Sub /\ Exists(s) /\ edit.row.ends \in Int
    BY DEF EditWrite, SubTypeOK, ScansSound, Scanned, Row
  <1>2. PICK x \in Alive \cup {"expired", "cancelled"}, y \in BOOLEAN,
             e \in {edit.row.ends, edit.row.ends + 1} :
          sub' = [sub EXCEPT ![s].status = x, ![s].auto = y, ![s].ends = e]
    BY DEF EditWrite
  <1>3. [sub[s] EXCEPT !.status = x, !.auto = y, !.ends = e] \in Row
    <2>1. e \in Int
      BY <1>1
    <2>2. sub[s] \in Row
      BY <1>1, RowFields
    <2> QED BY <2>1, <2>2 DEF Row
  <1>4. sub' = [sub EXCEPT ![s] = [sub[s] EXCEPT !.status = x, !.auto = y, !.ends = e]]
    BY <1>1, <1>2, RowFields DEF SubTypeOK, Row
  <1>5. sub' \in [Sub -> Row \cup {Nothing}]
    BY <1>3, <1>4 DEF SubTypeOK
  <1> QED BY <1>5 DEF EditWrite, SubTypeOK, Scanned

LEMMA TypeInvariance ==
  ASSUME SubTypeOK, ScansSound, OrdersSound, [MCNext]_<<subVars, alone>>
  PROVE  SubTypeOK'
  <1>1. CASE UNCHANGED <<subVars, alone>>
    BY <1>1 DEF subVars, SubTypeOK, Scanned
  <1>2. CASE Tick
    <2>1. CASE Sub = {}
      BY <1>2, SubAssumption DEF Tick, SubTypeOK, Scanned
    <2>2. CASE Sub # {}
      BY <1>2, <2>2, SmallType
    <2> QED BY <2>1, <2>2
  <1>3. CASE Request
    BY <1>3, BuyType, StackType, AssignType, ChangeType, RenewType, RefundType, EditType, SmallType DEF Request
  <1>4. ASSUME NEW p \in Pass, PassStep(p) PROVE SubTypeOK'
    BY <1>4, StartType, SkipType, PaysType, FailsType, ExpireType DEF PassStep
  <1>5. ASSUME NEW c \in Call, CallStep(c) PROVE SubTypeOK'
    BY <1>5, CallType
  <1> QED BY <1>1, <1>2, <1>3, <1>4, <1>5 DEF MCNext, SubNext

-----------------------------------------------------------------------------
(* What a step does to subscriptions, orders and plans: most change no more *)
(* than the status and the automatic renewal of rows.                       *)
RowsKept ==
  \A s \in Sub : /\ Exists(s) <=> Exists(s)'
                 /\ Exists(s) => /\ sub'[s].start = sub[s].start /\ sub'[s].ends = sub[s].ends
                                 /\ sub'[s].grace = sub[s].grace

Kept ==
  /\ now' >= now /\ orders' = orders /\ acquired' = acquired /\ gifts' = gifts
  /\ RowsKept

Prolonged(s, auto) ==
  /\ Exists(s) /\ sub' = Renewed(s)
  /\ orders' = Append(orders, Order("renewal", s, auto, RenewedEnds(s)))
  /\ auto => KeyHolder(s) = {} /\ ~NotDue(s)
  /\ now' = now /\ gifts' = gifts /\ acquired \subseteq acquired'

GraceGiven(s) ==
  /\ Exists(s) /\ ~NotDue(s)
  /\ sub' = [sub EXCEPT ![s].grace = IF @ = Nothing THEN sub[s].ends + GraceDays ELSE @]
  /\ now' = now /\ orders' = orders /\ acquired' = acquired /\ gifts' = gifts

LEMMA StatusKept ==
  ASSUME SubTypeOK, NEW s \in Sub, Exists(s), NEW x \in Alive \cup {"expired", "cancelled"},
         sub' = [sub EXCEPT ![s].status = x]
  PROVE  RowsKept
  <1>1. [sub[s] EXCEPT !.status = x] \in Row
    BY RowFields, StatusRow
  <1>2. /\ sub'[s] = [sub[s] EXCEPT !.status = x]
        /\ \A y \in Sub \ {s} : sub'[y] = sub[y]
    BY DEF SubTypeOK
  <1>3. /\ sub'[s].start = sub[s].start /\ sub'[s].ends = sub[s].ends
        /\ sub'[s].grace = sub[s].grace
    BY <1>2, RowFields DEF Row
  <1> QED BY <1>1, <1>2, <1>3, NoRowAssumption DEF Exists, RowsKept

LEMMA SweptKept ==
  ASSUME SubTypeOK, sub' = Swept
  PROVE  RowsKept
  <1> SUFFICES ASSUME NEW y \in Sub
               PROVE  /\ Exists(y) <=> Exists(y)'
                      /\ Exists(y) => /\ sub'[y].start = sub[y].start /\ sub'[y].ends = sub[y].ends
                                      /\ sub'[y].grace = sub[y].grace
    BY DEF RowsKept
  <1>1. CASE ~Exists(y)
    BY <1>1 DEF Swept, Exists
  <1>2. CASE Exists(y)
    <2>1. sub'[y] = [sub[y] EXCEPT !.status = "expired"] \/ sub'[y] = sub[y]
      BY <1>2 DEF Swept
    <2>2. [sub[y] EXCEPT !.status = "expired"] \in Row
      BY <1>2, RowFields, StatusRow
    <2>3. sub'[y] \in Row
      BY <1>2, <2>1, <2>2, RowFields
    <2> QED BY <1>2, <2>1, <2>3, RowFields, NoRowAssumption DEF Exists, Row
  <1> QED BY <1>1, <1>2

LEMMA RequestSteps ==
  ASSUME SubTypeOK, ScansSound, OrdersSound, Request
  PROVE  \/ Kept
         \/ \E s \in Sub : Prolonged(s, FALSE)
         \/ \E s \in Sub, p \in Plan : Buy(p, s) \/ Assign(p, s) \/ ChangePlan(s, p)
         \/ \E i \in DOMAIN orders : Refund(i)
         \/ EditWrite
  <1>0. now \in Nat
    BY SubAssumption DEF SubTypeOK
  <1>1. ASSUME NEW s \in Sub, NEW p \in Plan, Stack(p, s) PROVE Prolonged(s, FALSE)
    BY <1>1 DEF Stack, Prolonged, Extended, Owned, Is
  <1>2. ASSUME NEW s \in Sub, Renew(s) PROVE Prolonged(s, FALSE)
    BY <1>2 DEF Renew, Prolonged, Is
  <1>3. ASSUME NEW s \in Sub, NEW auto \in BOOLEAN, SetAuto(s, auto) PROVE Kept
    <2>1. Exists(s) /\ sub[s] \in Row /\ [sub[s] EXCEPT !.auto = auto] \in Row
      BY <1>3, RowFields DEF SetAuto, Row
    <2>2. sub'[s] = [sub[s] EXCEPT !.auto = auto] /\ \A y \in Sub \ {s} : sub'[y] = sub[y]
      BY <1>3 DEF SetAuto, SubTypeOK
    <2>3. /\ sub'[s].start = sub[s].start /\ sub'[s].ends = sub[s].ends
          /\ sub'[s].grace = sub[s].grace
      BY <2>1, <2>2 DEF Row
    <2> QED BY <1>0, <1>3, <2>1, <2>2, <2>3, NoRowAssumption DEF SetAuto, Kept, RowsKept, Exists
  <1>4. ASSUME NEW s \in Sub, Cancel(s) PROVE Kept
    <2>1. RowsKept
      BY <1>4, StatusKept DEF Cancel
    <2> QED BY <1>0, <1>4, <2>1 DEF Cancel, Kept
  <1>5. ASSUME NEW s \in Sub, EditRead(s) PROVE Kept
    BY <1>0, <1>5 DEF EditRead, Kept, RowsKept, Exists
  <1> QED BY <1>1, <1>2, <1>3, <1>4, <1>5 DEF Request

LEMMA PassSteps ==
  ASSUME SubTypeOK, ScansSound, NEW p \in Pass, PassStep(p)
  PROVE  Kept \/ \E s \in Sub : Prolonged(s, TRUE) \/ GraceGiven(s)
  <1>0. now \in Nat
    BY SubAssumption DEF SubTypeOK
  <1>1. CASE StartPass(p)
    BY <1>0, <1>1 DEF StartPass, Kept, RowsKept, Exists
  <1>2. ASSUME NEW r \in pass[p].rows \cup pass[p].due, RenewThrows(p, r) \/ RenewSkips(p, r) PROVE Kept
    BY <1>0, <1>2 DEF RenewThrows, RenewSkips, Kept, RowsKept, Exists
  <1>3. ASSUME NEW r \in pass[p].rows \cup pass[p].due, RenewPays(p, r) PROVE Prolonged(r.sub, TRUE)
    BY <1>3, ScannedRow DEF RenewPays, Prolonged
  <1>4. ASSUME NEW r \in pass[p].rows \cup pass[p].due, RenewFails(p, r) PROVE GraceGiven(r.sub)
    BY <1>4, ScannedRow DEF RenewFails, GraceGiven
  <1>5. ASSUME NEW r \in pass[p].rows \cup pass[p].due, PassExpire(p, r) PROVE Kept
    <2>1. CASE sub' = sub
      BY <1>0, <1>5, <2>1 DEF PassExpire, Kept, RowsKept, Exists
    <2>2. CASE sub' = [sub EXCEPT ![r.sub].status = "expired"]
      <3>1. RowsKept
        BY <2>2, ScannedRow, StatusKept
      <3> QED BY <1>0, <1>5, <3>1 DEF PassExpire, Kept
    <2> QED BY <1>5, <2>1, <2>2 DEF PassExpire
  <1> QED BY <1>1, <1>2, <1>3, <1>4, <1>5, ScannedRow DEF PassStep

LEMMA CallSteps ==
  ASSUME SubTypeOK, ScansSound, NEW c \in Call, CallStep(c)
  PROVE  Kept
  <1>0. now \in Nat
    BY SubAssumption DEF SubTypeOK
  <1>1. CASE Open(c)
    BY <1>0, <1>1, SweptKept DEF Open, Kept
  <1>2. CASE Write(c)
    <2>1. call[c].cur \in Sub /\ Exists(call[c].cur) /\ call[c].verdict \in Alive
      BY <1>2 DEF Write, ScansSound, SubTypeOK
    <2>2. RowsKept
      BY <1>2, <2>1, StatusKept DEF Write
    <2> QED BY <1>0, <1>2, <2>2 DEF Write, Kept
  <1>3. ASSUME NEW s \in Sub, Decide(c, s) PROVE Kept
    BY <1>0, <1>3, SweptKept DEF Decide, Kept
  <1> QED BY <1>1, <1>2, <1>3 DEF CallStep

LEMMA Steps ==
  ASSUME SubTypeOK, ScansSound, OrdersSound, [MCNext]_<<subVars, alone>>
  PROVE  \/ Kept
         \/ \E s \in Sub, auto \in BOOLEAN : Prolonged(s, auto)
         \/ \E s \in Sub : GraceGiven(s)
         \/ \E s \in Sub, p \in Plan : Buy(p, s) \/ Assign(p, s) \/ ChangePlan(s, p)
         \/ \E i \in DOMAIN orders : Refund(i)
         \/ EditWrite
  <1>0. now \in Nat
    BY SubAssumption DEF SubTypeOK
  <1>1. CASE UNCHANGED <<subVars, alone>>
    BY <1>0, <1>1 DEF subVars, Kept, RowsKept, Exists
  <1>2. CASE Tick
    BY <1>0, <1>2 DEF Tick, Kept, RowsKept, Exists
  <1> QED BY <1>1, <1>2, RequestSteps, PassSteps, CallSteps DEF MCNext, SubNext

LEMMA RefundRow ==
  ASSUME SubTypeOK, OrdersSound, NEW i \in DOMAIN orders, Refund(i)
  PROVE  LET s == orders[i].sub IN
         /\ s \in Sub /\ Exists(s) /\ sub'[s] \in Row /\ sub'[s].start = sub[s].start
         /\ IF orders[i].type = "plan" THEN sub'[s].ends = sub[s].ends /\ sub'[s].grace = sub[s].grace
            ELSE sub'[s].ends = RolledBack(i) /\ sub'[s].grace = Nothing
         /\ \A y \in Sub \ {s} : sub'[y] = sub[y]
  <1> DEFINE s == orders[i].sub
  <1>1. s \in Sub /\ Exists(s) /\ sub[s] \in Row
    BY OrderFields, RowFields DEF OrdersSound
  <1>2. RolledBack(i) \in Int
    BY <1>1, OrderFields, RowFields DEF RolledBack
  <1> DEFINE r == [sub[s] EXCEPT !.status = "cancelled", !.auto = FALSE]
             q == [sub[s] EXCEPT !.status = IF RolledBack(i) > now THEN "active" ELSE "expired",
                                 !.ends = RolledBack(i), !.auto = FALSE, !.grace = Nothing]
  <1>3. sub' = [sub EXCEPT ![s] = IF orders[i].type = "plan" THEN r ELSE q]
    BY <1>1 DEF Refund, SubTypeOK, Row
  <1>4. /\ sub'[s] = IF orders[i].type = "plan" THEN r ELSE q
        /\ \A y \in Sub \ {s} : sub'[y] = sub[y]
    BY <1>1, <1>3 DEF SubTypeOK
  <1>5. r \in Row /\ r.start = sub[s].start /\ r.ends = sub[s].ends /\ r.grace = sub[s].grace
    BY <1>1 DEF Row, Alive
  <1>6. q \in Row /\ q.start = sub[s].start /\ q.ends = RolledBack(i) /\ q.grace = Nothing
    BY <1>1, <1>2 DEF Row, Alive
  <1> HIDE DEF r, q
  <1> QED BY <1>1, <1>4, <1>5, <1>6

LEMMA ChangeRow ==
  ASSUME SubTypeOK, NEW s \in Sub, NEW p \in Plan, ChangePlan(s, p)
  PROVE  /\ Exists(s) /\ sub'[s] \in Row /\ sub'[s].start = sub[s].start
         /\ sub'[s].ends = sub[s].ends /\ sub'[s].grace = Nothing
         /\ \A y \in Sub \ {s} : sub'[y] = sub[y]
  <1>1. Exists(s) /\ sub[s] \in Row
    BY RowFields DEF ChangePlan, Is
  <1> DEFINE r == [sub[s] EXCEPT !.plan = p, !.grace = Nothing]
  <1>2. r \in Row /\ r.start = sub[s].start /\ r.ends = sub[s].ends /\ r.grace = Nothing
    BY <1>1 DEF Row
  <1>3. sub' = [sub EXCEPT ![s] = r]
    BY <1>1 DEF ChangePlan, SubTypeOK, Row
  <1> HIDE DEF r
  <1> QED BY <1>1, <1>2, <1>3 DEF SubTypeOK

LEMMA GraceRow ==
  ASSUME SubTypeOK, NEW s \in Sub, GraceGiven(s)
  PROVE  /\ Exists(s) /\ sub'[s] \in Row /\ sub'[s].start = sub[s].start
         /\ sub'[s].ends = sub[s].ends
         /\ sub'[s].grace = IF sub[s].grace = Nothing THEN sub[s].ends + GraceDays ELSE sub[s].grace
         /\ \A y \in Sub \ {s} : sub'[y] = sub[y]
  <1>1. Exists(s) /\ sub[s] \in Row
    BY RowFields DEF GraceGiven
  <1> DEFINE g == IF sub[s].grace = Nothing THEN sub[s].ends + GraceDays ELSE sub[s].grace
             r == [sub[s] EXCEPT !.grace = g]
  <1>2. g \in Int \cup {Nothing}
    BY <1>1, RowFields, SubAssumption
  <1>3. sub' = [sub EXCEPT ![s] = r]
    BY DEF GraceGiven
  <1>4. r \in Row /\ r.start = sub[s].start /\ r.ends = sub[s].ends /\ r.grace = g
    BY <1>1, <1>2 DEF Row
  <1> HIDE DEF r
  <1> QED BY <1>1, <1>3, <1>4 DEF SubTypeOK

LEMMA EditRow ==
  ASSUME SubTypeOK, ScansSound, EditWrite
  PROVE  LET s == edit.sub IN
         s \in Sub /\ Exists(s) /\ sub'[s] \in Row /\ \A y \in Sub \ {s} : sub'[y] = sub[y]
  <1> DEFINE s == edit.sub
  <1>1. edit \in Scanned /\ s \in Sub /\ Exists(s) /\ edit.row.ends \in Int
    BY DEF EditWrite, SubTypeOK, ScansSound, Scanned, Row
  <1>2. PICK x \in Alive \cup {"expired", "cancelled"}, y \in BOOLEAN,
             e \in {edit.row.ends, edit.row.ends + 1} :
          sub' = [sub EXCEPT ![s].status = x, ![s].auto = y, ![s].ends = e]
    BY DEF EditWrite
  <1>3. [sub[s] EXCEPT !.status = x, !.auto = y, !.ends = e] \in Row
    <2>1. e \in Int
      BY <1>1
    <2>2. sub[s] \in Row
      BY <1>1, RowFields
    <2> QED BY <2>1, <2>2 DEF Row
  <1>4. sub' = [sub EXCEPT ![s] = [sub[s] EXCEPT !.status = x, !.auto = y, !.ends = e]]
    BY <1>1, <1>2, RowFields DEF SubTypeOK, Row
  <1> QED BY <1>1, <1>3, <1>4 DEF SubTypeOK

LEMMA ExistsStays ==
  ASSUME SubTypeOK, ScansSound, OrdersSound, [MCNext]_<<subVars, alone>>, NEW s \in Sub, Exists(s)
  PROVE  Exists(s)'
  <1>1. CASE Kept
    BY <1>1 DEF Kept, RowsKept
  <1>2. ASSUME NEW x \in Sub, NEW auto \in BOOLEAN, Prolonged(x, auto) PROVE sub'[s] = sub[s] \/ sub'[s] \in Row
    BY <1>2, RenewedRow DEF Prolonged
  <1>3. ASSUME NEW x \in Sub, GraceGiven(x) PROVE sub'[s] = sub[s] \/ sub'[s] \in Row
    BY <1>3, GraceRow
  <1>4. ASSUME NEW x \in Sub, NEW p \in Plan, Buy(p, x) \/ Assign(p, x) \/ ChangePlan(x, p)
        PROVE  sub'[s] = sub[s] \/ sub'[s] \in Row
    <2>1. CASE Buy(p, x)
      BY <2>1, NewRowType DEF Buy, SubTypeOK
    <2>2. CASE Assign(p, x)
      <3>1. CASE sub' = [sub EXCEPT ![x] = NewRow(p)]
        BY <3>1, NewRowType DEF SubTypeOK
      <3>2. CASE x \in Extended(p) /\ sub' = Renewed(x)
        BY <3>2, RenewedRow DEF Extended, Owned, Is
      <3> QED BY <2>2, <3>1, <3>2 DEF Assign
    <2>3. CASE ChangePlan(x, p)
      BY <2>3, ChangeRow
    <2> QED BY <1>4, <2>1, <2>2, <2>3
  <1>5. ASSUME NEW i \in DOMAIN orders, Refund(i) PROVE sub'[s] = sub[s] \/ sub'[s] \in Row
    BY <1>5, RefundRow
  <1>6. CASE EditWrite
    BY <1>6, EditRow, NoRowAssumption DEF Exists
  <1> QED BY <1>1, <1>2, <1>3, <1>4, <1>5, <1>6, Steps, NoRowAssumption DEF Exists

LEMMA ScansInvariance ==
  ASSUME SubTypeOK, ScansSound, OrdersSound, [MCNext]_<<subVars, alone>>
  PROVE  ScansSound'
  <1>1. ASSUME NEW s \in Sub, Exists(s) PROVE Exists(s)'
    BY <1>1, ExistsStays
  <1>2. ASSUME NEW p \in Pass, NEW r \in pass'[p].rows \cup pass'[p].due PROVE Exists(r.sub)'
    <2>1. CASE r \in pass[p].rows \cup pass[p].due
      BY <1>1, <2>1, ScannedRow
    <2>2. ASSUME NEW q \in Pass, StartPass(q), r \notin pass[p].rows \cup pass[p].due
          PROVE  Exists(r.sub)'
      <3>1. PICK s \in Sub : r = [sub |-> s, row |-> sub[s]] /\ Is(s, Alive)
        BY <2>2 DEF StartPass, SubTypeOK
      <3> QED BY <1>1, <3>1 DEF Is
    <2>3. ASSUME NEW q \in Pass, NEW x \in pass[q].rows \cup pass[q].due,
                 RenewThrows(q, x) \/ RenewSkips(q, x) \/ RenewPays(q, x) \/ RenewFails(q, x) \/ PassExpire(q, x)
          PROVE  r \in pass[p].rows \cup pass[p].due
      BY <2>3, PassParts DEF RenewThrows, RenewSkips, RenewPays, RenewFails, PassExpire
    <2>4. CASE pass' = pass
      BY <2>1, <2>4
    <2>5. CASE Tick \/ Request \/ UNCHANGED <<subVars, alone>> \/ \E c \in Call : CallStep(c)
      BY <2>4, <2>5 DEF Tick, Request, Buy, Stack, Assign, ChangePlan, SetAuto, Renew, Cancel, EditRead,
                        Refund, EditWrite, CallStep, Open, Write, Decide, subVars
    <2> QED BY <2>1, <2>2, <2>3, <2>5 DEF MCNext, SubNext, PassStep
  <1>3. ASSUME NEW c \in Call, NEW s \in call'[c].todo \cup ({call'[c].cur} \ {Nothing}) PROVE Exists(s)'
    <2>1. CASE call' = call
      BY <1>1, <1>3, <2>1 DEF ScansSound, SubTypeOK
    <2>2. ASSUME NEW d \in Call, CallStep(d) PROVE Exists(s)
      <3>1. CASE Open(d)
        <4>1. call'[c] = call[c] \/ call'[c] = [call[c] EXCEPT !.todo = {x \in Sub : InForce(x)}]
          BY <3>1 DEF Open, SubTypeOK
        <4>2. call[c] \in [todo : SUBSET Sub, cur : Sub \cup {Nothing}, verdict : Alive]
          BY DEF SubTypeOK
        <4>3. \A x \in Sub : InForce(x) => Exists(x)
          BY DEF InForce, Swept, Exists
        <4> QED BY <4>1, <4>2, <4>3, <1>3 DEF ScansSound
      <3>2. CASE Write(d)
        <4>1. call'[c] = call[c] \/ call'[c] = [call[c] EXCEPT !.cur = Nothing, !.verdict = "active"]
          BY <3>2 DEF Write, SubTypeOK
        <4>2. call[c] \in [todo : SUBSET Sub, cur : Sub \cup {Nothing}, verdict : Alive]
          BY DEF SubTypeOK
        <4> QED BY <4>1, <4>2, <1>3 DEF ScansSound
      <3>3. ASSUME NEW x \in Sub, Decide(d, x) PROVE Exists(s)
        <4>1. PICK v \in Alive : call' = [call EXCEPT ![d] = [todo |-> @.todo \ {x}, cur |-> x, verdict |-> v]]
          BY <3>3 DEF Decide, Alive
        <4>2. call'[c] = call[c] \/ (c = d /\ call'[c] = [todo |-> call[c].todo \ {x}, cur |-> x, verdict |-> v])
          BY <4>1 DEF SubTypeOK
        <4>3. c = d => Exists(x)
          BY <3>3 DEF Decide, ScansSound
        <4> QED BY <4>2, <4>3, <1>3 DEF ScansSound
      <3> QED BY <2>2, <3>1, <3>2, <3>3 DEF CallStep
    <2>3. ASSUME NEW d \in Call, CallStep(d) PROVE Exists(s)'
      <3>1. s \in Sub
        BY <1>3, TypeInvariance DEF SubTypeOK
      <3> QED BY <1>1, <2>2, <2>3, <3>1
    <2>4. CASE Tick \/ Request \/ UNCHANGED <<subVars, alone>> \/ \E p \in Pass : PassStep(p)
      BY <2>1, <2>4 DEF Tick, Request, Buy, Stack, Assign, ChangePlan, SetAuto, Renew, Cancel, EditRead,
                        Refund, EditWrite, PassStep, StartPass, RenewThrows, RenewSkips, RenewPays, RenewFails,
                        PassExpire, subVars
    <2> QED BY <2>3, <2>4 DEF MCNext, SubNext
  <1>4. ASSUME edit' # Nothing PROVE Exists(edit.sub)'
    <2>1. CASE edit' = edit
      BY <1>1, <1>4, <2>1 DEF ScansSound, SubTypeOK, Scanned
    <2>2. ASSUME NEW s \in Sub, EditRead(s) PROVE Exists(edit.sub)'
      BY <1>1, <2>2 DEF EditRead
    <2>3. CASE EditWrite
      BY <1>4, <2>3 DEF EditWrite
    <2> QED BY <2>1, <2>2, <2>3 DEF MCNext, SubNext, Tick, Request, Buy, Stack, Assign, ChangePlan, SetAuto, Renew,
                        Cancel, Refund, CallStep, Open, Write, Decide, PassStep, StartPass, RenewThrows,
                        RenewSkips, RenewPays, RenewFails, PassExpire, subVars
  <1> QED BY <1>2, <1>3, <1>4 DEF ScansSound

-----------------------------------------------------------------------------
(* The new order, and the old ones.                                        *)
LEMMA AppendedOrder ==
  ASSUME SubTypeOK, NEW o \in OrderRecord, orders' = Append(orders, o)
  PROVE  LET n == Len(orders) IN
         /\ n \in Nat /\ DOMAIN orders = 1..n /\ DOMAIN orders' = 1..(n + 1)
         /\ orders'[n + 1] = o /\ \A i \in DOMAIN orders : orders'[i] = orders[i]
  BY DEF SubTypeOK

LEMMA RefundedOrder ==
  ASSUME SubTypeOK, NEW k \in DOMAIN orders, Refund(k)
  PROVE  /\ DOMAIN orders' = DOMAIN orders
         /\ \A i \in DOMAIN orders :
              /\ orders'[i].type = orders[i].type /\ orders'[i].sub = orders[i].sub
              /\ orders'[i].plan = orders[i].plan /\ orders'[i].auto = orders[i].auto
              /\ orders'[i].at = orders[i].at /\ orders'[i].prev = orders[i].prev
              /\ orders'[i].ends = orders[i].ends
  BY OrderFields DEF Refund, SubTypeOK, OrderRecord

BuyOrder(p, s) ==
  [type |-> "plan", sub |-> s, plan |-> p, auto |-> FALSE, at |-> now,
   prev |-> now, ends |-> now + Days[p], status |-> "paid"]

ChangeOrderOf(s, p) == [Order("change", s, FALSE, sub[s].ends) EXCEPT !.plan = p]

LEMMA NewOrders ==
  ASSUME SubTypeOK, NEW s \in Sub, NEW p \in Plan
  PROVE  /\ BuyOrder(p, s) \in OrderRecord
         /\ Exists(s) => ChangeOrderOf(s, p) \in OrderRecord
         /\ Exists(s) => \A auto \in BOOLEAN : Order("renewal", s, auto, RenewedEnds(s)) \in OrderRecord
  <1>1. BuyOrder(p, s) \in OrderRecord
    BY NewRowType DEF BuyOrder, OrderRecord
  <1> QED BY <1>1, ChangeOrder, RenewedRow DEF ChangeOrderOf

(* How the orders change.                                                  *)
LEMMA OrderSteps ==
  ASSUME SubTypeOK, ScansSound, OrdersSound, [MCNext]_<<subVars, alone>>
  PROVE  \/ orders' = orders
         \/ \E s \in Sub, auto \in BOOLEAN : Prolonged(s, auto)
         \/ \E s \in Sub, p \in Plan : Buy(p, s) \/ ChangePlan(s, p)
         \/ \E i \in DOMAIN orders : Refund(i)
  BY Steps DEF Kept, GraceGiven, Assign, EditWrite

LEMMA OrdersInvariance ==
  ASSUME SubTypeOK, ScansSound, OrdersSound, [MCNext]_<<subVars, alone>>
  PROVE  OrdersSound'
  <1>1. \A s \in Sub : Exists(s) => Exists(s)'
    BY ExistsStays
  <1>2. CASE orders' = orders
    BY <1>1, <1>2, OrderFields DEF OrdersSound
  <1>3. ASSUME NEW o \in OrderRecord, orders' = Append(orders, o), Exists(o.sub)',
               o.type # "change" => o.ends >= o.prev + Days[o.plan]
        PROVE  OrdersSound'
    BY <1>1, <1>3, AppendedOrder, OrderFields DEF OrdersSound
  <1>4. ASSUME NEW s \in Sub, NEW auto \in BOOLEAN, Prolonged(s, auto) PROVE OrdersSound'
    <2> DEFINE o == Order("renewal", s, auto, RenewedEnds(s))
    <2>1. o \in OrderRecord /\ o.sub = s /\ o.ends >= o.prev + Days[o.plan]
      BY <1>4, NewOrders, RenewedRow DEF Prolonged, Order
    <2> QED BY <1>1, <1>3, <1>4, <2>1 DEF Prolonged
  <1>5. ASSUME NEW s \in Sub, NEW p \in Plan, Buy(p, s) PROVE OrdersSound'
    <2>1. /\ BuyOrder(p, s) \in OrderRecord /\ BuyOrder(p, s).sub = s
          /\ BuyOrder(p, s).ends >= BuyOrder(p, s).prev + Days[BuyOrder(p, s).plan]
      BY NewOrders, NewRowType DEF BuyOrder
    <2>2. Exists(s)'
      BY <1>5, NewRowType DEF Buy, Exists, SubTypeOK
    <2>3. orders' = Append(orders, BuyOrder(p, s))
      BY <1>5 DEF Buy, BuyOrder
    <2> QED BY <1>3, <2>1, <2>2, <2>3
  <1>6. ASSUME NEW s \in Sub, NEW p \in Plan, ChangePlan(s, p) PROVE OrdersSound'
    <2>1. Exists(s)
      BY <1>6 DEF ChangePlan, Is
    <2>2. /\ ChangeOrderOf(s, p) \in OrderRecord /\ ChangeOrderOf(s, p).sub = s
          /\ ChangeOrderOf(s, p).type = "change"
      BY <2>1, NewOrders, ChangeOrder DEF ChangeOrderOf
    <2>3. orders' = Append(orders, ChangeOrderOf(s, p))
      BY <1>6 DEF ChangePlan, ChangeOrderOf
    <2> QED BY <1>1, <1>3, <2>1, <2>2, <2>3
  <1>7. ASSUME NEW i \in DOMAIN orders, Refund(i) PROVE OrdersSound'
    BY <1>1, <1>7, RefundedOrder, OrderFields DEF OrdersSound
  <1> QED BY <1>2, <1>4, <1>5, <1>6, <1>7, OrderSteps

LEMMA PeriodsInvariance ==
  ASSUME SubTypeOK, ScansSound, OrdersSound, AutoOncePerPeriod, [MCNext]_<<subVars, alone>>
  PROVE  AutoOncePerPeriod'
  <1>1. CASE orders' = orders
    BY <1>1 DEF AutoOncePerPeriod
  <1>2. ASSUME NEW o \in OrderRecord, orders' = Append(orders, o),
               o.auto => \A i \in DOMAIN orders : ~(orders[i].auto /\ orders[i].sub = o.sub
                                                    /\ orders[i].prev = o.prev)
        PROVE  AutoOncePerPeriod'
    BY <1>2, AppendedOrder DEF AutoOncePerPeriod
  <1>3. ASSUME NEW s \in Sub, NEW auto \in BOOLEAN, Prolonged(s, auto) PROVE AutoOncePerPeriod'
    <2> DEFINE o == Order("renewal", s, auto, RenewedEnds(s))
    <2>1. o \in OrderRecord /\ o.sub = s /\ o.auto = auto /\ o.prev = sub[s].ends
      BY <1>3, RenewedRow DEF Prolonged, Order
    <2>2. auto => \A i \in DOMAIN orders : ~(orders[i].auto /\ orders[i].sub = s
                                          /\ orders[i].prev = sub[s].ends)
      BY <1>3 DEF Prolonged, KeyHolder
    <2> QED BY <1>2, <1>3, <2>1, <2>2 DEF Prolonged
  <1>4. ASSUME NEW s \in Sub, NEW p \in Plan, Buy(p, s) PROVE AutoOncePerPeriod'
    <2>1. BuyOrder(p, s) \in OrderRecord /\ ~BuyOrder(p, s).auto
      BY NewOrders DEF BuyOrder
    <2>2. orders' = Append(orders, BuyOrder(p, s))
      BY <1>4 DEF Buy, BuyOrder
    <2> QED BY <1>2, <2>1, <2>2
  <1>5. ASSUME NEW s \in Sub, NEW p \in Plan, ChangePlan(s, p) PROVE AutoOncePerPeriod'
    <2>1. Exists(s)
      BY <1>5 DEF ChangePlan, Is
    <2>2. ChangeOrderOf(s, p) \in OrderRecord /\ ~ChangeOrderOf(s, p).auto
      BY <2>1, NewOrders, ChangeOrder DEF ChangeOrderOf
    <2>3. orders' = Append(orders, ChangeOrderOf(s, p))
      BY <1>5 DEF ChangePlan, ChangeOrderOf
    <2> QED BY <1>2, <2>2, <2>3
  <1>6. ASSUME NEW i \in DOMAIN orders, Refund(i) PROVE AutoOncePerPeriod'
    BY <1>6, RefundedOrder DEF AutoOncePerPeriod
  <1> QED BY <1>1, <1>3, <1>4, <1>5, <1>6, OrderSteps

(* Plans: a step acquires one it may, or none.                             *)
LEMMA PlansInvariance ==
  ASSUME SubTypeOK, ScansSound, OrdersSound, PlansSound, [MCNext]_<<subVars, alone>>
  PROVE  PlansSound'
  <1>1. CASE orders' = orders /\ gifts' = gifts /\ acquired' = acquired
    BY <1>1 DEF PlansSound, Acquiring, Assigned
  <1>2. ASSUME NEW s \in Sub, NEW auto \in BOOLEAN, Prolonged(s, auto) PROVE PlansSound'
    <2> DEFINE o == Order("renewal", s, auto, RenewedEnds(s))
    <2>1. o \in OrderRecord /\ o.type = "renewal" /\ orders' = Append(orders, o)
      BY <1>2, RenewedRow DEF Prolonged, Order
    <2>2. ASSUME NEW p \in Once
          PROVE  Acquiring(p)' = Acquiring(p) /\ Assigned(p)' = Assigned(p)
      <3> HIDE DEF o
      <3> QED BY <1>2, <2>1, AppendedOrder DEF Acquiring, Assigned, Prolonged
    <2>3. acquired \subseteq acquired'
      BY <1>2 DEF Prolonged
    <2> QED BY <2>2, <2>3 DEF PlansSound
  <1>3. ASSUME NEW o \in OrderRecord, orders' = Append(orders, o), gifts' = gifts,
               MayAcquire(o.plan), acquired' = acquired \cup {o.plan}
        PROVE  PlansSound'
    <2>1. ASSUME NEW p \in Once
          PROVE  /\ Assigned(p)' = Assigned(p)
                 /\ Acquiring(p)' = Acquiring(p) \/ (p = o.plan /\ Acquiring(p)' = Acquiring(p) \cup {Len(orders) + 1})
      BY <1>3, AppendedOrder DEF Acquiring, Assigned
    <2> QED BY <1>3, <2>1 DEF PlansSound, MayAcquire
  <1>4. ASSUME NEW s \in Sub, NEW p \in Plan, Buy(p, s) PROVE PlansSound'
    <2>1. BuyOrder(p, s) \in OrderRecord /\ BuyOrder(p, s).plan = p
      BY NewOrders DEF BuyOrder
    <2>2. orders' = Append(orders, BuyOrder(p, s))
      BY <1>4 DEF Buy, BuyOrder
    <2> QED BY <1>3, <1>4, <2>1, <2>2 DEF Buy
  <1>5. ASSUME NEW s \in Sub, NEW p \in Plan, ChangePlan(s, p) PROVE PlansSound'
    <2>1. Exists(s)
      BY <1>5 DEF ChangePlan, Is
    <2>2. ChangeOrderOf(s, p) \in OrderRecord /\ ChangeOrderOf(s, p).plan = p
      BY <2>1, NewOrders, ChangeOrder DEF ChangeOrderOf
    <2>3. orders' = Append(orders, ChangeOrderOf(s, p))
      BY <1>5 DEF ChangePlan, ChangeOrderOf
    <2> QED BY <1>3, <1>5, <2>2, <2>3 DEF ChangePlan
  <1>6. ASSUME NEW s \in Sub, NEW p \in Plan, Assign(p, s) PROVE PlansSound'
    <2>1. /\ Len(gifts) \in Nat /\ DOMAIN gifts = 1..Len(gifts) /\ DOMAIN gifts' = 1..(Len(gifts) + 1)
          /\ gifts'[Len(gifts) + 1] = p /\ \A i \in DOMAIN gifts : gifts'[i] = gifts[i]
      BY <1>6 DEF Assign, SubTypeOK
    <2>2. ASSUME NEW x \in Once
          PROVE  /\ Acquiring(x)' = Acquiring(x)
                 /\ IF x = p THEN Assigned(x)' = Assigned(x) \cup {Len(gifts) + 1}
                    ELSE Assigned(x)' = Assigned(x)
      BY <1>6, <2>1 DEF Acquiring, Assigned, Assign
    <2> QED BY <1>6, <2>2 DEF PlansSound, MayAcquire, Assign
  <1>7. ASSUME NEW i \in DOMAIN orders, Refund(i) PROVE PlansSound'
    <2>1. ASSUME NEW p \in Once
          PROVE  Acquiring(p)' = Acquiring(p) /\ Assigned(p)' = Assigned(p)
      BY <1>7, RefundedOrder DEF Acquiring, Assigned, Refund
    <2> QED BY <1>7, <2>1 DEF PlansSound, Refund
  <1>8. CASE EditWrite
    BY <1>1, <1>8 DEF EditWrite
  <1>9. ASSUME NEW s \in Sub, GraceGiven(s) PROVE PlansSound'
    BY <1>1, <1>9 DEF GraceGiven
  <1>10. CASE Kept
    BY <1>1, <1>10 DEF Kept
  <1> QED BY <1>2, <1>4, <1>5, <1>6, <1>7, <1>8, <1>9, <1>10, Steps

LEMMA AloneInvariance ==
  ASSUME SubTypeOK, AloneSound, [MCNext]_<<subVars, alone>>
  PROVE  AloneSound'
  <1>1. CASE UNCHANGED <<subVars, alone>>
    BY <1>1 DEF AloneSound, subVars
  <1>2. ASSUME MCNext, alone PROVE call' = call /\ edits' = 0
    BY <1>2 DEF MCNext, InBounds
  <1>3. ASSUME MCNext, alone PROVE edit' = Nothing
    <2>1. edit = Nothing /\ edits = 0 /\ edits' = 0
      BY <1>2, <1>3 DEF AloneSound
    <2>2. ASSUME NEW s \in Sub, EditRead(s) PROVE FALSE
      BY <2>1, <2>2 DEF EditRead
    <2>3. CASE Request
      BY <2>1, <2>2, <2>3 DEF Request, Buy, Stack, Assign, ChangePlan, SetAuto, Renew, Cancel,
                              EditWrite, Refund
    <2>4. ASSUME NEW p \in Pass, PassStep(p) PROVE edit' = edit
      BY <2>4 DEF PassStep, StartPass, RenewThrows, RenewSkips, RenewPays, RenewFails, PassExpire
    <2>5. ASSUME NEW c \in Call, CallStep(c) PROVE edit' = edit
      BY <2>5 DEF CallStep, Open, Write, Decide
    <2> QED BY <1>3, <2>1, <2>3, <2>4, <2>5 DEF MCNext, SubNext, Tick
  <1> QED BY <1>1, <1>2, <1>3 DEF AloneSound, MCNext

-----------------------------------------------------------------------------
(* The parts of TimeSound that a step keeps.                               *)
LEMMA TimeKept ==
  ASSUME SubTypeOK, TimeSound, NEW k \in Sub, now' \in Nat, now' >= now,
         \A s \in Sub \ {k} : (Exists(s)' => Exists(s)) /\ sub'[s] = sub[s] /\ Gained(s)' = Gained(s),
         Exists(k)' => /\ sub'[k].ends >= sub'[k].start + Gained(k)'
                       /\ sub'[k].grace # Nothing =>
                            sub'[k].ends <= now' /\ sub'[k].grace = sub'[k].ends + GraceDays
  PROVE  /\ (\A s \in Sub : Exists(s) => sub[s].ends >= sub[s].start + Gained(s))'
         /\ GraceSound'
  <1>0. now \in Nat
    BY SubAssumption DEF SubTypeOK
  <1>1. ASSUME NEW s \in Sub, Exists(s)' PROVE sub'[s].ends >= sub'[s].start + Gained(s)'
    BY <1>1 DEF TimeSound
  <1>2. ASSUME NEW s \in Sub, Exists(s)', sub'[s].grace # Nothing
        PROVE  sub'[s].ends <= now' /\ sub'[s].grace = sub'[s].ends + GraceDays
    <2>1. CASE s = k
      BY <1>2, <2>1
    <2>2. CASE s # k
      <3>1. Exists(s) /\ sub'[s] = sub[s] /\ sub[s].grace # Nothing
        BY <1>2, <2>2
      <3>2. sub[s].ends <= now /\ sub[s].grace = sub[s].ends + GraceDays /\ sub[s].ends \in Int
        BY <3>1, RowFields DEF TimeSound, GraceSound
      <3> QED BY <1>0, <3>1, <3>2
    <2> QED BY <2>1, <2>2
  <1> QED BY <1>1, <1>2 DEF GraceSound

LEMMA DueKept ==
  ASSUME SubTypeOK, AutoRenewalsDue,
         \/ orders' = orders
         \/ \E o \in OrderRecord : orders' = Append(orders, o) /\ (o.auto => o.prev <= o.at)
         \/ \E i \in DOMAIN orders : Refund(i)
  PROVE  AutoRenewalsDue'
  <1>1. CASE orders' = orders
    BY <1>1 DEF AutoRenewalsDue
  <1>2. ASSUME NEW o \in OrderRecord, orders' = Append(orders, o), o.auto => o.prev <= o.at
        PROVE  AutoRenewalsDue'
    BY <1>2, AppendedOrder DEF AutoRenewalsDue
  <1>3. ASSUME NEW i \in DOMAIN orders, Refund(i) PROVE AutoRenewalsDue'
    BY <1>3, RefundedOrder DEF AutoRenewalsDue
  <1> QED BY <1>1, <1>2, <1>3

LEMMA KeptTime ==
  ASSUME SubTypeOK, SubTypeOK', TimeSound, Kept
  PROVE  TimeSound'
  <1>1. \A s \in Sub : Gained(s)' = Gained(s)
    BY DEF Kept, Gained, Gain
  <1>2. now \in Nat /\ now' \in Nat /\ now' >= now
    BY SubAssumption DEF SubTypeOK, Kept
  <1>3. ASSUME NEW s \in Sub, Exists(s)' PROVE sub'[s].ends >= sub'[s].start + Gained(s)'
    BY <1>1, <1>3 DEF Kept, RowsKept, TimeSound
  <1>4. ASSUME NEW s \in Sub, Exists(s)', sub'[s].grace # Nothing
        PROVE  sub'[s].ends <= now' /\ sub'[s].grace = sub'[s].ends + GraceDays
    <2>1. /\ Exists(s) /\ sub'[s].ends = sub[s].ends /\ sub'[s].grace = sub[s].grace
          /\ sub[s].ends \in Int
      BY <1>4, RowFields DEF Kept, RowsKept
    <2>2. sub[s].ends <= now /\ sub[s].grace = sub[s].ends + GraceDays
      BY <1>4, <2>1 DEF TimeSound, GraceSound
    <2> QED BY <1>2, <2>1, <2>2
  <1>5. AutoRenewalsDue'
    BY DueKept DEF Kept, TimeSound
  <1> QED BY <1>3, <1>4, <1>5 DEF TimeSound, GraceSound

LEMMA ProlongedTime ==
  ASSUME SubTypeOK, TimeSound, NEW s \in Sub, NEW auto \in BOOLEAN, Prolonged(s, auto)
  PROVE  TimeSound'
  <1> DEFINE o == Order("renewal", s, auto, RenewedEnds(s))
  <1>1. /\ Exists(s) /\ o \in OrderRecord /\ orders' = Append(orders, o)
        /\ o.sub = s /\ o.type = "renewal" /\ o.status = "paid" /\ o.auto = auto
        /\ o.prev = sub[s].ends /\ o.ends = RenewedEnds(s) /\ o.at = now
    BY RenewedRow DEF Prolonged, Order
  <1> HIDE DEF o
  <1>2. \A x \in Sub : Gained(x)' = Gained(x) + Gain(x, o) /\ Gained(x) \in Int
    BY <1>1, GainedOrdered, GainType
  <1>3. now \in Nat /\ now' = now
    BY SubAssumption DEF SubTypeOK, Prolonged
  <1>4. /\ sub' = Renewed(s) /\ sub'[s].grace = Nothing /\ sub'[s].start = sub[s].start
        /\ sub'[s].ends = RenewedEnds(s) /\ RenewedEnds(s) \in Int
        /\ \A x \in Sub \ {s} : sub'[x] = sub[x]
    BY <1>1, RenewedRow DEF Prolonged
  <1>5. \A x \in Sub \ {s} : (Exists(x)' => Exists(x)) /\ sub'[x] = sub[x] /\ Gained(x)' = Gained(x)
    BY <1>1, <1>2, <1>4 DEF Exists, Gain
  <1>6. sub'[s].ends >= sub'[s].start + Gained(s)'
    <2>1. Gained(s)' = Gained(s) + (RenewedEnds(s) - sub[s].ends)
      BY <1>1, <1>2 DEF Gain
    <2>2. sub[s].ends >= sub[s].start + Gained(s)
      BY <1>1 DEF TimeSound
    <2> QED BY <1>1, <1>2, <1>4, <2>1, <2>2, RowFields
  <1>7. o.auto => o.prev <= o.at
    <2>1. auto => sub[s].ends <= now
      BY <1>1, <1>3, RowFields DEF Prolonged, NotDue, TimeSound, GraceSound
    <2> QED BY <1>1, <2>1
  <1>8. AutoRenewalsDue'
    BY <1>1, <1>7, DueKept DEF TimeSound
  <1>9. /\ (\A x \in Sub : Exists(x) => sub[x].ends >= sub[x].start + Gained(x))'
        /\ GraceSound'
    BY <1>3, <1>4, <1>5, <1>6, TimeKept
  <1> QED BY <1>8, <1>9 DEF TimeSound

LEMMA GraceTime ==
  ASSUME SubTypeOK, TimeSound, NEW s \in Sub, GraceGiven(s)
  PROVE  TimeSound'
  <1>1. \A x \in Sub : Gained(x)' = Gained(x)
    BY DEF GraceGiven, Gained, Gain
  <1>2. now \in Nat /\ now' = now
    BY SubAssumption DEF SubTypeOK, GraceGiven
  <1>3. /\ Exists(s) /\ sub'[s].start = sub[s].start /\ sub'[s].ends = sub[s].ends
        /\ sub'[s].grace = IF sub[s].grace = Nothing THEN sub[s].ends + GraceDays ELSE sub[s].grace
        /\ \A x \in Sub \ {s} : sub'[x] = sub[x]
    BY GraceRow
  <1>4. \A x \in Sub \ {s} : (Exists(x)' => Exists(x)) /\ sub'[x] = sub[x] /\ Gained(x)' = Gained(x)
    BY <1>1, <1>3 DEF Exists
  <1>5. sub'[s].ends >= sub'[s].start + Gained(s)'
    BY <1>1, <1>3 DEF TimeSound
  <1>6. sub'[s].ends <= now' /\ sub'[s].grace = sub'[s].ends + GraceDays
    BY <1>2, <1>3, RowFields DEF GraceGiven, NotDue, TimeSound, GraceSound
  <1>7. AutoRenewalsDue'
    BY DueKept DEF GraceGiven, TimeSound
  <1>8. /\ (\A x \in Sub : Exists(x) => sub[x].ends >= sub[x].start + Gained(x))'
        /\ GraceSound'
    BY <1>2, <1>4, <1>5, <1>6, TimeKept
  <1> QED BY <1>7, <1>8 DEF TimeSound

LEMMA BuyTime ==
  ASSUME SubTypeOK, OrdersSound, TimeSound, NEW s \in Sub, NEW p \in Plan, Buy(p, s)
  PROVE  TimeSound'
  <1> DEFINE o == BuyOrder(p, s)
  <1>1. o \in OrderRecord /\ orders' = Append(orders, o)
    BY NewOrders DEF Buy, BuyOrder
  <1>2. \A x \in Sub : Gained(x)' = Gained(x) + Gain(x, o) /\ Gained(x) \in Int
    <2> HIDE DEF o
    <2> QED BY <1>1, GainedOrdered, GainType
  <1>3. now \in Nat /\ now' = now /\ Days[p] \in Nat \ {0}
    BY NewRowType DEF Buy
  <1>4. sub'[s] = NewRow(p) /\ \A x \in Sub \ {s} : sub'[x] = sub[x]
    BY DEF Buy, SubTypeOK
  <1>5. ASSUME NEW x \in Sub \ {s}
        PROVE  (Exists(x)' => Exists(x)) /\ sub'[x] = sub[x] /\ Gained(x)' = Gained(x)
    <2>1. Gain(x, o) = 0
      BY DEF Gain, BuyOrder
    <2>2. sub'[x] = sub[x] /\ Gained(x)' = Gained(x)
      BY <1>2, <1>4, <2>1
    <2> QED BY <2>2 DEF Exists
  <1>6. /\ sub'[s].ends >= sub'[s].start + Gained(s)' /\ sub'[s].grace = Nothing
    <2>1. Gain(s, o) = Days[p]
      BY <1>3 DEF Gain, BuyOrder
    <2>2. Gained(s)' = Days[p]
      BY <1>2, <1>3, <2>1, GainedNone DEF Buy
    <2> QED BY <1>3, <1>4, <2>2 DEF NewRow
  <1>7. AutoRenewalsDue'
    <2>1. ~o.auto
      BY DEF BuyOrder
    <2> QED BY <1>1, <2>1, DueKept DEF TimeSound
  <1>8. /\ (\A x \in Sub : Exists(x) => sub[x].ends >= sub[x].start + Gained(x))'
        /\ GraceSound'
    BY <1>3, <1>5, <1>6, TimeKept
  <1> QED BY <1>7, <1>8 DEF TimeSound

LEMMA AssignTime ==
  ASSUME SubTypeOK, OrdersSound, TimeSound, NEW s \in Sub, NEW p \in Plan, Assign(p, s)
  PROVE  TimeSound'
  <1>1. \A x \in Sub : Gained(x)' = Gained(x) /\ Gained(x) \in Int
    BY GainType DEF Assign, Gained, Gain
  <1>2. now \in Nat /\ now' = now /\ Days[p] \in Nat \ {0}
    BY NewRowType DEF Assign
  <1>3. /\ \A x \in Sub \ {s} : sub'[x] = sub[x]
        /\ sub'[s].ends >= sub'[s].start + Gained(s)' /\ sub'[s].grace = Nothing
    <2>1. CASE ~Exists(s) /\ sub' = [sub EXCEPT ![s] = NewRow(p)]
      <3>1. Gained(s)' = 0
        BY <1>1, <2>1, GainedNone
      <3> QED BY <1>2, <2>1, <3>1 DEF SubTypeOK, NewRow
    <2>2. CASE s \in Extended(p) /\ sub' = Renewed(s)
      <3>1. Exists(s)
        BY <2>2 DEF Extended, Owned, Is
      <3>2. sub[s].ends >= sub[s].start + Gained(s)
        BY <3>1 DEF TimeSound
      <3>3. /\ sub'[s].start = sub[s].start /\ sub'[s].grace = Nothing
            /\ sub'[s].ends \in Int /\ sub'[s].ends >= sub[s].ends + Days[sub[s].plan]
            /\ \A x \in Sub \ {s} : sub'[x] = sub[x]
        BY <2>2, <3>1, RenewedRow
      <3>4. sub[s].ends \in Int /\ sub[s].start \in Nat /\ Days[sub[s].plan] \in Nat
        BY <3>1, RowFields
      <3> QED BY <1>1, <3>2, <3>3, <3>4
    <2> QED BY <2>1, <2>2 DEF Assign
  <1>4. \A x \in Sub \ {s} : (Exists(x)' => Exists(x)) /\ sub'[x] = sub[x] /\ Gained(x)' = Gained(x)
    BY <1>1, <1>3 DEF Exists
  <1>5. AutoRenewalsDue'
    BY DueKept DEF Assign, TimeSound
  <1>6. /\ (\A x \in Sub : Exists(x) => sub[x].ends >= sub[x].start + Gained(x))'
        /\ GraceSound'
    BY <1>2, <1>3, <1>4, TimeKept
  <1> QED BY <1>5, <1>6 DEF TimeSound

LEMMA ChangeTime ==
  ASSUME SubTypeOK, TimeSound, NEW s \in Sub, NEW p \in Plan, ChangePlan(s, p)
  PROVE  TimeSound'
  <1> DEFINE o == ChangeOrderOf(s, p)
  <1>1. /\ Exists(s) /\ o \in OrderRecord /\ orders' = Append(orders, o)
        /\ o.type = "change" /\ o.auto = FALSE
    BY NewOrders, ChangeOrder DEF ChangePlan, ChangeOrderOf, Is
  <1> HIDE DEF o
  <1>2. \A x \in Sub : Gained(x)' = Gained(x)
    <2>1. \A x \in Sub : Gained(x)' = Gained(x) + Gain(x, o) /\ Gained(x) \in Int
      BY <1>1, GainedOrdered, GainType
    <2>2. \A x \in Sub : Gain(x, o) = 0
      BY <1>1 DEF Gain
    <2> QED BY <2>1, <2>2
  <1>3. now \in Nat /\ now' = now
    BY SubAssumption DEF SubTypeOK, ChangePlan
  <1>4. /\ sub'[s].start = sub[s].start /\ sub'[s].ends = sub[s].ends /\ sub'[s].grace = Nothing
        /\ \A x \in Sub \ {s} : sub'[x] = sub[x]
    BY ChangeRow
  <1>5. \A x \in Sub \ {s} : (Exists(x)' => Exists(x)) /\ sub'[x] = sub[x] /\ Gained(x)' = Gained(x)
    BY <1>2, <1>4 DEF Exists
  <1>6. sub'[s].ends >= sub'[s].start + Gained(s)'
    BY <1>1, <1>2, <1>4 DEF TimeSound
  <1>7. AutoRenewalsDue'
    BY <1>1, DueKept DEF TimeSound
  <1>8. /\ (\A x \in Sub : Exists(x) => sub[x].ends >= sub[x].start + Gained(x))'
        /\ GraceSound'
    BY <1>3, <1>4, <1>5, <1>6, TimeKept
  <1> QED BY <1>7, <1>8 DEF TimeSound

LEMMA RefundTime ==
  ASSUME SubTypeOK, OrdersSound, TimeSound, NEW i \in DOMAIN orders, Refund(i)
  PROVE  TimeSound'
  <1>0. PICK o \in OrderRecord, s \in Sub : o = orders[i] /\ s = orders[i].sub
    BY OrderFields
  <1>1. /\ s = o.sub /\ Exists(s) /\ sub'[s].start = sub[s].start
        /\ IF o.type = "plan" THEN sub'[s].ends = sub[s].ends /\ sub'[s].grace = sub[s].grace
           ELSE sub'[s].ends = RolledBack(i) /\ sub'[s].grace = Nothing
        /\ \A x \in Sub \ {s} : sub'[x] = sub[x]
    BY <1>0, RefundRow
  <1>2. /\ o \in OrderRecord /\ o.status = "paid" /\ o.type # "change"
        /\ o.ends \in Int /\ o.prev \in Int /\ Days[o.plan] \in Nat \ {0}
        /\ o.ends >= o.prev + Days[o.plan]
    BY <1>0, OrderFields DEF Refund, OrdersSound
  <1>3. \A x \in Sub : Gained(x)' = Gained(x) - Gain(x, o) /\ Gained(x) \in Int
    BY <1>0, <1>2, GainedRefund, GainType DEF Refund
  <1>4. now \in Nat /\ now' = now
    BY SubAssumption DEF SubTypeOK, Refund
  <1>5. \A x \in Sub \ {s} : (Exists(x)' => Exists(x)) /\ sub'[x] = sub[x] /\ Gained(x)' = Gained(x)
    <2>1. \A x \in Sub \ {s} : Gain(x, o) = 0
      BY <1>1 DEF Gain
    <2> QED BY <1>1, <1>3, <2>1 DEF Exists
  <1>6. sub'[s].ends >= sub'[s].start + Gained(s)'
    <2>1. Gained(s)' = Gained(s) - (o.ends - o.prev)
      BY <1>1, <1>2, <1>3 DEF Gain
    <2>2. sub[s].ends >= sub[s].start + Gained(s) /\ sub[s].ends \in Int /\ sub[s].start \in Nat
      BY <1>1, RowFields DEF TimeSound
    <2>3. sub'[s].ends \in Int /\ sub'[s].ends >= sub[s].ends - (o.ends - o.prev)
      BY <1>0, <1>1, <1>2, <2>2 DEF RolledBack
    <2> QED BY <1>1, <1>2, <1>3, <2>1, <2>2, <2>3
  <1>7. sub'[s].grace # Nothing => sub'[s].ends <= now' /\ sub'[s].grace = sub'[s].ends + GraceDays
    BY <1>1, <1>4 DEF TimeSound, GraceSound
  <1>8. AutoRenewalsDue'
    BY DueKept DEF TimeSound
  <1>9. /\ (\A x \in Sub : Exists(x) => sub[x].ends >= sub[x].start + Gained(x))'
        /\ GraceSound'
    BY <1>1, <1>4, <1>5, <1>6, <1>7, TimeKept
  <1> QED BY <1>8, <1>9 DEF TimeSound

LEMMA TimeInvariance ==
  ASSUME SubInv, alone, [MCNext]_<<subVars, alone>>
  PROVE  TimeSound'
  <1>1. SubTypeOK /\ ScansSound /\ OrdersSound /\ TimeSound /\ edit = Nothing
    BY DEF SubInv, AloneSound
  <1>2. SubTypeOK'
    BY <1>1, TypeInvariance
  <1>3. ~EditWrite
    BY <1>1 DEF EditWrite
  <1>4. CASE Kept
    BY <1>1, <1>2, <1>4, KeptTime
  <1> QED BY <1>1, <1>3, <1>4, Steps, ProlongedTime, GraceTime, BuyTime, AssignTime, ChangeTime, RefundTime

-----------------------------------------------------------------------------
(* A customer begins with nothing.                                          *)
LEMMA Initially ==
  ASSUME MCInit
  PROVE  SubInv
  <1>1. SubTypeOK
    BY SubAssumption DEF MCInit, SubInit, SubTypeOK, Idle, Quiet, Alive
  <1>2. AloneSound /\ ScansSound
    BY DEF MCInit, SubInit, AloneSound, ScansSound, Idle, Quiet
  <1>3. OrdersSound /\ PlansSound /\ AutoOncePerPeriod /\ AutoRenewalsDue
    BY DEF MCInit, SubInit, OrdersSound, PlansSound, Acquiring, Assigned, AutoOncePerPeriod, AutoRenewalsDue
  <1>4. \A s \in Sub : ~Exists(s)
    BY DEF MCInit, SubInit, Exists
  <1> QED BY <1>1, <1>2, <1>3, <1>4 DEF SubInv, TimeSound, GraceSound

LEMMA Inductive ==
  ASSUME SubInv, [MCNext]_<<subVars, alone>>
  PROVE  SubInv'
  <1>1. SubTypeOK' /\ AloneSound' /\ ScansSound' /\ OrdersSound' /\ PlansSound' /\ AutoOncePerPeriod'
    BY TypeInvariance, AloneInvariance, ScansInvariance, OrdersInvariance, PlansInvariance,
       PeriodsInvariance DEF SubInv
  <1>2. alone' = alone
    BY DEF MCNext
  <1>3. alone => TimeSound'
    BY TimeInvariance
  <1> QED BY <1>1, <1>2, <1>3 DEF SubInv

(* The inductive invariant.                                                 *)
THEOREM Invariance == MCSpec => []SubInv
  <1>1. MCInit => SubInv
    BY Initially
  <1>2. SubInv /\ [MCNext]_<<subVars, alone>> => SubInv'
    BY Inductive
  <1> QED BY <1>1, <1>2, PTL DEF MCSpec

(* What is paid for is served, and a grace period belongs to the end it     *)
(* follows, for every number of subscriptions, plans, passes and orders.    *)
THEOREM PaidTimeIsServed == MCSpec => []PaidTimeSound
  <1>1. SubInv => PaidTimeSound
    <2>1. ASSUME SubInv, alone, NEW s \in Sub, Exists(s) PROVE sub[s].ends >= sub[s].start + PaidDays(s)
      <3>1. SubTypeOK /\ OrdersSound /\ TimeSound
        BY <2>1 DEF SubInv
      <3>2. PaidDays(s) \in Int /\ PaidDays(s) <= Gained(s) /\ Gained(s) \in Int
        BY <3>1, PaidIsGained, GainType
      <3>3. sub[s].ends >= sub[s].start + Gained(s) /\ sub[s].ends \in Int /\ sub[s].start \in Nat
        BY <2>1, <3>1, RowFields DEF TimeSound
      <3> QED BY <3>2, <3>3
    <2> QED BY <2>1 DEF PaidTimeSound, PaidTimeKept, SubInv, TimeSound
  <1> QED BY <1>1, Invariance, PTL

(* No period is charged twice, whoever renews it, and in the run's alone    *)
(* behaviours none is before it is due.                                     *)
THEOREM ChargesStaySound == MCSpec => []ChargesSound
  <1>1. SubInv => ChargesSound
    BY DEF SubInv, ChargesSound, TimeSound
  <1> QED BY <1>1, Invariance, PTL

LEMMA AtMostOne ==
  ASSUME NEW S, NEW T, \A i, j \in S : i = j, \A i, j \in T : i = j, S = {} \/ T = {}
  PROVE  Cardinality(S) + Cardinality(T) <= 1
  <1>1. ASSUME NEW X, \A i, j \in X : i = j PROVE Cardinality(X) = IF X = {} THEN 0 ELSE 1
    <2>1. CASE X = {}
      BY <2>1, FS_EmptySet
    <2>2. CASE X # {}
      <3>1. PICK x \in X : X = {x}
        BY <1>1, <2>2
      <3> QED BY <2>2, <3>1, FS_Singleton
    <2> QED BY <2>1, <2>2
  <1>2. /\ Cardinality(S) = IF S = {} THEN 0 ELSE 1
        /\ Cardinality(T) = IF T = {} THEN 0 ELSE 1
    BY <1>1
  <1> QED BY <1>2

(* A plan sold once is had once, in every behaviour.                        *)
THEOREM PlansHadOnce == MCSpec => []OnceAcquired /\ []PlansOnce
  <1>1. SubInv => OnceAcquired
    <2>1. ASSUME SubInv, NEW p \in Once PROVE TimesAcquired(p) <= 1
      <3>1. Cardinality(Acquiring(p)) + Cardinality(Assigned(p)) <= 1
        BY <2>1, AtMostOne DEF SubInv, PlansSound
      <3> QED BY <3>1 DEF TimesAcquired, Acquiring, Assigned
    <2> QED BY <2>1 DEF OnceAcquired
  <1>2. OnceAcquired => PlansOnce
    BY DEF PlansOnce
  <1> QED BY <1>1, <1>2, Invariance, PTL
=============================================================================
