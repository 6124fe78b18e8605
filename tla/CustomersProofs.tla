-------------------------- MODULE CustomersProofs --------------------------
(***************************************************************************)
(* For any customers, addresses, sites, plans, codes and requests: what    *)
(* may be used a number of times is used no more often (UsesCounted),      *)
(* nobody gets an address or a site without its proof (ProofsStand), and   *)
(* what is settled stays so (SettledForGood).  First redemption codes,     *)
(* then recovery, then accounts, then the three together.                  *)
(***************************************************************************)
EXTENDS MCCustomers, FiniteSetTheorems, WellFoundedInduction, TLAPS

LEMMA SameCardinality ==
  /\ \A S : D!Cardinality(S) = Cardinality(S)
  /\ \A S : R!Cardinality(S) = Cardinality(S)
  BY DEF D!Cardinality, R!Cardinality, Cardinality

-----------------------------------------------------------------------------
(* Redemption codes.  A code has one holder, and so has a customer.        *)
Vouchers == [status : {"active", "disabled", "destroyed"}, used : 0..Cardinality(Redeeming),
             max : 1..MaxLimit, plan : Plan, extra : BOOLEAN]
Asks == [pc : {"idle", "code", "user", "buy", "row", "done"}, user : User \cup {None}, code : Voucher \cup {None},
         plan : Plan \cup {None}, row : Vouchers \cup {None}, first : BOOLEAN, owned : BOOLEAN]

HoldsCode(q) == q.pc \in {"code", "user"}
HoldsUser(q) == q.pc \in {"user", "buy"}

Apart ==
  \A r, s \in Redeeming :
    /\ HoldsCode(redeeming[r]) /\ HoldsCode(redeeming[s]) /\ redeeming[r].code = redeeming[s].code => r = s
    /\ HoldsUser(redeeming[r]) /\ HoldsUser(redeeming[s]) /\ redeeming[r].user = redeeming[s].user => r = s

(* What the holder read still stands: the code may be used, and the        *)
(* customer has, or has not, acquired the plan.                            *)
CodeRead(q) ==
  HoldsCode(q) =>
    /\ q.user \in User /\ q.code \in Voucher /\ q.plan \in Plan /\ q.row = code[q.code]
    /\ q.row.used < q.row.max /\ (q.row.extra => uses[<<q.user, q.code>>] = 0)
    /\ q.pc = "user" => ~q.row.extra
UserRead(q) ==
  HoldsUser(q) =>
    q.user \in User /\ q.plan \in Plan /\ (q.first <=> <<q.user, q.plan>> \notin acquired)
RowRead(q) == q.pc = "row" => q.code \in Voucher /\ q.row \in Vouchers

DoneReqs == {r \in Redeeming : redeeming[r].pc = "done"}
UsersOf(f, c) == {u \in User : f[<<u, c>>] > 0}

CountsSound ==
  \A c \in Voucher :
    /\ \A u \in User : uses[<<u, c>>] <= 1
    /\ code[c].used = Cardinality(UsersOf(uses, c)) /\ code[c].used <= top[c] /\ code[c].max <= top[c]
    /\ code[c].used <= Cardinality(DoneReqs)
PlansSound ==
  \A q \in User \X Plan :
    /\ q \notin acquired => given[q] = 0
    /\ plans[q[2]].mode = "once" => given[q] <= 1

RedInv ==
  /\ D!TypeOK /\ redeeming \in [Redeeming -> Asks]
  /\ Apart /\ CountsSound /\ PlansSound
  /\ \A r \in Redeeming : CodeRead(redeeming[r]) /\ UserRead(redeeming[r]) /\ RowRead(redeeming[r])

LEMMA RedTypes ==
  ASSUME D!TypeOK
  PROVE  /\ plans \in [Plan -> [mode : {"once", "stack"}, destroys : BOOLEAN]] /\ code \in [Voucher -> Vouchers]
         /\ uses \in [User \X Voucher -> Nat] /\ acquired \in SUBSET (User \X Plan) /\ live \in SUBSET (User \X Plan)
         /\ given \in [User \X Plan -> Nat] /\ top \in [Voucher -> 1..MaxLimit]
  BY SameCardinality DEF D!TypeOK, Vouchers

LEMMA RedTypesPost ==
  ASSUME plans' \in [Plan -> [mode : {"once", "stack"}, destroys : BOOLEAN]], code' \in [Voucher -> Vouchers],
         uses' \in [User \X Voucher -> Nat], acquired' \in SUBSET (User \X Plan), live' \in SUBSET (User \X Plan),
         given' \in [User \X Plan -> Nat], top' \in [Voucher -> 1..MaxLimit], redeeming' \in [Redeeming -> Asks]
  PROVE  D!TypeOK'
  BY SameCardinality DEF D!TypeOK, Vouchers, Asks

LEMMA RedInit ==
  ASSUME D!Init
  PROVE  RedInv
  <1>1. \A c \in Voucher : UsersOf(uses, c) = {}
    BY DEF UsersOf, D!Init
  <1>2. Cardinality({}) = 0 /\ Cardinality(Redeeming) \in Nat /\ MaxLimit \in Nat \ {0} /\ 1 \in 1..MaxLimit
    BY PartsAssumption, FS_EmptySet, FS_CardinalityType
  <1>3. Cardinality(DoneReqs) \in Nat
    BY PartsAssumption, FS_Subset, FS_CardinalityType DEF DoneReqs
  <1>4. D!TypeOK
    <2>1. code \in [Voucher -> Vouchers]
      BY <1>2 DEF D!Init, Vouchers
    <2>2. top \in [Voucher -> 1..MaxLimit]
      BY <2>1 DEF D!Init, Vouchers
    <2>3. plans \in [Plan -> [mode : {"once", "stack"}, destroys : BOOLEAN]]
      BY DEF D!Init
    <2>4. \A r \in Redeeming : redeeming[r].pc = "idle"
      BY DEF D!Init, D!Fresh
    <2>5. /\ acquired \in SUBSET (User \X Plan) /\ live \in SUBSET (User \X Plan)
          /\ uses \in [User \X Voucher -> Nat] /\ given \in [User \X Plan -> Nat]
      BY DEF D!Init
    <2> QED BY <2>1, <2>2, <2>3, <2>4, <2>5, SameCardinality DEF D!TypeOK, Vouchers
  <1>5. redeeming \in [Redeeming -> Asks]
    BY DEF D!Init, D!Fresh, Asks
  <1>6. CountsSound
    <2> SUFFICES ASSUME NEW c \in Voucher
                 PROVE  /\ \A u \in User : uses[<<u, c>>] <= 1
                        /\ code[c].used = Cardinality(UsersOf(uses, c)) /\ code[c].used <= top[c] /\ code[c].max <= top[c]
                        /\ code[c].used <= Cardinality(DoneReqs)
      BY DEF CountsSound
    <2>1. code[c].used = 0 /\ top[c] = code[c].max /\ code[c].max \in 1..MaxLimit
      BY <1>4, RedTypes DEF D!Init, Vouchers
    <2>2. \A u \in User : uses[<<u, c>>] = 0
      BY DEF D!Init
    <2> QED BY <1>1, <1>2, <1>3, <2>1, <2>2
  <1>7. PlansSound
    BY DEF D!Init, PlansSound
  <1>8. \A r \in Redeeming : redeeming[r].pc = "idle"
    BY DEF D!Init, D!Fresh
  <1> QED BY <1>4, <1>5, <1>6, <1>7, <1>8 DEF RedInv, Apart, HoldsCode, HoldsUser, CodeRead, UserRead, RowRead

(* A request that is over leaves what it held.                             *)
LEMMA RedEnd ==
  ASSUME RedInv, NEW r \in Redeeming, D!End(r)
  PROVE  /\ redeeming' \in [Redeeming -> Asks] /\ redeeming'[r].pc = "done"
         /\ \A s \in Redeeming \ {r} : redeeming'[s] = redeeming[s]
         /\ Apart' /\ DoneReqs' = DoneReqs \cup {r}
  <1>1. /\ redeeming' \in [Redeeming -> Asks] /\ redeeming'[r].pc = "done"
        /\ \A s \in Redeeming \ {r} : redeeming'[s] = redeeming[s]
    BY DEF RedInv, D!End, D!Fresh, Asks
  <1> QED BY <1>1 DEF RedInv, Apart, HoldsCode, HoldsUser, DoneReqs

LEMMA RedFinite ==
  ASSUME RedInv
  PROVE  /\ IsFiniteSet(DoneReqs) /\ Cardinality(DoneReqs) \in Nat /\ Cardinality(DoneReqs) <= Cardinality(Redeeming)
         /\ Cardinality(Redeeming) \in Nat
         /\ \A c \in Voucher : IsFiniteSet(UsersOf(uses, c)) /\ Cardinality(UsersOf(uses, c)) \in Nat
  BY PartsAssumption, FS_Subset, FS_CardinalityType DEF DoneReqs, UsersOf

(* Steps that leave the data to a request that changes its own state only. *)
LEMMA RedQuiet ==
  ASSUME RedInv, NEW r \in Redeeming, redeeming' \in [Redeeming -> Asks],
         \A s \in Redeeming \ {r} : redeeming'[s] = redeeming[s],
         redeeming[r].pc # "done", Apart', UNCHANGED <<plans, code, uses, acquired, given, top>>, live' \subseteq User \X Plan,
         (CodeRead(redeeming[r]) /\ UserRead(redeeming[r]) /\ RowRead(redeeming[r]))'
  PROVE  RedInv'
  <1>1. D!TypeOK'
    BY RedTypes, RedTypesPost DEF RedInv
  <1>2. DoneReqs \subseteq DoneReqs' /\ DoneReqs' \subseteq Redeeming
    BY DEF DoneReqs
  <1>3. Cardinality(DoneReqs) <= Cardinality(DoneReqs)' /\ Cardinality(DoneReqs)' \in Nat
    BY <1>2, PartsAssumption, FS_Subset, FS_CardinalityType
  <1>4. CountsSound'
    <2>1. \A c \in Voucher : UsersOf(uses', c) = UsersOf(uses, c) /\ code[c].used \in Nat
      BY RedTypes DEF RedInv, UsersOf, Vouchers
    <2> QED BY <1>3, <2>1, RedFinite DEF RedInv, CountsSound
  <1>5. \A s \in Redeeming : (CodeRead(redeeming[s]) /\ UserRead(redeeming[s]) /\ RowRead(redeeming[s]))'
    <2> TAKE s \in Redeeming
    <2> QED BY DEF RedInv, CodeRead, UserRead, RowRead
  <1> QED BY <1>1, <1>4, <1>5 DEF RedInv, PlansSound

LEMMA RedOver ==
  ASSUME RedInv, NEW r \in Redeeming, D!End(r), redeeming[r].pc # "done",
         UNCHANGED <<plans, code, uses, acquired, live, given, top>>
  PROVE  RedInv'
  <1>1. (CodeRead(redeeming[r]) /\ UserRead(redeeming[r]) /\ RowRead(redeeming[r]))'
    BY RedEnd DEF CodeRead, UserRead, RowRead, HoldsCode, HoldsUser
  <1>2. live' \subseteq User \X Plan
    BY RedTypes DEF RedInv
  <1> QED BY <1>1, <1>2, RedEnd, RedQuiet

(* Steps of a holder of a code that change it: only the holder read it.    *)
LEMMA RedCode ==
  ASSUME RedInv, NEW r \in Redeeming, D!End(r), redeeming[r].pc # "done", NEW c \in Voucher,
         \A s \in Redeeming \ {r} : HoldsCode(redeeming[s]) => redeeming[s].code # c,
         code' \in [Voucher -> Vouchers], \A d \in Voucher \ {c} : code'[d] = code[d],
         uses' \in [User \X Voucher -> Nat],
         \A u \in User, d \in Voucher \ {c} : uses'[<<u, d>>] = uses[<<u, d>>],
         top' \in [Voucher -> 1..MaxLimit], \A d \in Voucher \ {c} : top'[d] = top[d],
         CountsSound', UNCHANGED <<plans, acquired, live, given>>
  PROVE  RedInv'
  <1>1. D!TypeOK'
    BY RedEnd, RedTypes, RedTypesPost DEF RedInv
  <1>2. ASSUME NEW s \in Redeeming
        PROVE  (CodeRead(redeeming[s]) /\ UserRead(redeeming[s]) /\ RowRead(redeeming[s]))'
    <2>1. CASE s = r
      BY <2>1, RedEnd DEF CodeRead, UserRead, RowRead, HoldsCode, HoldsUser
    <2>2. CASE s # r
      <3>1. redeeming'[s] = redeeming[s] /\ CodeRead(redeeming[s]) /\ UserRead(redeeming[s]) /\ RowRead(redeeming[s])
        BY <2>2, RedEnd DEF RedInv
      <3>2. HoldsCode(redeeming[s]) => redeeming[s].code \in Voucher \ {c} /\ redeeming[s].user \in User
        BY <2>2, <3>1 DEF CodeRead
      <3> QED BY <3>1, <3>2 DEF CodeRead, UserRead, RowRead, HoldsCode, HoldsUser
    <2> QED BY <2>1, <2>2
  <1>3. PlansSound'
    BY DEF RedInv, PlansSound
  <1> QED BY <1>1, <1>2, <1>3, RedEnd DEF RedInv

(* A use is counted.                                                       *)
LEMMA RedUsed ==
  ASSUME RedInv, NEW r \in Redeeming, D!End(r), HoldsCode(redeeming[r]), NEW u \in User, NEW c \in Voucher,
         u = redeeming[r].user, c = redeeming[r].code, uses[<<u, c>>] = 0, D!Used(u, c), UNCHANGED top
  PROVE  /\ CountsSound' /\ code' \in [Voucher -> Vouchers] /\ uses' \in [User \X Voucher -> Nat]
         /\ \A d \in Voucher \ {c} : code'[d] = code[d]
         /\ \A w \in User, d \in Voucher \ {c} : uses'[<<w, d>>] = uses[<<w, d>>]
  <1>1. /\ code[c] \in Vouchers /\ code[c].used < code[c].max /\ code[c].max <= top[c] /\ top[c] \in Nat
        /\ code[c].used <= Cardinality(DoneReqs)
    BY RedTypes DEF RedInv, CodeRead, CountsSound
  <1>2. /\ Cardinality(DoneReqs)' = Cardinality(DoneReqs) + 1
        /\ Cardinality(DoneReqs)' \in Nat /\ Cardinality(DoneReqs)' <= Cardinality(Redeeming)
    <2>1. r \notin DoneReqs /\ DoneReqs' = DoneReqs \cup {r} /\ DoneReqs' \subseteq Redeeming
      BY RedEnd DEF DoneReqs, HoldsCode
    <2> QED BY <2>1, RedFinite, FS_AddElement, FS_Subset, FS_CardinalityType, PartsAssumption
  <1>3. code[c].used \in Nat /\ code'[c] = [code[c] EXCEPT !.used = @ + 1] /\ \A d \in Voucher \ {c} : code'[d] = code[d]
    <2>1. code' = [code EXCEPT ![c].used = @ + 1] /\ code \in [Voucher -> Vouchers]
      BY RedTypes DEF D!Used, RedInv
    <2> QED BY <1>1, <2>1, RedFinite DEF Vouchers
  <1>4. code'[c].used = code[c].used + 1 /\ code'[c].max = code[c].max
    BY <1>1, <1>3 DEF Vouchers
  <1>5. code' \in [Voucher -> Vouchers]
    <2>1. code[c].used + 1 \in 0..Cardinality(Redeeming)
      BY <1>1, <1>2, <1>3, RedFinite
    <2>2. code'[c] \in Vouchers
      BY <1>1, <1>3, <2>1 DEF Vouchers
    <2> QED BY <1>3, <2>2, RedTypes DEF D!Used, RedInv
  <1>6. /\ uses' \in [User \X Voucher -> Nat] /\ uses'[<<u, c>>] = 1
        /\ \A q \in User \X Voucher : q # <<u, c>> => uses'[q] = uses[q]
    BY RedTypes DEF D!Used, RedInv
  <1>7. /\ \A w \in User, d \in Voucher \ {c} : uses'[<<w, d>>] = uses[<<w, d>>]
        /\ \A w \in User \ {u} : uses'[<<w, c>>] = uses[<<w, c>>]
    BY <1>6
  <1>8. /\ \A d \in Voucher \ {c} : UsersOf(uses', d) = UsersOf(uses, d)
        /\ UsersOf(uses', c) = UsersOf(uses, c) \cup {u} /\ u \notin UsersOf(uses, c)
    BY <1>6, <1>7 DEF UsersOf
  <1>9. Cardinality(UsersOf(uses', c)) = Cardinality(UsersOf(uses, c)) + 1
    <2>1. IsFiniteSet(UsersOf(uses, c))
      BY RedFinite
    <2>2. u \notin UsersOf(uses, c)
      BY <1>8
    <2>3. Cardinality(UsersOf(uses, c) \cup {u}) = Cardinality(UsersOf(uses, c)) + 1
      BY <2>1, <2>2, FS_AddElement
    <2> QED BY <1>8, <2>3
  <1>10. CountsSound'
    <2> SUFFICES ASSUME NEW d \in Voucher
                 PROVE  /\ \A w \in User : uses'[<<w, d>>] <= 1
                        /\ code'[d].used = Cardinality(UsersOf(uses', d)) /\ code'[d].used <= top[d] /\ code'[d].max <= top[d]
                        /\ code'[d].used <= Cardinality(DoneReqs)'
      BY DEF CountsSound
    <2>1. /\ \A w \in User : uses[<<w, d>>] <= 1
          /\ code[d].used = Cardinality(UsersOf(uses, d)) /\ code[d].used <= top[d] /\ code[d].max <= top[d]
          /\ code[d].used <= Cardinality(DoneReqs) /\ code[d].used \in Nat
      BY RedTypes DEF RedInv, CountsSound, Vouchers
    <2>2. CASE d = c
      <3>1. \A w \in User : uses'[<<w, c>>] <= 1
        BY <1>6, <1>7, <2>1, <2>2
      <3>2. code'[c].used = Cardinality(UsersOf(uses', c))
        BY <1>4, <1>9, <2>1, <2>2
      <3>3. code'[c].used <= top[c] /\ code'[c].max <= top[c] /\ code'[c].used <= Cardinality(DoneReqs)'
        BY <1>1, <1>2, <1>3, <1>4, RedFinite DEF Vouchers
      <3> QED BY <2>2, <3>1, <3>2, <3>3
    <2>3. CASE d # c
      <3>1. \A w \in User : uses'[<<w, d>>] <= 1
        BY <1>7, <2>1, <2>3
      <3> QED BY <1>2, <1>3, <1>8, <2>1, <2>3, <3>1, RedFinite
    <2> QED BY <2>2, <2>3
  <1> QED BY <1>3, <1>5, <1>6, <1>7, <1>10

(* A plan is given by whoever holds the customer and found it missing.     *)
LEMMA RedGive ==
  ASSUME RedInv, NEW r \in Redeeming, HoldsUser(redeeming[r]), NEW q \in User \X Plan,
         q = <<redeeming[r].user, redeeming[r].plan>>, D!Give(q), UNCHANGED plans,
         plans[q[2]].mode # "once" \/ redeeming[r].first
  PROVE  /\ PlansSound' /\ acquired' \in SUBSET (User \X Plan) /\ live' \in SUBSET (User \X Plan)
         /\ given' \in [User \X Plan -> Nat]
         /\ \A p \in User \X Plan : p[1] # redeeming[r].user => (p \in acquired' <=> p \in acquired)
  <1>1. UserRead(redeeming[r]) /\ given \in [User \X Plan -> Nat]
    BY RedTypes DEF RedInv
  <1>2. redeeming[r].first => q \notin acquired /\ given[q] = 0
    BY <1>1 DEF UserRead, RedInv, PlansSound
  <1>3. given' = [given EXCEPT ![q] = @ + 1] /\ acquired' = acquired \cup {q} /\ live' = live \cup {q}
    BY DEF D!Give
  <1> QED BY <1>1, <1>2, <1>3, RedTypes DEF RedInv, PlansSound

LEMMA RedDoneMore ==
  ASSUME RedInv, NEW r \in Redeeming, D!End(r)
  PROVE  Cardinality(DoneReqs) <= Cardinality(DoneReqs)' /\ Cardinality(DoneReqs)' \in Nat /\ Cardinality(DoneReqs) \in Nat
  <1>1. DoneReqs \subseteq DoneReqs' /\ DoneReqs' \subseteq Redeeming /\ DoneReqs \subseteq Redeeming
    BY RedEnd DEF DoneReqs
  <1> QED BY <1>1, PartsAssumption, FS_Subset, FS_CardinalityType

LEMMA RedCountsStay ==
  ASSUME RedInv, NEW r \in Redeeming, D!End(r), UNCHANGED <<uses, top>>,
         \A d \in Voucher : code'[d].used = code[d].used /\ code'[d].max = code[d].max
  PROVE  CountsSound'
  <1>1. \A c \in Voucher : UsersOf(uses', c) = UsersOf(uses, c) /\ code[c].used \in Nat
    BY RedTypes DEF RedInv, UsersOf, Vouchers
  <1> QED BY <1>1, RedDoneMore DEF RedInv, CountsSound

LEMMA RedApart ==
  ASSUME Apart, NEW r \in Redeeming, \A s \in Redeeming \ {r} : redeeming'[s] = redeeming[s],
         HoldsCode(redeeming'[r]) => \A s \in Redeeming \ {r} : HoldsCode(redeeming[s]) => redeeming[s].code # redeeming'[r].code,
         HoldsUser(redeeming'[r]) => \A s \in Redeeming \ {r} : HoldsUser(redeeming[s]) => redeeming[s].user # redeeming'[r].user
  PROVE  Apart'
  <1> SUFFICES ASSUME NEW s \in Redeeming, NEW t \in Redeeming, s # t
               PROVE  /\ ~(HoldsCode(redeeming'[s]) /\ HoldsCode(redeeming'[t]) /\ redeeming'[s].code = redeeming'[t].code)
                      /\ ~(HoldsUser(redeeming'[s]) /\ HoldsUser(redeeming'[t]) /\ redeeming'[s].user = redeeming'[t].user)
    BY DEF Apart, HoldsCode, HoldsUser
  <1>1. /\ ~(HoldsCode(redeeming[s]) /\ HoldsCode(redeeming[t]) /\ redeeming[s].code = redeeming[t].code)
        /\ ~(HoldsUser(redeeming[s]) /\ HoldsUser(redeeming[t]) /\ redeeming[s].user = redeeming[t].user)
    BY DEF Apart
  <1>2. CASE s # r /\ t # r
    <2>1. redeeming'[s] = redeeming[s] /\ redeeming'[t] = redeeming[t]
      BY <1>2
    <2> QED BY <1>1, <2>1
  <1>3. CASE s = r
    <2>1. redeeming'[t] = redeeming[t] /\ t \in Redeeming \ {r}
      BY <1>3
    <2> QED BY <1>3, <2>1
  <1>4. CASE t = r
    <2>1. redeeming'[s] = redeeming[s] /\ s \in Redeeming \ {r}
      BY <1>4
    <2> QED BY <1>4, <2>1
  <1> QED BY <1>2, <1>3, <1>4

LEMMA RedRedeem ==
  ASSUME RedInv, NEW r \in Redeeming, NEW u \in User, NEW c \in Voucher, D!Redeem(r, u, c)
  PROVE  RedInv'
  <1>1. redeeming[r].pc = "idle" /\ UNCHANGED <<plans, code, uses, acquired, live, given, top>>
    BY DEF D!Redeem, D!Now, D!data
  <1>2. CASE D!End(r)
    BY <1>1, <1>2, RedOver
  <1>3. CASE /\ code[c].status = "active" /\ code[c].used < code[c].max /\ (code[c].extra => uses[<<u, c>>] = 0)
             /\ redeeming' = [redeeming EXCEPT ![r] = [D!Fresh EXCEPT !.pc = "code", !.user = u, !.code = c, !.plan = code[c].plan, !.row = code[c]]]
    <2> DEFINE q == [D!Fresh EXCEPT !.pc = "code", !.user = u, !.code = c, !.plan = code[c].plan, !.row = code[c]]
    <2>1. code[c] \in Vouchers
      BY RedTypes DEF RedInv
    <2>2. /\ q \in Asks /\ q.pc = "code" /\ q.user = u /\ q.code = c /\ q.plan = code[c].plan /\ q.row = code[c]
      BY <2>1 DEF D!Fresh, Asks, Vouchers
    <2>3. redeeming' \in [Redeeming -> Asks] /\ redeeming'[r] = q /\ \A s \in Redeeming \ {r} : redeeming'[s] = redeeming[s]
      BY <1>3, <2>2 DEF RedInv
    <2>4. \A s \in Redeeming : HoldsCode(redeeming[s]) => redeeming[s].code # c
      BY DEF D!Redeem, D!CodeFree, D!Now, HoldsCode
    <2>5. Apart'
      <3>1. redeeming'[r].code = c /\ ~HoldsUser(redeeming'[r]) /\ Apart
        BY <2>2, <2>3 DEF HoldsUser, RedInv
      <3> QED BY <2>3, <2>4, <3>1, RedApart
    <2>6. (CodeRead(redeeming[r]) /\ UserRead(redeeming[r]) /\ RowRead(redeeming[r]))'
      BY <1>1, <1>3, <2>1, <2>2, <2>3 DEF CodeRead, UserRead, RowRead, HoldsCode, HoldsUser, Vouchers
    <2>7. live' \subseteq User \X Plan
      BY <1>1, RedTypes DEF RedInv
    <2> QED BY <1>1, <2>3, <2>5, <2>6, <2>7, RedQuiet
  <1> QED BY <1>2, <1>3 DEF D!Redeem

LEMMA RedExtra ==
  ASSUME RedInv, NEW r \in Redeeming, D!RedeemExtra(r)
  PROVE  RedInv'
  <1>1. D!End(r) /\ redeeming[r].pc = "code" /\ redeeming[r].row.extra /\ HoldsCode(redeeming[r])
    BY DEF D!RedeemExtra, D!Now, HoldsCode
  <1>2. CASE UNCHANGED <<plans, code, uses, acquired, live, given, top>>
    BY <1>1, <1>2, RedOver
  <1>3. CASE D!Used(redeeming[r].user, redeeming[r].code) /\ UNCHANGED <<plans, acquired, live, given, top>>
    <2>1. PICK u \in User, c \in Voucher :
            u = redeeming[r].user /\ c = redeeming[r].code /\ uses[<<u, c>>] = 0
      BY <1>1 DEF RedInv, CodeRead
    <2>2. D!Used(u, c)
      BY <1>3, <2>1
    <2>3. \A s \in Redeeming \ {r} : HoldsCode(redeeming[s]) => redeeming[s].code # c
      BY <1>1, <2>1 DEF RedInv, Apart
    <2>4. top' \in [Voucher -> 1..MaxLimit] /\ \A d \in Voucher \ {c} : top'[d] = top[d]
      BY <1>3, RedTypes DEF RedInv
    <2>5. /\ CountsSound' /\ code' \in [Voucher -> Vouchers] /\ uses' \in [User \X Voucher -> Nat]
          /\ \A d \in Voucher \ {c} : code'[d] = code[d]
          /\ \A w \in User, d \in Voucher \ {c} : uses'[<<w, d>>] = uses[<<w, d>>]
      BY <1>1, <1>3, <2>1, <2>2, RedUsed
    <2>6. redeeming[r].pc # "done" /\ UNCHANGED <<plans, acquired, live, given>>
      BY <1>1, <1>3
    <2> QED BY <1>1, <2>3, <2>4, <2>5, <2>6, RedCode
  <1> QED BY <1>2, <1>3 DEF D!RedeemExtra, D!data

LEMMA RedLockUser ==
  ASSUME RedInv, NEW r \in Redeeming, D!LockUser(r)
  PROVE  RedInv'
  <1>1. /\ redeeming[r].pc = "code" /\ ~redeeming[r].row.extra
        /\ UNCHANGED <<plans, code, uses, acquired, live, given, top>>
        /\ redeeming' = [redeeming EXCEPT ![r].pc = "user", ![r].first = <<redeeming[r].user, redeeming[r].plan>> \notin acquired,
                                          ![r].owned = <<redeeming[r].user, redeeming[r].plan>> \in live]
    BY DEF D!LockUser, D!Now, D!data
  <1>2. \A s \in Redeeming : HoldsUser(redeeming[s]) => redeeming[s].user # redeeming[r].user
    BY DEF D!LockUser, D!UserFree, D!Now, HoldsUser
  <1>3. redeeming[r] \in Asks /\ redeeming \in [Redeeming -> Asks] /\ CodeRead(redeeming[r])
    BY DEF RedInv
  <1>4. /\ redeeming' \in [Redeeming -> Asks] /\ \A s \in Redeeming \ {r} : redeeming'[s] = redeeming[s]
        /\ redeeming'[r].pc = "user" /\ redeeming'[r].user = redeeming[r].user /\ redeeming'[r].code = redeeming[r].code
        /\ redeeming'[r].plan = redeeming[r].plan /\ redeeming'[r].row = redeeming[r].row
        /\ (redeeming'[r].first <=> <<redeeming[r].user, redeeming[r].plan>> \notin acquired)
    <2>1. \A f, o \in BOOLEAN :
            LET q == [redeeming[r] EXCEPT !.pc = "user", !.first = f, !.owned = o]
            IN  q \in Asks /\ q.pc = "user" /\ q.user = redeeming[r].user /\ q.code = redeeming[r].code
                /\ q.plan = redeeming[r].plan /\ q.row = redeeming[r].row /\ q.first = f
      BY <1>3 DEF Asks
    <2> DEFINE f == <<redeeming[r].user, redeeming[r].plan>> \notin acquired
               o == <<redeeming[r].user, redeeming[r].plan>> \in live
    <2>2. f \in BOOLEAN /\ o \in BOOLEAN
      OBVIOUS
    <2>3. redeeming' = [redeeming EXCEPT ![r] = [redeeming[r] EXCEPT !.pc = "user", !.first = f, !.owned = o]]
      BY <1>1, <1>3
    <2>4. f <=> <<redeeming[r].user, redeeming[r].plan>> \notin acquired
      OBVIOUS
    <2> HIDE DEF f, o
    <2> QED BY <1>3, <2>1, <2>2, <2>3, <2>4
  <1>5. Apart'
    <2>1. \A s \in Redeeming \ {r} : HoldsCode(redeeming[s]) => redeeming[s].code # redeeming'[r].code
      BY <1>1, <1>4 DEF RedInv, Apart, HoldsCode
    <2>2. Apart
      BY DEF RedInv
    <2> QED BY <1>2, <1>4, <2>1, <2>2, RedApart
  <1>6. (CodeRead(redeeming[r]) /\ UserRead(redeeming[r]) /\ RowRead(redeeming[r]))'
    <2>1. /\ redeeming[r].user \in User /\ redeeming[r].code \in Voucher /\ redeeming[r].plan \in Plan
          /\ redeeming[r].row = code[redeeming[r].code] /\ redeeming[r].row.used < redeeming[r].row.max
      BY <1>1, <1>3 DEF CodeRead, HoldsCode
    <2>2. CodeRead(redeeming[r])'
      BY <1>1, <1>4, <2>1 DEF CodeRead, HoldsCode
    <2>3. UserRead(redeeming[r])'
      BY <1>1, <1>4, <2>1 DEF UserRead, HoldsUser
    <2>4. RowRead(redeeming[r])'
      BY <1>4 DEF RowRead
    <2> QED BY <2>2, <2>3, <2>4
  <1>7. live' \subseteq User \X Plan
    BY <1>1, RedTypes DEF RedInv
  <1> QED BY <1>1, <1>4, <1>5, <1>6, <1>7, RedQuiet

(* Giving a plan changes what only the holder of the customer read.        *)
LEMMA RedGiven ==
  ASSUME RedInv, NEW r \in Redeeming, D!End(r), HoldsUser(redeeming[r]), NEW q \in User \X Plan,
         q = <<redeeming[r].user, redeeming[r].plan>>, D!Give(q), UNCHANGED <<plans, top>>,
         plans[q[2]].mode # "once" \/ redeeming[r].first,
         code' \in [Voucher -> Vouchers], uses' \in [User \X Voucher -> Nat], CountsSound',
         \A s \in Redeeming \ {r} : CodeRead(redeeming[s])'
  PROVE  RedInv'
  <1>1. /\ PlansSound' /\ acquired' \in SUBSET (User \X Plan) /\ live' \in SUBSET (User \X Plan)
        /\ given' \in [User \X Plan -> Nat]
        /\ \A p \in User \X Plan : p[1] # redeeming[r].user => (p \in acquired' <=> p \in acquired)
    BY RedGive
  <1>2. D!TypeOK'
    BY <1>1, RedEnd, RedTypes, RedTypesPost DEF RedInv
  <1>3. ASSUME NEW s \in Redeeming
        PROVE  (CodeRead(redeeming[s]) /\ UserRead(redeeming[s]) /\ RowRead(redeeming[s]))'
    <2>1. CASE s = r
      BY <2>1, RedEnd DEF CodeRead, UserRead, RowRead, HoldsCode, HoldsUser
    <2>2. CASE s # r
      <3>1. redeeming'[s] = redeeming[s] /\ UserRead(redeeming[s]) /\ RowRead(redeeming[s])
        BY <2>2, RedEnd DEF RedInv
      <3>2. HoldsUser(redeeming[s]) => redeeming[s].user # redeeming[r].user
        BY <2>2 DEF RedInv, Apart
      <3>3. UserRead(redeeming[s])'
        <4> SUFFICES ASSUME HoldsUser(redeeming[s])
                     PROVE  /\ redeeming[s].user \in User /\ redeeming[s].plan \in Plan
                            /\ redeeming[s].first <=> <<redeeming[s].user, redeeming[s].plan>> \notin acquired'
          BY <3>1 DEF UserRead, HoldsUser
        <4>1. PICK p \in User \X Plan : p = <<redeeming[s].user, redeeming[s].plan>> /\ p[1] = redeeming[s].user
          BY <3>1 DEF UserRead
        <4> QED BY <1>1, <3>1, <3>2, <4>1 DEF UserRead
      <3> QED BY <2>2, <3>1, <3>3 DEF RowRead
    <2> QED BY <2>1, <2>2
  <1> QED BY <1>1, <1>2, <1>3, RedEnd DEF RedInv

LEMMA RedRedeemPlan ==
  ASSUME RedInv, NEW r \in Redeeming, D!RedeemPlan(r)
  PROVE  RedInv'
  <1>1. D!End(r) /\ redeeming[r].pc = "user" /\ HoldsCode(redeeming[r]) /\ HoldsUser(redeeming[r])
    BY DEF D!RedeemPlan, D!Now, HoldsCode, HoldsUser
  <1>2. PICK u \in User, c \in Voucher, p \in Plan :
          u = redeeming[r].user /\ c = redeeming[r].code /\ p = redeeming[r].plan
    BY <1>1 DEF RedInv, CodeRead
  <1>3. \A s \in Redeeming \ {r} : HoldsCode(redeeming[s]) => redeeming[s].code # c
    BY <1>1, <1>2 DEF RedInv, Apart
  <1>4. CASE UNCHANGED <<plans, code, uses, acquired, live, given, top>>
    BY <1>1, <1>4, RedOver
  <1>5. CASE /\ code' = [code EXCEPT ![c].status = IF plans[p].destroys THEN "destroyed" ELSE @]
             /\ UNCHANGED <<plans, uses, acquired, live, given, top>>
    <2>1. \A d \in Voucher : code'[d].used = code[d].used /\ code'[d].max = code[d].max
      BY <1>5, RedTypes DEF RedInv, Vouchers
    <2>2. code' \in [Voucher -> Vouchers] /\ \A d \in Voucher \ {c} : code'[d] = code[d]
      BY <1>5, RedTypes DEF RedInv, Vouchers
    <2>3. CountsSound'
      BY <1>1, <1>5, <2>1, RedCountsStay
    <2>4. /\ uses' \in [User \X Voucher -> Nat] /\ top' \in [Voucher -> 1..MaxLimit]
          /\ \A w \in User, d \in Voucher \ {c} : uses'[<<w, d>>] = uses[<<w, d>>]
          /\ \A d \in Voucher \ {c} : top'[d] = top[d]
      BY <1>5, RedTypes DEF RedInv
    <2>5. redeeming[r].pc # "done" /\ UNCHANGED <<plans, acquired, live, given>>
      BY <1>1, <1>5
    <2> QED BY <1>1, <1>3, <2>2, <2>3, <2>4, <2>5, RedCode
  <1>6. CASE /\ ~(D!Once(p) /\ (~redeeming[r].first \/ redeeming[r].owned)) /\ ~(uses[<<u, c>>] > 0)
             /\ D!Used(u, c) /\ D!Give(<<u, p>>) /\ UNCHANGED <<plans, top>>
    <2>1. uses[<<u, c>>] = 0
      BY <1>6, RedTypes DEF RedInv
    <2>2. /\ CountsSound' /\ code' \in [Voucher -> Vouchers] /\ uses' \in [User \X Voucher -> Nat]
          /\ \A d \in Voucher \ {c} : code'[d] = code[d]
          /\ \A w \in User, d \in Voucher \ {c} : uses'[<<w, d>>] = uses[<<w, d>>]
      BY <1>1, <1>2, <1>6, <2>1, RedUsed
    <2>3. \A s \in Redeeming \ {r} : CodeRead(redeeming[s])'
      <3> TAKE s \in Redeeming \ {r}
      <3>1. redeeming'[s] = redeeming[s] /\ CodeRead(redeeming[s])
        BY <1>1, RedEnd DEF RedInv
      <3>2. HoldsCode(redeeming[s]) => redeeming[s].code \in Voucher \ {c} /\ redeeming[s].user \in User
        BY <1>3, <3>1 DEF CodeRead
      <3> QED BY <2>2, <3>1, <3>2 DEF CodeRead, HoldsCode
    <2>4. <<u, p>> \in User \X Plan /\ <<u, p>> = <<redeeming[r].user, redeeming[r].plan>> /\ <<u, p>>[2] = p
      BY <1>2
    <2>5. plans[p].mode # "once" \/ redeeming[r].first
      BY <1>6 DEF D!Once
    <2> QED BY <1>1, <1>6, <2>2, <2>3, <2>4, <2>5, RedGiven
  <1> QED BY <1>2, <1>4, <1>5, <1>6 DEF D!RedeemPlan, D!data

LEMMA RedBuy ==
  ASSUME RedInv, NEW r \in Redeeming, NEW u \in User, NEW p \in Plan, D!Buy(r, u, p)
  PROVE  RedInv'
  <1>1. redeeming[r].pc = "idle" /\ UNCHANGED <<plans, code, uses, acquired, live, given, top>>
    BY DEF D!Buy, D!Now, D!data
  <1> DEFINE f == <<u, p>> \notin acquired
             o == <<u, p>> \in live
             q == [D!Fresh EXCEPT !.pc = "buy", !.user = u, !.plan = p, !.first = f, !.owned = o]
  <1>2. f \in BOOLEAN /\ o \in BOOLEAN
    OBVIOUS
  <1>3. f <=> <<u, p>> \notin acquired
    OBVIOUS
  <1>4. redeeming' = [redeeming EXCEPT ![r] = q]
    BY DEF D!Buy
  <1> HIDE DEF f, o
  <1>5. q \in Asks /\ q.pc = "buy" /\ q.user = u /\ q.plan = p /\ q.first = f
    BY <1>2 DEF D!Fresh, Asks
  <1> HIDE DEF q
  <1>6. redeeming' \in [Redeeming -> Asks] /\ redeeming'[r] = q /\ \A s \in Redeeming \ {r} : redeeming'[s] = redeeming[s]
    BY <1>4, <1>5 DEF RedInv
  <1>7. Apart'
    <2>1. \A s \in Redeeming : HoldsUser(redeeming[s]) => redeeming[s].user # u
      BY DEF D!Buy, D!UserFree, D!Now, HoldsUser
    <2>2. ~HoldsCode(redeeming'[r]) /\ Apart /\ redeeming'[r].user = u
      BY <1>5, <1>6 DEF HoldsCode, RedInv
    <2> QED BY <1>6, <2>1, <2>2, RedApart
  <1>8. (CodeRead(redeeming[r]) /\ UserRead(redeeming[r]) /\ RowRead(redeeming[r]))'
    BY <1>1, <1>3, <1>5, <1>6 DEF CodeRead, UserRead, RowRead, HoldsCode, HoldsUser
  <1>9. live' \subseteq User \X Plan
    BY <1>1, RedTypes DEF RedInv
  <1> QED BY <1>1, <1>6, <1>7, <1>8, <1>9, RedQuiet

LEMMA RedBought ==
  ASSUME RedInv, NEW r \in Redeeming, D!Bought(r)
  PROVE  RedInv'
  <1>1. D!End(r) /\ redeeming[r].pc = "buy" /\ HoldsUser(redeeming[r]) /\ ~HoldsCode(redeeming[r])
    BY DEF D!Bought, D!Now, HoldsUser, HoldsCode
  <1>2. PICK u \in User, p \in Plan : u = redeeming[r].user /\ p = redeeming[r].plan
    BY <1>1 DEF RedInv, UserRead
  <1>3. CASE UNCHANGED <<plans, code, uses, acquired, live, given, top>>
    BY <1>1, <1>3, RedOver
  <1>4. CASE /\ ~(D!Once(p) /\ (~redeeming[r].first \/ redeeming[r].owned))
             /\ D!Give(<<u, p>>) /\ UNCHANGED <<plans, code, uses, top>>
    <2>1. CountsSound'
      BY <1>1, <1>4, RedCountsStay
    <2>2. \A s \in Redeeming \ {r} : CodeRead(redeeming[s])'
      <3> TAKE s \in Redeeming \ {r}
      <3>1. redeeming'[s] = redeeming[s] /\ CodeRead(redeeming[s])
        BY <1>1, RedEnd DEF RedInv
      <3> QED BY <1>4, <3>1 DEF CodeRead, HoldsCode
    <2>3. <<u, p>> \in User \X Plan /\ <<u, p>> = <<redeeming[r].user, redeeming[r].plan>> /\ <<u, p>>[2] = p
      BY <1>2
    <2>4. plans[p].mode # "once" \/ redeeming[r].first
      BY <1>4 DEF D!Once
    <2>5. code' \in [Voucher -> Vouchers] /\ uses' \in [User \X Voucher -> Nat]
      BY <1>4, RedTypes DEF RedInv
    <2> QED BY <1>1, <1>4, <2>1, <2>2, <2>3, <2>4, <2>5, RedGiven
  <1> QED BY <1>2, <1>3, <1>4 DEF D!Bought, D!data

LEMMA RedAdminRead ==
  ASSUME RedInv, NEW r \in Redeeming, NEW c \in Voucher, D!AdminRead(r, c)
  PROVE  RedInv'
  <1>1. redeeming[r].pc = "idle" /\ UNCHANGED <<plans, code, uses, acquired, live, given, top>>
    BY DEF D!AdminRead, D!Now, D!data
  <1> DEFINE q == [D!Fresh EXCEPT !.pc = "row", !.code = c, !.row = code[c]]
  <1>2. q \in Asks /\ q.pc = "row" /\ q.code = c /\ q.row \in Vouchers
    <2>1. code[c] \in Vouchers
      BY RedTypes DEF RedInv
    <2> QED BY <2>1 DEF D!Fresh, Asks
  <1>3. redeeming' = [redeeming EXCEPT ![r] = q]
    BY DEF D!AdminRead
  <1> HIDE DEF q
  <1>4. redeeming' \in [Redeeming -> Asks] /\ redeeming'[r] = q /\ \A s \in Redeeming \ {r} : redeeming'[s] = redeeming[s]
    BY <1>2, <1>3 DEF RedInv
  <1>5. Apart'
    <2>1. ~HoldsCode(redeeming'[r]) /\ ~HoldsUser(redeeming'[r]) /\ Apart
      BY <1>2, <1>4 DEF HoldsCode, HoldsUser, RedInv
    <2> QED BY <1>4, <2>1, RedApart
  <1>6. (CodeRead(redeeming[r]) /\ UserRead(redeeming[r]) /\ RowRead(redeeming[r]))'
    BY <1>2, <1>4 DEF CodeRead, UserRead, RowRead, HoldsCode, HoldsUser
  <1>7. live' \subseteq User \X Plan
    BY <1>1, RedTypes DEF RedInv
  <1> QED BY <1>1, <1>4, <1>5, <1>6, <1>7, RedQuiet

(* What an administrator writes to a row that nobody holds.                *)
LEMMA RedAdmin ==
  ASSUME RedInv, NEW r \in Redeeming, D!End(r), redeeming[r].pc = "row", D!CodeFree(redeeming[r].code),
         NEW status \in {"active", "disabled"}, NEW max \in 1..MaxLimit,
         code' = [code EXCEPT ![redeeming[r].code].status = status, ![redeeming[r].code].max = max],
         top' = [top EXCEPT ![redeeming[r].code] = IF max > @ THEN max ELSE @],
         UNCHANGED <<plans, uses, acquired, live, given>>
  PROVE  RedInv'
  <1>1. PICK c \in Voucher : c = redeeming[r].code
    BY DEF RedInv, RowRead
  <1>2. \A s \in Redeeming \ {r} : HoldsCode(redeeming[s]) => redeeming[s].code # c
    BY <1>1 DEF D!CodeFree, D!Now, HoldsCode
  <1>3. /\ code' \in [Voucher -> Vouchers] /\ \A d \in Voucher \ {c} : code'[d] = code[d]
        /\ code'[c].used = code[c].used /\ code'[c].max = max
    <2>1. code[c] \in Vouchers /\ code \in [Voucher -> Vouchers]
      BY RedTypes DEF RedInv
    <2>2. code' = [code EXCEPT ![c] = [code[c] EXCEPT !.status = status, !.max = max]]
      BY <1>1, <2>1
    <2>3. LET v == [code[c] EXCEPT !.status = status, !.max = max] IN v \in Vouchers /\ v.used = code[c].used /\ v.max = max
      BY <2>1 DEF Vouchers
    <2> QED BY <2>1, <2>2, <2>3
  <1>4. /\ top' \in [Voucher -> 1..MaxLimit] /\ \A d \in Voucher \ {c} : top'[d] = top[d]
        /\ top'[c] >= top[c] /\ top'[c] >= max
    <2>1. top \in [Voucher -> 1..MaxLimit] /\ MaxLimit \in Nat
      BY RedTypes, PartsAssumption DEF RedInv
    <2> QED BY <1>1, <2>1
  <1>5. CountsSound'
    <2> SUFFICES ASSUME NEW d \in Voucher
                 PROVE  /\ \A w \in User : uses[<<w, d>>] <= 1
                        /\ code'[d].used = Cardinality(UsersOf(uses, d)) /\ code'[d].used <= top'[d] /\ code'[d].max <= top'[d]
                        /\ code'[d].used <= Cardinality(DoneReqs)'
      BY DEF CountsSound, UsersOf
    <2>1. /\ \A w \in User : uses[<<w, d>>] <= 1
          /\ code[d].used = Cardinality(UsersOf(uses, d)) /\ code[d].used <= top[d] /\ code[d].max <= top[d]
          /\ code[d].used <= Cardinality(DoneReqs) /\ code[d].used \in Nat
      BY RedTypes DEF RedInv, CountsSound, Vouchers
    <2>2. Cardinality(DoneReqs) <= Cardinality(DoneReqs)' /\ Cardinality(DoneReqs)' \in Nat /\ Cardinality(DoneReqs) \in Nat
      BY RedDoneMore
    <2>3. top[d] \in Nat /\ top'[d] \in Nat /\ top'[d] >= top[d]
      BY <1>4, RedTypes DEF RedInv
    <2>4. code'[d].used = code[d].used /\ code'[d].max <= top'[d]
      BY <1>3, <1>4, <2>1
    <2> QED BY <2>1, <2>2, <2>3, <2>4
  <1>6. uses' \in [User \X Voucher -> Nat] /\ redeeming[r].pc # "done"
    BY RedTypes DEF RedInv
  <1> QED BY <1>2, <1>3, <1>4, <1>5, <1>6, RedCode

LEMMA RedAdminPut ==
  ASSUME RedInv, NEW r \in Redeeming, NEW s \in {"active", "disabled"}, NEW n \in 1..MaxLimit, D!AdminPut(r, s, n)
  PROVE  RedInv'
  <1>1. D!End(r) /\ redeeming[r].pc = "row" /\ D!CodeFree(redeeming[r].code)
    BY DEF D!AdminPut, D!Now
  <1>2. CASE UNCHANGED <<plans, code, uses, acquired, live, given, top>>
    BY <1>1, <1>2, RedOver
  <1>3. CASE /\ code' = [code EXCEPT ![redeeming[r].code].status = s, ![redeeming[r].code].max = n]
             /\ top' = [top EXCEPT ![redeeming[r].code] = IF n > @ THEN n ELSE @]
             /\ UNCHANGED <<plans, uses, acquired, live, given>>
    BY <1>1, <1>3, RedAdmin
  <1> QED BY <1>2, <1>3 DEF D!AdminPut, D!data

LEMMA RedAdminDelete ==
  ASSUME RedInv, NEW r \in Redeeming, D!AdminDelete(r)
  PROVE  RedInv'
  <1>1. D!End(r) /\ redeeming[r].pc = "row" /\ D!CodeFree(redeeming[r].code) /\ UNCHANGED <<plans, uses, acquired, live, given, top>>
    BY DEF D!AdminDelete, D!Now
  <1>2. CASE UNCHANGED code
    BY <1>1, <1>2, RedOver
  <1>3. CASE code' = [code EXCEPT ![redeeming[r].code].status = "disabled"]
    <2>1. PICK c \in Voucher : c = redeeming[r].code
      BY <1>1 DEF RedInv, RowRead
    <2>2. code \in [Voucher -> Vouchers] /\ code[c] \in Vouchers /\ top \in [Voucher -> 1..MaxLimit] /\ code[c].max \in 1..MaxLimit
      BY RedTypes DEF RedInv, Vouchers
    <2>3. code' = [code EXCEPT ![c].status = "disabled", ![c].max = code[c].max]
      BY <1>3, <2>1, <2>2 DEF Vouchers
    <2>4. top' = [top EXCEPT ![c] = IF code[c].max > @ THEN code[c].max ELSE @]
      <3>1. code[c].max <= top[c] /\ top[c] \in Nat /\ code[c].max \in Nat
        BY <2>2 DEF RedInv, CountsSound
      <3> QED BY <1>1, <2>2, <3>1
    <2> QED BY <1>1, <2>1, <2>2, <2>3, <2>4, RedAdmin
  <1> QED BY <1>2, <1>3 DEF D!AdminDelete

LEMMA RedSubscriptionEnds ==
  ASSUME RedInv, NEW q \in User \X Plan, D!SubscriptionEnds(q)
  PROVE  RedInv'
  <1>1. live' \in SUBSET (User \X Plan) /\ UNCHANGED <<plans, code, uses, acquired, redeeming, given, top>>
    BY RedTypes DEF D!SubscriptionEnds, RedInv
  <1>2. D!TypeOK'
    BY <1>1, RedTypes, RedTypesPost DEF RedInv
  <1> QED BY <1>1, <1>2 DEF RedInv, Apart, CountsSound, PlansSound, DoneReqs, UsersOf, CodeRead, UserRead, RowRead

LEMMA RedNext ==
  ASSUME RedInv, D!Next \/ UNCHANGED redemption
  PROVE  RedInv'
  <1>1. CASE UNCHANGED redemption
    <2>1. UNCHANGED <<plans, code, uses, acquired, live, redeeming, given, top>>
      BY <1>1 DEF redemption
    <2>2. D!TypeOK'
      BY <2>1 DEF RedInv, D!TypeOK, D!Cardinality
    <2> QED BY <2>1, <2>2 DEF RedInv, Apart, CountsSound, PlansSound, DoneReqs, UsersOf, CodeRead, UserRead, RowRead
  <1>2. ASSUME NEW r \in Redeeming, D!Fail(r)
        PROVE  RedInv'
    BY <1>2, RedOver DEF D!Fail, D!data
  <1> QED BY <1>1, <1>2, RedRedeem, RedExtra, RedLockUser, RedRedeemPlan, RedBuy, RedBought, RedAdminRead, RedAdminPut,
             RedAdminDelete, RedSubscriptionEnds DEF D!Next

LEMMA RedSound ==
  ASSUME RedInv
  PROVE  D!TypeOK /\ D!UsesSound /\ D!OnceGiven
  <1>1. D!UsesSound
    BY SameCardinality DEF RedInv, CountsSound, D!UsesSound, UsersOf
  <1>2. D!OnceGiven
    BY DEF RedInv, PlansSound, D!OnceGiven, D!Once
  <1> QED BY <1>1, <1>2 DEF RedInv

(* A destroyed code is never held, so nothing but a request that sees it   *)
(* destroyed, and leaves it, can meet it.                                  *)
LEMMA RedFinal ==
  ASSUME RedInv, D!Next \/ UNCHANGED redemption, NEW c \in Voucher, code[c].status = "destroyed"
  PROVE  code'[c].status = "destroyed"
  <1>0. code \in [Voucher -> Vouchers] /\ code[c] \in Vouchers
    BY RedTypes DEF RedInv
  <1>1. CASE UNCHANGED redemption
    BY <1>1 DEF redemption
  <1>a. ASSUME NEW x, code' = [code EXCEPT ![x].used = @ + 1]
        PROVE  code'[c].status = "destroyed"
    BY <1>0, <1>a DEF Vouchers
  <1>2. \A r, u, p, d :
          /\ D!LockUser(r) => UNCHANGED code
          /\ D!Bought(r) => UNCHANGED code
          /\ D!Fail(r) => UNCHANGED code
          /\ D!Redeem(r, u, d) => UNCHANGED code
          /\ D!Buy(r, u, p) => UNCHANGED code
          /\ D!AdminRead(r, d) => UNCHANGED code
    BY DEF D!LockUser, D!Bought, D!Fail, D!Redeem, D!Buy, D!AdminRead, D!data
  <1>3. ASSUME NEW r \in Redeeming, D!RedeemExtra(r)
        PROVE  code'[c].status = "destroyed"
    BY <1>3, <1>a DEF D!RedeemExtra, D!Used, D!data
  <1>4. ASSUME NEW r \in Redeeming, D!RedeemPlan(r)
        PROVE  code'[c].status = "destroyed"
    <2>1. \/ UNCHANGED code
          \/ code' = [code EXCEPT ![redeeming[r].code].used = @ + 1]
          \/ code' = [code EXCEPT ![redeeming[r].code].status = IF plans[redeeming[r].plan].destroys THEN "destroyed" ELSE @]
      BY <1>4 DEF D!RedeemPlan, D!Used, D!data
    <2> QED BY <1>0, <1>a, <2>1 DEF Vouchers
  <1>5. ASSUME NEW r \in Redeeming, D!AdminDelete(r)
        PROVE  code'[c].status = "destroyed"
    BY <1>0, <1>5 DEF D!AdminDelete, D!StillThere, Vouchers
  <1>6. ASSUME NEW r \in Redeeming, NEW s \in {"active", "disabled"}, NEW n \in 1..MaxLimit, D!AdminPut(r, s, n)
        PROVE  code'[c].status = "destroyed"
    BY <1>0, <1>6 DEF D!AdminPut, D!StillThere, D!data, Vouchers
  <1>7. ASSUME NEW q \in User \X Plan, D!SubscriptionEnds(q)
        PROVE  code'[c].status = "destroyed"
    BY <1>7 DEF D!SubscriptionEnds
  <1>8. UNCHANGED code => code'[c].status = "destroyed"
    OBVIOUS
  <1> QED BY <1>1, <1>2, <1>3, <1>4, <1>5, <1>6, <1>7, <1>8 DEF D!Next

-----------------------------------------------------------------------------
(* Recovery.  Of the rows of recovery_sites, recovery_claims and sites,    *)
(* some are missing.                                                       *)
RecRows == [domains : SUBSET Domain, owner : User \cup {None}, by : R!Code]
ClaimRows == [code : R!Code, good : BOOLEAN]
SiteRows == [owner : User, domains : SUBSET Domain, recovered : BOOLEAN]
Steps == [pc : {"idle", "asked", "looking", "found", "locked", "granted", "import", "done"},
          user : User \cup {None}, site : Site \cup {None}, code : R!Code, domains : SUBSET Domain,
          list : {None, "none", "live", "ended"} \cup [Site -> SUBSET Domain], used : Nat]

HasSite(q) == q.pc \in {"asked", "looking", "found", "locked", "granted"}
HasSeen(q) == q.pc \in {"found", "locked", "granted"}
HoldsSite(q) == q.pc \in {"locked", "granted"}
HoldsGrant(q) == q.pc = "granted"

OwnPairs(f, u) ==
  {p \in Site \X Domain : f[p[1]] # None /\ f[p[1]].recovered /\ f[p[1]].owner = u /\ p[2] \in f[p[1]].domains}

RecTypes ==
  /\ cdn \in [Site -> SUBSET Domain] /\ rec \in [Site -> RecRows \cup {None}]
  /\ index \in [Domain -> Site \cup {None}] /\ claim \in [User \X Site -> ClaimRows \cup {None}]
  /\ sub \in [User -> {"none", "live", "ended"}] /\ local \in [Site -> SiteRows \cup {None}]
  /\ claiming \in [Claiming -> Steps] /\ seen \in SUBSET (User \X Domain \X R!Code)
  /\ grants \in [User -> 0..1] /\ events \in 0..MaxEvents

IndexFound == \A d \in Domain : index[d] # None => rec[index[d]] # None /\ d \in rec[index[d]].domains
ClaimFound == \A u \in User, s \in Site : claim[<<u, s>>] # None => rec[s] # None

(* A request that looks domains up has a site that is still listed; one    *)
(* that has found them holds what the DNS showed; one that has locked the  *)
(* site knows its domains, and that no other customer has it.              *)
StepSound(q) ==
  /\ HasSite(q) => q.user \in User /\ q.site \in Site /\ rec[q.site] # None
  /\ HasSeen(q) => \A d \in q.domains : <<q.user, d, q.code>> \in seen
  /\ HoldsSite(q) => /\ rec[q.site].domains = q.domains /\ rec[q.site].owner \in {None, q.user}
                     /\ claim[<<q.user, q.site>>] # None
  /\ HoldsGrant(q) => q.list \in {"none", "live"} /\ Cardinality(OwnPairs(local, q.user)) <= q.used
  /\ q.pc = "import" => q.list \in [Site -> SUBSET Domain]

Alone ==
  \A r, s \in Claiming :
    /\ HoldsSite(claiming[r]) /\ HoldsSite(claiming[s]) /\ claiming[r].site = claiming[s].site => r = s
    /\ HoldsGrant(claiming[r]) /\ HoldsGrant(claiming[s]) /\ claiming[r].user = claiming[s].user => r = s

GrantsSound == \A u \in User : (sub[u] = "none" => grants[u] = 0) /\ Cardinality(OwnPairs(local, u)) <= Limit

RecInv ==
  /\ RecTypes /\ IndexFound /\ ClaimFound /\ Alone /\ GrantsSound /\ R!ClaimsProved
  /\ \A r \in Claiming : StepSound(claiming[r])

LEMMA NoRow ==
  /\ None \notin RecRows /\ None \notin ClaimRows /\ None \notin SiteRows /\ None \notin Site /\ None \notin User
  /\ 0 \in R!Code /\ MaxEvents \in Nat /\ R!Code \subseteq Nat /\ Limit \in Nat
  BY PartsAssumption, NoneAssumption DEF RecRows, ClaimRows, SiteRows, R!Code

LEMMA RecPairs ==
  ASSUME NEW f, NEW u
  PROVE  IsFiniteSet(OwnPairs(f, u)) /\ Cardinality(OwnPairs(f, u)) \in Nat
  BY PartsAssumption, FS_Product, FS_Subset, FS_CardinalityType DEF OwnPairs

LEMMA RecDomains ==
  ASSUME NEW u \in User
  PROVE  R!Domains(R!Recovered(u)) = Cardinality(OwnPairs(local, u))
  <1>1. {p \in R!Recovered(u) \X Domain : p[2] \in local[p[1]].domains} = OwnPairs(local, u)
    BY DEF R!Recovered, OwnPairs
  <1> QED BY <1>1, SameCardinality DEF R!Domains

(* The first of some sites in the order in which they are stored.          *)
LEMMA FirstIn ==
  ASSUME NEW S, NEW T \in SUBSET S, T # {}, NEW rank \in [S -> Nat]
  PROVE  R!First(T, rank) \in T
  <1> DEFINE Less == {q \in Nat \X Nat : q[1] < q[2]}
             N == {rank[s] : s \in T}
  <1>1. N \subseteq Nat /\ N # {}
    OBVIOUS
  <1>2. IsWellFoundedOn(Less, Nat)
    BY NatLessThanWellFounded, Zenon DEF OpToRel
  <1> HIDE DEF Less
  <1>3. PICK n \in N : \A m \in N : ~(<<m, n>> \in Less)
    BY <1>1, <1>2, WFMin
  <1>4. \A m \in N : n <= m
    <2> SUFFICES ASSUME NEW m \in N PROVE n <= m
      OBVIOUS
    <2>1. <<m, n>> \notin Less /\ m \in Nat /\ n \in Nat
      BY <1>1, <1>3
    <2>2. ~(m < n)
      BY <2>1 DEF Less
    <2> QED BY <2>1, <2>2
  <1>5. \E s \in T : \A t \in T : rank[s] <= rank[t]
    BY <1>3, <1>4
  <1> QED BY <1>5 DEF R!First

LEMMA RecInit ==
  ASSUME R!Init
  PROVE  RecInv
  <1>1. cdn \in [Site -> SUBSET Domain] /\ sub \in [User -> {"none", "live"}] /\ events = 0 /\ seen = {}
        /\ claiming = [r \in Claiming |-> R!Idle]
        /\ grants = [u \in User |-> IF sub[u] = "live" THEN 1 ELSE 0]
    BY DEF R!Init
  <1>2. rec = [s \in Site |-> IF cdn[s] = {} THEN None ELSE [domains |-> cdn[s], owner |-> None, by |-> 0]]
    BY DEF R!Init
  <1>3. claim = [p \in User \X Site |-> IF cdn[p[2]] # {} THEN [code |-> 0, good |-> TRUE] ELSE None]
    BY DEF R!Init
  <1>4. PICK kept \in [Site -> User \cup {None}] :
          local = [s \in Site |-> IF kept[s] = None THEN None ELSE [owner |-> kept[s], domains |-> cdn[s], recovered |-> FALSE]]
    BY DEF R!Init
  <1>5. rec \in [Site -> RecRows \cup {None}] /\ \A s \in Site : rec[s] # None <=> cdn[s] # {}
    <2>1. \A s \in Site : cdn[s] # {} => [domains |-> cdn[s], owner |-> None, by |-> 0] \in RecRows
      BY <1>1, NoRow DEF RecRows
    <2> QED BY <1>2, <2>1, NoRow
  <1>6. claim \in [User \X Site -> ClaimRows \cup {None}] /\ ClaimFound
    <2>1. [code |-> 0, good |-> TRUE] \in ClaimRows
      BY NoRow DEF ClaimRows
    <2> QED BY <1>3, <1>5, <2>1 DEF ClaimFound
  <1>7. local \in [Site -> SiteRows \cup {None}] /\ \A s \in Site : local[s] # None => ~local[s].recovered
    BY <1>1, <1>4 DEF SiteRows
  <1>8. index \in [Domain -> Site \cup {None}] /\ IndexFound
    <2>1. index = [d \in Domain |-> IF \E s \in Site : d \in cdn[s] THEN CHOOSE s \in Site : d \in cdn[s] ELSE None]
      BY DEF R!Init
    <2>2. \A d \in Domain : index[d] = None \/ (index[d] \in Site /\ d \in cdn[index[d]])
      BY <2>1
    <2> QED BY <1>2, <1>5, <2>1, <2>2, NoRow DEF IndexFound
  <1>9. claiming \in [Claiming -> Steps] /\ \A r \in Claiming : claiming[r].pc = "idle"
    BY <1>1, NoRow DEF R!Idle, Steps
  <1>10. RecTypes
    BY <1>1, <1>5, <1>6, <1>7, <1>8, <1>9, NoRow DEF RecTypes
  <1>11. \A u \in User : OwnPairs(local, u) = {}
    BY <1>7 DEF OwnPairs
  <1>12. GrantsSound
    BY <1>1, <1>11, FS_EmptySet, NoRow DEF GrantsSound
  <1>13. R!ClaimsProved
    BY <1>2 DEF R!ClaimsProved
  <1>14. Alone /\ \A r \in Claiming : StepSound(claiming[r])
    BY <1>9 DEF Alone, StepSound, HasSite, HasSeen, HoldsSite, HoldsGrant
  <1> QED BY <1>6, <1>8, <1>10, <1>12, <1>13, <1>14 DEF RecInv

(* What a request that goes on keeps of the invariant, and what it owes.   *)
LEMMA RecAlone ==
  ASSUME Alone, NEW r \in Claiming, \A s \in Claiming \ {r} : claiming'[s] = claiming[s],
         HoldsSite(claiming'[r]) => \A s \in Claiming \ {r} : HoldsSite(claiming[s]) => claiming[s].site # claiming'[r].site,
         HoldsGrant(claiming'[r]) => \A s \in Claiming \ {r} : HoldsGrant(claiming[s]) => claiming[s].user # claiming'[r].user
  PROVE  Alone'
  <1> SUFFICES ASSUME NEW s \in Claiming, NEW t \in Claiming, s # t
               PROVE  /\ ~(HoldsSite(claiming'[s]) /\ HoldsSite(claiming'[t]) /\ claiming'[s].site = claiming'[t].site)
                      /\ ~(HoldsGrant(claiming'[s]) /\ HoldsGrant(claiming'[t]) /\ claiming'[s].user = claiming'[t].user)
    BY DEF Alone, HoldsSite, HoldsGrant
  <1>1. /\ ~(HoldsSite(claiming[s]) /\ HoldsSite(claiming[t]) /\ claiming[s].site = claiming[t].site)
        /\ ~(HoldsGrant(claiming[s]) /\ HoldsGrant(claiming[t]) /\ claiming[s].user = claiming[t].user)
    BY DEF Alone
  <1>2. CASE s # r /\ t # r
    <2>1. claiming'[s] = claiming[s] /\ claiming'[t] = claiming[t]
      BY <1>2
    <2> QED BY <1>1, <2>1
  <1>3. CASE s = r
    <2>1. claiming'[t] = claiming[t] /\ t \in Claiming \ {r}
      BY <1>3
    <2> QED BY <1>3, <2>1
  <1>4. CASE t = r
    <2>1. claiming'[s] = claiming[s] /\ s \in Claiming \ {r}
      BY <1>4
    <2> QED BY <1>4, <2>1
  <1> QED BY <1>2, <1>3, <1>4

LEMMA RecEnd ==
  ASSUME RecInv, NEW r \in Claiming, R!End(r)
  PROVE  /\ claiming' \in [Claiming -> Steps] /\ claiming'[r].pc = "done"
         /\ \A s \in Claiming \ {r} : claiming'[s] = claiming[s]
         /\ Alone' /\ StepSound(claiming[r])'
  <1>1. /\ claiming' \in [Claiming -> Steps] /\ claiming'[r].pc = "done"
        /\ \A s \in Claiming \ {r} : claiming'[s] = claiming[s]
    <2>1. [R!Idle EXCEPT !.pc = "done"] \in Steps /\ [R!Idle EXCEPT !.pc = "done"].pc = "done"
      BY NoRow DEF R!Idle, Steps
    <2> QED BY <2>1 DEF RecInv, RecTypes, R!End
  <1>2. ~HoldsSite(claiming'[r]) /\ ~HoldsGrant(claiming'[r]) /\ Alone
    BY <1>1 DEF HoldsSite, HoldsGrant, RecInv
  <1>3. StepSound(claiming[r])'
    BY <1>1 DEF StepSound, HasSite, HasSeen, HoldsSite, HoldsGrant
  <1> QED BY <1>1, <1>2, <1>3, RecAlone

(* The steps of a request that leave every row as it is.                   *)
LEMMA RecQuiet ==
  ASSUME RecInv, NEW r \in Claiming, claiming' \in [Claiming -> Steps],
         \A s \in Claiming \ {r} : claiming'[s] = claiming[s], Alone', StepSound(claiming[r])',
         UNCHANGED <<cdn, rec, index, claim, sub, local, grants, events>>,
         seen \subseteq seen', seen' \in SUBSET (User \X Domain \X R!Code)
  PROVE  RecInv'
  <1>1. RecTypes' /\ IndexFound' /\ ClaimFound' /\ GrantsSound'
    BY DEF RecInv, RecTypes, IndexFound, ClaimFound, GrantsSound, OwnPairs
  <1>2. R!ClaimsProved'
    BY DEF RecInv, R!ClaimsProved
  <1>3. \A s \in Claiming : StepSound(claiming[s])'
    <2> SUFFICES ASSUME NEW s \in Claiming, s # r PROVE StepSound(claiming[s])'
      OBVIOUS
    <2>1. claiming'[s] = claiming[s] /\ StepSound(claiming[s])
      BY DEF RecInv
    <2> QED BY <2>1 DEF StepSound, HasSite, HasSeen, HoldsSite, HoldsGrant, OwnPairs
  <1> QED BY <1>1, <1>2, <1>3 DEF RecInv

LEMMA RecOver ==
  ASSUME RecInv, NEW r \in Claiming, R!End(r), UNCHANGED <<cdn, rec, index, claim, sub, local, seen, grants, events>>
  PROVE  RecInv'
  BY RecEnd, RecQuiet DEF RecInv, RecTypes

(* A request takes its next step with what it has read.                    *)
LEMMA RecGoes ==
  ASSUME RecInv, NEW r \in Claiming, NEW q \in Steps, claiming' = [claiming EXCEPT ![r] = q], StepSound(claiming[r])',
         HoldsSite(q) => \A s \in Claiming \ {r} : HoldsSite(claiming[s]) => claiming[s].site # q.site,
         HoldsGrant(q) => \A s \in Claiming \ {r} : HoldsGrant(claiming[s]) => claiming[s].user # q.user,
         UNCHANGED <<cdn, rec, index, claim, sub, local, grants, events>>,
         seen \subseteq seen', seen' \in SUBSET (User \X Domain \X R!Code)
  PROVE  RecInv'
  <1>1. claiming' \in [Claiming -> Steps] /\ claiming'[r] = q /\ \A s \in Claiming \ {r} : claiming'[s] = claiming[s]
    BY DEF RecInv, RecTypes
  <1>2. Alone'
    BY <1>1, RecAlone DEF RecInv
  <1> QED BY <1>1, <1>2, RecQuiet

LEMMA RecImportRead ==
  ASSUME RecInv, NEW r \in Claiming, R!ImportRead(r)
  PROVE  RecInv'
  <1> DEFINE q == [R!Idle EXCEPT !.pc = "import", !.list = cdn]
  <1>1. q \in Steps /\ q.pc = "import" /\ q.list = cdn /\ cdn \in [Site -> SUBSET Domain]
    BY NoRow DEF R!Idle, Steps, RecInv, RecTypes
  <1>2. claiming' = [claiming EXCEPT ![r] = q] /\ UNCHANGED <<cdn, rec, index, claim, sub, local, seen, grants, events>>
    BY DEF R!ImportRead, R!data
  <1> HIDE DEF q
  <1>3. claiming'[r] = q
    BY <1>2 DEF RecInv, RecTypes
  <1>4. StepSound(claiming[r])'
    BY <1>1, <1>3 DEF StepSound, HasSite, HasSeen, HoldsSite, HoldsGrant
  <1> QED BY <1>1, <1>2, <1>4, RecGoes DEF HoldsSite, HoldsGrant, RecInv, RecTypes

LEMMA RecAskClaim ==
  ASSUME RecInv, NEW r \in Claiming, NEW u \in User, NEW d \in Domain, R!AskClaim(r, u, d)
  PROVE  RecInv'
  <1> DEFINE q == [R!Idle EXCEPT !.pc = "asked", !.user = u, !.site = index[d]]
  <1>0. index[d] # None /\ index[d] \in Site /\ rec[index[d]] # None
    BY DEF R!AskClaim, RecInv, RecTypes, IndexFound
  <1>1. q \in Steps /\ q.pc = "asked" /\ q.user = u /\ q.site = index[d]
    BY <1>0, NoRow DEF R!Idle, Steps
  <1>2. claiming' = [claiming EXCEPT ![r] = q] /\ UNCHANGED <<cdn, rec, index, claim, sub, local, seen, grants, events>>
    BY DEF R!AskClaim, R!data
  <1> HIDE DEF q
  <1>3. claiming'[r] = q
    BY <1>2 DEF RecInv, RecTypes
  <1>4. StepSound(claiming[r])'
    BY <1>0, <1>1, <1>2, <1>3 DEF StepSound, HasSite, HasSeen, HoldsSite, HoldsGrant
  <1> QED BY <1>1, <1>2, <1>4, RecGoes DEF HoldsSite, HoldsGrant, RecInv, RecTypes

LEMMA RecVerify ==
  ASSUME RecInv, NEW r \in Claiming, NEW u \in User, NEW s \in Site, R!Verify(r, u, s)
  PROVE  RecInv'
  <1> DEFINE q == [R!Idle EXCEPT !.pc = "looking", !.user = u, !.site = s, !.code = claim[<<u, s>>].code, !.domains = rec[s].domains]
  <1>0. claim[<<u, s>>] \in ClaimRows /\ rec[s] \in RecRows /\ rec[s] # None
    BY DEF R!Verify, R!Good, RecInv, RecTypes, ClaimFound
  <1>1. q \in Steps /\ q.pc = "looking" /\ q.user = u /\ q.site = s
    BY <1>0, NoRow DEF R!Idle, Steps, ClaimRows, RecRows
  <1>2. claiming' = [claiming EXCEPT ![r] = q] /\ UNCHANGED <<cdn, rec, index, claim, sub, local, seen, grants, events>>
    BY DEF R!Verify, R!data
  <1> HIDE DEF q
  <1>3. claiming'[r] = q
    BY <1>2 DEF RecInv, RecTypes
  <1>4. StepSound(claiming[r])'
    BY <1>0, <1>1, <1>2, <1>3 DEF StepSound, HasSite, HasSeen, HoldsSite, HoldsGrant
  <1> QED BY <1>1, <1>2, <1>4, RecGoes DEF HoldsSite, HoldsGrant, RecInv, RecTypes

LEMMA RecLookup ==
  ASSUME RecInv, NEW r \in Claiming, R!Lookup(r)
  PROVE  RecInv'
  <1>1. UNCHANGED <<cdn, rec, index, claim, sub, local, grants, events>> /\ claiming[r].pc = "looking"
    BY DEF R!Lookup, R!At
  <1>2. claiming[r] \in Steps /\ StepSound(claiming[r]) /\ claiming[r].user \in User /\ claiming[r].site \in Site
        /\ rec[claiming[r].site] # None
    BY <1>1 DEF RecInv, RecTypes, StepSound, HasSite
  <1>3. CASE R!End(r) /\ UNCHANGED seen
    BY <1>1, <1>3, RecOver
  <1>4. CASE /\ claiming' = [claiming EXCEPT ![r].pc = "found"]
             /\ seen' = seen \cup {<<claiming[r].user, d, claiming[r].code>> : d \in claiming[r].domains}
    <2> DEFINE q == [claiming[r] EXCEPT !.pc = "found"]
    <2>1. q \in Steps /\ q.pc = "found" /\ q.user = claiming[r].user /\ q.site = claiming[r].site
          /\ q.code = claiming[r].code /\ q.domains = claiming[r].domains
      BY <1>2 DEF Steps
    <2>2. claiming' = [claiming EXCEPT ![r] = q] /\ claiming'[r] = q
      BY <1>4 DEF RecInv, RecTypes
    <2> HIDE DEF q
    <2>3. StepSound(claiming[r])'
      BY <1>1, <1>2, <1>4, <2>1, <2>2 DEF StepSound, HasSite, HasSeen, HoldsSite, HoldsGrant
    <2>4. seen \subseteq seen' /\ seen' \in SUBSET (User \X Domain \X R!Code)
      BY <1>2, <1>4 DEF RecInv, RecTypes, Steps
    <2> QED BY <1>1, <2>1, <2>2, <2>3, <2>4, RecGoes DEF HoldsSite, HoldsGrant
  <1> QED BY <1>3, <1>4 DEF R!Lookup

LEMMA RecLock ==
  ASSUME RecInv, NEW r \in Claiming, R!Lock(r)
  PROVE  RecInv'
  <1>1. UNCHANGED <<cdn, rec, index, claim, sub, local, seen, grants, events>> /\ claiming[r].pc = "found"
    BY DEF R!Lock, R!At, R!data
  <1>2. claiming[r] \in Steps /\ StepSound(claiming[r]) /\ claiming[r].user \in User /\ claiming[r].site \in Site
        /\ rec[claiming[r].site] # None /\ \A d \in claiming[r].domains : <<claiming[r].user, d, claiming[r].code>> \in seen
    BY <1>1 DEF RecInv, RecTypes, StepSound, HasSite, HasSeen
  <1>3. CASE R!End(r)
    BY <1>1, <1>3, RecOver
  <1>4. CASE /\ R!SameCode(r) /\ R!SameDomains(r) /\ ~R!Foreign(claiming[r].site, claiming[r].user)
             /\ claiming' = [claiming EXCEPT ![r].pc = "locked", ![r].code = claim[<<claiming[r].user, claiming[r].site>>].code]
    <2> DEFINE q == [claiming[r] EXCEPT !.pc = "locked"]
    <2>1. q \in Steps /\ q.pc = "locked" /\ q.user = claiming[r].user /\ q.site = claiming[r].site
          /\ q.code = claiming[r].code /\ q.domains = claiming[r].domains
      BY <1>2 DEF Steps
    <2>2. claim[<<claiming[r].user, claiming[r].site>>].code = claiming[r].code
      BY <1>4 DEF R!SameCode
    <2>3. claiming' = [claiming EXCEPT ![r] = q] /\ claiming'[r] = q
      <3>1. [[claiming[r] EXCEPT !.pc = "locked"] EXCEPT !.code = claiming[r].code] = q
        BY <1>2 DEF Steps
      <3>2. claiming' = [claiming EXCEPT ![r] = [[claiming[r] EXCEPT !.pc = "locked"] EXCEPT !.code = claiming[r].code]]
        BY <1>4, <2>2 DEF RecInv, RecTypes
      <3> QED BY <3>1, <3>2 DEF RecInv, RecTypes
    <2> HIDE DEF q
    <2>4. /\ rec[claiming[r].site].domains = claiming[r].domains /\ rec[claiming[r].site].owner \in {None, claiming[r].user}
          /\ claim[<<claiming[r].user, claiming[r].site>>] # None
      BY <1>4 DEF R!SameDomains, R!Foreign, R!SameCode, R!Good
    <2>5. StepSound(claiming[r])'
      BY <1>1, <1>2, <2>1, <2>3, <2>4 DEF StepSound, HasSite, HasSeen, HoldsSite, HoldsGrant
    <2>6. \A s \in Claiming : HoldsSite(claiming[s]) => claiming[s].site # q.site
      BY <2>1 DEF R!Lock, R!SiteFree, R!At, HoldsSite
    <2> QED BY <1>1, <2>1, <2>3, <2>5, <2>6, RecGoes DEF HoldsGrant, RecInv, RecTypes
  <1> QED BY <1>3, <1>4 DEF R!Lock

LEMMA RecGrant ==
  ASSUME RecInv, NEW r \in Claiming, R!Grant(r)
  PROVE  RecInv'
  <1>1. UNCHANGED <<cdn, rec, index, claim, sub, local, seen, grants, events>> /\ claiming[r].pc = "locked"
    BY DEF R!Grant, R!At, R!data
  <1>2. claiming[r] \in Steps /\ StepSound(claiming[r]) /\ claiming[r].user \in User /\ claiming[r].site \in Site
        /\ rec[claiming[r].site] # None
    BY <1>1 DEF RecInv, RecTypes, StepSound, HasSite
  <1>3. CASE R!End(r)
    BY <1>1, <1>3, RecOver
  <1>4. CASE /\ sub[claiming[r].user] # "ended"
             /\ claiming' = [claiming EXCEPT ![r].pc = "granted", ![r].list = sub[claiming[r].user],
                                             ![r].used = R!Domains(R!Recovered(claiming[r].user))]
    <2> DEFINE l == sub[claiming[r].user]
               n == R!Domains(R!Recovered(claiming[r].user))
               q == [claiming[r] EXCEPT !.pc = "granted", !.list = l, !.used = n]
    <2>1. l \in {"none", "live"} /\ n \in Nat /\ n = Cardinality(OwnPairs(local, claiming[r].user))
      BY <1>2, <1>4, RecDomains, RecPairs DEF RecInv, RecTypes
    <2>2. claiming' = [claiming EXCEPT ![r] = q]
      BY <1>2, <1>4 DEF RecInv, RecTypes
    <2> HIDE DEF l, n
    <2>3. q \in Steps /\ q.pc = "granted" /\ q.user = claiming[r].user /\ q.site = claiming[r].site
          /\ q.code = claiming[r].code /\ q.domains = claiming[r].domains /\ q.list = l /\ q.used = n
      BY <1>2, <2>1 DEF Steps
    <2> HIDE DEF q
    <2>4. claiming'[r] = q
      BY <2>2 DEF RecInv, RecTypes
    <2>5. HoldsSite(claiming[r]) /\ HasSeen(claiming[r])
      BY <1>1 DEF HoldsSite, HasSeen
    <2>6. Cardinality(OwnPairs(local', q.user)) <= q.used
      BY <1>1, <2>1, <2>3
    <2>7. StepSound(claiming[r])'
      <3>1. (HasSite(claiming[r]) => claiming[r].user \in User /\ claiming[r].site \in Site /\ rec[claiming[r].site] # None)'
        BY <1>1, <1>2, <2>3, <2>4 DEF StepSound
      <3>2. (HasSeen(claiming[r]) => \A d \in claiming[r].domains : <<claiming[r].user, d, claiming[r].code>> \in seen)'
        BY <1>1, <1>2, <2>3, <2>4, <2>5 DEF StepSound
      <3>3. (HoldsSite(claiming[r]) => /\ rec[claiming[r].site].domains = claiming[r].domains /\ rec[claiming[r].site].owner \in {None, claiming[r].user}
                                       /\ claim[<<claiming[r].user, claiming[r].site>>] # None)'
        BY <1>1, <1>2, <2>3, <2>4, <2>5 DEF StepSound
      <3> QED BY <2>1, <2>3, <2>4, <2>6, <3>1, <3>2, <3>3 DEF StepSound
    <2>8. \A s \in Claiming \ {r} : HoldsSite(claiming[s]) => claiming[s].site # q.site
      BY <2>3, <2>5 DEF RecInv, Alone
    <2>9. \A s \in Claiming \ {r} : HoldsGrant(claiming[s]) => claiming[s].user # q.user
      BY <2>3 DEF R!Grant, R!UserFree, R!At, HoldsGrant
    <2> QED BY <1>1, <2>2, <2>3, <2>7, <2>8, <2>9, RecGoes DEF RecInv, RecTypes
  <1> QED BY <1>3, <1>4 DEF R!Grant

(* A step that changes rows and leaves the requests as they are, or ends   *)
(* one: what the others know of the rows must still be so.                 *)
LEMMA RecRows1 ==
  ASSUME RecInv, RecTypes', IndexFound', ClaimFound', GrantsSound', R!ClaimsProved',
         UNCHANGED claiming,
         seen \subseteq seen',
         \A s \in Site : rec[s] # None => rec'[s] # None,
         \A v \in User, s \in Site : claim[<<v, s>>] # None => claim'[<<v, s>>] # None,
         \A r \in Claiming : HoldsSite(claiming[r]) => rec'[claiming[r].site] = rec[claiming[r].site],
         \A r \in Claiming : HoldsGrant(claiming[r]) =>
           Cardinality(OwnPairs(local', claiming[r].user)) <= Cardinality(OwnPairs(local, claiming[r].user))
  PROVE  RecInv'
  <1>1. ASSUME NEW r \in Claiming
        PROVE  StepSound(claiming[r])'
    <2>1. StepSound(claiming[r]) /\ claiming'[r] = claiming[r] /\ claiming[r] \in Steps
      BY DEF RecInv, RecTypes
    <2>2. HoldsSite(claiming[r]) => claiming[r].site \in Site /\ claiming[r].user \in User
      BY <2>1 DEF StepSound, HoldsSite, HasSite
    <2>3. HoldsGrant(claiming[r]) => Cardinality(OwnPairs(local', claiming[r].user)) <= claiming[r].used
      <3>1. Cardinality(OwnPairs(local, claiming[r].user)) \in Nat /\ Cardinality(OwnPairs(local', claiming[r].user)) \in Nat
            /\ claiming[r].used \in Nat
        BY <2>1, RecPairs DEF Steps
      <3> QED BY <2>1, <3>1 DEF StepSound
    <2>4. (HasSite(claiming[r]) => claiming[r].user \in User /\ claiming[r].site \in Site /\ rec[claiming[r].site] # None)'
      BY <2>1 DEF StepSound
    <2>5. (HasSeen(claiming[r]) => \A d \in claiming[r].domains : <<claiming[r].user, d, claiming[r].code>> \in seen)'
      BY <2>1 DEF StepSound
    <2>6. (HoldsSite(claiming[r]) => /\ rec[claiming[r].site].domains = claiming[r].domains /\ rec[claiming[r].site].owner \in {None, claiming[r].user}
                                     /\ claim[<<claiming[r].user, claiming[r].site>>] # None)'
      BY <2>1, <2>2 DEF StepSound
    <2> QED BY <2>1, <2>3, <2>4, <2>5, <2>6 DEF StepSound
  <1>2. Alone'
    BY DEF RecInv, Alone
  <1> QED BY <1>1, <1>2 DEF RecInv

LEMMA RecRows2 ==
  ASSUME RecInv, NEW q \in Claiming, R!End(q), RecTypes', IndexFound', ClaimFound', GrantsSound', R!ClaimsProved',
         seen \subseteq seen',
         \A s \in Site : rec[s] # None => rec'[s] # None,
         \A v \in User, s \in Site : claim[<<v, s>>] # None => claim'[<<v, s>>] # None,
         \A r \in Claiming \ {q} : HoldsSite(claiming[r]) => rec'[claiming[r].site] = rec[claiming[r].site],
         \A r \in Claiming \ {q} : HoldsGrant(claiming[r]) =>
           Cardinality(OwnPairs(local', claiming[r].user)) <= Cardinality(OwnPairs(local, claiming[r].user))
  PROVE  RecInv'
  <1>1. ASSUME NEW r \in Claiming \ {q}
        PROVE  StepSound(claiming[r])'
    <2>1. StepSound(claiming[r]) /\ claiming'[r] = claiming[r] /\ claiming[r] \in Steps
      BY RecEnd DEF RecInv, RecTypes
    <2>2. HoldsSite(claiming[r]) => claiming[r].site \in Site /\ claiming[r].user \in User
      BY <2>1 DEF StepSound, HoldsSite, HasSite
    <2>3. HoldsGrant(claiming[r]) => Cardinality(OwnPairs(local', claiming[r].user)) <= claiming[r].used
      <3>1. Cardinality(OwnPairs(local, claiming[r].user)) \in Nat /\ Cardinality(OwnPairs(local', claiming[r].user)) \in Nat
            /\ claiming[r].used \in Nat
        BY <2>1, RecPairs DEF Steps
      <3> QED BY <2>1, <3>1 DEF StepSound
    <2>4. (HasSite(claiming[r]) => claiming[r].user \in User /\ claiming[r].site \in Site /\ rec[claiming[r].site] # None)'
      BY <2>1 DEF StepSound
    <2>5. (HasSeen(claiming[r]) => \A d \in claiming[r].domains : <<claiming[r].user, d, claiming[r].code>> \in seen)'
      BY <2>1 DEF StepSound
    <2>6. (HoldsSite(claiming[r]) => /\ rec[claiming[r].site].domains = claiming[r].domains /\ rec[claiming[r].site].owner \in {None, claiming[r].user}
                                     /\ claim[<<claiming[r].user, claiming[r].site>>] # None)'
      BY <2>1, <2>2 DEF StepSound
    <2> QED BY <2>1, <2>3, <2>4, <2>5, <2>6 DEF StepSound
  <1>2. Alone' /\ StepSound(claiming[q])'
    BY RecEnd
  <1> QED BY <1>1, <1>2 DEF RecInv

LEMMA RecImportWrite ==
  ASSUME RecInv, NEW r \in Claiming, R!ImportWrite(r)
  PROVE  RecInv'
  <1> DEFINE list == claiming[r].list
             I == R!Imported(list)
  <1>1. R!End(r) /\ claiming[r].pc = "import" /\ UNCHANGED <<cdn, claim, sub, local, seen, grants, events>>
    BY DEF R!ImportWrite, R!At
  <1>2. list \in [Site -> SUBSET Domain] /\ claiming[r] \in Steps
    BY <1>1 DEF RecInv, RecTypes, StepSound
  <1>3. \A s \in Claiming : ~HoldsSite(claiming[s])
    <2> SUFFICES ASSUME NEW s \in Claiming, HoldsSite(claiming[s]) PROVE FALSE
      OBVIOUS
    <2>1. claiming[s].site \in Site
      BY DEF RecInv, StepSound, HoldsSite, HasSite
    <2> QED BY <2>1 DEF R!ImportWrite, R!SiteFree, R!At, HoldsSite
  <1>4. rec' = [s \in Site |->
                  IF s \notin I THEN rec[s]
                  ELSE IF rec[s] = None THEN [domains |-> list[s], owner |-> None, by |-> 0]
                  ELSE [rec[s] EXCEPT !.domains = list[s]]]
    BY DEF R!ImportWrite
  <1>5. PICK rank \in R!Ranks(I) : index' = R!Reindexed(list, rank)
    BY DEF R!ImportWrite
  <1>6. I \subseteq Site /\ rank \in [I -> Nat]
    <2>2. R!Cardinality(I) = Cardinality(I) /\ IsFiniteSet(I) /\ I \subseteq Site
      BY SameCardinality, PartsAssumption, FS_Subset DEF R!Imported
    <2>3. Cardinality(I) \in Nat
      BY <2>2, FS_CardinalityType
    <2> QED BY <2>2, <2>3 DEF R!Ranks
  <1>7. /\ \A s \in Site \ I : rec'[s] = rec[s]
        /\ \A s \in I : /\ rec'[s] \in RecRows /\ rec'[s] # None /\ rec'[s].domains = list[s] /\ rec'[s].owner = None
                        /\ rec[s] # None => rec[s].owner = None
    <2>1. \A s \in Site \ I : rec'[s] = rec[s]
      BY <1>4
    <2>2. ASSUME NEW s \in I
          PROVE  /\ rec'[s] \in RecRows /\ rec'[s] # None /\ rec'[s].domains = list[s] /\ rec'[s].owner = None
                 /\ rec[s] # None => rec[s].owner = None
      <3>1. s \in Site /\ list[s] \in SUBSET Domain /\ (rec[s] # None => rec[s] \in RecRows /\ rec[s].owner = None)
        BY <1>2 DEF R!Imported, RecInv, RecTypes
      <3>2. CASE rec[s] = None
        <4>1. rec'[s] = [domains |-> list[s], owner |-> None, by |-> 0]
          BY <1>4, <3>1, <3>2
        <4> QED BY <3>1, <3>2, <4>1, NoRow DEF RecRows
      <3>3. CASE rec[s] # None
        <4>1. rec'[s] = [rec[s] EXCEPT !.domains = list[s]]
          BY <1>4, <3>1, <3>3
        <4> QED BY <3>1, <3>3, <4>1, NoRow DEF RecRows
      <3> QED BY <3>2, <3>3
    <2> QED BY <2>1, <2>2
  <1>8. \A s \in Site : rec[s] # None => rec'[s] # None
    BY <1>6, <1>7
  <1>9. rec' \in [Site -> RecRows \cup {None}]
    <2>1. \A s \in Site : rec'[s] \in RecRows \cup {None}
      BY <1>6, <1>7 DEF RecInv, RecTypes
    <2> QED BY <1>4, <2>1
  <1>10. index' \in [Domain -> Site \cup {None}] /\ IndexFound'
    <2>1. index' = [d \in Domain |->
            LET old == index[d]
                found == {s \in I : d \in list[s] /\ (old \in {None, s} \/ (old \in I /\ rank[old] < rank[s]))} IN
            IF found # {} THEN R!First(found, rank) ELSE IF old \in I THEN None ELSE old]
      BY <1>5 DEF R!Reindexed
    <2>2. ASSUME NEW d \in Domain
          PROVE  \/ index'[d] = None
                 \/ index'[d] \in I /\ d \in list[index'[d]]
                 \/ index'[d] \in Site \ I /\ index'[d] = index[d]
      <3> DEFINE found == {s \in I : d \in list[s] /\ (index[d] \in {None, s} \/ (index[d] \in I /\ rank[index[d]] < rank[s]))}
      <3>1. index[d] \in Site \cup {None}
        BY DEF RecInv, RecTypes
      <3>2. CASE found # {}
        <4>1. R!First(found, rank) \in found
          BY <1>6, <3>2, FirstIn
        <4>2. index'[d] = R!First(found, rank)
          BY <2>1, <3>2
        <4> QED BY <4>1, <4>2
      <3>3. CASE found = {}
        <4>1. index'[d] = IF index[d] \in I THEN None ELSE index[d]
          BY <2>1, <3>3
        <4> QED BY <3>1, <4>1
      <3> QED BY <3>2, <3>3
    <2>3. index' \in [Domain -> Site \cup {None}]
      <3>1. \A d \in Domain : index'[d] \in Site \cup {None}
        BY <1>6, <2>2
      <3> QED BY <2>1, <3>1
    <2>4. ASSUME NEW d \in Domain, index'[d] # None
          PROVE  rec'[index'[d]] # None /\ d \in rec'[index'[d]].domains
      <3>1. CASE index'[d] \in I /\ d \in list[index'[d]]
        BY <1>7, <3>1
      <3>2. CASE index'[d] \in Site \ I /\ index'[d] = index[d]
        <4>1. rec'[index[d]] = rec[index[d]] /\ index[d] # None
          BY <1>7, <2>4, <3>2
        <4> QED BY <3>2, <4>1 DEF RecInv, IndexFound
      <3> QED BY <2>2, <2>4, <3>1, <3>2
    <2> QED BY <2>3, <2>4 DEF IndexFound
  <1>11. RecTypes'
    BY <1>1, <1>9, <1>10, RecEnd DEF RecInv, RecTypes
  <1>12. ClaimFound' /\ GrantsSound'
    BY <1>1, <1>8 DEF RecInv, ClaimFound, GrantsSound, OwnPairs
  <1>13. R!ClaimsProved'
    <2> SUFFICES ASSUME NEW s \in Site, rec'[s] # None, rec'[s].owner # None
                 PROVE  \A d \in rec'[s].domains : <<rec'[s].owner, d, rec'[s].by>> \in seen
      BY <1>1 DEF R!ClaimsProved
    <2>1. s \in Site \ I
      BY <1>7
    <2> QED BY <1>7, <2>1 DEF RecInv, R!ClaimsProved
  <1>14. \A s \in Claiming : ~HoldsGrant(claiming[s])
    BY <1>3 DEF HoldsGrant, HoldsSite
  <1> HIDE DEF list, I
  <1> QED BY <1>1, <1>3, <1>8, <1>10, <1>11, <1>12, <1>13, <1>14, RecRows2

LEMMA RecEdit ==
  ASSUME RecInv, NEW s \in Site, NEW ds \in SUBSET Domain, R!Edit(s, ds)
  PROVE  RecInv'
  <1>1. UNCHANGED <<rec, index, claim, sub, local, claiming, seen, grants>>
        /\ cdn' = [cdn EXCEPT ![s] = ds] /\ events' = events + 1 /\ events < MaxEvents
    BY DEF R!Edit, R!Meanwhile
  <1>2. RecTypes'
    BY <1>1, NoRow DEF RecInv, RecTypes
  <1>3. IndexFound' /\ ClaimFound' /\ GrantsSound' /\ R!ClaimsProved'
    BY <1>1 DEF RecInv, IndexFound, ClaimFound, GrantsSound, OwnPairs, R!ClaimsProved
  <1>4. \A r \in Claiming : Cardinality(OwnPairs(local', claiming[r].user)) <= Cardinality(OwnPairs(local, claiming[r].user))
    BY <1>1, RecPairs
  <1> QED BY <1>1, <1>2, <1>3, <1>4, RecRows1

LEMMA RecMakeClaim ==
  ASSUME RecInv, NEW r \in Claiming, R!MakeClaim(r)
  PROVE  RecInv'
  <1> DEFINE u == claiming[r].user
             s == claiming[r].site
             code1 == IF claim[<<u, s>>] = None THEN 0 ELSE claim[<<u, s>>].code + 1
  <1>1. /\ R!End(r) /\ claiming[r].pc = "asked" /\ code1 \in R!Code
        /\ UNCHANGED <<cdn, rec, index, sub, local, seen, grants, events>>
        /\ claim' = IF R!Foreign(s, u) THEN claim ELSE [claim EXCEPT ![<<u, s>>] = [code |-> code1, good |-> TRUE]]
    BY DEF R!MakeClaim, R!At
  <1>2. u \in User /\ s \in Site /\ rec[s] # None
    BY <1>1 DEF RecInv, StepSound, HasSite
  <1> HIDE DEF u, s, code1
  <1>3. claim' \in [User \X Site -> ClaimRows \cup {None}] /\ ClaimFound'
        /\ \A v \in User, t \in Site : claim[<<v, t>>] # None => claim'[<<v, t>>] # None
    <2>0. [code |-> code1, good |-> TRUE] \in ClaimRows
      BY <1>1 DEF ClaimRows
    <2>1. [code |-> code1, good |-> TRUE] \in ClaimRows /\ [code |-> code1, good |-> TRUE] # None
      BY <2>0, NoRow
    <2>2. CASE claim' = claim
      BY <1>1, <2>2 DEF RecInv, RecTypes, ClaimFound
    <2>3. CASE claim' = [claim EXCEPT ![<<u, s>>] = [code |-> code1, good |-> TRUE]]
      BY <1>1, <1>2, <2>1, <2>3 DEF RecInv, RecTypes, ClaimFound
    <2> QED BY <1>1, <2>2, <2>3
  <1>4. RecTypes'
    BY <1>1, <1>3, RecEnd DEF RecInv, RecTypes
  <1>5. IndexFound' /\ GrantsSound' /\ R!ClaimsProved'
    BY <1>1 DEF RecInv, IndexFound, GrantsSound, OwnPairs, R!ClaimsProved
  <1>6. \A q \in Claiming : Cardinality(OwnPairs(local', claiming[q].user)) <= Cardinality(OwnPairs(local, claiming[q].user))
    BY <1>1, RecPairs
  <1> QED BY <1>1, <1>3, <1>4, <1>5, <1>6, RecRows2

LEMMA RecClaimExpires ==
  ASSUME RecInv, NEW u \in User, NEW s \in Site, R!ClaimExpires(u, s)
  PROVE  RecInv'
  <1>1. UNCHANGED <<cdn, rec, index, sub, local, claiming, seen, grants>> /\ claim[<<u, s>>] # None
        /\ claim' = [claim EXCEPT ![<<u, s>>].good = FALSE] /\ events' = events + 1 /\ events < MaxEvents
    BY DEF R!ClaimExpires, R!Meanwhile, R!Good
  <1>2. claim' \in [User \X Site -> ClaimRows \cup {None}] /\ ClaimFound'
        /\ \A v \in User, t \in Site : claim[<<v, t>>] # None => claim'[<<v, t>>] # None
    <2>1. claim[<<u, s>>] \in ClaimRows /\ claim \in [User \X Site -> ClaimRows \cup {None}]
      BY <1>1 DEF RecInv, RecTypes
    <2>2. [claim[<<u, s>>] EXCEPT !.good = FALSE] \in ClaimRows
      BY <2>1 DEF ClaimRows
    <2>3. claim' = [claim EXCEPT ![<<u, s>>] = [claim[<<u, s>>] EXCEPT !.good = FALSE]]
      BY <1>1, <2>1
    <2>4. claim' \in [User \X Site -> ClaimRows \cup {None}]
      BY <2>1, <2>2, <2>3
    <2>5. \A v \in User, t \in Site : claim'[<<v, t>>] # None <=> claim[<<v, t>>] # None
      BY <1>1, <2>1, <2>2, <2>3, NoRow
    <2> QED BY <1>1, <2>4, <2>5 DEF RecInv, ClaimFound
  <1>3. RecTypes'
    BY <1>1, <1>2, NoRow DEF RecInv, RecTypes
  <1>4. IndexFound' /\ GrantsSound' /\ R!ClaimsProved'
    BY <1>1 DEF RecInv, IndexFound, GrantsSound, OwnPairs, R!ClaimsProved
  <1>5. \A r \in Claiming : Cardinality(OwnPairs(local', claiming[r].user)) <= Cardinality(OwnPairs(local, claiming[r].user))
    BY <1>1, RecPairs
  <1> QED BY <1>1, <1>2, <1>3, <1>4, <1>5, RecRows1

LEMMA RecSubscriptionEnds ==
  ASSUME RecInv, NEW u \in User, R!SubscriptionEnds(u)
  PROVE  RecInv'
  <1>1. UNCHANGED <<cdn, rec, index, claim, local, claiming, seen, grants>>
        /\ sub' = [sub EXCEPT ![u] = "ended"] /\ events' = events + 1 /\ events < MaxEvents
    BY DEF R!SubscriptionEnds, R!Meanwhile
  <1>2. RecTypes' /\ GrantsSound'
    <2>1. sub' \in [User -> {"none", "live", "ended"}] /\ \A v \in User : sub'[v] = "none" => sub[v] = "none"
      BY <1>1 DEF RecInv, RecTypes
    <2>2. RecTypes'
      BY <1>1, <2>1, NoRow DEF RecInv, RecTypes
    <2>3. GrantsSound'
      BY <1>1, <2>1 DEF RecInv, GrantsSound
    <2> QED BY <2>2, <2>3
  <1>3. IndexFound' /\ ClaimFound' /\ R!ClaimsProved'
    BY <1>1 DEF RecInv, IndexFound, ClaimFound, R!ClaimsProved
  <1>4. \A r \in Claiming : Cardinality(OwnPairs(local', claiming[r].user)) <= Cardinality(OwnPairs(local, claiming[r].user))
    BY <1>1, RecPairs
  <1> QED BY <1>1, <1>2, <1>3, <1>4, RecRows1

LEMMA RecFewer ==
  ASSUME NEW f, NEW g, NEW u, OwnPairs(g, u) \subseteq OwnPairs(f, u)
  PROVE  Cardinality(OwnPairs(g, u)) <= Cardinality(OwnPairs(f, u))
  BY RecPairs, FS_Subset

LEMMA RecDeleteSite ==
  ASSUME RecInv, NEW s \in Site, R!DeleteSite(s)
  PROVE  RecInv'
  <1>1. UNCHANGED <<rec, index, claim, sub, claiming, seen, grants>> /\ events' = events + 1 /\ events < MaxEvents
        /\ local' = [local EXCEPT ![s] = None] /\ cdn' = [cdn EXCEPT ![s] = {}]
    BY DEF R!DeleteSite, R!Meanwhile
  <1>2. RecTypes'
    BY <1>1, NoRow DEF RecInv, RecTypes
  <1>3. \A u : Cardinality(OwnPairs(local', u)) <= Cardinality(OwnPairs(local, u))
    <2>1. \A u : OwnPairs(local', u) \subseteq OwnPairs(local, u)
      BY <1>1 DEF OwnPairs, RecInv, RecTypes
    <2> QED BY <2>1, RecFewer
  <1>4. GrantsSound'
    <2>1. \A u \in User : /\ Cardinality(OwnPairs(local', u)) \in Nat /\ Cardinality(OwnPairs(local, u)) \in Nat
                          /\ Cardinality(OwnPairs(local, u)) <= Limit /\ (sub[u] = "none" => grants[u] = 0)
      BY RecPairs DEF RecInv, GrantsSound
    <2>2. \A u \in User : Cardinality(OwnPairs(local', u)) <= Limit
      BY <1>3, <2>1, NoRow
    <2> QED BY <1>1, <2>1, <2>2 DEF GrantsSound
  <1>5. IndexFound' /\ ClaimFound' /\ R!ClaimsProved'
    BY <1>1 DEF RecInv, IndexFound, ClaimFound, R!ClaimsProved
  <1> QED BY <1>1, <1>2, <1>3, <1>4, <1>5, RecRows1

(* The plan has room for the domains of a site that is new here.           *)
LEMMA RecRoom ==
  ASSUME NEW s \in Site, NEW u \in User, NEW ds \in SUBSET Domain, NEW f, NEW g, f[s] = None, g[s] # None,
         \A t \in Site \ {s} : g[t] = f[t], g[s].domains = ds, g[s].owner = u
  PROVE  /\ Cardinality(OwnPairs(g, u)) <= Cardinality(OwnPairs(f, u)) + Cardinality(ds)
         /\ \A v \in User \ {u} : OwnPairs(g, v) = OwnPairs(f, v)
  <1>1. IsFiniteSet(ds) /\ Cardinality(ds) \in Nat /\ IsFiniteSet(OwnPairs(f, u)) /\ Cardinality(OwnPairs(f, u)) \in Nat
    BY PartsAssumption, FS_Subset, FS_CardinalityType, RecPairs
  <1>2. IsFiniteSet({s}) /\ Cardinality({s}) = 1
    BY FS_Singleton
  <1>3. IsFiniteSet({s} \X ds) /\ Cardinality({s} \X ds) = Cardinality(ds)
    <2>1. IsFiniteSet({s} \X ds) /\ Cardinality({s} \X ds) = Cardinality({s}) * Cardinality(ds)
      BY <1>1, <1>2, FS_Product
    <2> QED BY <1>1, <1>2, <2>1
  <1>4. OwnPairs(g, u) \subseteq OwnPairs(f, u) \cup ({s} \X ds)
    BY DEF OwnPairs
  <1>5. /\ IsFiniteSet(OwnPairs(f, u) \cup ({s} \X ds))
        /\ Cardinality(OwnPairs(f, u) \cup ({s} \X ds)) =
             Cardinality(OwnPairs(f, u)) + Cardinality({s} \X ds) - Cardinality(OwnPairs(f, u) \cap ({s} \X ds))
    BY <1>1, <1>3, FS_Union
  <1>6. Cardinality(OwnPairs(f, u) \cap ({s} \X ds)) \in Nat
    <2>1. OwnPairs(f, u) \cap ({s} \X ds) \subseteq OwnPairs(f, u)
      OBVIOUS
    <2> QED BY <1>1, <2>1, FS_Subset, FS_CardinalityType
  <1>7. Cardinality(OwnPairs(g, u)) <= Cardinality(OwnPairs(f, u) \cup ({s} \X ds)) /\ Cardinality(OwnPairs(g, u)) \in Nat
    BY <1>4, <1>5, FS_Subset, RecPairs
  <1>8. ASSUME NEW v \in User \ {u}
        PROVE  OwnPairs(g, v) = OwnPairs(f, v)
    <2>1. \A t \in Site : (g[t] # None /\ g[t].owner = v) <=> (f[t] # None /\ f[t].owner = v)
      OBVIOUS
    <2>2. \A t \in Site : f[t] # None => g[t] = f[t]
      OBVIOUS
    <2> QED BY <2>1, <2>2 DEF OwnPairs
  <1>9. Cardinality(OwnPairs(f, u) \cup ({s} \X ds)) <= Cardinality(OwnPairs(f, u)) + Cardinality(ds)
    BY <1>1, <1>3, <1>5, <1>6
  <1>10. Cardinality(OwnPairs(f, u) \cup ({s} \X ds)) \in Nat
    BY <1>5, FS_CardinalityType
  <1> QED BY <1>1, <1>7, <1>8, <1>9, <1>10

(* A site is given to the customer who has shown all of its domains.       *)
LEMMA RecActivated ==
  ASSUME RecInv, NEW r \in Claiming, R!End(r), NEW u \in User, NEW s \in Site, HoldsSite(claiming[r]), s = claiming[r].site,
         rec[s].domains = claiming[r].domains, rec[s] # None,
         \A d \in claiming[r].domains : <<u, d, claiming[r].code>> \in seen,
         rec' \in [Site -> RecRows \cup {None}], rec'[s] # None, rec'[s].domains = rec[s].domains,
         rec'[s].owner = u, rec'[s].by = claiming[r].code, \A t \in Site \ {s} : rec'[t] = rec[t],
         claim' \in [User \X Site -> ClaimRows \cup {None}],
         \A v \in User, t \in Site : claim'[<<v, t>>] # None <=> claim[<<v, t>>] # None,
         sub' \in [User -> {"none", "live", "ended"}], grants' \in [User -> 0..1],
         local' \in [Site -> SiteRows \cup {None}], GrantsSound',
         \A q \in Claiming \ {r} : HoldsGrant(claiming[q]) =>
           Cardinality(OwnPairs(local', claiming[q].user)) <= Cardinality(OwnPairs(local, claiming[q].user)),
         UNCHANGED <<cdn, index, seen, events>>
  PROVE  RecInv'
  <1>1. RecTypes'
    BY RecEnd DEF RecInv, RecTypes
  <1>2. IndexFound'
    BY DEF RecInv, RecTypes, IndexFound
  <1>3. ClaimFound'
    BY DEF RecInv, ClaimFound
  <1>4. R!ClaimsProved'
    <2> SUFFICES ASSUME NEW t \in Site, rec'[t] # None, rec'[t].owner # None
                 PROVE  \A d \in rec'[t].domains : <<rec'[t].owner, d, rec'[t].by>> \in seen
      BY DEF R!ClaimsProved
    <2> QED BY DEF RecInv, R!ClaimsProved
  <1>5. \A q \in Claiming \ {r} : HoldsSite(claiming[q]) => rec'[claiming[q].site] = rec[claiming[q].site]
    <2> SUFFICES ASSUME NEW q \in Claiming \ {r}, HoldsSite(claiming[q]) PROVE rec'[claiming[q].site] = rec[claiming[q].site]
      OBVIOUS
    <2>1. claiming[q].site \in Site \ {s}
      BY DEF RecInv, Alone, StepSound, HasSite, HoldsSite
    <2> QED BY <2>1
  <1> QED BY <1>1, <1>2, <1>3, <1>4, <1>5, RecRows2

LEMMA RecActivate ==
  ASSUME RecInv, NEW r \in Claiming, R!Activate(r)
  PROVE  RecInv'
  <1> DEFINE u == claiming[r].user
             s == claiming[r].site
             new == local[s] = None
             fits == IF new THEN claiming[r].used + R!Cardinality(rec[s].domains) <= Limit ELSE local[s].owner = u
             once == claiming[r].list = "live" \/ sub[u] = "none"
  <1>1. R!End(r) /\ claiming[r].pc = "granted" /\ HoldsSite(claiming[r]) /\ HoldsGrant(claiming[r]) /\ HasSite(claiming[r])
        /\ HasSeen(claiming[r])
    BY DEF R!Activate, R!At, HoldsSite, HoldsGrant, HasSite, HasSeen
  <1>2. CASE UNCHANGED <<cdn, rec, index, claim, sub, local, seen, grants, events>>
    BY <1>1, <1>2, RecOver
  <1>3. CASE /\ fits /\ once
             /\ rec' = [rec EXCEPT ![s].owner = u, ![s].by = claiming[r].code]
             /\ claim' = [claim EXCEPT ![<<u, s>>].good = FALSE]
             /\ sub' = [sub EXCEPT ![u] = IF claiming[r].list = "none" THEN "live" ELSE @]
             /\ grants' = [grants EXCEPT ![u] = IF claiming[r].list = "none" THEN @ + 1 ELSE @]
             /\ local' = IF new THEN [local EXCEPT ![s] = [owner |-> u, domains |-> rec[s].domains, recovered |-> TRUE]] ELSE local
             /\ UNCHANGED <<cdn, index, seen, events>>
    <2>0. StepSound(claiming[r]) /\ claiming[r] \in Steps
      BY DEF RecInv, RecTypes
    <2>1. /\ u \in User /\ s \in Site /\ rec[s] # None /\ rec[s].domains = claiming[r].domains /\ rec[s].owner \in {None, u}
          /\ \A d \in claiming[r].domains : <<u, d, claiming[r].code>> \in seen
          /\ claiming[r].list \in {"none", "live"} /\ Cardinality(OwnPairs(local, u)) <= claiming[r].used
          /\ claiming[r].code \in R!Code /\ claiming[r].used \in Nat
      BY <1>1, <2>0 DEF StepSound, Steps
    <2>2. rec[s] \in RecRows /\ rec \in [Site -> RecRows \cup {None}] /\ claim \in [User \X Site -> ClaimRows \cup {None}]
          /\ local \in [Site -> SiteRows \cup {None}] /\ sub \in [User -> {"none", "live", "ended"}] /\ grants \in [User -> 0..1]
      BY <2>1 DEF RecInv, RecTypes
    <2>3. /\ rec' \in [Site -> RecRows \cup {None}] /\ rec'[s] # None /\ rec'[s].domains = rec[s].domains
          /\ rec'[s].owner = u /\ rec'[s].by = claiming[r].code /\ \A t \in Site \ {s} : rec'[t] = rec[t]
      <3> DEFINE q == [rec[s] EXCEPT !.owner = u, !.by = claiming[r].code]
      <3>1. q \in RecRows /\ q.domains = rec[s].domains /\ q.owner = u /\ q.by = claiming[r].code
        BY <2>1, <2>2 DEF RecRows
      <3>2. rec' = [rec EXCEPT ![s] = q]
        BY <1>3, <2>1, <2>2
      <3> HIDE DEF q
      <3> QED BY <2>1, <2>2, <3>1, <3>2, NoRow
    <2>4. claim' \in [User \X Site -> ClaimRows \cup {None}]
          /\ \A v \in User, t \in Site : claim'[<<v, t>>] # None <=> claim[<<v, t>>] # None
      <3>1. <<u, s>> \in User \X Site /\ claim[<<u, s>>] # None /\ claim[<<u, s>>] \in ClaimRows
        BY <1>1, <2>0, <2>1, <2>2 DEF StepSound
      <3>2. [claim[<<u, s>>] EXCEPT !.good = FALSE] \in ClaimRows
        BY <3>1 DEF ClaimRows
      <3>3. claim' = [claim EXCEPT ![<<u, s>>] = [claim[<<u, s>>] EXCEPT !.good = FALSE]]
        BY <1>3, <2>2, <3>1
      <3> HIDE DEF u, s
      <3> QED BY <2>2, <3>1, <3>2, <3>3, NoRow
    <2>5. sub' \in [User -> {"none", "live", "ended"}] /\ grants' \in [User -> 0..1]
          /\ \A v \in User : sub'[v] = "none" => grants'[v] = 0
      <3>1. claiming[r].list = "none" => sub[u] = "none" /\ grants[u] = 0
        BY <1>3, <2>1 DEF RecInv, GrantsSound
      <3>2. sub' = [sub EXCEPT ![u] = IF claiming[r].list = "none" THEN "live" ELSE sub[u]]
        BY <1>3
      <3>3. grants' = [grants EXCEPT ![u] = IF claiming[r].list = "none" THEN grants[u] + 1 ELSE grants[u]]
        BY <1>3
      <3>4. \A v \in User : sub[v] = "none" => grants[v] = 0
        BY DEF RecInv, GrantsSound
      <3> HIDE DEF u, s
      <3>5. CASE claiming[r].list = "none"
        <4>1. sub' = [sub EXCEPT ![u] = "live"] /\ grants' = [grants EXCEPT ![u] = 1]
          BY <2>1, <2>2, <3>1, <3>2, <3>3, <3>5
        <4> QED BY <2>1, <2>2, <3>4, <4>1
      <3>6. CASE claiming[r].list # "none"
        <4>1. sub' = sub /\ grants' = grants
          BY <2>1, <2>2, <3>2, <3>3, <3>6
        <4> QED BY <2>2, <3>4, <4>1
      <3> QED BY <3>5, <3>6
    <2>a. s = claiming[r].site /\ R!End(r) /\ HoldsSite(claiming[r]) /\ UNCHANGED <<cdn, index, seen, events>>
      BY <1>1, <1>3
    <2>b. /\ u \in User /\ s \in Site /\ rec[s] # None /\ rec[s].domains = claiming[r].domains
          /\ \A d \in claiming[r].domains : <<u, d, claiming[r].code>> \in seen
      BY <2>1
    <2>6. CASE ~new
      <3>1. local' = local
        BY <1>3, <2>6
      <3>2. GrantsSound'
        BY <2>5, <3>1 DEF RecInv, GrantsSound
      <3>3. \A q \in Claiming \ {r} : HoldsGrant(claiming[q]) =>
              Cardinality(OwnPairs(local', claiming[q].user)) <= Cardinality(OwnPairs(local, claiming[q].user))
        BY <3>1, RecPairs
      <3>4. local' \in [Site -> SiteRows \cup {None}]
        BY <2>2, <3>1
      <3> HIDE DEF u, s, new, fits, once
      <3> QED BY <2>b, <2>3, <2>4, <2>5, <2>a, <3>2, <3>3, <3>4, RecActivated
    <2>7. CASE new
      <3>1. local' = [local EXCEPT ![s] = [owner |-> u, domains |-> rec[s].domains, recovered |-> TRUE]]
        BY <1>3, <2>7
      <3>2. [owner |-> u, domains |-> rec[s].domains, recovered |-> TRUE] \in SiteRows /\ rec[s].domains \in SUBSET Domain
        BY <2>1, <2>2 DEF SiteRows, RecRows
      <3>3. local' \in [Site -> SiteRows \cup {None}] /\ local'[s] # None /\ local'[s].owner = u /\ local'[s].domains = rec[s].domains
            /\ local[s] = None /\ \A t \in Site \ {s} : local'[t] = local[t]
        BY <2>1, <2>2, <2>7, <3>1, <3>2, NoRow
      <3>4. claiming[r].used + Cardinality(rec[s].domains) <= Limit
        BY <1>3, <2>7, SameCardinality
      <3> HIDE DEF u, s, new, fits, once
      <3>5. /\ Cardinality(OwnPairs(local', u)) <= Cardinality(OwnPairs(local, u)) + Cardinality(rec[s].domains)
            /\ \A v \in User \ {u} : OwnPairs(local', v) = OwnPairs(local, v)
        BY <2>1, <3>2, <3>3, RecRoom
      <3>6. Cardinality(rec[s].domains) \in Nat
        BY <3>2, PartsAssumption, FS_Subset, FS_CardinalityType
      <3>7. Cardinality(OwnPairs(local', u)) <= Limit
        BY <2>1, <3>4, <3>5, <3>6, RecPairs, NoRow
      <3>8. GrantsSound'
        BY <2>5, <3>5, <3>7 DEF RecInv, GrantsSound
      <3>9. \A q \in Claiming \ {r} : HoldsGrant(claiming[q]) =>
              Cardinality(OwnPairs(local', claiming[q].user)) <= Cardinality(OwnPairs(local, claiming[q].user))
        <4> SUFFICES ASSUME NEW q \in Claiming \ {r}, HoldsGrant(claiming[q])
                     PROVE  Cardinality(OwnPairs(local', claiming[q].user)) <= Cardinality(OwnPairs(local, claiming[q].user))
          OBVIOUS
        <4>1. claiming[q].user \in User \ {u}
          BY <1>1 DEF RecInv, Alone, StepSound, HasSite, HoldsGrant, u
        <4> QED BY <3>5, <4>1, RecPairs
      <3> QED BY <2>b, <2>3, <2>4, <2>5, <2>a, <3>3, <3>8, <3>9, RecActivated
    <2> QED BY <2>6, <2>7
  <1> QED BY <1>2, <1>3 DEF R!Activate, R!data

LEMMA RecNext ==
  ASSUME RecInv, R!Next \/ UNCHANGED recovery
  PROVE  RecInv'
  <1>1. CASE UNCHANGED recovery
    <2>1. UNCHANGED <<cdn, rec, index, claim, sub, local, claiming, seen, grants, events>>
      BY <1>1 DEF recovery
    <2>2. RecTypes' /\ IndexFound' /\ ClaimFound' /\ R!ClaimsProved' /\ GrantsSound'
      BY <2>1 DEF RecInv, RecTypes, IndexFound, ClaimFound, R!ClaimsProved, GrantsSound
    <2>3. \A r \in Claiming : Cardinality(OwnPairs(local', claiming[r].user)) <= Cardinality(OwnPairs(local, claiming[r].user))
      BY <2>1, RecPairs
    <2> QED BY <2>1, <2>2, <2>3, RecRows1
  <1> QED BY <1>1, RecImportRead, RecImportWrite, RecMakeClaim, RecLookup, RecLock, RecGrant, RecActivate, RecAskClaim, RecVerify,
             RecDeleteSite, RecEdit, RecSubscriptionEnds, RecClaimExpires DEF R!Next

LEMMA RecSound ==
  ASSUME RecInv
  PROVE  R!TypeOK /\ R!OnePlan /\ R!ClaimsProved
  <1>1. R!OnePlan
    <2>1. \A u \in User : grants[u] <= 1
      BY DEF RecInv, RecTypes
    <2> QED BY <2>1, RecDomains DEF RecInv, GrantsSound, R!OnePlan
  <1>2. R!TypeOK
    <2>1. \A s \in Site : rec[s] = None \/ (rec[s].domains \in SUBSET Domain /\ rec[s].owner \in User \cup {None} /\ rec[s].by \in R!Code)
      BY DEF RecInv, RecTypes, RecRows
    <2>2. \A u \in User, s \in Site : claim[<<u, s>>] = None \/
            (claim[<<u, s>>].code \in R!Code /\ claim[<<u, s>>].good \in BOOLEAN)
      BY DEF RecInv, RecTypes, ClaimRows
    <2>3. \A s \in Site : local[s] = None \/ (local[s].owner \in User /\ local[s].domains \in SUBSET Domain)
      BY DEF RecInv, RecTypes, SiteRows
    <2>4. \A r \in Claiming : claiming[r].pc \in {"idle", "asked", "looking", "found", "locked", "granted", "import", "done"}
      BY DEF RecInv, RecTypes, Steps
    <2>5. grants \in [User -> 0..2]
      BY DEF RecInv, RecTypes
    <2> QED BY <2>1, <2>2, <2>3, <2>4, <2>5 DEF RecInv, RecTypes, IndexFound, R!TypeOK
  <1> QED BY <1>1, <1>2 DEF RecInv

(* A row that has an owner is changed by nobody but a claim of the owner.  *)
LEMMA RecFinal ==
  ASSUME RecInv, R!Next \/ UNCHANGED recovery, NEW s \in Site, rec[s] # None, rec[s].owner # None
  PROVE  rec'[s].owner = rec[s].owner /\ rec'[s].domains = rec[s].domains
  <1>0. rec \in [Site -> RecRows \cup {None}] /\ rec[s] \in RecRows
    BY DEF RecInv, RecTypes
  <1>1. UNCHANGED rec => rec'[s].owner = rec[s].owner /\ rec'[s].domains = rec[s].domains
    OBVIOUS
  <1>2. UNCHANGED recovery => UNCHANGED rec
    BY DEF recovery
  <1>3. \A r, u, t, d :
          /\ R!ImportRead(r) => UNCHANGED rec
          /\ R!MakeClaim(r) => UNCHANGED rec
          /\ R!Lookup(r) => UNCHANGED rec
          /\ R!Lock(r) => UNCHANGED rec
          /\ R!Grant(r) => UNCHANGED rec
          /\ R!AskClaim(r, u, d) => UNCHANGED rec
          /\ R!Verify(r, u, t) => UNCHANGED rec
          /\ R!DeleteSite(t) => UNCHANGED rec
          /\ R!Edit(t, d) => UNCHANGED rec
          /\ R!SubscriptionEnds(u) => UNCHANGED rec
          /\ R!ClaimExpires(u, t) => UNCHANGED rec
    BY DEF R!ImportRead, R!MakeClaim, R!Lookup, R!Lock, R!Grant, R!AskClaim, R!Verify, R!DeleteSite, R!Edit, R!SubscriptionEnds,
           R!ClaimExpires, R!data
  <1>4. ASSUME NEW r \in Claiming, R!ImportWrite(r)
        PROVE  rec'[s] = rec[s]
    <2>1. s \notin R!Imported(claiming[r].list)
      BY DEF R!Imported
    <2> QED BY <1>4, <2>1 DEF R!ImportWrite
  <1>5. ASSUME NEW r \in Claiming, R!Activate(r)
        PROVE  rec'[s].owner = rec[s].owner /\ rec'[s].domains = rec[s].domains
    <2>1. claiming[r].site \in Site /\ rec[claiming[r].site].owner \in {None, claiming[r].user}
      BY <1>5 DEF R!Activate, R!At, RecInv, StepSound, HoldsSite, HasSite
    <2>2. UNCHANGED rec \/ rec' = [rec EXCEPT ![claiming[r].site].owner = claiming[r].user, ![claiming[r].site].by = claiming[r].code]
      BY <1>5 DEF R!Activate, R!data
    <2>3. CASE claiming[r].site # s
      BY <1>0, <2>1, <2>2, <2>3
    <2>4. CASE claiming[r].site = s /\ rec' = [rec EXCEPT ![s].owner = claiming[r].user, ![s].by = claiming[r].code]
      <3>1. rec'[s] = [[rec[s] EXCEPT !.owner = claiming[r].user] EXCEPT !.by = claiming[r].code]
        BY <1>0, <2>4
      <3>2. claiming[r].user = rec[s].owner
        BY <2>1, <2>4
      <3> QED BY <1>0, <3>1, <3>2 DEF RecRows
    <2> QED BY <1>1, <2>2, <2>3, <2>4
  <1> QED BY <1>1, <1>2, <1>3, <1>4, <1>5 DEF R!Next

-----------------------------------------------------------------------------
(* Accounts.  A row of codes agrees with the history of its code, and a    *)
(* request that holds a row has the row, or what the row was.              *)
AccSteps == [pc : {"idle", "asked", "stored", "read", "invited", "done"}, slot : Slot \cup {None}, row : Row \cup {None},
             user : User \cup {None}, email : Email \cup {None}, invited : BOOLEAN, code : 0..MaxCodes]

Reads(q) == q.pc \in {"read", "invited"}
Holds(q) == Reads(q) /\ q.slot # None
Sends(q) == q.pc \in {"asked", "stored"}

RowFits(lg, s, w) ==
  /\ w.code \in 1..Len(lg) /\ lg[w.code].kind = s[1] /\ lg[w.code].to = w.email
  /\ lg[w.code].uses = 0 /\ lg[w.code].wrong = w.tries
  /\ s[1] = "mfa" => s[2] = w.code

TokensFit(tk, lg) ==
  /\ \A s \in Slot : tk[s] # None => RowFits(lg, s, tk[s])
  /\ \A s, t \in Slot : tk[s] # None /\ tk[t] # None /\ tk[s].code = tk[t].code => s = t

HeldFits(tk, lg, q) ==
  /\ q.slot \in Slot /\ q.row \in Row /\ RowFits(lg, q.slot, q.row) /\ q.row.tries < MaxTries
  /\ q.user = q.row.user /\ q.email = q.row.email /\ tk[q.slot] \in {q.row, None}
  /\ \A t \in Slot : tk[t] # None /\ tk[t].code = q.row.code => t = q.slot

HoldersFit(tk, pr, lg) ==
  /\ \A r \in Req : Holds(pr[r]) => HeldFits(tk, lg, pr[r])
  /\ \A r, t \in Req : Holds(pr[r]) /\ Holds(pr[t]) /\ pr[r].row.code = pr[t].row.code => r = t

LogSound(lg) ==
  /\ lg \in Seq(Record) /\ Len(lg) <= MaxCodes
  /\ \A c \in 1..Len(lg) : lg[c].uses <= 1 /\ lg[c].wrong <= MaxTries

(* Who sends a mail has an address and a row to send the code of; who      *)
(* registers without a code has a name and an address.                     *)
AskSound(q, n) ==
  /\ Sends(q) => /\ q.slot \in Slot /\ q.email \in Email /\ q.slot[1] \in {"register", "reset", "change"}
                 /\ q.slot[1] = "register" => q.slot = <<"register", q.email>>
                 /\ q.slot[1] # "reset" => q.user \in User
  /\ q.pc = "stored" => q.code \in 1..n
  /\ Reads(q) /\ q.slot = None => q.row = None /\ q.user \in User /\ q.email \in Email

InviteHeld ==
  /\ \A r, t \in Req : proc[r].pc = "invited" /\ proc[t].pc = "invited" => r = t
  /\ \A r \in Req : proc[r].pc = "invited" => Usable
  /\ IsFiniteSet(invite.members) /\ \A u \in invite.members : user[u].there

(* While an address has its cooldown for the mail that is being sent, its  *)
(* registration holds the code of that mail, or none.                      *)
CoolHeld ==
  \A r \in Req :
    /\ Sends(proc[r]) => cool[proc[r].email] = r
    /\ proc[r].pc = "stored" /\ proc[r].slot[1] = "register" /\ token[proc[r].slot] # None => token[proc[r].slot].code = proc[r].code

(* A code that was not used, nor taken back, is in its row.                *)
Stands(tk, lg) ==
  \A c \in 1..Len(lg) :
    lg[c].uses = 0 /\ ~lg[c].over /\ lg[c].kind # "change" => \E s \in Slot : tk[s] # None /\ tk[s].code = c

AccTypes ==
  /\ user \in [User -> [there : BOOLEAN, email : Email \cup {None}, verified : BOOLEAN, active : BOOLEAN]]
  /\ token \in [Slot -> Row \cup {None}] /\ proc \in [Req -> AccSteps] /\ cool \in [Email -> Req \cup {None}]
  /\ invite \in [used : 0..MaxUses, disabled : BOOLEAN, members : SUBSET User]

AccInv ==
  /\ AccTypes /\ LogSound(log) /\ TokensFit(token, log) /\ HoldersFit(token, proc, log)
  /\ (\A r \in Req : AskSound(proc[r], Len(log)))
  /\ InvitesSound /\ InviteHeld /\ AddressProved
  /\ (MailInTime => CoolHeld /\ Stands(token, log))

LEMMA AccNone ==
  /\ None \notin User /\ None \notin Email /\ None \notin Req /\ None \notin Slot /\ None \notin Row
  /\ MaxTries \in Nat \ {0} /\ MaxUses \in Nat \ {0} /\ MaxCodes \in Nat
  BY PartsAssumption, NoneAssumption, BoundsAssumption

LEMMA SlotKinds ==
  ASSUME NEW s \in Slot
  PROVE  /\ s[1] \in {"register", "reset", "change", "mfa"} /\ s = <<s[1], s[2]>>
         /\ s[1] = "mfa" => s[2] \in Code
  BY DEF Slot

LEMMA AccInit ==
  ASSUME Init
  PROVE  AccInv
  <1>1. /\ token = [s \in Slot |-> None] /\ proc = [r \in Req |-> Idle] /\ cool = [e \in Email |-> None]
        /\ invite = [used |-> 0, disabled |-> FALSE, members |-> {}] /\ log = <<>>
    BY DEF Init
  <1>2. AccTypes /\ \A u \in User : ~user[u].verified
    <2>1. PICK made \in SUBSET User, email \in [User -> Email \cup {None}] :
            user = [u \in User |-> [there |-> u \in made, email |-> email[u], verified |-> FALSE, active |-> u \in made]]
      BY DEF Init
    <2>2. proc \in [Req -> AccSteps]
      BY <1>1, AccNone DEF Idle, AccSteps
    <2>3. invite \in [used : 0..MaxUses, disabled : BOOLEAN, members : SUBSET User]
      BY <1>1, AccNone
    <2>4. user \in [User -> [there : BOOLEAN, email : Email \cup {None}, verified : BOOLEAN, active : BOOLEAN]]
      <3>1. \A u \in User : (u \in made) \in BOOLEAN
        OBVIOUS
      <3> QED BY <2>1, <3>1
    <2> QED BY <1>1, <2>1, <2>2, <2>3, <2>4 DEF AccTypes
  <1>3. LogSound(log) /\ Len(log) = 0
    BY <1>1, AccNone DEF LogSound
  <1>4. \A r \in Req : proc[r].pc = "idle"
    BY <1>1 DEF Idle
  <1>5. TokensFit(token, log) /\ HoldersFit(token, proc, log) /\ Stands(token, log)
    BY <1>1, <1>3, <1>4 DEF TokensFit, HoldersFit, Stands, Holds, Reads
  <1>6. (\A r \in Req : AskSound(proc[r], Len(log))) /\ CoolHeld
    BY <1>4 DEF AskSound, CoolHeld, Sends, Reads
  <1>7. InvitesSound /\ InviteHeld
    BY <1>1, <1>4, FS_EmptySet, AccNone DEF InvitesSound, InviteHeld
  <1>8. AddressProved
    BY <1>2 DEF AddressProved
  <1> QED BY <1>2, <1>3, <1>5, <1>6, <1>7, <1>8 DEF AccInv

(* What a step does to the history: the codes in C are used or tried, any  *)
(* may be mailed or taken back, and new ones follow.                       *)
Grows(lg, lg2, C) ==
  /\ Len(lg) <= Len(lg2)
  /\ \A c \in 1..Len(lg) :
       /\ lg2[c].kind = lg[c].kind /\ lg2[c].to = lg[c].to
       /\ (lg[c].mailed => lg2[c].mailed) /\ (lg[c].over => lg2[c].over) /\ (lg[c].uses > 0 => lg2[c].uses > 0)
       /\ lg2[c].uses = 0 => lg[c].uses = 0
       /\ c \notin C => lg2[c].uses = lg[c].uses /\ lg2[c].wrong = lg[c].wrong

LEMMA LogGrows ==
  ASSUME NEW lg, NEW lg2, NEW C, LogSound(lg), Len(lg2) = Len(lg), lg2 \in Seq(Record),
         \A c \in 1..Len(lg) :
           /\ lg2[c].kind = lg[c].kind /\ lg2[c].to = lg[c].to
           /\ (lg[c].mailed => lg2[c].mailed) /\ (lg[c].over => lg2[c].over)
           /\ c \notin C => lg2[c].uses = lg[c].uses /\ lg2[c].wrong = lg[c].wrong,
         \A c \in 1..Len(lg) : c \in C => lg[c].uses <= lg2[c].uses /\ lg2[c].uses <= 1 /\ lg2[c].wrong <= MaxTries
  PROVE  LogSound(lg2) /\ Grows(lg, lg2, C)
  <1>1. \A c \in 1..Len(lg) : lg[c] \in Record /\ lg2[c] \in Record
    BY DEF LogSound
  <1>2. \A c \in 1..Len(lg) : lg[c].uses \in 0..2 /\ lg2[c].uses \in 0..2
    BY <1>1 DEF Record
  <1>3. LogSound(lg2)
    BY <1>2 DEF LogSound
  <1>4. Grows(lg, lg2, C)
    <2>1. Len(lg) \in Nat
      BY DEF LogSound
    <2> QED BY <1>2, <2>1 DEF Grows
  <1> QED BY <1>3, <1>4

LEMMA LogSame ==
  ASSUME NEW lg, LogSound(lg)
  PROVE  Grows(lg, lg, {})
  BY DEF LogSound, Grows

LEMMA LogOver ==
  ASSUME NEW lg, LogSound(lg), NEW C
  PROVE  /\ LogSound(Over(C, lg)) /\ Grows(lg, Over(C, lg), {}) /\ Len(Over(C, lg)) = Len(lg) /\ Over(C, lg) \in Seq(Record)
         /\ \A c \in 1..Len(lg) : /\ Over(C, lg)[c].over <=> c \in C \/ lg[c].over
                                  /\ Over(C, lg)[c].uses = lg[c].uses /\ Over(C, lg)[c].wrong = lg[c].wrong
                                  /\ Over(C, lg)[c].mailed = lg[c].mailed /\ Over(C, lg)[c].to = lg[c].to
                                  /\ Over(C, lg)[c].kind = lg[c].kind
  <1> DEFINE o == Over(C, lg)
  <1>1. lg \in Seq(Record) /\ DOMAIN lg = 1..Len(lg) /\ Len(lg) \in Nat /\ \A c \in 1..Len(lg) : lg[c] \in Record
    BY DEF LogSound
  <1>2. o = [c \in 1..Len(lg) |-> IF c \in C THEN [lg[c] EXCEPT !.over = TRUE] ELSE lg[c]]
    BY <1>1 DEF Over
  <1>3. \A w \in Record : [w EXCEPT !.over = TRUE] \in Record
    BY DEF Record
  <1>4. o \in [1..Len(lg) -> Record]
    BY <1>1, <1>2, <1>3
  <1>5. o \in Seq(Record) /\ Len(o) = Len(lg)
    BY <1>1, <1>4
  <1>6. \A c \in 1..Len(lg) : /\ o[c].over <=> c \in C \/ lg[c].over
                              /\ o[c].uses = lg[c].uses /\ o[c].wrong = lg[c].wrong
                              /\ o[c].mailed = lg[c].mailed /\ o[c].to = lg[c].to /\ o[c].kind = lg[c].kind
    BY <1>1, <1>2 DEF Record
  <1> HIDE DEF o
  <1>7. LogSound(o) /\ Grows(lg, o, {})
    BY <1>5, <1>6, LogGrows
  <1> QED BY <1>5, <1>6, <1>7 DEF o

LEMMA LogAppend ==
  ASSUME NEW lg, LogSound(lg), Len(lg) + 1 \in Code, NEW w \in Record, w.uses = 0, w.wrong = 0
  PROVE  /\ LogSound(Append(lg, w)) /\ Grows(lg, Append(lg, w), {}) /\ Len(Append(lg, w)) = Len(lg) + 1
         /\ Append(lg, w)[Len(lg) + 1] = w /\ \A c \in 1..Len(lg) : Append(lg, w)[c] = lg[c]
  <1>1. lg \in Seq(Record) /\ Len(lg) \in Nat
    BY DEF LogSound
  <1>2. /\ Append(lg, w) \in Seq(Record) /\ Len(Append(lg, w)) = Len(lg) + 1
        /\ Append(lg, w)[Len(lg) + 1] = w /\ \A c \in 1..Len(lg) : Append(lg, w)[c] = lg[c]
    BY <1>1
  <1>3. LogSound(Append(lg, w))
    BY <1>1, <1>2, AccNone DEF LogSound, Code
  <1>4. Grows(lg, Append(lg, w), {})
    BY <1>1, <1>2 DEF Grows
  <1> QED BY <1>2, <1>3, <1>4

LEMMA GrowsOn ==
  ASSUME NEW a, NEW b, NEW d, NEW C, LogSound(a), LogSound(b), LogSound(d), Grows(a, b, {}), Grows(b, d, C)
  PROVE  Grows(a, d, C)
  <1>1. Len(a) \in Nat /\ Len(b) \in Nat /\ Len(d) \in Nat
    BY DEF LogSound
  <1>2. \A c \in 1..Len(a) : c \in 1..Len(b)
    BY <1>1 DEF Grows
  <1> QED BY <1>1, <1>2 DEF Grows

LEMMA FitsKept ==
  ASSUME NEW lg, NEW lg2, NEW C, Len(lg) \in Nat, Len(lg2) \in Nat, Grows(lg, lg2, C), NEW s, NEW w, RowFits(lg, s, w), w.code \notin C
  PROVE  RowFits(lg2, s, w)
  BY DEF RowFits, Grows

(* Steps that take rows away, and let requests go on with what they hold.  *)
LEMMA Dropped ==
  ASSUME NEW tk, NEW tk2, NEW pr, NEW pr2, NEW lg, NEW lg2, NEW C, LogSound(lg), LogSound(lg2),
         TokensFit(tk, lg), HoldersFit(tk, pr, lg), Grows(lg, lg2, C),
         \A s \in Slot : tk2[s] = tk[s] \/ tk2[s] = None,
         \A s \in Slot : tk2[s] # None => tk2[s].code \notin C,
         \A r \in Req : Holds(pr2[r]) =>
           /\ Holds(pr[r]) /\ pr2[r].slot = pr[r].slot /\ pr2[r].row = pr[r].row /\ pr2[r].user = pr[r].user
           /\ pr2[r].email = pr[r].email /\ pr[r].row.code \notin C
  PROVE  TokensFit(tk2, lg2) /\ HoldersFit(tk2, pr2, lg2)
  <1>0. Len(lg) \in Nat /\ Len(lg2) \in Nat
    BY DEF LogSound
  <1>1. \A s \in Slot : tk2[s] # None => tk2[s] = tk[s] /\ RowFits(lg2, s, tk2[s])
    <2> SUFFICES ASSUME NEW s \in Slot, tk2[s] # None PROVE tk2[s] = tk[s] /\ RowFits(lg2, s, tk2[s])
      OBVIOUS
    <2>1. tk2[s] = tk[s] /\ RowFits(lg, s, tk[s]) /\ tk[s].code \notin C
      BY DEF TokensFit
    <2> QED BY <1>0, <2>1, FitsKept
  <1>2. TokensFit(tk2, lg2)
    BY <1>1 DEF TokensFit
  <1>3. ASSUME NEW r \in Req, Holds(pr2[r])
        PROVE  HeldFits(tk2, lg2, pr2[r])
    <2>1. HeldFits(tk, lg, pr[r]) /\ pr2[r].slot = pr[r].slot /\ pr2[r].row = pr[r].row /\ pr2[r].user = pr[r].user
          /\ pr2[r].email = pr[r].email /\ pr[r].row.code \notin C
      BY <1>3 DEF HoldersFit
    <2>2. RowFits(lg2, pr[r].slot, pr[r].row)
      BY <1>0, <2>1, FitsKept DEF HeldFits
    <2>3. tk2[pr[r].slot] \in {pr[r].row, None}
      BY <2>1 DEF HeldFits
    <2>4. \A t \in Slot : tk2[t] # None /\ tk2[t].code = pr[r].row.code => t = pr[r].slot
      BY <1>1, <2>1 DEF HeldFits
    <2> QED BY <2>1, <2>2, <2>3, <2>4 DEF HeldFits
  <1>4. \A r, t \in Req : Holds(pr2[r]) /\ Holds(pr2[t]) /\ pr2[r].row.code = pr2[t].row.code => r = t
    BY DEF HoldersFit
  <1> QED BY <1>2, <1>3, <1>4 DEF HoldersFit

LEMMA StandsDropped ==
  ASSUME NEW tk, NEW tk2, NEW lg, NEW lg2, NEW C, Stands(tk, lg), Grows(lg, lg2, C), LogSound(lg), Len(lg2) = Len(lg),
         \A s \in Slot : tk[s] # None /\ tk[s].code \in 1..Len(lg) =>
           \/ tk2[s] # None /\ tk2[s].code = tk[s].code
           \/ lg2[tk[s].code].over \/ lg2[tk[s].code].uses # 0 \/ lg2[tk[s].code].kind = "change"
  PROVE  Stands(tk2, lg2)
  <1> SUFFICES ASSUME NEW c \in 1..Len(lg), lg2[c].uses = 0, ~lg2[c].over, lg2[c].kind # "change"
               PROVE  \E s \in Slot : tk2[s] # None /\ tk2[s].code = c
    BY DEF Stands
  <1>1. lg[c].uses = 0 /\ ~lg[c].over /\ lg[c].kind # "change"
    BY DEF Grows
  <1>2. PICK s \in Slot : tk[s] # None /\ tk[s].code = c
    BY <1>1 DEF Stands
  <1> QED BY <1>2

LEMMA InviteSame ==
  ASSUME AccInv, UNCHANGED invite, \A u \in User : user[u].there => user'[u].there,
         \A t \in Req : proc'[t].pc = "invited" => proc[t].pc = "invited"
  PROVE  InvitesSound' /\ InviteHeld'
  <1>1. InvitesSound'
    BY DEF AccInv, InvitesSound
  <1>2. \A u \in invite.members : u \in User
    BY DEF AccInv, AccTypes
  <1> QED BY <1>1, <1>2 DEF AccInv, InviteHeld, Usable

LEMMA ProvedSame ==
  ASSUME AccInv, NEW C, Grows(log, log', C), LogSound(log'),
         \A u \in User : user'[u].verified => user[u].verified /\ user'[u].email = user[u].email
  PROVE  AddressProved'
  <1> SUFFICES ASSUME NEW u \in User, user'[u].verified
               PROVE  \E c \in DOMAIN log' : log'[c].to = user'[u].email /\ log'[c].mailed /\ log'[c].uses > 0
    BY DEF AddressProved
  <1>1. DOMAIN log = 1..Len(log) /\ DOMAIN log' = 1..Len(log') /\ Len(log) \in Nat /\ Len(log') \in Nat
    BY DEF AccInv, LogSound
  <1>2. PICK c \in DOMAIN log : log[c].to = user[u].email /\ log[c].mailed /\ log[c].uses > 0
    BY DEF AccInv, AddressProved
  <1>3. c \in DOMAIN log' /\ log'[c].to = user[u].email /\ log'[c].mailed /\ log'[c].uses > 0
    BY <1>1, <1>2 DEF Grows
  <1> QED BY <1>3

LEMMA CoolSame ==
  ASSUME CoolHeld, \A t \in Req : Sends(proc'[t]) => proc'[t] = proc[t] /\ cool'[proc[t].email] = cool[proc[t].email],
         \A r \in Req : proc[r].pc = "stored" => proc[r].slot \in Slot,
         \A s \in Slot : token'[s] # None => token[s] # None /\ token'[s].code = token[s].code
  PROVE  CoolHeld'
  <1> SUFFICES ASSUME NEW r \in Req
               PROVE  /\ Sends(proc'[r]) => cool'[proc'[r].email] = r
                      /\ proc'[r].pc = "stored" /\ proc'[r].slot[1] = "register" /\ token'[proc'[r].slot] # None
                           => token'[proc'[r].slot].code = proc'[r].code
    BY DEF CoolHeld, Sends
  <1>1. CASE ~Sends(proc'[r])
    BY <1>1 DEF Sends
  <1>2. CASE Sends(proc'[r])
    <2>1. proc'[r] = proc[r] /\ cool'[proc[r].email] = cool[proc[r].email] /\ Sends(proc[r])
      BY <1>2
    <2> QED BY <2>1 DEF CoolHeld, Sends
  <1> QED BY <1>1, <1>2

LEMMA IdleStep == Idle \in AccSteps
  <1>1. 0 \in 0..MaxCodes
    BY AccNone
  <1> QED BY <1>1 DEF Idle, AccSteps

LEMMA AccEnd ==
  ASSUME AccInv, NEW r \in Req, End(r)
  PROVE  /\ proc' \in [Req -> AccSteps]
         /\ \A t \in Req : /\ AskSound(proc'[t], Len(log))
                           /\ Holds(proc'[t]) => t # r /\ proc'[t] = proc[t]
                           /\ Sends(proc'[t]) => t # r /\ proc'[t] = proc[t]
                           /\ proc'[t].pc = "invited" => t # r /\ proc'[t] = proc[t]
  <1> DEFINE q == [Idle EXCEPT !.pc = "done"]
  <1>1. q \in AccSteps /\ q.pc = "done"
    BY IdleStep DEF AccSteps
  <1>2. proc' = [proc EXCEPT ![r] = q] /\ proc \in [Req -> AccSteps]
    BY DEF End, AccInv, AccTypes
  <1> HIDE DEF q
  <1>3. proc' \in [Req -> AccSteps] /\ proc'[r].pc = "done" /\ \A t \in Req \ {r} : proc'[t] = proc[t]
    BY <1>1, <1>2
  <1>4. AskSound(proc'[r], Len(log))
    BY <1>3 DEF AskSound, Sends, Reads
  <1>5. \A t \in Req : AskSound(proc'[t], Len(log))
    BY <1>3, <1>4 DEF AccInv
  <1> QED BY <1>3, <1>5 DEF Holds, Reads, Sends

LEMMA AccDrop ==
  ASSUME AccInv, NEW C, LogSound(log'), Len(log') = Len(log), Grows(log, log', C), AccTypes',
         \A s \in Slot : token'[s] = token[s] \/ token'[s] = None,
         \A s \in Slot : token'[s] # None => token'[s].code \notin C,
         \A r \in Req : Holds(proc'[r]) =>
           /\ Holds(proc[r]) /\ proc'[r].slot = proc[r].slot /\ proc'[r].row = proc[r].row /\ proc'[r].user = proc[r].user
           /\ proc'[r].email = proc[r].email /\ proc[r].row.code \notin C,
         \A t \in Req : AskSound(proc'[t], Len(log)),
         InvitesSound', InviteHeld', AddressProved', MailInTime => CoolHeld' /\ Stands(token', log')
  PROVE  AccInv'
  <1>1. TokensFit(token', log') /\ HoldersFit(token', proc', log')
    BY Dropped DEF AccInv
  <1> QED BY <1>1 DEF AccInv

(* A request ends and leaves the codes as they are.                        *)
LEMMA AccStill ==
  ASSUME AccInv, NEW r \in Req, End(r), UNCHANGED <<token, log>>,
         user' \in [User -> [there : BOOLEAN, email : Email \cup {None}, verified : BOOLEAN, active : BOOLEAN]],
         \A u \in User : /\ user[u].there => user'[u].there
                         /\ user'[u].verified => user[u].verified /\ user'[u].email = user[u].email,
         cool' \in [Email -> Req \cup {None}],
         MailInTime => \A t \in Req \ {r} : Sends(proc[t]) => cool'[proc[t].email] = cool[proc[t].email],
         invite' \in [used : 0..MaxUses, disabled : BOOLEAN, members : SUBSET User],
         InvitesSound', InviteHeld'
  PROVE  AccInv'
  <1>1. LogSound(log') /\ Grows(log, log', {}) /\ Len(log') = Len(log)
    BY LogSame DEF AccInv
  <1>2. AccTypes'
    BY AccEnd DEF AccInv, AccTypes
  <1>4. AddressProved'
    BY <1>1, ProvedSame
  <1>5. ASSUME MailInTime
        PROVE  CoolHeld' /\ Stands(token', log')
    <2>1. CoolHeld /\ Stands(token, log) /\ \A t \in Req : proc[t].pc = "stored" => proc[t].slot \in Slot
      BY <1>5 DEF AccInv, AskSound, Sends
    <2>2. \A t \in Req : Sends(proc'[t]) => proc'[t] = proc[t] /\ cool'[proc[t].email] = cool[proc[t].email]
      BY <1>5, AccEnd
    <2> QED BY <2>1, <2>2, CoolSame
  <1>6. \A t \in Req : Holds(proc'[t]) => proc'[t] = proc[t] /\ Holds(proc[t])
    BY AccEnd
  <1>7. \A t \in Req : AskSound(proc'[t], Len(log))
    BY AccEnd
  <1> QED BY <1>1, <1>2, <1>4, <1>5, <1>6, <1>7, AccDrop

LEMMA AccStop ==
  ASSUME AccInv, NEW r \in Req, End(r), UNCHANGED <<user, token, invite, log>>, cool' \in [Email -> Req \cup {None}],
         MailInTime => \A t \in Req \ {r} : Sends(proc[t]) => cool'[proc[t].email] = cool[proc[t].email]
  PROVE  AccInv'
  <1>1. user' = user /\ invite' = invite /\ UNCHANGED <<token, log>> /\ UNCHANGED invite
    OBVIOUS
  <1>2. user' \in [User -> [there : BOOLEAN, email : Email \cup {None}, verified : BOOLEAN, active : BOOLEAN]]
        /\ invite' \in [used : 0..MaxUses, disabled : BOOLEAN, members : SUBSET User]
    BY <1>1 DEF AccInv, AccTypes
  <1>3. \A u \in User : /\ user[u].there => user'[u].there
                        /\ user'[u].verified => user[u].verified /\ user'[u].email = user[u].email
    BY <1>1
  <1>4. InvitesSound' /\ InviteHeld'
    <2>1. \A t \in Req : proc'[t].pc = "invited" => proc[t].pc = "invited"
      BY AccEnd
    <2> QED BY <1>1, <1>3, <2>1, InviteSame
  <1>5. UNCHANGED <<token, log>>
    BY <1>1
  <1> QED BY <1>2, <1>3, <1>4, <1>5, AccStill

LEMMA AccRelease ==
  ASSUME AccInv, NEW r \in Req, Sends(proc[r]), Release(r)
  PROVE  /\ cool' \in [Email -> Req \cup {None}]
         /\ MailInTime => \A t \in Req \ {r} : Sends(proc[t]) => cool'[proc[t].email] = cool[proc[t].email]
  <1>1. cool \in [Email -> Req \cup {None}] /\ proc[r].email \in Email
    BY DEF AccInv, AccTypes, AskSound
  <1>2. cool' = [cool EXCEPT ![proc[r].email] = IF cool[proc[r].email] = r THEN None ELSE cool[proc[r].email]]
    BY DEF Release
  <1>3. ASSUME MailInTime, NEW t \in Req \ {r}, Sends(proc[t])
        PROVE  cool'[proc[t].email] = cool[proc[t].email]
    <2>1. cool[proc[t].email] = t /\ proc[t].email \in Email
      BY <1>3 DEF AccInv, CoolHeld, AskSound
    <2> QED BY <1>1, <1>2, <2>1
  <1> QED BY <1>1, <1>2, <1>3

LEMMA AccAsk ==
  ASSUME AccInv, NEW r \in Req, NEW s \in Slot, NEW u \in User \cup {None}, NEW e \in Email, NEW inv \in BOOLEAN, Ask(r, s, u, e, inv),
         s[1] \in {"register", "reset", "change"}, s[1] = "register" => s = <<"register", e>>, s[1] # "reset" => u \in User
  PROVE  AccInv'
  <1> DEFINE q == [Idle EXCEPT !.pc = "asked", !.slot = s, !.user = u, !.email = e, !.invited = inv]
  <1>1. UNCHANGED <<user, token, invite, log>> /\ cool[e] = None /\ cool' = [cool EXCEPT ![e] = r] /\ proc' = [proc EXCEPT ![r] = q]
    BY DEF Ask, Fresh
  <1>2. q \in AccSteps /\ q.pc = "asked" /\ q.slot = s /\ q.user = u /\ q.email = e
    BY IdleStep DEF AccSteps
  <1> HIDE DEF q
  <1>3. proc' \in [Req -> AccSteps] /\ proc'[r] = q /\ \A t \in Req \ {r} : proc'[t] = proc[t]
    BY <1>1, <1>2 DEF AccInv, AccTypes
  <1>4. cool' \in [Email -> Req \cup {None}] /\ cool'[e] = r /\ \A f \in Email \ {e} : cool'[f] = cool[f]
    BY <1>1 DEF AccInv, AccTypes
  <1>5. AccTypes'
    BY <1>1, <1>3, <1>4 DEF AccInv, AccTypes
  <1>6. LogSound(log') /\ Grows(log, log', {}) /\ Len(log') = Len(log)
    BY <1>1, LogSame DEF AccInv
  <1>7. InvitesSound' /\ InviteHeld' /\ AddressProved'
    <2>1. \A t \in Req : proc'[t].pc = "invited" => proc[t].pc = "invited"
      BY <1>2, <1>3
    <2> QED BY <1>1, <1>6, <2>1, InviteSame, ProvedSame
  <1>8. \A t \in Req : AskSound(proc'[t], Len(log))
    <2>1. AskSound(proc'[r], Len(log))
      BY <1>2, <1>3 DEF AskSound, Sends, Reads
    <2> QED BY <1>3, <2>1 DEF AccInv
  <1>9. ASSUME MailInTime
        PROVE  CoolHeld' /\ Stands(token', log')
    <2> SUFFICES ASSUME NEW t \in Req
                 PROVE  /\ Sends(proc'[t]) => cool'[proc'[t].email] = t
                        /\ proc'[t].pc = "stored" /\ proc'[t].slot[1] = "register" /\ token[proc'[t].slot] # None
                             => token[proc'[t].slot].code = proc'[t].code
      BY <1>1, <1>9 DEF AccInv, CoolHeld
    <2>1. CASE t = r
      BY <1>2, <1>3, <1>4, <2>1
    <2>2. CASE t # r /\ Sends(proc[t])
      <3>1. cool[proc[t].email] = t /\ proc[t].email \in Email /\ proc'[t] = proc[t]
        BY <1>3, <1>9, <2>2 DEF AccInv, CoolHeld, AskSound
      <3>2. proc[t].email # e
        BY <1>1, <3>1, AccNone
      <3> QED BY <1>4, <1>9, <3>1, <3>2 DEF AccInv, CoolHeld
    <2>3. CASE t # r /\ ~Sends(proc[t])
      BY <1>3, <2>3 DEF Sends
    <2> QED BY <2>1, <2>2, <2>3
  <1>10. \A t \in Req : Holds(proc'[t]) => proc'[t] = proc[t] /\ Holds(proc[t])
    BY <1>2, <1>3 DEF Holds, Reads
  <1> QED BY <1>1, <1>5, <1>6, <1>7, <1>8, <1>9, <1>10, AccDrop

LEMMA AccAsks ==
  ASSUME AccInv, NEW r \in Req, NEW u \in User, NEW e \in Email, NEW inv \in BOOLEAN
  PROVE  /\ AskRegistration(r, u, e, inv) => AccInv'
         /\ AskReset(r, e) => AccInv'
         /\ AskChange(r, u, e) => AccInv'
  <1>1. <<"register", e>> \in Slot /\ <<"reset", e>> \in Slot /\ <<"change", u>> \in Slot
    BY DEF Slot
  <1>2. ASSUME AskRegistration(r, u, e, inv) PROVE AccInv'
    BY <1>1, <1>2, AccAsk DEF AskRegistration
  <1>3. ASSUME AskReset(r, e) PROVE AccInv'
    BY <1>1, <1>3, AccAsk DEF AskReset
  <1>4. ASSUME AskChange(r, u, e) PROVE AccInv'
    BY <1>1, <1>4, AccAsk DEF AskChange
  <1> QED BY <1>2, <1>3, <1>4

(* A new row, with a new code, in a place that nobody holds.               *)
LEMMA Added ==
  ASSUME NEW tk, NEW tk2, NEW pr, NEW pr2, NEW lg, NEW lg2, NEW s \in Slot, NEW w, LogSound(lg), LogSound(lg2),
         TokensFit(tk, lg), HoldersFit(tk, pr, lg), Grows(lg, lg2, {}), w.code = Len(lg) + 1, RowFits(lg2, s, w),
         tk2[s] = w, \A t \in Slot \ {s} : tk2[t] = tk[t],
         \A r \in Req : Holds(pr[r]) => pr[r].slot # s,
         \A r \in Req : Holds(pr2[r]) => pr2[r] = pr[r]
  PROVE  TokensFit(tk2, lg2) /\ HoldersFit(tk2, pr2, lg2)
  <1>0. Len(lg) \in Nat /\ Len(lg2) \in Nat
    BY DEF LogSound
  <1>1. \A t \in Slot \ {s} : tk2[t] # None => RowFits(lg2, t, tk2[t]) /\ tk2[t].code # w.code
    <2> SUFFICES ASSUME NEW t \in Slot \ {s}, tk2[t] # None PROVE RowFits(lg2, t, tk2[t]) /\ tk2[t].code # w.code
      OBVIOUS
    <2>1. tk2[t] = tk[t] /\ RowFits(lg, t, tk[t])
      BY DEF TokensFit
    <2>2. RowFits(lg2, t, tk[t])
      BY <1>0, <2>1, FitsKept
    <2> QED BY <1>0, <2>1, <2>2 DEF RowFits
  <1>2. TokensFit(tk2, lg2)
    <2>1. \A t \in Slot : tk2[t] # None => RowFits(lg2, t, tk2[t])
      BY <1>1
    <2>2. ASSUME NEW a \in Slot, NEW b \in Slot, tk2[a] # None, tk2[b] # None, tk2[a].code = tk2[b].code
          PROVE  a = b
      <3>1. CASE a = s
        BY <1>1, <2>2, <3>1
      <3>2. CASE b = s
        BY <1>1, <2>2, <3>2
      <3>3. CASE a # s /\ b # s
        <4>1. tk2[a] = tk[a] /\ tk2[b] = tk[b]
          BY <3>3
        <4> QED BY <2>2, <4>1 DEF TokensFit
      <3> QED BY <3>1, <3>2, <3>3
    <2> QED BY <2>1, <2>2 DEF TokensFit
  <1>3. ASSUME NEW r \in Req, Holds(pr2[r])
        PROVE  HeldFits(tk2, lg2, pr2[r])
    <2>1. HeldFits(tk, lg, pr[r]) /\ pr2[r] = pr[r] /\ pr[r].slot # s
      BY <1>3 DEF HoldersFit
    <2>2. RowFits(lg2, pr[r].slot, pr[r].row) /\ pr[r].row.code # w.code
      <3>1. RowFits(lg, pr[r].slot, pr[r].row)
        BY <2>1 DEF HeldFits
      <3>2. RowFits(lg2, pr[r].slot, pr[r].row)
        BY <1>0, <3>1, FitsKept
      <3>3. pr[r].row.code \in 1..Len(lg)
        BY <3>1 DEF RowFits
      <3> QED BY <1>0, <3>2, <3>3
    <2>3. \A t \in Slot : tk2[t] # None /\ tk2[t].code = pr[r].row.code => t = pr[r].slot
      <3> SUFFICES ASSUME NEW t \in Slot, tk2[t] # None, tk2[t].code = pr[r].row.code PROVE t = pr[r].slot
        OBVIOUS
      <3>1. t # s
        BY <2>2
      <3> QED BY <2>1, <3>1 DEF HeldFits
    <2> QED BY <2>1, <2>2, <2>3 DEF HeldFits
  <1>4. \A r, t \in Req : Holds(pr2[r]) /\ Holds(pr2[t]) /\ pr2[r].row.code = pr2[t].row.code => r = t
    BY DEF HoldersFit
  <1> QED BY <1>2, <1>3, <1>4 DEF HoldersFit

LEMMA CodesHere ==
  ASSUME AccInv, NEW s \in Slot, token[s] # None
  PROVE  token[s] \in Row /\ token[s].code \in 1..Len(log) /\ RowFits(log, s, token[s])
  BY DEF AccInv, AccTypes, TokensFit, RowFits

LEMMA AccStore ==
  ASSUME AccInv, NEW r \in Req, proc[r].pc = "asked", NEW u \in User, NEW inv \in BOOLEAN,
         Upsert(proc[r].slot, u, proc[r].email, inv), Stored(r), UNCHANGED <<user, cool, invite>>
  PROVE  AccInv'
  <1> DEFINE s == proc[r].slot
             e == proc[r].email
             n == Len(log) + 1
             w == [code |-> n, user |-> u, email |-> e, tries |-> 0, invited |-> inv]
             rc == NewRecord(s[1], e)
             ov == Over(CodesIn({s}), log)
             q == [proc[r] EXCEPT !.pc = "stored", !.code = n]
  <1>1. /\ s \in Slot /\ e \in Email /\ s[1] \in {"register", "reset", "change"} /\ (s[1] = "register" => s = <<"register", e>>)
        /\ (s[1] # "reset" => proc[r].user \in User) /\ proc[r] \in AccSteps
    BY DEF AccInv, AccTypes, AskSound, Sends
  <1>2. n \in Code /\ Free(s) /\ token' = [token EXCEPT ![s] = w] /\ log' = Append(ov, rc)
        /\ proc' = [proc EXCEPT ![r].pc = "stored", ![r].code = n]
    BY DEF Upsert, Stored, NextCode, NewRow
  <1>3. LogSound(log) /\ Len(log) \in Nat
    BY DEF AccInv, LogSound
  <1>4. w \in Row /\ w # None /\ w.code = n /\ w.tries = 0 /\ w.email = e
    <2>1. 0 \in 0..MaxTries
      BY AccNone
    <2>2. w \in Row
      BY <1>1, <1>2, <2>1 DEF Row
    <2> QED BY <2>2, AccNone
  <1>5. rc \in Record /\ rc.uses = 0 /\ rc.wrong = 0 /\ rc.kind = s[1] /\ rc.to = e /\ ~rc.over
    BY <1>1, AccNone DEF NewRecord, Record
  <1>6. q \in AccSteps /\ q.pc = "stored" /\ q.code = n /\ q.slot = s /\ q.email = e /\ q.user = proc[r].user
    <2>1. n \in 0..MaxCodes
      BY <1>2, <1>3, AccNone DEF Code
    <2> QED BY <1>1, <2>1 DEF AccSteps
  <1>7. proc' = [proc EXCEPT ![r] = q]
    BY <1>2 DEF AccInv, AccTypes
  <1>8. /\ LogSound(ov) /\ Grows(log, ov, {}) /\ Len(ov) = Len(log)
        /\ \A c \in 1..Len(log) : /\ ov[c].over <=> c \in CodesIn({s}) \/ log[c].over
                                  /\ ov[c].uses = log[c].uses /\ ov[c].kind = log[c].kind
    BY <1>3, LogOver
  <1> HIDE DEF w, rc, ov, q, s, e
  <1>9. /\ LogSound(log') /\ Grows(ov, log', {}) /\ Len(log') = n /\ log'[n] = rc /\ \A c \in 1..Len(log) : log'[c] = ov[c]
    <2>1. Len(ov) + 1 \in Code
      BY <1>2, <1>8
    <2> QED BY <1>2, <1>5, <1>8, <2>1, LogAppend
  <1>10. Grows(log, log', {})
    BY <1>3, <1>8, <1>9, GrowsOn
  <1> HIDE DEF n
  <1>11. proc' \in [Req -> AccSteps] /\ proc'[r] = q /\ \A t \in Req \ {r} : proc'[t] = proc[t]
    BY <1>6, <1>7 DEF AccInv, AccTypes
  <1>12. token' \in [Slot -> Row \cup {None}] /\ token'[s] = w /\ \A t \in Slot \ {s} : token'[t] = token[t]
    BY <1>1, <1>2, <1>4 DEF AccInv, AccTypes
  <1>13. RowFits(log', s, w)
    <2>1. n \in 1..n
      BY <1>3 DEF n
    <2> QED BY <1>1, <1>4, <1>5, <1>9, <2>1 DEF RowFits
  <1>14. TokensFit(token', log') /\ HoldersFit(token', proc', log')
    <2>1. \A t \in Req : Holds(proc[t]) => proc[t].slot # s
      BY <1>2 DEF Free, At, Holds, Reads
    <2>2. \A t \in Req : Holds(proc'[t]) => proc'[t] = proc[t]
      BY <1>6, <1>11 DEF Holds, Reads
    <2>3. w.code = Len(log) + 1
      BY <1>4 DEF n
    <2>4. TokensFit(token, log) /\ HoldersFit(token, proc, log)
      BY DEF AccInv
    <2> QED BY <1>1, <1>3, <1>9, <1>10, <1>12, <1>13, <2>1, <2>2, <2>3, <2>4, Added
  <1>15. AccTypes'
    BY <1>11, <1>12 DEF AccInv, AccTypes
  <1>16. \A t \in Req : AskSound(proc'[t], Len(log'))
    <2>1. AskSound(proc'[r], Len(log'))
      <3>1. n \in 1..n
        BY <1>3 DEF n
      <3> QED BY <1>1, <1>6, <1>9, <1>11, <3>1 DEF AskSound, Sends, Reads
    <2>2. ASSUME NEW t \in Req \ {r}
          PROVE  AskSound(proc'[t], Len(log'))
      <3>1. AskSound(proc[t], Len(log)) /\ proc'[t] = proc[t]
        BY <1>11 DEF AccInv
      <3>2. \A c \in 1..Len(log) : c \in 1..Len(log')
        BY <1>3, <1>9 DEF n
      <3> QED BY <3>1, <3>2 DEF AskSound
    <2> QED BY <2>1, <2>2
  <1>17. InvitesSound' /\ InviteHeld' /\ AddressProved'
    <2>1. \A t \in Req : proc'[t].pc = "invited" => proc[t].pc = "invited"
      BY <1>6, <1>11
    <2> QED BY <1>9, <1>10, <2>1, InviteSame, ProvedSame
  <1>18. ASSUME MailInTime
         PROVE  CoolHeld'
    <2> SUFFICES ASSUME NEW t \in Req, Sends(proc'[t])
                 PROVE  /\ cool[proc'[t].email] = t
                        /\ proc'[t].pc = "stored" /\ proc'[t].slot[1] = "register" /\ token'[proc'[t].slot] # None
                             => token'[proc'[t].slot].code = proc'[t].code
      BY <1>18 DEF CoolHeld, Sends
    <2>0. CoolHeld /\ Sends(proc[r])
      BY <1>18 DEF AccInv, Sends
    <2>1. CASE t = r
      <3>1. cool[e] = r
        BY <2>0 DEF CoolHeld, e
      <3> QED BY <1>4, <1>6, <1>11, <1>12, <2>1, <3>1
    <2>2. CASE t # r
      <3>1. proc'[t] = proc[t] /\ cool[proc[t].email] = t /\ cool[e] = r
        BY <1>11, <2>0, <2>2 DEF CoolHeld, e
      <3>2. /\ proc[t].slot \in Slot
            /\ proc[t].slot[1] = "register" => proc[t].slot = <<"register", proc[t].email>>
        BY <3>1 DEF AccInv, AskSound
      <3>3. proc[t].slot[1] = "register" => proc[t].slot # s
        BY <1>1, <2>2, <3>1, <3>2
      <3>4. proc[t].slot[1] = "register" => token'[proc[t].slot] = token[proc[t].slot]
        BY <1>12, <3>2, <3>3
      <3> QED BY <2>0, <3>1, <3>4 DEF CoolHeld
    <2> QED BY <2>1, <2>2
  <1>19. ASSUME MailInTime
         PROVE  Stands(token', log')
    <2> SUFFICES ASSUME NEW c \in 1..Len(log'), log'[c].uses = 0, ~log'[c].over, log'[c].kind # "change"
                 PROVE  \E t \in Slot : token'[t] # None /\ token'[t].code = c
      BY DEF Stands
    <2>1. CASE c = n
      BY <1>1, <1>4, <1>12, <2>1
    <2>2. CASE c # n
      <3>1. c \in 1..Len(log)
        BY <1>3, <1>9, <2>2 DEF n
      <3>2. log[c].uses = 0 /\ ~log[c].over /\ log[c].kind # "change" /\ c \notin CodesIn({s})
        BY <1>8, <1>9, <3>1
      <3>3. PICK t \in Slot : token[t] # None /\ token[t].code = c
        BY <1>19, <3>1, <3>2 DEF AccInv, Stands
      <3>4. t # s
        BY <3>2, <3>3 DEF CodesIn
      <3> QED BY <1>12, <3>3, <3>4
    <2> QED BY <2>1, <2>2
  <1> QED BY <1>9, <1>14, <1>15, <1>16, <1>17, <1>18, <1>19 DEF AccInv

LEMMA AccStores ==
  ASSUME AccInv, NEW r \in Req
  PROVE  /\ StoreRegistration(r) => AccInv'
         /\ StoreReset(r) => AccInv'
         /\ StoreChange(r) => AccInv'
  <1>0. user \in [User -> [there : BOOLEAN, email : Email \cup {None}, verified : BOOLEAN, active : BOOLEAN]]
        /\ invite \in [used : 0..MaxUses, disabled : BOOLEAN, members : SUBSET User]
        /\ cool \in [Email -> Req \cup {None}] /\ proc[r] \in AccSteps /\ proc[r].invited \in BOOLEAN
    BY DEF AccInv, AccTypes, AccSteps
  <1>1. ASSUME Sends(proc[r]), End(r), Release(r), UNCHANGED <<user, token, invite, log>>
        PROVE  AccInv'
    BY <1>1, AccRelease, AccStop
  <1>2. ASSUME StoreRegistration(r) PROVE AccInv'
    <2>1. proc[r].pc = "asked" /\ proc[r].slot # None /\ proc[r].slot[1] = "register" /\ proc[r].user \in User
      BY <1>2, AccNone DEF StoreRegistration, At, For, AccInv, AskSound, Sends
    <2>2. CASE End(r) /\ Release(r) /\ UNCHANGED <<token, log>>
      BY <1>1, <1>2, <2>1, <2>2 DEF StoreRegistration, Sends
    <2>3. CASE Upsert(proc[r].slot, proc[r].user, proc[r].email, proc[r].invited) /\ Stored(r) /\ UNCHANGED cool
      BY <1>0, <1>2, <2>1, <2>3, AccStore DEF StoreRegistration
    <2> QED BY <1>2, <2>2, <2>3 DEF StoreRegistration
  <1>3. ASSUME StoreReset(r) PROVE AccInv'
    <2>1. proc[r].pc = "asked"
      BY <1>3 DEF StoreReset, At
    <2>2. CASE End(r) /\ UNCHANGED <<token, log>>
      <3>1. UNCHANGED <<user, token, invite, log>> /\ End(r) /\ cool' = cool
        BY <1>3, <2>2 DEF StoreReset
      <3> QED BY <1>0, <3>1, AccStop
    <2>3. CASE Stored(r) /\ \E u \in User : Upsert(proc[r].slot, u, proc[r].email, FALSE)
      BY <1>3, <2>1, <2>3, AccStore DEF StoreReset
    <2> QED BY <1>3, <2>2, <2>3 DEF StoreReset
  <1>4. ASSUME StoreChange(r) PROVE AccInv'
    <2>1. proc[r].pc = "asked" /\ proc[r].slot # None /\ proc[r].slot[1] = "change" /\ proc[r].user \in User
      BY <1>4, AccNone DEF StoreChange, At, For, AccInv, AskSound, Sends
    <2>2. CASE End(r) /\ Release(r) /\ UNCHANGED <<token, log>>
      BY <1>1, <1>4, <2>1, <2>2 DEF StoreChange, Sends
    <2>3. CASE Upsert(proc[r].slot, proc[r].user, proc[r].email, FALSE) /\ Stored(r) /\ UNCHANGED cool
      BY <1>4, <2>1, <2>3, AccStore DEF StoreChange
    <2> QED BY <1>4, <2>2, <2>3 DEF StoreChange
  <1> QED BY <1>2, <1>3, <1>4

LEMMA AccMailed ==
  ASSUME AccInv, NEW r \in Req, Mailed(r)
  PROVE  AccInv'
  <1> DEFINE c0 == proc[r].code
  <1>1. proc[r].pc = "stored" /\ End(r) /\ UNCHANGED <<user, token, cool, invite>> /\ log' = [log EXCEPT ![c0].mailed = TRUE]
    BY DEF Mailed, At
  <1>2. LogSound(log) /\ c0 \in 1..Len(log) /\ Len(log) \in Nat /\ log \in Seq(Record)
    BY <1>1 DEF AccInv, AskSound, LogSound
  <1> HIDE DEF c0
  <1>3. /\ log' \in Seq(Record) /\ Len(log') = Len(log)
        /\ \A c \in 1..Len(log) : log'[c] = IF c = c0 THEN [log[c] EXCEPT !.mailed = TRUE] ELSE log[c]
    <2>1. [log[c0] EXCEPT !.mailed = TRUE] \in Record
      <3>1. log[c0] \in Record
        BY <1>2
      <3> QED BY <3>1 DEF Record
    <2>2. log' = [log EXCEPT ![c0] = [log[c0] EXCEPT !.mailed = TRUE]]
      BY <1>1
    <2> HIDE DEF Record
    <2>3. log \in [1..Len(log) -> Record] /\ DOMAIN log = 1..Len(log)
      BY <1>2
    <2>4. log' \in [1..Len(log) -> Record]
      BY <1>2, <2>1, <2>2, <2>3
    <2>5. log' \in Seq(Record) /\ Len(log') = Len(log)
      BY <1>2, <2>4
    <2>6. \A c \in 1..Len(log) : log'[c] = IF c = c0 THEN [log[c] EXCEPT !.mailed = TRUE] ELSE log[c]
      BY <2>2, <2>3
    <2> QED BY <2>5, <2>6
  <1>4. \A c \in 1..Len(log) : /\ log'[c].kind = log[c].kind /\ log'[c].to = log[c].to /\ log'[c].uses = log[c].uses
                               /\ log'[c].wrong = log[c].wrong /\ log'[c].over = log[c].over /\ (log[c].mailed => log'[c].mailed)
    <2>1. \A c \in 1..Len(log) : log[c] \in Record
      BY <1>2
    <2> QED BY <1>3, <2>1 DEF Record
  <1>5. LogSound(log') /\ Grows(log, log', {})
    BY <1>2, <1>3, <1>4, LogGrows
  <1>6. AccTypes' /\ InvitesSound' /\ InviteHeld' /\ AddressProved'
    BY <1>1, <1>5, AccEnd, InviteSame, ProvedSame DEF AccInv, AccTypes
  <1>7. ASSUME MailInTime
        PROVE  CoolHeld' /\ Stands(token', log')
    <2>1. CoolHeld /\ Stands(token, log) /\ \A t \in Req : proc[t].pc = "stored" => proc[t].slot \in Slot
      BY <1>7 DEF AccInv, AskSound, Sends
    <2>2. CoolHeld'
      BY <1>1, <2>1, AccEnd, CoolSame
    <2>3. Stands(token', log')
      BY <1>1, <1>2, <1>3, <1>5, <2>1, StandsDropped
    <2> QED BY <2>2, <2>3
  <1>8. \A t \in Req : (Holds(proc'[t]) => proc'[t] = proc[t] /\ Holds(proc[t])) /\ AskSound(proc'[t], Len(log))
    BY <1>1, AccEnd
  <1>9. token' = token /\ Len(log') = Len(log)
    BY <1>1, <1>3
  <1> QED BY <1>5, <1>6, <1>7, <1>8, <1>9, AccDrop

(* Rows are taken away, and the codes they held are taken back.            *)
LEMMA AccCleared ==
  ASSUME AccInv, NEW S \in SUBSET Slot, NEW C, token' = Cleared(S), log' = Over(C, log),
         UNCHANGED proc \/ \E r \in Req : End(r),
         user' \in [User -> [there : BOOLEAN, email : Email \cup {None}, verified : BOOLEAN, active : BOOLEAN]],
         \A u \in User : /\ user[u].there => user'[u].there
                         /\ user'[u].verified => user[u].verified /\ user'[u].email = user[u].email,
         cool' \in [Email -> Req \cup {None}],
         MailInTime => \A t \in Req : Sends(proc'[t]) => cool'[proc[t].email] = cool[proc[t].email],
         UNCHANGED invite,
         MailInTime => \A s \in S : token[s] # None => token[s].code \in C \/ s[1] = "change"
  PROVE  AccInv'
  <1>1. LogSound(log) /\ LogSound(log') /\ Grows(log, log', {}) /\ Len(log') = Len(log)
        /\ \A c \in 1..Len(log) : (log'[c].over <=> c \in C \/ log[c].over) /\ log'[c].kind = log[c].kind
    BY LogOver DEF AccInv
  <1>2. token' \in [Slot -> Row \cup {None}] /\ \A s \in Slot : token'[s] = IF s \in S THEN None ELSE token[s]
    BY DEF Cleared, AccInv, AccTypes
  <1>3. /\ proc' \in [Req -> AccSteps]
        /\ \A t \in Req : /\ AskSound(proc'[t], Len(log))
                          /\ Holds(proc'[t]) => proc'[t] = proc[t]
                          /\ Sends(proc'[t]) => proc'[t] = proc[t]
                          /\ proc'[t].pc = "invited" => proc'[t] = proc[t]
    <2>1. CASE UNCHANGED proc
      BY <2>1 DEF AccInv, AccTypes
    <2>2. CASE \E r \in Req : End(r)
      BY <2>2, AccEnd
    <2> QED BY <2>1, <2>2
  <1>4. AccTypes'
    BY <1>2, <1>3 DEF AccInv, AccTypes
  <1>5. InvitesSound' /\ InviteHeld' /\ AddressProved'
    BY <1>1, <1>3, InviteSame, ProvedSame
  <1>6. ASSUME MailInTime
        PROVE  CoolHeld' /\ Stands(token', log')
    <2>1. CoolHeld /\ Stands(token, log) /\ \A t \in Req : proc[t].pc = "stored" => proc[t].slot \in Slot
      BY <1>6 DEF AccInv, AskSound, Sends
    <2>2. CoolHeld'
      <3>1. \A s \in Slot : token'[s] # None => token[s] # None /\ token'[s].code = token[s].code
        BY <1>2
      <3>2. \A t \in Req : Sends(proc'[t]) => proc'[t] = proc[t] /\ cool'[proc[t].email] = cool[proc[t].email]
        BY <1>3, <1>6
      <3> QED BY <2>1, <3>1, <3>2, CoolSame
    <2>3. \A s \in Slot : token[s] # None /\ token[s].code \in 1..Len(log) =>
            \/ token'[s] # None /\ token'[s].code = token[s].code
            \/ log'[token[s].code].over \/ log'[token[s].code].uses # 0 \/ log'[token[s].code].kind = "change"
      <3> SUFFICES ASSUME NEW s \in Slot, token[s] # None, s \in S
                   PROVE  log'[token[s].code].over \/ log'[token[s].code].kind = "change"
        BY <1>2
      <3>1. token[s].code \in 1..Len(log) /\ log[token[s].code].kind = s[1]
        BY CodesHere DEF RowFits
      <3>2. token[s].code \in C \/ s[1] = "change"
        BY <1>6
      <3> QED BY <1>1, <3>1, <3>2
    <2> QED BY <1>1, <2>1, <2>2, <2>3, StandsDropped
  <1>7. \A s \in Slot : token'[s] = token[s] \/ token'[s] = None
    BY <1>2
  <1> QED BY <1>1, <1>3, <1>4, <1>5, <1>6, <1>7, AccDrop

LEMMA AccMailFails ==
  ASSUME AccInv, NEW r \in Req, MailFails(r)
  PROVE  AccInv'
  <1> DEFINE s == proc[r].slot
             S == IF s[1] = "reset" THEN {} ELSE {s}
  <1>1. proc[r].pc = "stored" /\ End(r) /\ Release(r) /\ UNCHANGED <<user, invite>> /\ log' = Over({proc[r].code}, log) /\ Sends(proc[r])
    BY DEF MailFails, At, Sends
  <1>2. s \in Slot /\ S \in SUBSET Slot /\ s[1] \in {"register", "reset", "change"}
    BY <1>1 DEF AccInv, AskSound, Sends
  <1>3. token' = Cleared(S)
    <2>1. CASE s[1] = "reset"
      <3>1. token = [t \in Slot |-> token[t]]
        BY DEF AccInv, AccTypes
      <3>2. token' = token /\ S = {}
        BY <2>1 DEF MailFails
      <3> QED BY <3>1, <3>2 DEF Cleared
    <2>2. CASE s[1] # "reset"
      BY <2>2 DEF MailFails
    <2> QED BY <2>1, <2>2
  <1>4. cool' \in [Email -> Req \cup {None}] /\ (MailInTime => \A t \in Req : Sends(proc'[t]) => cool'[proc[t].email] = cool[proc[t].email])
    <2>1. \A t \in Req : Sends(proc'[t]) => t # r /\ proc'[t] = proc[t]
      BY <1>1, AccEnd
    <2> QED BY <1>1, <2>1, AccRelease
  <1>5. MailInTime => \A t \in S : token[t] # None => token[t].code \in {proc[r].code} \/ t[1] = "change"
    <2> SUFFICES ASSUME MailInTime, s[1] = "register", token[s] # None PROVE token[s].code = proc[r].code
      BY <1>2
    <2> QED BY <1>1 DEF AccInv, CoolHeld
  <1>6. user' \in [User -> [there : BOOLEAN, email : Email \cup {None}, verified : BOOLEAN, active : BOOLEAN]]
    BY <1>1 DEF AccInv, AccTypes
  <1> HIDE DEF S, s
  <1>7. \E t \in Req : End(t)
    BY <1>1
  <1>8. /\ UNCHANGED proc \/ \E t \in Req : End(t)
        /\ \A u \in User : /\ user[u].there => user'[u].there
                           /\ user'[u].verified => user[u].verified /\ user'[u].email = user[u].email
    BY <1>1, <1>7
  <1> QED BY <1>1, <1>2, <1>3, <1>4, <1>5, <1>6, <1>8, AccCleared

LEMMA AccExpire ==
  ASSUME AccInv, NEW s \in Slot, Expire(s)
  PROVE  AccInv'
  <1>1. token' = Cleared({s}) /\ log' = Over(CodesIn({s}), log) /\ UNCHANGED <<user, proc, cool, invite>>
    BY DEF Expire
  <1>2. token[s] # None => token[s].code \in CodesIn({s})
    BY DEF CodesIn
  <1>3. user' \in [User -> [there : BOOLEAN, email : Email \cup {None}, verified : BOOLEAN, active : BOOLEAN]]
        /\ cool' \in [Email -> Req \cup {None}]
    BY <1>1 DEF AccInv, AccTypes
  <1> QED BY <1>1, <1>2, <1>3, AccCleared

LEMMA AccChangeNow ==
  ASSUME AccInv, NEW r \in Req, NEW u \in User, NEW e \in Email, ChangeNow(r, u, e)
  PROVE  AccInv'
  <1> DEFINE s == <<"change", u>>
  <1>1. token' = Cleared({s}) /\ log' = Over(CodesIn({s}), log) /\ UNCHANGED <<cool, invite>> /\ End(r)
        /\ user' = [user EXCEPT ![u].email = e, ![u].verified = FALSE]
    BY DEF ChangeNow
  <1>2. s \in Slot
    BY DEF Slot
  <1>3. token[s] # None => token[s].code \in CodesIn({s})
    BY DEF CodesIn
  <1>4. cool' \in [Email -> Req \cup {None}]
    BY <1>1 DEF AccInv, AccTypes
  <1>5. /\ user' \in [User -> [there : BOOLEAN, email : Email \cup {None}, verified : BOOLEAN, active : BOOLEAN]]
        /\ \A v \in User : /\ user[v].there => user'[v].there
                           /\ user'[v].verified => user[v].verified /\ user'[v].email = user[v].email
    <2> DEFINE w == [user[u] EXCEPT !.email = e, !.verified = FALSE]
    <2>1. user' = [user EXCEPT ![u] = w] /\ user[u] \in [there : BOOLEAN, email : Email \cup {None}, verified : BOOLEAN, active : BOOLEAN]
          /\ user \in [User -> [there : BOOLEAN, email : Email \cup {None}, verified : BOOLEAN, active : BOOLEAN]]
      BY <1>1 DEF AccInv, AccTypes
    <2>2. w \in [there : BOOLEAN, email : Email \cup {None}, verified : BOOLEAN, active : BOOLEAN]
          /\ ~w.verified /\ w.there = user[u].there
      BY <2>1
    <2> HIDE DEF w
    <2> QED BY <2>1, <2>2
  <1> QED BY <1>1, <1>2, <1>3, <1>4, <1>5, AccCleared

LEMMA AccClose ==
  ASSUME AccInv, NEW r \in Req, NEW u \in User, CloseAccount(r, u)
  PROVE  AccInv'
  <1> DEFINE S == {<<"change", u>>} \cup {s \in Slot : s[1] = "reset" /\ token[s] # None /\ token[s].user = u}
  <1>1. token' = Cleared(S) /\ log' = Over(CodesIn(S), log) /\ UNCHANGED <<cool, invite>> /\ End(r)
        /\ user' = [user EXCEPT ![u].email = None, ![u].verified = FALSE, ![u].active = FALSE]
    BY DEF CloseAccount
  <1>2. S \in SUBSET Slot
    BY DEF Slot
  <1>3. \A s \in S : token[s] # None => token[s].code \in CodesIn(S)
    BY DEF CodesIn
  <1>4. cool' \in [Email -> Req \cup {None}]
    BY <1>1 DEF AccInv, AccTypes
  <1>5. /\ user' \in [User -> [there : BOOLEAN, email : Email \cup {None}, verified : BOOLEAN, active : BOOLEAN]]
        /\ \A v \in User : /\ user[v].there => user'[v].there
                           /\ user'[v].verified => user[v].verified /\ user'[v].email = user[v].email
    <2> DEFINE w == [user[u] EXCEPT !.email = None, !.verified = FALSE, !.active = FALSE]
    <2>1. user' = [user EXCEPT ![u] = w] /\ user[u] \in [there : BOOLEAN, email : Email \cup {None}, verified : BOOLEAN, active : BOOLEAN]
          /\ user \in [User -> [there : BOOLEAN, email : Email \cup {None}, verified : BOOLEAN, active : BOOLEAN]]
      BY <1>1 DEF AccInv, AccTypes
    <2>2. w \in [there : BOOLEAN, email : Email \cup {None}, verified : BOOLEAN, active : BOOLEAN]
          /\ ~w.verified /\ w.there = user[u].there
      BY <2>1
    <2> HIDE DEF w
    <2> QED BY <2>1, <2>2
  <1> HIDE DEF S
  <1> QED BY <1>1, <1>2, <1>3, <1>4, <1>5, AccCleared

LEMMA AccCoolEnds ==
  ASSUME AccInv, NEW e \in Email, CoolEnds(e)
  PROVE  AccInv'
  <1>1. UNCHANGED <<user, token, proc, invite, log>> /\ cool' = [cool EXCEPT ![e] = None]
        /\ (MailInTime => \A t \in Req : Sends(proc[t]) => proc[t].email # e)
    BY DEF CoolEnds, Sending, Sends
  <1>2. LogSound(log') /\ Grows(log, log', {}) /\ Len(log') = Len(log)
    BY <1>1, LogSame DEF AccInv
  <1>3. AccTypes' /\ InvitesSound' /\ InviteHeld' /\ AddressProved'
    BY <1>1, <1>2, InviteSame, ProvedSame DEF AccInv, AccTypes
  <1>4. MailInTime => CoolHeld' /\ Stands(token', log')
    <2>1. MailInTime => \A t \in Req : Sends(proc[t]) => cool'[proc[t].email] = cool[proc[t].email]
      BY <1>1 DEF AccInv, AccTypes, AskSound
    <2>2. \A t \in Req : proc[t].pc = "stored" => proc[t].slot \in Slot
      BY DEF AccInv, AskSound, Sends
    <2>3. MailInTime => CoolHeld'
      BY <1>1, <2>1, <2>2, CoolSame DEF AccInv
    <2> QED BY <1>1, <2>3 DEF AccInv
  <1> QED BY <1>1, <1>2, <1>3, <1>4, AccDrop DEF AccInv

(* A code is presented: the request holds its row.                         *)
LEMMA AccPresent ==
  ASSUME AccInv, NEW r \in Req, NEW s \in Slot, NEW inv \in BOOLEAN, Present(r, s, inv)
  PROVE  AccInv'
  <1> DEFINE w == token[s]
             q == [Idle EXCEPT !.pc = "read", !.slot = s, !.row = w, !.user = w.user, !.email = w.email, !.invited = inv \/ w.invited]
  <1>1. UNCHANGED <<user, token, cool, invite, log>> /\ proc' = [proc EXCEPT ![r] = q] /\ w # None /\ Free(s) /\ w.tries < MaxTries
    BY DEF Present
  <1>2. w \in Row /\ RowFits(log, s, w)
    BY <1>1, CodesHere
  <1> HIDE DEF w
  <1>3. q \in AccSteps /\ q.pc = "read" /\ q.slot = s /\ q.row = w /\ q.user = w.user /\ q.email = w.email
    <2>1. w.user \in User /\ w.email \in Email \cup {None} /\ (inv \/ w.invited) \in BOOLEAN
      BY <1>2 DEF Row
    <2> HIDE DEF Row
    <2> QED BY <1>2, <2>1, IdleStep DEF AccSteps
  <1> HIDE DEF q
  <1>4. proc' \in [Req -> AccSteps] /\ proc'[r] = q /\ \A t \in Req \ {r} : proc'[t] = proc[t]
    BY <1>1, <1>3 DEF AccInv, AccTypes
  <1>5. TokensFit(token', log')
    BY <1>1 DEF AccInv
  <1>6. HeldFits(token', log', proc'[r])
    <2>1. token'[s] = w
      BY <1>1 DEF w
    <2>2. \A t \in Slot : token[t] # None /\ token[t].code = w.code => t = s
      BY <1>1 DEF AccInv, TokensFit, w
    <2> QED BY <1>1, <1>2, <1>3, <1>4, <2>1, <2>2 DEF HeldFits
  <1>7. \A t \in Req \ {r} : Holds(proc[t]) => HeldFits(token, log, proc[t]) /\ proc[t].row.code # w.code
    <2> SUFFICES ASSUME NEW t \in Req \ {r}, Holds(proc[t]) PROVE HeldFits(token, log, proc[t]) /\ proc[t].row.code # w.code
      OBVIOUS
    <2>1. HeldFits(token, log, proc[t])
      BY DEF AccInv, HoldersFit
    <2>2. proc[t].slot # s
      BY <1>1 DEF Free, At, Holds, Reads
    <2> QED BY <1>1, <2>1, <2>2 DEF HeldFits, w
  <1>8. HoldersFit(token', proc', log')
    <2>1. ASSUME NEW t \in Req, Holds(proc'[t]) PROVE HeldFits(token', log', proc'[t])
      BY <1>1, <1>4, <1>6, <1>7, <2>1
    <2>2. ASSUME NEW a \in Req, NEW b \in Req, Holds(proc'[a]), Holds(proc'[b]), proc'[a].row.code = proc'[b].row.code
          PROVE  a = b
      <3>1. CASE a = r
        BY <1>3, <1>4, <1>7, <2>2, <3>1
      <3>2. CASE b = r
        BY <1>3, <1>4, <1>7, <2>2, <3>2
      <3>3. CASE a # r /\ b # r
        <4>1. proc'[a] = proc[a] /\ proc'[b] = proc[b]
          BY <1>4, <3>3
        <4> QED BY <2>2, <4>1 DEF AccInv, HoldersFit
      <3> QED BY <3>1, <3>2, <3>3
    <2> QED BY <2>1, <2>2 DEF HoldersFit
  <1>9. AccTypes' /\ LogSound(log')
    BY <1>1, <1>4 DEF AccInv, AccTypes
  <1>10. \A t \in Req : AskSound(proc'[t], Len(log'))
    <2>1. AskSound(proc'[r], Len(log'))
      BY <1>3, <1>4, AccNone DEF AskSound, Sends, Reads
    <2> QED BY <1>1, <1>4, <2>1 DEF AccInv
  <1>11. InvitesSound' /\ InviteHeld' /\ AddressProved'
    <2>1. \A t \in Req : proc'[t].pc = "invited" => proc[t].pc = "invited"
      BY <1>3, <1>4
    <2>2. Grows(log, log', {})
      BY <1>1, LogSame DEF AccInv
    <2> QED BY <1>1, <1>9, <2>1, <2>2, InviteSame, ProvedSame
  <1>12. MailInTime => CoolHeld' /\ Stands(token', log')
    <2>1. \A t \in Req : Sends(proc'[t]) => proc'[t] = proc[t] /\ cool'[proc[t].email] = cool[proc[t].email]
      BY <1>1, <1>3, <1>4 DEF Sends
    <2>2. \A t \in Req : proc[t].pc = "stored" => proc[t].slot \in Slot
      BY DEF AccInv, AskSound, Sends
    <2>3. MailInTime => CoolHeld'
      BY <1>1, <2>1, <2>2, CoolSame DEF AccInv
    <2> QED BY <1>1, <2>3 DEF AccInv
  <1> QED BY <1>5, <1>8, <1>9, <1>10, <1>11, <1>12 DEF AccInv

(* A wrong try is counted on the row and in the history of its code.       *)
LEMMA AccWrong ==
  ASSUME AccInv, NEW r \in Req, Wrong(r)
  PROVE  AccInv'
  <1> DEFINE s == proc[r].slot
             w == proc[r].row
             c0 == w.code
             w2 == [w EXCEPT !.tries = w.tries + 1]
  <1>1. Holds(proc[r]) /\ End(r) /\ UNCHANGED <<user, cool, invite>> /\ token' = [token EXCEPT ![s] = Tried(token[s])]
        /\ log' = [log EXCEPT ![c0].wrong = IF log[c0].wrong > MaxTries THEN log[c0].wrong ELSE log[c0].wrong + 1]
    <2>1. proc[r].pc = "read" /\ s # None /\ End(r) /\ UNCHANGED <<user, cool, invite>>
      BY DEF Wrong, At
    <2>2. token' = [token EXCEPT ![s] = Tried(token[s])]
      BY DEF Wrong
    <2>3. log' = [log EXCEPT ![c0].wrong = IF log[c0].wrong > MaxTries THEN log[c0].wrong ELSE log[c0].wrong + 1]
      BY Zenon DEF Wrong
    <2> HIDE DEF s, w
    <2>4. Holds(proc[r])
      BY <2>1 DEF Holds, Reads, s
    <2> QED BY <2>1, <2>2, <2>3, <2>4
  <1>2. HeldFits(token, log, proc[r])
    BY <1>1 DEF AccInv, HoldersFit
  <1>3. /\ s \in Slot /\ w \in Row /\ RowFits(log, s, w) /\ w.tries < MaxTries /\ token[s] \in {w, None}
        /\ \A t \in Slot : token[t] # None /\ token[t].code = c0 => t = s
    BY <1>2 DEF HeldFits
  <1>4. /\ LogSound(log) /\ c0 \in 1..Len(log) /\ Len(log) \in Nat /\ log \in Seq(Record) /\ log[c0] \in Record
        /\ log[c0].wrong = w.tries /\ w.tries \in 0..MaxTries /\ log[c0].uses = 0
    BY <1>3 DEF AccInv, LogSound, RowFits, Row
  <1>5. w2 \in Row /\ w2.code = c0 /\ w2.email = w.email /\ w2.tries = w.tries + 1 /\ w2 # None
    <2>1. w.tries + 1 \in 0..MaxTries
      BY <1>3, <1>4, AccNone
    <2>2. w2 \in Row /\ w2.code = c0 /\ w2.email = w.email /\ w2.tries = w.tries + 1
      BY <1>3, <2>1 DEF Row
    <2> QED BY <2>2, AccNone
  <1>6. /\ token' \in [Slot -> Row \cup {None}] /\ \A t \in Slot \ {s} : token'[t] = token[t]
        /\ token[s] = None => token'[s] = None
        /\ token[s] # None => token'[s] = w2 /\ token[s] = w
    <2>1. token \in [Slot -> Row \cup {None}]
      BY DEF AccInv, AccTypes
    <2>2. CASE token[s] = None
      <3>1. token' = [token EXCEPT ![s] = None]
        BY <1>1, <2>2 DEF Tried
      <3> QED BY <1>3, <2>1, <2>2, <3>1
    <2>3. CASE token[s] # None
      <3>1. token[s] = w /\ ~(w.tries >= MaxTries)
        BY <1>3, <1>4, <2>3, AccNone
      <3>2. token' = [token EXCEPT ![s] = w2]
        BY <1>1, <2>3, <3>1 DEF Tried
      <3> QED BY <1>3, <1>5, <2>1, <2>3, <3>1, <3>2
    <2> QED BY <2>2, <2>3
  <1> HIDE DEF w2
  <1>7. /\ log' \in Seq(Record) /\ Len(log') = Len(log) /\ \A c \in 1..Len(log) : c # c0 => log'[c] = log[c]
        /\ log'[c0] = [log[c0] EXCEPT !.wrong = w.tries + 1] /\ log'[c0] \in Record
    <2>1. [log[c0] EXCEPT !.wrong = w.tries + 1] \in Record
      <3>1. w.tries + 1 \in 0..MaxTries + 1
        BY <1>4, AccNone
      <3> QED BY <1>4, <3>1 DEF Record
    <2>2. log' = [log EXCEPT ![c0] = [log[c0] EXCEPT !.wrong = w.tries + 1]]
      <3>1. ~(log[c0].wrong > MaxTries)
        BY <1>3, <1>4, AccNone
      <3> QED BY <1>1, <1>4, <3>1
    <2>3. log \in [1..Len(log) -> Record] /\ DOMAIN log = 1..Len(log)
      BY <1>4
    <2> HIDE DEF s, w, c0
    <2>4. log' \in [1..Len(log) -> Record]
      BY <1>4, <2>1, <2>2, <2>3
    <2>5. log' \in Seq(Record) /\ Len(log') = Len(log)
      BY <1>4, <2>4
    <2> QED BY <1>4, <2>1, <2>2, <2>3, <2>5
  <1>8. /\ log'[c0].kind = log[c0].kind /\ log'[c0].to = log[c0].to /\ log'[c0].uses = 0 /\ log'[c0].wrong = w.tries + 1
        /\ log'[c0].over = log[c0].over /\ log'[c0].mailed = log[c0].mailed
    BY <1>4, <1>7 DEF Record
  <1> HIDE DEF s, w, c0
  <1>9. LogSound(log') /\ Grows(log, log', {c0})
    <2>1. \A c \in 1..Len(log) :
            /\ log'[c].kind = log[c].kind /\ log'[c].to = log[c].to
            /\ (log[c].mailed => log'[c].mailed) /\ (log[c].over => log'[c].over)
            /\ c \notin {c0} => log'[c].uses = log[c].uses /\ log'[c].wrong = log[c].wrong
      BY <1>7, <1>8
    <2>2. \A c \in 1..Len(log) : c \in {c0} => log[c].uses <= log'[c].uses /\ log'[c].uses <= 1 /\ log'[c].wrong <= MaxTries
      BY <1>3, <1>4, <1>8, AccNone
    <2> QED BY <1>4, <1>7, <2>1, <2>2, LogGrows
  <1>10. TokensFit(token', log')
    <2>1. ASSUME NEW t \in Slot, token'[t] # None PROVE RowFits(log', t, token'[t])
      <3>1. CASE t = s
        <4>1. token'[s] = w2 /\ token[s] = w
          BY <1>6, <2>1, <3>1
        <4> QED BY <1>3, <1>4, <1>5, <1>7, <1>8, <3>1, <4>1 DEF RowFits, c0
      <3>2. CASE t # s
        <4>1. token'[t] = token[t] /\ token[t] # None
          BY <1>6, <2>1, <3>2
        <4>2. RowFits(log, t, token[t]) /\ token[t].code \notin {c0}
          BY <1>3, <3>2, <4>1 DEF AccInv, TokensFit
        <4>3. Len(log') \in Nat
          BY <1>4, <1>7
        <4> QED BY <1>4, <1>9, <4>1, <4>2, <4>3, FitsKept
      <3> QED BY <3>1, <3>2
    <2>2. ASSUME NEW a \in Slot, NEW b \in Slot, token'[a] # None, token'[b] # None, token'[a].code = token'[b].code
          PROVE  a = b
      <3>1. token[a] # None /\ token[b] # None /\ token[a].code = token[b].code
        BY <1>5, <1>6, <2>2 DEF c0
      <3> QED BY <3>1 DEF AccInv, TokensFit
    <2> QED BY <2>1, <2>2 DEF TokensFit
  <1>11. HoldersFit(token', proc', log')
    <2>0. \A t \in Req : Holds(proc'[t]) => t # r /\ proc'[t] = proc[t] /\ Holds(proc[t])
      BY <1>1, AccEnd
    <2>1. ASSUME NEW t \in Req, Holds(proc'[t]) PROVE HeldFits(token', log', proc'[t])
      <3>1. t # r /\ proc'[t] = proc[t] /\ Holds(proc[t]) /\ HeldFits(token, log, proc[t])
        BY <2>0, <2>1 DEF AccInv, HoldersFit
      <3>2. proc[t].row.code # c0
        BY <1>1, <3>1 DEF AccInv, HoldersFit, c0, w
      <3>3. RowFits(log', proc[t].slot, proc[t].row)
        <4>1. Len(log') \in Nat /\ proc[t].row.code \notin {c0} /\ RowFits(log, proc[t].slot, proc[t].row)
          BY <1>4, <1>7, <3>1, <3>2 DEF HeldFits
        <4> QED BY <1>4, <1>9, <4>1, FitsKept
      <3>4. token'[proc[t].slot] \in {proc[t].row, None}
        <4>1. CASE proc[t].slot = s /\ token[s] # None
          <5>1. token[s] = w /\ token[s] = proc[t].row
            BY <1>6, <3>1, <4>1 DEF HeldFits
          <5> QED BY <3>2, <5>1 DEF c0
        <4>2. CASE ~(proc[t].slot = s /\ token[s] # None)
          BY <1>6, <3>1, <4>2 DEF HeldFits
        <4> QED BY <4>1, <4>2
      <3>5. \A a \in Slot : token'[a] # None /\ token'[a].code = proc[t].row.code => a = proc[t].slot
        <4> SUFFICES ASSUME NEW a \in Slot, token'[a] # None, token'[a].code = proc[t].row.code PROVE a = proc[t].slot
          OBVIOUS
        <4>1. a # s
          BY <1>5, <1>6, <3>2
        <4> QED BY <1>6, <3>1, <4>1 DEF HeldFits
      <3> QED BY <3>1, <3>3, <3>4, <3>5 DEF HeldFits
    <2>2. \A a, b \in Req : Holds(proc'[a]) /\ Holds(proc'[b]) /\ proc'[a].row.code = proc'[b].row.code => a = b
      BY <2>0 DEF AccInv, HoldersFit
    <2> QED BY <2>1, <2>2 DEF HoldersFit
  <1>12. AccTypes'
    BY <1>1, <1>6, AccEnd DEF AccInv, AccTypes
  <1>13. \A t \in Req : AskSound(proc'[t], Len(log'))
    BY <1>1, <1>7, AccEnd
  <1>14. InvitesSound' /\ InviteHeld' /\ AddressProved'
    BY <1>1, <1>9, AccEnd, InviteSame, ProvedSame
  <1>15. ASSUME MailInTime
         PROVE  CoolHeld' /\ Stands(token', log')
    <2>1. \A t \in Slot : (token'[t] # None <=> token[t] # None) /\ (token[t] # None => token'[t].code = token[t].code)
      BY <1>5, <1>6 DEF c0
    <2>2. \A t \in Req : Sends(proc'[t]) => proc'[t] = proc[t] /\ cool'[proc[t].email] = cool[proc[t].email]
      BY <1>1, AccEnd
    <2>3. \A t \in Req : proc[t].pc = "stored" => proc[t].slot \in Slot
      BY DEF AccInv, AskSound, Sends
    <2>4. CoolHeld'
      BY <1>15, <2>1, <2>2, <2>3, CoolSame DEF AccInv
    <2>5. Stands(token', log')
      BY <1>4, <1>7, <1>9, <1>15, <2>1, StandsDropped DEF AccInv
    <2> QED BY <2>4, <2>5
  <1> QED BY <1>9, <1>10, <1>11, <1>12, <1>13, <1>14, <1>15 DEF AccInv

(* A request goes on with the row it holds, or starts without one.         *)
LEMMA AccGoes ==
  ASSUME AccInv, NEW r \in Req, NEW q \in AccSteps, proc' = [proc EXCEPT ![r] = q], UNCHANGED <<user, token, cool, invite, log>>,
         ~Sends(q), AskSound(q, Len(log)),
         Holds(q) => Holds(proc[r]) /\ q.slot = proc[r].slot /\ q.row = proc[r].row /\ q.user = proc[r].user /\ q.email = proc[r].email,
         q.pc = "invited" => Usable /\ \A t \in Req : proc[t].pc # "invited"
  PROVE  AccInv'
  <1>1. proc' \in [Req -> AccSteps] /\ proc'[r] = q /\ \A t \in Req \ {r} : proc'[t] = proc[t]
    BY DEF AccInv, AccTypes
  <1>2. LogSound(log') /\ Grows(log, log', {}) /\ Len(log') = Len(log)
    BY LogSame DEF AccInv
  <1>3. AccTypes'
    BY <1>1 DEF AccInv, AccTypes
  <1>4. InvitesSound' /\ InviteHeld'
    <2>1. InvitesSound'
      BY DEF AccInv, InvitesSound
    <2>2. \A u \in invite.members : user[u].there /\ IsFiniteSet(invite.members)
      BY DEF AccInv, InviteHeld
    <2>3. \A t \in Req : proc'[t].pc = "invited" => Usable
      BY <1>1 DEF AccInv, InviteHeld
    <2>4. \A t, a \in Req : proc'[t].pc = "invited" /\ proc'[a].pc = "invited" => t = a
      BY <1>1 DEF AccInv, InviteHeld
    <2>5. Usable => Usable'
      BY DEF Usable
    <2> QED BY <2>1, <2>2, <2>3, <2>4, <2>5 DEF AccInv, InviteHeld
  <1>5. AddressProved'
    BY <1>2, ProvedSame
  <1>6. MailInTime => CoolHeld' /\ Stands(token', log')
    <2>1. \A t \in Req : Sends(proc'[t]) => proc'[t] = proc[t] /\ cool'[proc[t].email] = cool[proc[t].email]
      BY <1>1
    <2>2. \A t \in Req : proc[t].pc = "stored" => proc[t].slot \in Slot
      BY DEF AccInv, AskSound, Sends
    <2>3. MailInTime => CoolHeld'
      BY <2>1, <2>2, CoolSame DEF AccInv
    <2> QED BY <2>3 DEF AccInv
  <1>7. \A t \in Req : AskSound(proc'[t], Len(log))
    BY <1>1 DEF AccInv
  <1>8. \A t \in Req : Holds(proc'[t]) =>
          /\ Holds(proc[t]) /\ proc'[t].slot = proc[t].slot /\ proc'[t].row = proc[t].row /\ proc'[t].user = proc[t].user
          /\ proc'[t].email = proc[t].email /\ proc[t].row.code \notin {}
    BY <1>1
  <1>9. token' = token
    OBVIOUS
  <1> QED BY <1>2, <1>3, <1>4, <1>5, <1>6, <1>7, <1>8, <1>9, AccDrop

LEMMA AccRegisterNow ==
  ASSUME AccInv, NEW r \in Req, NEW u \in User, NEW e \in Email, NEW inv \in BOOLEAN, RegisterNow(r, u, e, inv)
  PROVE  AccInv'
  <1> DEFINE q == [Idle EXCEPT !.pc = "read", !.user = u, !.email = e, !.invited = inv]
  <1>1. proc' = [proc EXCEPT ![r] = q] /\ UNCHANGED <<user, token, cool, invite, log>>
    BY DEF RegisterNow
  <1>2. q \in AccSteps /\ q.pc = "read" /\ q.slot = None /\ q.row = None /\ q.user = u /\ q.email = e
    <2>1. Idle.slot = None /\ Idle.row = None
      BY DEF Idle
    <2> QED BY <2>1, IdleStep DEF AccSteps
  <1> HIDE DEF q
  <1>3. ~Sends(q) /\ ~Holds(q) /\ AskSound(q, Len(log))
    BY <1>2 DEF Sends, Holds, Reads, AskSound
  <1> QED BY <1>1, <1>2, <1>3, AccGoes

LEMMA AccConsume ==
  ASSUME AccInv, NEW r \in Req, ConsumeInvite(r)
  PROVE  AccInv'
  <1> DEFINE q == [proc[r] EXCEPT !.pc = "invited"]
  <1>0. proc[r].pc = "read" /\ InviteFree /\ UNCHANGED <<user, token, cool, invite, log>> /\ proc \in [Req -> AccSteps]
    BY DEF ConsumeInvite, At, AccInv, AccTypes
  <1>1. CASE Usable /\ proc' = [proc EXCEPT ![r].pc = "invited"]
    <2>1. proc' = [proc EXCEPT ![r] = q]
      BY <1>0, <1>1
    <2>2. q \in AccSteps /\ q.pc = "invited" /\ q.slot = proc[r].slot /\ q.row = proc[r].row /\ q.user = proc[r].user /\ q.email = proc[r].email
      BY <1>0 DEF AccSteps
    <2> HIDE DEF q
    <2>3. ~Sends(q) /\ (Holds(q) => Holds(proc[r]))
      BY <1>0, <2>2 DEF Sends, Holds, Reads
    <2>4. AskSound(q, Len(log))
      BY <1>0, <2>2, <2>3 DEF AccInv, AskSound, Reads
    <2>5. \A t \in Req : proc[t].pc # "invited"
      BY <1>0 DEF InviteFree, At
    <2> QED BY <1>0, <1>1, <2>1, <2>2, <2>3, <2>4, <2>5, AccGoes
  <1>2. CASE End(r)
    <2>1. cool' \in [Email -> Req \cup {None}] /\ cool' = cool
      BY <1>0 DEF AccInv, AccTypes
    <2> QED BY <1>0, <1>2, <2>1, AccStop
  <1> QED BY <1>1, <1>2 DEF ConsumeInvite

LEMMA AccFails ==
  ASSUME AccInv, NEW r \in Req, End(r), UNCHANGED <<user, token, cool, invite, log>>
  PROVE  AccInv'
  <1>1. cool' \in [Email -> Req \cup {None}] /\ cool' = cool
    BY DEF AccInv, AccTypes
  <1> QED BY <1>1, AccStop

LEMMA AccSetStatus ==
  ASSUME AccInv, NEW r \in Req, NEW u \in User, SetStatus(r, u)
  PROVE  AccInv'
  <1> DEFINE w == [user[u] EXCEPT !.active = ~user[u].active]
  <1>1. End(r) /\ UNCHANGED <<token, log>> /\ cool' = cool /\ UNCHANGED invite /\ user' = [user EXCEPT ![u] = w]
    BY DEF SetStatus, AccInv, AccTypes
  <1>2. user[u] \in [there : BOOLEAN, email : Email \cup {None}, verified : BOOLEAN, active : BOOLEAN]
        /\ user \in [User -> [there : BOOLEAN, email : Email \cup {None}, verified : BOOLEAN, active : BOOLEAN]]
    BY DEF AccInv, AccTypes
  <1>3. w \in [there : BOOLEAN, email : Email \cup {None}, verified : BOOLEAN, active : BOOLEAN]
        /\ w.there = user[u].there /\ w.email = user[u].email /\ w.verified = user[u].verified
    BY <1>2
  <1> HIDE DEF w
  <1>4. /\ user' \in [User -> [there : BOOLEAN, email : Email \cup {None}, verified : BOOLEAN, active : BOOLEAN]]
        /\ \A v \in User : /\ user[v].there => user'[v].there
                           /\ user'[v].verified => user[v].verified /\ user'[v].email = user[v].email
    BY <1>1, <1>2, <1>3
  <1>5. cool' \in [Email -> Req \cup {None}] /\ invite' \in [used : 0..MaxUses, disabled : BOOLEAN, members : SUBSET User]
    BY <1>1 DEF AccInv, AccTypes
  <1>6. InvitesSound' /\ InviteHeld'
    <2>1. \A t \in Req : proc'[t].pc = "invited" => proc[t].pc = "invited"
      BY <1>1, AccEnd
    <2> QED BY <1>1, <1>4, <2>1, InviteSame
  <1>7. UNCHANGED <<token, log>> /\ \A t \in Req : cool'[proc[t].email] = cool[proc[t].email]
    BY <1>1
  <1> QED BY <1>1, <1>4, <1>5, <1>6, <1>7, AccStill

LEMMA AccDisable ==
  ASSUME AccInv, NEW r \in Req, DisableInvite(r)
  PROVE  AccInv'
  <1> DEFINE w == [invite EXCEPT !.disabled = TRUE]
  <1>1. End(r) /\ UNCHANGED <<token, log>> /\ cool' = cool /\ user' = user /\ invite' = w /\ InviteFree
    BY DEF DisableInvite
  <1>2. invite \in [used : 0..MaxUses, disabled : BOOLEAN, members : SUBSET User]
        /\ user' \in [User -> [there : BOOLEAN, email : Email \cup {None}, verified : BOOLEAN, active : BOOLEAN]]
        /\ cool' \in [Email -> Req \cup {None}]
    BY <1>1 DEF AccInv, AccTypes
  <1>3. w \in [used : 0..MaxUses, disabled : BOOLEAN, members : SUBSET User] /\ w.used = invite.used /\ w.members = invite.members
    BY <1>2
  <1> HIDE DEF w
  <1>4. InvitesSound'
    BY <1>1, <1>3 DEF AccInv, InvitesSound
  <1>5. InviteHeld'
    <2>1. \A t \in Req : proc'[t].pc # "invited"
      BY <1>1, AccEnd DEF InviteFree, At
    <2> QED BY <1>1, <1>3, <2>1 DEF AccInv, InviteHeld
  <1>6. /\ UNCHANGED <<token, log>> /\ \A t \in Req : cool'[proc[t].email] = cool[proc[t].email]
        /\ \A u \in User : /\ user[u].there => user'[u].there
                           /\ user'[u].verified => user[u].verified /\ user'[u].email = user[u].email
    BY <1>1
  <1> QED BY <1>1, <1>2, <1>3, <1>4, <1>5, <1>6, AccStill

(* What a commit does to the history: the code that was held is used, and  *)
(* those of the rows that are deleted are taken back.                      *)
LEMMA CommitLog ==
  ASSUME AccInv, NEW c0, NEW C, c0 \in 1..Len(log), log[c0].uses = 0, log' = Used(c0, Over(C, log))
  PROVE  /\ LogSound(log') /\ Grows(log, log', {c0}) /\ Len(log') = Len(log)
         /\ log'[c0].uses = 1 /\ log'[c0].to = log[c0].to /\ log'[c0].mailed = log[c0].mailed
         /\ \A c \in 1..Len(log) : c \in C => log'[c].over
  <1> DEFINE o == Over(C, log)
             w == [o[c0] EXCEPT !.uses = 1]
  <1>1. LogSound(log) /\ Len(log) \in Nat
    BY DEF AccInv, LogSound
  <1>2. /\ LogSound(o) /\ Grows(log, o, {}) /\ Len(o) = Len(log) /\ o \in Seq(Record)
        /\ \A c \in 1..Len(log) : /\ o[c].over <=> c \in C \/ log[c].over
                                  /\ o[c].uses = log[c].uses /\ o[c].wrong = log[c].wrong
                                  /\ o[c].mailed = log[c].mailed /\ o[c].to = log[c].to /\ o[c].kind = log[c].kind
    BY <1>1, LogOver
  <1>3. log' = [o EXCEPT ![c0].uses = IF @ = 2 THEN @ ELSE @ + 1]
    BY DEF Used
  <1> HIDE DEF o
  <1>4. o[c0] \in Record /\ o[c0].uses = 0
    BY <1>2
  <1>5. /\ w \in Record /\ w.uses = 1 /\ w.wrong = o[c0].wrong /\ w.kind = o[c0].kind /\ w.to = o[c0].to
        /\ w.mailed = o[c0].mailed /\ w.over = o[c0].over
    BY <1>4 DEF Record
  <1>6. log' = [o EXCEPT ![c0] = w]
    BY <1>3, <1>4
  <1> HIDE DEF w
  <1>7. log' \in Seq(Record) /\ Len(log') = Len(log) /\ log'[c0] = w /\ \A c \in 1..Len(log) : c # c0 => log'[c] = o[c]
    <2>1. o \in [1..Len(log) -> Record] /\ DOMAIN o = 1..Len(log)
      BY <1>2
    <2>2. log' \in [1..Len(log) -> Record]
      BY <1>5, <1>6, <2>1
    <2>3. log' \in Seq(Record) /\ Len(log') = Len(log)
      BY <1>1, <2>2
    <2> QED BY <1>6, <2>1, <2>3
  <1>8. LogSound(log') /\ Grows(o, log', {c0})
    <2>1. \A c \in 1..Len(o) :
            /\ log'[c].kind = o[c].kind /\ log'[c].to = o[c].to
            /\ (o[c].mailed => log'[c].mailed) /\ (o[c].over => log'[c].over)
            /\ c \notin {c0} => log'[c].uses = o[c].uses /\ log'[c].wrong = o[c].wrong
      BY <1>2, <1>5, <1>7
    <2>2. o[c0].wrong <= MaxTries
      BY <1>2 DEF LogSound
    <2>3. \A c \in 1..Len(o) : c \in {c0} => o[c].uses <= log'[c].uses /\ log'[c].uses <= 1 /\ log'[c].wrong <= MaxTries
      BY <1>4, <1>5, <1>7, <2>2
    <2>4. Len(log') = Len(o)
      BY <1>2, <1>7
    <2> QED BY <1>2, <1>7, <2>1, <2>3, <2>4, LogGrows
  <1>9. Grows(log, log', {c0})
    BY <1>1, <1>2, <1>8, GrowsOn
  <1> QED BY <1>2, <1>5, <1>7, <1>8, <1>9

LEMMA HeldCode ==
  ASSUME AccInv, NEW r \in Req, Holds(proc[r])
  PROVE  /\ proc[r].slot \in Slot /\ proc[r].row \in Row /\ proc[r].row # None /\ proc[r].row.code \in 1..Len(log)
         /\ log[proc[r].row.code].uses = 0 /\ log[proc[r].row.code].to = proc[r].email
         /\ proc[r].user = proc[r].row.user /\ proc[r].user \in User /\ token[proc[r].slot] \in {proc[r].row, None}
         /\ \A t \in Slot : token[t] # None /\ token[t].code = proc[r].row.code => t = proc[r].slot
  <1>1. HeldFits(token, log, proc[r])
    BY DEF AccInv, HoldersFit
  <1>2. proc[r].row.user \in User
    BY <1>1 DEF HeldFits, Row
  <1> QED BY <1>1, <1>2, AccNone DEF HeldFits, RowFits

LEMMA AccCommit ==
  ASSUME AccInv, NEW r \in Req, NEW S \in SUBSET Slot, Holds(proc[r]), UNCHANGED cool, Commit(r, S),
         proc[r].slot \in S \/ token[proc[r].slot] = None,
         user' \in [User -> [there : BOOLEAN, email : Email \cup {None}, verified : BOOLEAN, active : BOOLEAN]],
         invite' \in [used : 0..MaxUses, disabled : BOOLEAN, members : SUBSET User],
         InvitesSound', InviteHeld', AddressProved'
  PROVE  AccInv'
  <1> DEFINE c0 == proc[r].row.code
  <1>1. End(r) /\ token' = Cleared(S) /\ log' = Used(c0, Over(CodesIn(S), log))
    BY HeldCode DEF Commit
  <1>2. /\ c0 \in 1..Len(log) /\ log[c0].uses = 0 /\ token[proc[r].slot] \in {proc[r].row, None}
        /\ \A t \in Slot : token[t] # None /\ token[t].code = c0 => t = proc[r].slot
    BY HeldCode
  <1>3. /\ LogSound(log') /\ Grows(log, log', {c0}) /\ Len(log') = Len(log)
        /\ \A c \in 1..Len(log) : c \in CodesIn(S) => log'[c].over
    BY <1>1, <1>2, CommitLog
  <1>4. token' \in [Slot -> Row \cup {None}] /\ \A s \in Slot : token'[s] = IF s \in S THEN None ELSE token[s]
    BY <1>1 DEF Cleared, AccInv, AccTypes
  <1>5. AccTypes'
    BY <1>1, <1>4, AccEnd DEF AccInv, AccTypes
  <1>6. \A s \in Slot : token'[s] = token[s] \/ token'[s] = None
    BY <1>4
  <1>7. \A s \in Slot : token'[s] # None => token'[s].code \notin {c0}
    BY <1>2, <1>4
  <1>8. \A t \in Req : Holds(proc'[t]) => proc'[t] = proc[t] /\ Holds(proc[t]) /\ proc[t].row.code \notin {c0}
    BY <1>1, AccEnd DEF AccInv, HoldersFit
  <1>9. \A t \in Req : AskSound(proc'[t], Len(log))
    BY <1>1, AccEnd
  <1>10. ASSUME MailInTime
         PROVE  CoolHeld' /\ Stands(token', log')
    <2>1. CoolHeld /\ Stands(token, log) /\ \A t \in Req : proc[t].pc = "stored" => proc[t].slot \in Slot
      BY <1>10 DEF AccInv, AskSound, Sends
    <2>2. \A t \in Req : Sends(proc'[t]) => proc'[t] = proc[t] /\ cool'[proc[t].email] = cool[proc[t].email]
      BY <1>1, AccEnd
    <2>3. \A s \in Slot : token'[s] # None => token[s] # None /\ token'[s].code = token[s].code
      BY <1>4
    <2>4. CoolHeld'
      BY <2>1, <2>2, <2>3, CoolSame
    <2>5. \A s \in Slot : token[s] # None /\ token[s].code \in 1..Len(log) =>
            \/ token'[s] # None /\ token'[s].code = token[s].code
            \/ log'[token[s].code].over
      BY <1>3, <1>4 DEF CodesIn
    <2>6. Stands(token', log')
      <3>1. LogSound(log)
        BY DEF AccInv
      <3> QED BY <1>3, <2>1, <2>5, <3>1, StandsDropped
    <2> QED BY <2>4, <2>6
  <1>11. \A t \in Req : Holds(proc'[t]) =>
           /\ Holds(proc[t]) /\ proc'[t].slot = proc[t].slot /\ proc'[t].row = proc[t].row /\ proc'[t].user = proc[t].user
           /\ proc'[t].email = proc[t].email /\ proc[t].row.code \notin {c0}
    BY <1>8
  <1> HIDE DEF c0
  <1> QED BY <1>3, <1>5, <1>6, <1>7, <1>9, <1>10, <1>11, AccDrop

(* A request that committed had a code mailed to the address, which is     *)
(* used now.                                                               *)
LEMMA ProvedMore ==
  ASSUME AccInv, NEW C, Grows(log, log', C), LogSound(log'),
         \A u \in User : user'[u].verified =>
           \/ user[u].verified /\ user'[u].email = user[u].email
           \/ \E c \in 1..Len(log') : log'[c].to = user'[u].email /\ log'[c].mailed /\ log'[c].uses > 0
  PROVE  AddressProved'
  <1> SUFFICES ASSUME NEW u \in User, user'[u].verified
               PROVE  \E c \in DOMAIN log' : log'[c].to = user'[u].email /\ log'[c].mailed /\ log'[c].uses > 0
    BY DEF AddressProved
  <1>1. DOMAIN log = 1..Len(log) /\ DOMAIN log' = 1..Len(log') /\ Len(log) \in Nat /\ Len(log') \in Nat
    BY DEF AccInv, LogSound
  <1>2. CASE user[u].verified /\ user'[u].email = user[u].email
    <2>1. PICK c \in DOMAIN log : log[c].to = user[u].email /\ log[c].mailed /\ log[c].uses > 0
      BY <1>2 DEF AccInv, AddressProved
    <2>2. c \in DOMAIN log' /\ log'[c].to = user[u].email /\ log'[c].mailed /\ log'[c].uses > 0
      BY <1>1, <2>1 DEF Grows
    <2> QED BY <1>2, <2>2
  <1>3. CASE \E c \in 1..Len(log') : log'[c].to = user'[u].email /\ log'[c].mailed /\ log'[c].uses > 0
    BY <1>1, <1>3
  <1> QED BY <1>2, <1>3

LEMMA AccReset ==
  ASSUME AccInv, NEW r \in Req, ResetPassword(r)
  PROVE  AccInv'
  <1> DEFINE s == proc[r].slot
  <1>1. proc[r].pc = "read" /\ s # None /\ Commit(r, {s}) /\ UNCHANGED <<user, cool, invite>>
    BY DEF ResetPassword, At, For
  <1>2. Holds(proc[r]) /\ Reads(proc[r])
    BY <1>1 DEF Holds, Reads
  <1>3. s \in Slot /\ proc[r].row # None /\ proc[r].row.code \in 1..Len(log) /\ log[proc[r].row.code].uses = 0
    BY <1>2, HeldCode
  <1>4. LogSound(log') /\ Grows(log, log', {proc[r].row.code}) /\ End(r)
    BY <1>1, <1>3, CommitLog DEF Commit
  <1>5. InvitesSound' /\ InviteHeld' /\ AddressProved'
    <2>1. \A t \in Req : proc'[t].pc = "invited" => proc[t].pc = "invited"
      BY <1>4, AccEnd
    <2> QED BY <1>1, <1>4, <2>1, InviteSame, ProvedSame
  <1>6. user' \in [User -> [there : BOOLEAN, email : Email \cup {None}, verified : BOOLEAN, active : BOOLEAN]]
        /\ invite' \in [used : 0..MaxUses, disabled : BOOLEAN, members : SUBSET User]
    BY <1>1 DEF AccInv, AccTypes
  <1> HIDE DEF s
  <1>7. cool' = cool /\ {s} \in SUBSET Slot /\ (proc[r].slot \in {s} \/ token[proc[r].slot] = None)
    BY <1>1, <1>3 DEF s
  <1> QED BY <1>1, <1>2, <1>5, <1>6, <1>7, AccCommit

LEMMA AccConfirm ==
  ASSUME AccInv, NEW r \in Req, ConfirmChange(r)
  PROVE  AccInv'
  <1> DEFINE s == proc[r].slot
             u == proc[r].user
             e == proc[r].email
  <1>1. proc[r].pc = "read" /\ s # None /\ Right(r) /\ UNCHANGED <<cool, invite>>
    BY DEF ConfirmChange, At, For
  <1>2. CASE End(r) /\ UNCHANGED <<user, token, log>>
    BY <1>1, <1>2, AccFails
  <1>3. CASE user' = [user EXCEPT ![u].email = e, ![u].verified = TRUE] /\ Commit(r, {s})
    <2>1. Holds(proc[r]) /\ Reads(proc[r])
      BY <1>1 DEF Holds, Reads
    <2>2. s \in Slot /\ proc[r].row # None /\ proc[r].row.code \in 1..Len(log) /\ log[proc[r].row.code].uses = 0 /\ u \in User
          /\ log[proc[r].row.code].to = e /\ e \in Email \cup {None}
      <3>1. e \in Email \cup {None}
        BY DEF AccInv, AccTypes, AccSteps
      <3> QED BY <2>1, <3>1, HeldCode
    <2>3. log[proc[r].row.code].mailed
      BY <1>1, <2>2 DEF Right
    <2>4. /\ LogSound(log') /\ Grows(log, log', {proc[r].row.code}) /\ End(r) /\ Len(log') = Len(log)
          /\ log'[proc[r].row.code].uses = 1 /\ log'[proc[r].row.code].to = e /\ log'[proc[r].row.code].mailed
      BY <1>3, <2>2, <2>3, CommitLog DEF Commit
    <2> DEFINE w == [user[u] EXCEPT !.email = e, !.verified = TRUE]
    <2>5. user' = [user EXCEPT ![u] = w] /\ user[u] \in [there : BOOLEAN, email : Email \cup {None}, verified : BOOLEAN, active : BOOLEAN]
          /\ user \in [User -> [there : BOOLEAN, email : Email \cup {None}, verified : BOOLEAN, active : BOOLEAN]]
      BY <1>3, <2>2 DEF AccInv, AccTypes
    <2>6. w \in [there : BOOLEAN, email : Email \cup {None}, verified : BOOLEAN, active : BOOLEAN]
          /\ w.there = user[u].there /\ w.email = e
      BY <2>2, <2>5
    <2> HIDE DEF w, u, e, s
    <2>7. user' \in [User -> [there : BOOLEAN, email : Email \cup {None}, verified : BOOLEAN, active : BOOLEAN]]
          /\ user'[u] = w /\ \A v \in User : (user[v].there => user'[v].there) /\ (v # u => user'[v] = user[v])
      BY <2>2, <2>5, <2>6
    <2>8. AddressProved'
      <3>1. \E c \in 1..Len(log') : log'[c].to = user'[u].email /\ log'[c].mailed /\ log'[c].uses > 0
        BY <2>2, <2>4, <2>6, <2>7
      <3>2. \A v \in User : user'[v].verified =>
              \/ user[v].verified /\ user'[v].email = user[v].email
              \/ \E c \in 1..Len(log') : log'[c].to = user'[v].email /\ log'[c].mailed /\ log'[c].uses > 0
        BY <2>7, <3>1
      <3> QED BY <2>4, <3>2, ProvedMore
    <2>9. InvitesSound' /\ InviteHeld'
      <3>1. \A t \in Req : proc'[t].pc = "invited" => proc[t].pc = "invited"
        BY <2>4, AccEnd
      <3> QED BY <1>1, <2>7, <3>1, InviteSame
    <2>10. invite' \in [used : 0..MaxUses, disabled : BOOLEAN, members : SUBSET User]
      BY <1>1 DEF AccInv, AccTypes
    <2>11. cool' = cool /\ {s} \in SUBSET Slot /\ (proc[r].slot \in {s} \/ token[proc[r].slot] = None)
      BY <1>1, <2>2 DEF s
    <2> QED BY <1>3, <2>1, <2>7, <2>8, <2>9, <2>10, <2>11, AccCommit
  <1> QED BY <1>2, <1>3 DEF ConfirmChange

LEMMA AccComplete ==
  ASSUME AccInv, NEW r \in Req, CompleteLogin(r)
  PROVE  AccInv'
  <1> DEFINE S == {s \in Slot : s[1] = "mfa" /\ token[s] # None /\ token[s].user = proc[r].user}
  <1>1. proc[r].pc = "read" /\ proc[r].slot # None /\ proc[r].slot[1] = "mfa" /\ UNCHANGED <<user, cool, invite>>
    BY DEF CompleteLogin, At, For
  <1>2. CASE End(r) /\ UNCHANGED <<token, log>>
    BY <1>1, <1>2, AccFails
  <1>3. CASE Commit(r, S)
    <2>1. Holds(proc[r])
      BY <1>1 DEF Holds, Reads
    <2>2. proc[r].slot \in S \/ token[proc[r].slot] = None
      BY <1>1, <2>1, HeldCode
    <2>3. proc[r].row # None /\ proc[r].row.code \in 1..Len(log) /\ log[proc[r].row.code].uses = 0
      BY <2>1, HeldCode
    <2>4. S \in SUBSET Slot
      OBVIOUS
    <2> HIDE DEF S
    <2>5. LogSound(log') /\ Grows(log, log', {proc[r].row.code}) /\ End(r)
      BY <1>3, <2>3, CommitLog DEF Commit
    <2>6. InvitesSound' /\ InviteHeld' /\ AddressProved'
      <3>1. \A t \in Req : proc'[t].pc = "invited" => proc[t].pc = "invited"
        BY <2>5, AccEnd
      <3> QED BY <1>1, <2>5, <3>1, InviteSame, ProvedSame
    <2>7. user' \in [User -> [there : BOOLEAN, email : Email \cup {None}, verified : BOOLEAN, active : BOOLEAN]]
          /\ invite' \in [used : 0..MaxUses, disabled : BOOLEAN, members : SUBSET User] /\ cool' = cool
      BY <1>1 DEF AccInv, AccTypes
    <2> QED BY <1>3, <2>1, <2>2, <2>4, <2>6, <2>7, AccCommit
  <1> QED BY <1>2, <1>3 DEF CompleteLogin

(* A customer is made, and counted by the invitation it showed.            *)
LEMMA AccInvited ==
  ASSUME AccInv, NEW r \in Req, proc[r].pc = "invited", End(r), NEW u \in User, ~user[u].there, user'[u].there,
         \A v \in User : user[v].there => user'[v].there,
         invite' \in [used : Nat, disabled : BOOLEAN, members : SUBSET User],
         invite'.used = invite.used + 1, invite'.members = invite.members \cup {u}
  PROVE  /\ invite' \in [used : 0..MaxUses, disabled : BOOLEAN, members : SUBSET User]
         /\ InvitesSound' /\ InviteHeld'
  <1>1. invite \in [used : 0..MaxUses, disabled : BOOLEAN, members : SUBSET User] /\ Usable
        /\ IsFiniteSet(invite.members) /\ (\A v \in invite.members : user[v].there)
        /\ \A t \in Req : proc[t].pc = "invited" => t = r
    BY DEF AccInv, AccTypes, InviteHeld
  <1>2. invite.used = Cardinality(invite.members) /\ invite.used < MaxUses /\ invite.used \in Nat
    BY <1>1, AccNone DEF AccInv, InvitesSound, Usable
  <1>3. invite' \in [used : 0..MaxUses, disabled : BOOLEAN, members : SUBSET User]
        /\ invite'.used = invite.used + 1 /\ invite'.members = invite.members \cup {u}
    <2>1. invite'.used \in 0..MaxUses
      BY <1>1, <1>2, AccNone
    <2> QED BY <1>1, <2>1
  <1>4. u \notin invite.members
    BY <1>1
  <1>5. IsFiniteSet(invite.members \cup {u}) /\ Cardinality(invite.members \cup {u}) = Cardinality(invite.members) + 1
    BY <1>1, <1>4, FS_AddElement
  <1>6. InvitesSound'
    <2>1. invite'.used = Cardinality(invite'.members) /\ invite'.used <= MaxUses
      BY <1>2, <1>3, <1>5, AccNone
    <2> QED BY <2>1 DEF InvitesSound
  <1>7. InviteHeld'
    <2>1. \A t \in Req : proc'[t].pc # "invited"
      BY <1>1, AccEnd
    <2>2. \A v \in invite'.members : user'[v].there
      BY <1>1, <1>3
    <2>3. IsFiniteSet(invite'.members)
      BY <1>3, <1>5
    <2> QED BY <2>1, <2>2, <2>3 DEF InviteHeld
  <1> QED BY <1>3, <1>6, <1>7

LEMMA AccCreate ==
  ASSUME AccInv, NEW r \in Req, CreateUser(r)
  PROVE  AccInv'
  <1> DEFINE u == proc[r].user
             e == proc[r].email
             s == proc[r].slot
             w == [there |-> TRUE, email |-> e, verified |-> proc[r].row # None, active |-> TRUE]
             S == IF s = None THEN {} ELSE {s}
  <1>1. proc[r].pc = (IF proc[r].invited THEN "invited" ELSE "read") /\ Right(r) /\ cool' = cool
    BY DEF CreateUser, At
  <1>2. CASE End(r) /\ UNCHANGED <<user, token, invite, log>>
    BY <1>1, <1>2, AccFails
  <1>3. CASE /\ ~user[u].there /\ user' = [user EXCEPT ![u] = w] /\ Commit(r, S)
             /\ invite' = IF proc[r].invited THEN [invite EXCEPT !.used = invite.used + 1, !.members = invite.members \cup {u}] ELSE invite
    <2>1. Reads(proc[r]) /\ End(r) /\ proc[r] \in AccSteps
      BY <1>1, <1>3 DEF Reads, Commit, AccInv, AccTypes
    <2>2. u \in User /\ e \in Email \cup {None} /\ (s = None => proc[r].row = None)
      <3>1. s = None => proc[r].row = None /\ u \in User
        BY <2>1 DEF AccInv, AskSound
      <3>2. s # None => u \in User
        BY <2>1, HeldCode DEF Holds
      <3> QED BY <2>1, <3>1, <3>2 DEF AccSteps
    <2>3. w \in [there : BOOLEAN, email : Email \cup {None}, verified : BOOLEAN, active : BOOLEAN]
          /\ w.there /\ w.email = e /\ (w.verified <=> proc[r].row # None)
      <3> DEFINE f == proc[r].row # None
      <3>1. f \in BOOLEAN
        OBVIOUS
      <3> HIDE DEF f
      <3>2. w = [there |-> TRUE, email |-> e, verified |-> f, active |-> TRUE]
        BY DEF f
      <3>3. w \in [there : BOOLEAN, email : Email \cup {None}, verified : BOOLEAN, active : BOOLEAN]
            /\ w.there /\ w.email = e /\ w.verified = f
        BY <2>2, <3>1, <3>2
      <3> HIDE DEF w
      <3> QED BY <3>3 DEF f
    <2> HIDE DEF w
    <2>4. user' \in [User -> [there : BOOLEAN, email : Email \cup {None}, verified : BOOLEAN, active : BOOLEAN]]
          /\ user'[u] = w /\ (\A v \in User : v # u => user'[v] = user[v]) /\ \A v \in User : user[v].there => user'[v].there
      <3>1. user \in [User -> [there : BOOLEAN, email : Email \cup {None}, verified : BOOLEAN, active : BOOLEAN]]
        BY DEF AccInv, AccTypes
      <3> QED BY <1>3, <2>2, <2>3, <3>1
    <2>5. invite' \in [used : 0..MaxUses, disabled : BOOLEAN, members : SUBSET User] /\ InvitesSound' /\ InviteHeld'
      <3>1. CASE proc[r].invited
        <4>1. proc[r].pc = "invited" /\ ~user[u].there /\ user'[u].there
              /\ invite' = [invite EXCEPT !.used = invite.used + 1, !.members = invite.members \cup {u}]
          BY <1>1, <1>3, <2>3, <2>4, <3>1
        <4>2. End(r) /\ u \in User /\ ~user[u].there /\ user'[u].there
          BY <2>1, <2>2, <4>1
        <4>3. \A v \in User : user[v].there => user'[v].there
          BY <2>4
        <4>4. invite' \in [used : Nat, disabled : BOOLEAN, members : SUBSET User]
              /\ invite'.used = invite.used + 1 /\ invite'.members = invite.members \cup {u}
          <5>1. invite \in [used : 0..MaxUses, disabled : BOOLEAN, members : SUBSET User]
            BY DEF AccInv, AccTypes
          <5>2. invite.used + 1 \in Nat /\ invite.members \cup {u} \in SUBSET User
            BY <2>2, <5>1, AccNone
          <5> HIDE DEF u
          <5> QED BY <4>1, <5>1, <5>2
        <4>5. proc[r].pc = "invited"
          BY <4>1
        <4> HIDE DEF u, S
        <4> QED BY <4>2, <4>3, <4>4, <4>5, AccInvited
      <3>2. CASE ~proc[r].invited
        <4>1. invite' = invite
          BY <1>3, <3>2
        <4>2. \A t \in Req : proc'[t].pc = "invited" => proc[t].pc = "invited"
          BY <2>1, AccEnd
        <4> QED BY <2>4, <4>1, <4>2, InviteSame DEF AccInv, AccTypes
      <3> QED BY <3>1, <3>2
    <2>6. CASE s = None
      <3>1. log' = log /\ token' = Cleared({}) /\ proc[r].row = None
        BY <1>3, <2>2, <2>6 DEF Commit
      <3>2. token' = token
        <4>1. token = [t \in Slot |-> token[t]]
          BY DEF AccInv, AccTypes
        <4> QED BY <3>1, <4>1 DEF Cleared
      <3>3. \A v \in User : /\ user[v].there => user'[v].there
                            /\ user'[v].verified => user[v].verified /\ user'[v].email = user[v].email
        BY <2>3, <2>4, <3>1
      <3>4. cool' \in [Email -> Req \cup {None}] /\ UNCHANGED <<token, log>> /\ \A t \in Req : cool'[proc[t].email] = cool[proc[t].email]
        BY <1>1, <3>1, <3>2 DEF AccInv, AccTypes
      <3> QED BY <2>1, <2>4, <2>5, <3>3, <3>4, AccStill
    <2>7. CASE s # None
      <3>1. Holds(proc[r]) /\ S = {s} /\ proc[r].slot = s
        BY <2>1, <2>7 DEF Holds
      <3>2. s \in Slot /\ proc[r].row # None /\ proc[r].row.code \in 1..Len(log) /\ log[proc[r].row.code].uses = 0
            /\ log[proc[r].row.code].to = e
        BY <3>1, HeldCode
      <3>3. log[proc[r].row.code].mailed
        BY <1>1, <3>2 DEF Right
      <3> HIDE DEF S, s, e, u
      <3>4. /\ LogSound(log') /\ Grows(log, log', {proc[r].row.code}) /\ Len(log') = Len(log)
            /\ log'[proc[r].row.code].uses = 1 /\ log'[proc[r].row.code].to = e /\ log'[proc[r].row.code].mailed
        BY <1>3, <3>2, <3>3, CommitLog DEF Commit
      <3>5. AddressProved'
        <4>1. \E c \in 1..Len(log') : log'[c].to = user'[u].email /\ log'[c].mailed /\ log'[c].uses > 0
          BY <2>3, <2>4, <3>2, <3>4
        <4>2. \A v \in User : user'[v].verified =>
                \/ user[v].verified /\ user'[v].email = user[v].email
                \/ \E c \in 1..Len(log') : log'[c].to = user'[v].email /\ log'[c].mailed /\ log'[c].uses > 0
          BY <2>4, <4>1
        <4> QED BY <3>4, <4>2, ProvedMore
      <3>6. S \in SUBSET Slot /\ proc[r].slot \in S
        BY <3>1, <3>2
      <3> QED BY <1>1, <1>3, <2>4, <2>5, <3>1, <3>5, <3>6, AccCommit
    <2> QED BY <2>6, <2>7
  <1> QED BY <1>2, <1>3 DEF CreateUser

(* A login that asks for a second factor makes a code of its own.          *)
LEMMA AccBegin ==
  ASSUME AccInv, NEW r \in Req, NEW u \in User, BeginLogin(r, u)
  PROVE  AccInv'
  <1> DEFINE n == Len(log) + 1
             s == <<"mfa", n>>
             w == [code |-> n, user |-> u, email |-> None, tries |-> 0, invited |-> FALSE]
             rc == [NewRecord("mfa", None) EXCEPT !.mailed = TRUE]
  <1>1. End(r) /\ UNCHANGED <<user, cool, invite>> /\ n \in Code /\ token' = [token EXCEPT ![s] = w] /\ log' = Append(log, rc)
    BY DEF BeginLogin, NextCode
  <1>2. LogSound(log) /\ Len(log) \in Nat
    BY DEF AccInv, LogSound
  <1>3. w \in Row /\ w # None /\ w.code = n /\ w.tries = 0 /\ w.email = None
    <2>1. 0 \in 0..MaxTries
      BY AccNone
    <2>2. w \in Row
      BY <1>1, <2>1 DEF Row
    <2> QED BY <2>2, AccNone
  <1>4. rc \in Record /\ rc.uses = 0 /\ rc.wrong = 0 /\ rc.kind = "mfa" /\ rc.to = None
    <2>1. 0 \in 0..2 /\ 0 \in 0..MaxTries + 1
      BY AccNone
    <2>2. NewRecord("mfa", None) \in Record /\ NewRecord("mfa", None).uses = 0 /\ NewRecord("mfa", None).wrong = 0
          /\ NewRecord("mfa", None).kind = "mfa" /\ NewRecord("mfa", None).to = None
      BY <2>1 DEF NewRecord, Record
    <2> HIDE DEF NewRecord
    <2> QED BY <2>2 DEF Record
  <1>5. s \in Slot /\ s[1] = "mfa" /\ s[2] = n
    BY <1>1 DEF Slot
  <1> HIDE DEF w, rc, s
  <1>6. /\ LogSound(log') /\ Grows(log, log', {}) /\ Len(log') = n /\ log'[n] = rc /\ \A c \in 1..Len(log) : log'[c] = log[c]
    BY <1>1, <1>2, <1>4, LogAppend
  <1>7. token' \in [Slot -> Row \cup {None}] /\ token'[s] = w /\ \A t \in Slot \ {s} : token'[t] = token[t]
    BY <1>1, <1>3, <1>5 DEF AccInv, AccTypes
  <1>8. token[s] = None
    <2> SUFFICES ASSUME token[s] # None PROVE FALSE
      OBVIOUS
    <2>1. token[s].code \in 1..Len(log) /\ s[2] = token[s].code
      BY <1>5, CodesHere DEF RowFits
    <2> QED BY <1>2, <1>5, <2>1
  <1>9. \A t \in Req : Holds(proc[t]) => proc[t].slot # s
    <2> SUFFICES ASSUME NEW t \in Req, Holds(proc[t]), proc[t].slot = s PROVE FALSE
      OBVIOUS
    <2>1. RowFits(log, s, proc[t].row)
      BY DEF AccInv, HoldersFit, HeldFits
    <2> QED BY <1>2, <1>5, <2>1 DEF RowFits
  <1>10. RowFits(log', s, w)
    <2>1. n \in 1..n
      BY <1>2
    <2> QED BY <1>3, <1>4, <1>5, <1>6, <2>1 DEF RowFits
  <1>11. \A t \in Req : (Holds(proc'[t]) => proc'[t] = proc[t]) /\ (Sends(proc'[t]) => proc'[t] = proc[t]) /\ AskSound(proc'[t], Len(log))
                        /\ (proc'[t].pc = "invited" => proc[t].pc = "invited")
    BY <1>1, AccEnd
  <1>12. TokensFit(token', log') /\ HoldersFit(token', proc', log')
    <2>1. TokensFit(token, log) /\ HoldersFit(token, proc, log)
      BY DEF AccInv
    <2>2. \A t \in Req : Holds(proc'[t]) => proc'[t] = proc[t]
      BY <1>11
    <2>3. w.code = Len(log) + 1 /\ LogSound(log') /\ Grows(log, log', {})
      BY <1>3, <1>6
    <2> HIDE DEF n
    <2> QED BY <1>2, <1>5, <1>7, <1>9, <1>10, <2>1, <2>2, <2>3, Added
  <1>13. AccTypes'
    BY <1>1, <1>7, AccEnd DEF AccInv, AccTypes
  <1>14. \A t \in Req : AskSound(proc'[t], Len(log'))
    <2>1. \A c \in 1..Len(log) : c \in 1..Len(log')
      BY <1>2, <1>6
    <2> QED BY <1>11, <2>1 DEF AskSound
  <1>15. InvitesSound' /\ InviteHeld' /\ AddressProved'
    BY <1>1, <1>6, <1>11, InviteSame, ProvedSame
  <1>16. ASSUME MailInTime
         PROVE  CoolHeld' /\ Stands(token', log')
    <2>1. CoolHeld /\ Stands(token, log)
      BY <1>16 DEF AccInv
    <2>2. CoolHeld'
      <3> SUFFICES ASSUME NEW t \in Req, Sends(proc'[t])
                   PROVE  /\ cool'[proc'[t].email] = t
                          /\ proc'[t].pc = "stored" /\ proc'[t].slot[1] = "register" /\ token'[proc'[t].slot] # None
                               => token'[proc'[t].slot].code = proc'[t].code
        BY DEF CoolHeld, Sends
      <3>1. proc'[t] = proc[t] /\ cool' = cool /\ proc[t].slot \in Slot
        BY <1>1, <1>11 DEF AccInv, AskSound
      <3>2. proc[t].slot[1] = "register" => proc[t].slot # s
        BY <1>5
      <3> QED BY <1>7, <2>1, <3>1, <3>2 DEF CoolHeld
    <2>3. Stands(token', log')
      <3> SUFFICES ASSUME NEW c \in 1..Len(log'), log'[c].uses = 0, ~log'[c].over, log'[c].kind # "change"
                   PROVE  \E t \in Slot : token'[t] # None /\ token'[t].code = c
        BY DEF Stands
      <3>1. CASE c = n
        BY <1>3, <1>5, <1>7, <3>1
      <3>2. CASE c # n
        <4>1. c \in 1..Len(log)
          BY <1>2, <1>6, <3>2
        <4>2. PICK t \in Slot : token[t] # None /\ token[t].code = c
          BY <1>6, <2>1, <4>1 DEF Stands
        <4> QED BY <1>7, <1>8, <4>2
      <3> QED BY <3>1, <3>2
    <2> QED BY <2>2, <2>3
  <1> QED BY <1>6, <1>12, <1>13, <1>14, <1>15, <1>16 DEF AccInv

LEMMA AccNext ==
  ASSUME AccInv, Next
  PROVE  AccInv'
  <1>1. ASSUME NEW r \in Req,
               \/ \E u \in User, e \in Email, inv \in BOOLEAN : AskRegistration(r, u, e, inv) \/ RegisterNow(r, u, e, inv)
               \/ \E e \in Email : AskReset(r, e) \/ \E u \in User : AskChange(r, u, e)
        PROVE  AccInv'
    <2>1. ASSUME NEW u \in User, NEW e \in Email, NEW inv \in BOOLEAN,
                 AskRegistration(r, u, e, inv) \/ RegisterNow(r, u, e, inv) \/ AskChange(r, u, e)
          PROVE  AccInv'
      BY <2>1, AccAsks, AccRegisterNow
    <2>2. ASSUME NEW e \in Email, AskReset(r, e)
          PROVE  AccInv'
      <3>1. <<"reset", e>> \in Slot /\ <<"reset", e>>[1] = "reset" /\ None \in User \cup {None} /\ FALSE \in BOOLEAN
        BY DEF Slot
      <3> QED BY <2>2, <3>1, AccAsk DEF AskReset
    <2>3. FALSE \in BOOLEAN
      OBVIOUS
    <2> QED BY <1>1, <2>1, <2>2, <2>3
  <1>2. ASSUME NEW r \in Req,
               \/ StoreRegistration(r) \/ StoreReset(r) \/ StoreChange(r) \/ Mailed(r) \/ MailFails(r)
               \/ \E s \in Slot, inv \in BOOLEAN : Present(r, s, inv)
        PROVE  AccInv'
    BY <1>2, AccStores, AccMailed, AccMailFails, AccPresent
  <1>3. ASSUME NEW r \in Req,
               Wrong(r) \/ ConsumeInvite(r) \/ CreateUser(r) \/ ResetPassword(r) \/ ConfirmChange(r) \/ CompleteLogin(r)
        PROVE  AccInv'
    BY <1>3, AccWrong, AccConsume, AccCreate, AccReset, AccConfirm, AccComplete
  <1>4. ASSUME NEW r \in Req,
               \E u \in User : BeginLogin(r, u) \/ CloseAccount(r, u) \/ SetStatus(r, u) \/ \E e \in Email : ChangeNow(r, u, e)
        PROVE  AccInv'
    BY <1>4, AccBegin, AccClose, AccSetStatus, AccChangeNow
  <1>5. ASSUME NEW r \in Req, DisableInvite(r) \/ Fails(r)
        PROVE  AccInv'
    BY <1>5, AccDisable, AccFails DEF Fails
  <1>6. ASSUME NEW e \in Email, CoolEnds(e)
        PROVE  AccInv'
    BY <1>6, AccCoolEnds
  <1>7. ASSUME NEW s \in Slot, Expire(s)
        PROVE  AccInv'
    BY <1>7, AccExpire
  <1> QED BY <1>1, <1>2, <1>3, <1>4, <1>5, <1>6, <1>7 DEF Next

LEMMA AccSound ==
  ASSUME AccInv
  PROVE  TypeOK /\ CodesOnce /\ InvitesSound /\ AddressProved /\ (MailInTime => MailedCodesStand)
  <1>1. /\ log \in Seq(Record) /\ DOMAIN log = 1..Len(log) /\ Len(log) \in Nat /\ Len(log) <= MaxCodes
        /\ \A c \in 1..Len(log) : log[c] \in Record /\ log[c].uses <= 1 /\ log[c].wrong <= MaxTries
    BY DEF AccInv, LogSound
  <1>2. CodesOnce
    BY <1>1 DEF CodesOnce
  <1>3. TypeOK
    <2>1. \A c \in DOMAIN log : c \in Code /\ log[c] \in Record
      BY <1>1, AccNone DEF Code
    <2>2. \A r \in Req : proc[r].pc \in {"idle", "asked", "stored", "read", "invited", "done"}
                         /\ proc[r].slot \in Slot \cup {None} /\ proc[r].row \in Row \cup {None}
      BY DEF AccInv, AccTypes, AccSteps
    <2> QED BY <2>1, <2>2 DEF AccInv, AccTypes, TypeOK
  <1>4. MailInTime => MailedCodesStand
    BY <1>1 DEF AccInv, Stands, MailedCodesStand
  <1> QED BY <1>2, <1>3, <1>4 DEF AccInv

LEMMA AccStays ==
  ASSUME AccInv, UNCHANGED vars
  PROVE  AccInv'
  <1>1. UNCHANGED <<user, token, proc, cool, invite, log>>
    BY DEF vars
  <1>2. AccTypes' /\ LogSound(log') /\ TokensFit(token', log') /\ HoldersFit(token', proc', log')
        /\ \A r \in Req : AskSound(proc'[r], Len(log'))
    BY <1>1 DEF AccInv, AccTypes
  <1>3. InvitesSound' /\ InviteHeld' /\ AddressProved'
    BY <1>1 DEF AccInv, InvitesSound, InviteHeld, Usable, AddressProved
  <1>4. MailInTime => CoolHeld' /\ Stands(token', log')
    BY <1>1 DEF AccInv, CoolHeld
  <1> QED BY <1>2, <1>3, <1>4 DEF AccInv

-----------------------------------------------------------------------------
CustomersInv == AccInv /\ RecInv /\ RedInv

LEMMA CustomersStart ==
  ASSUME MCInit
  PROVE  CustomersInv
  BY AccInit, RecInit, RedInit DEF MCInit, CustomersInv

LEMMA CustomersStep ==
  ASSUME CustomersInv, [MCNext]_<<part, vars, recovery, redemption>>
  PROVE  CustomersInv'
  <1>1. /\ Next \/ UNCHANGED vars
        /\ R!Next \/ UNCHANGED recovery
        /\ D!Next \/ UNCHANGED redemption
    BY DEF MCNext
  <1> QED BY <1>1, AccNext, AccStays, RecNext, RedNext DEF CustomersInv

(* What may be used a number of times is used no more often and counted,   *)
(* however many present it at once: the codes of auth-service.js and       *)
(* mfa.js, the invitations of registration-security.js, the redemption     *)
(* codes and the plans sold once of redemption.js, the plan that           *)
(* recovery.js gives.                                                      *)
THEOREM UsesAreCounted == MCSpec => []UsesCounted
  <1>1. MCInit => CustomersInv
    BY CustomersStart
  <1>2. CustomersInv /\ [MCNext]_<<part, vars, recovery, redemption>> => CustomersInv'
    BY CustomersStep
  <1>3. CustomersInv => UsesCounted
    BY AccSound, RecSound, RedSound DEF CustomersInv, UsesCounted
  <1> QED BY <1>1, <1>2, <1>3, PTL DEF MCSpec

(* Nobody gets an address verified, or a site of a lost upstream, but by   *)
(* what proves that it is its own, whatever is replaced between the lookup *)
(* and the use: auth-service.js and recovery.js.                           *)
THEOREM NothingWithoutProof == MCSpec => [](AddressProved /\ R!ClaimsProved)
  <1>1. MCInit => CustomersInv
    BY CustomersStart
  <1>2. CustomersInv /\ [MCNext]_<<part, vars, recovery, redemption>> => CustomersInv'
    BY CustomersStep
  <1>3. CustomersInv => AddressProved /\ R!ClaimsProved
    BY AccSound, RecSound DEF CustomersInv
  <1> QED BY <1>1, <1>2, <1>3, PTL DEF MCSpec

(* And as long as a mail is sent, or has failed, before the cooldown of    *)
(* its address ends (registration-security.js holds the address for the    *)
(* minute), what becomes of one request takes no code away that another    *)
(* was mailed.                                                             *)
THEOREM MailedProofsStand ==
  ASSUME MailInTime
  PROVE  MCSpec => []ProofsStand
  <1>1. MCInit => CustomersInv
    BY CustomersStart
  <1>2. CustomersInv /\ [MCNext]_<<part, vars, recovery, redemption>> => CustomersInv'
    BY CustomersStep
  <1>3. CustomersInv => ProofsStand
    BY AccSound, RecSound DEF CustomersInv, ProofsStand
  <1> QED BY <1>1, <1>2, <1>3, PTL DEF MCSpec

(* A site that a claim gave keeps its owner and its domains, and a code    *)
(* that was destroyed is not good again, whatever an import, an edit or an *)
(* administrator does meanwhile.                                           *)
Given == \A s \in Site : IF rec[s] = None THEN TRUE
                         ELSE rec[s].owner # None => rec'[s].owner = rec[s].owner /\ rec'[s].domains = rec[s].domains
Destroyed == \A c \in Voucher : code[c].status = "destroyed" => code'[c].status = "destroyed"

THEOREM SettledStaysSettled == MCSpec => SettledForGood
  <1>1. MCInit => CustomersInv
    BY CustomersStart
  <1>2. CustomersInv /\ [MCNext]_<<part, vars, recovery, redemption>> => CustomersInv' /\ [Given]_(R!vars) /\ [Destroyed]_(D!vars)
    <2> SUFFICES ASSUME CustomersInv, [MCNext]_<<part, vars, recovery, redemption>>
                 PROVE  CustomersInv' /\ Given /\ Destroyed
      OBVIOUS
    <2>1. R!Next \/ UNCHANGED recovery
      BY DEF MCNext
    <2>2. D!Next \/ UNCHANGED redemption
      BY DEF MCNext
    <2>3. Given
      BY <2>1, RecFinal DEF CustomersInv, Given
    <2>4. Destroyed
      BY <2>2, RedFinal DEF CustomersInv, Destroyed
    <2> QED BY <2>3, <2>4, CustomersStep
  <1> QED BY <1>1, <1>2, PTL DEF MCSpec, SettledForGood, R!ClaimsFinal, D!DestroyedFinal, Given, Destroyed
=============================================================================
