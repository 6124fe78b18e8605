---------------------------- MODULE MCCustomers ----------------------------
(* What a customer becomes or is given by showing something: an account    *)
(* by codes and invitations (Accounts), sites of a lost upstream by        *)
(* challenges (Recovery), plans by redemption codes (Redemption).  The     *)
(* three share nothing but the customers: a behaviour is one of one of     *)
(* them, and the others stay as they were at the start.  Requests are made *)
(* once, so that their number bounds a behaviour.                          *)
EXTENDS Accounts, TLC

CONSTANTS Site, Domain, Claiming, Limit, MaxChallenges, MaxEvents,
          Plan, Voucher, Redeeming, MaxLimit,
          u1, u2, e1, e2, s1, s2, c1, c2, k1, k2, r1, r2, r3, q1, q2, q3

ASSUME PartsAssumption ==
  /\ IsFiniteSet(User) /\ IsFiniteSet(Site) /\ IsFiniteSet(Domain) /\ IsFiniteSet(Redeeming)
  /\ None \notin Site \cup Domain \cup Plan \cup Voucher /\ None \notin Slot \cup Row
  /\ None \notin [domains : SUBSET Domain, owner : User \cup {None}, by : 0..MaxChallenges]
  /\ None \notin [code : 0..MaxChallenges, good : BOOLEAN] \cup [owner : User, domains : SUBSET Domain, recovered : BOOLEAN]
  /\ Limit \in Nat /\ MaxChallenges \in Nat /\ MaxEvents \in Nat /\ MaxLimit \in Nat \ {0}

VARIABLES part,
          cdn, rec, index, claim, sub, local, claiming, seen, grants, events,
          plans, code, uses, acquired, live, redeeming, given, top

recovery == <<cdn, rec, index, claim, sub, local, claiming, seen, grants, events>>
redemption == <<plans, code, uses, acquired, live, redeeming, given, top>>

R == INSTANCE Recovery WITH Req <- Claiming, MaxCodes <- MaxChallenges, proc <- claiming
D == INSTANCE Redemption WITH Req <- Redeeming, req <- redeeming

NoAccounts == \A u \in User : ~user[u].there
NoRecovery == (\A s \in Site : cdn[s] = {}) /\ (\A u \in User : sub[u] = "none")
NoRedemption ==
  /\ acquired = {} /\ \A p \in Plan : plans[p].mode = "stack"
  /\ \A c \in Voucher : code[c].max = 1 /\ code[c].extra

MCInit ==
  /\ part \in {"accounts", "recovery", "redemption"}
  /\ Init /\ (part # "accounts" => NoAccounts)
  /\ R!Init /\ (part # "recovery" => NoRecovery)
  /\ D!Init /\ (part # "redemption" => NoRedemption)

MCNext ==
  \/ part = "accounts" /\ Next /\ UNCHANGED <<part, recovery, redemption>>
  \/ part = "recovery" /\ R!Next /\ UNCHANGED <<part, vars, redemption>>
  \/ part = "redemption" /\ D!Next /\ UNCHANGED <<part, vars, recovery>>

MCSpec == MCInit /\ [][MCNext]_<<part, vars, recovery, redemption>>

(* What may be used a number of times is used no more often, and counted,  *)
(* however many present it at once: codes that were mailed, invitations,   *)
(* redemption codes, plans sold once, the plan a recovery gives.           *)
UsesCounted ==
  /\ TypeOK /\ R!TypeOK /\ D!TypeOK
  /\ CodesOnce /\ InvitesSound /\ D!UsesSound /\ D!OnceGiven /\ R!OnePlan

(* Nobody gets an address or a site but by what proves it, though the      *)
(* proof may be replaced between its lookup and its use; and what proves   *)
(* an address is not taken away by what becomes of another request.        *)
ProofsStand == AddressProved /\ MailedCodesStand /\ R!ClaimsProved

(* A site that was given, a code that was destroyed, stay so.              *)
SettledForGood == R!ClaimsFinal /\ D!DestroyedFinal

(* Customers, requests and the rest are alike, in every part by itself;     *)
(* since only one of them goes on, they may be exchanged together.         *)
Other == u1 :> u2 @@ u2 :> u1 @@ e1 :> e2 @@ e2 :> e1 @@ s1 :> s2 @@ s2 :> s1 @@ c1 :> c2 @@ c2 :> c1 @@ k1 :> k2 @@ k2 :> k1
Turned(S, turned) == [x \in S |-> IF turned THEN Other[x] ELSE x]
Asking == r1 :> q1 @@ r2 :> q2 @@ r3 :> q3
Moved(p) == [q \in Redeeming |-> Asking[p[CHOOSE r \in Req : Asking[r] = q]]]
Odd(p) == Cardinality({r \in Req : p[r] = r}) = 1

Symmetry ==
  {Turned(User, i) @@ Turned(Email \cup Site \cup Voucher, j) @@ Turned(Claiming, Odd(p)) @@ p @@ Moved(p) :
     i \in BOOLEAN, j \in BOOLEAN, p \in Permutations(Req)}
=============================================================================
