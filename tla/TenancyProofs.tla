--------------------------- MODULE TenancyProofs ---------------------------
(***************************************************************************)
(* For any customers, accounts, sites, streams, ports, resources and       *)
(* requests: what a customer is shown of a shared account is that          *)
(* customer's (AnswersOwn), and so is what a request names there           *)
(* (RequestsOwn); and no late answer does harm on the pages of the client  *)
(* (LateAnswersHarmless).                                                  *)
(*                                                                         *)
(* The second needs Alike: the rules that all accounts share have one      *)
(* number, for it is taken from whichever account a row was seen in first. *)
(* The third needs Patient: no other site is opened while an answer about  *)
(* one is due.                                                             *)
(***************************************************************************)
EXTENDS MCTenancy, TLAPS

-----------------------------------------------------------------------------
(* Resources.  A row says whose a resource is, as the CDN has it.          *)
RowHome(s) ==
  row[s] # None => IF row[s].owner = None THEN rcdn[s] = "platform" ELSE rcdn[s] \in {row[s].owner, "gone"}

(* What a request that waits is about is its customer's, was its           *)
(* customer's, or, in a list of rules, is shared.                          *)
ReqSound(q) ==
  /\ q.pc # "idle" => q.user \in User
  /\ q.pc \in {"save", "adopt", "keep", "remove"} => \E s \in R!Slot : q.slots = {s} /\ rcdn[s] \in {q.user, "gone"}
  /\ q.pc = "found" => \A s \in q.slots : rcdn[s] \in {q.user, "gone", "platform"}
  /\ q.pc = "domains" => \A s \in q.slots : rcdn[s] \in {q.user, "gone"}

(* Only the first rule of an account is the platform's, in every account   *)
(* if they are alike.                                                      *)
SharedAlike ==
  /\ \A s \in R!Slot : rcdn[s] = "platform" => s[1] = "waf-rules" /\ s[3] = 1
  /\ Alike => \A s \in R!Slot : s[1] = "waf-rules" /\ s[3] = 1 => rcdn[s] = "platform"

ResInv ==
  /\ R!TypeOK /\ SharedAlike /\ R!ShownOwn
  /\ \A s \in R!Slot : RowHome(s)
  /\ \A r \in Req : ReqSound(req[r])

(* What the CDN does to a resource: one comes to be, or goes.              *)
Kept ==
  \A s \in R!Slot :
    \/ rcdn'[s] = rcdn[s]
    \/ rcdn[s] = None /\ rcdn'[s] \in User
    \/ rcdn[s] \in User /\ rcdn'[s] = "gone"

RowRec == [owner : User \cup {None}, sub : User \cup {None}]
ReqRec == [pc : {"idle", "save", "adopt", "keep", "remove", "found", "domains"}, user : User \cup {None},
           slots : SUBSET R!Slot]

LEMMA Names ==
  /\ \A u \in User : u # "gone" /\ u # "platform" /\ u # None
  /\ None # "gone" /\ None # "platform" /\ MaxMade \in Nat
  BY PartsAssumption

LEMMA SlotIs ==
  ASSUME NEW s \in R!Slot
  PROVE  /\ s = <<s[1], s[2], s[3]>> /\ s[1] \in R!Kind /\ s[2] \in Account /\ s[3] \in 1..2
         /\ s[3] \in R!Number(s[1])
  BY DEF R!Slot

LEMMA SlotOf ==
  ASSUME NEW k \in R!Kind, NEW a \in Account, NEW n \in R!Number(k)
  PROVE  <<k, a, n>> \in R!Slot
  BY DEF R!Slot, R!Number

LEMMA RowIs ==
  ASSUME R!TypeOK, NEW s \in R!Slot
  PROVE  /\ row[s] = None \/ row[s] \in RowRec
         /\ row[s] # None => row[s].owner \in User \cup {None} /\ row[s].sub \in User \cup {None}
  BY DEF R!TypeOK, RowRec

(* What the CDN does leaves rows and requests sound.                       *)
LEMMA KeptRow ==
  ASSUME ResInv, Kept, NEW s \in R!Slot, row'[s] = row[s]
  PROVE  RowHome(s)'
  <1>1. RowHome(s) /\ (row[s] # None => row[s].owner \in User \cup {None})
    BY RowIs DEF ResInv
  <1> QED BY <1>1, Names DEF RowHome, Kept

LEMMA KeptReq ==
  ASSUME ResInv, Kept, NEW q \in ReqRec, ReqSound(q)
  PROVE  ReqSound(q)'
  <1>1. ASSUME NEW s \in R!Slot, NEW u \in User, rcdn[s] \in {u, "gone", "platform"}
        PROVE  rcdn'[s] = rcdn[s] \/ (rcdn[s] \in User /\ rcdn'[s] = "gone")
    BY <1>1, Names DEF Kept
  <1>2. q.slots \subseteq R!Slot
    BY DEF ReqRec
  <1>3. ASSUME q.pc \in {"save", "adopt", "keep", "remove"}
        PROVE  \E s \in R!Slot : q.slots = {s} /\ rcdn'[s] \in {q.user, "gone"}
    <2>1. PICK s \in R!Slot : q.slots = {s} /\ rcdn[s] \in {q.user, "gone"}
      BY <1>3 DEF ReqSound
    <2>2. q.user \in User
      BY <1>3 DEF ReqSound
    <2> QED BY <1>1, <2>1, <2>2
  <1>4. ASSUME q.pc = "found", NEW s \in q.slots PROVE rcdn'[s] \in {q.user, "gone", "platform"}
    BY <1>1, <1>2, <1>4 DEF ReqSound
  <1>5. ASSUME q.pc = "domains", NEW s \in q.slots PROVE rcdn'[s] \in {q.user, "gone"}
    BY <1>1, <1>2, <1>5 DEF ReqSound
  <1> QED BY <1>3, <1>4, <1>5 DEF ReqSound

LEMMA KeptShared ==
  ASSUME ResInv, Kept
  PROVE  SharedAlike'
  BY Names DEF ResInv, SharedAlike, Kept

(* So a step is looked at where it changes a row or a request.             *)
LEMMA ResPost ==
  ASSUME ResInv, R!TypeOK', R!ShownOwn', Kept,
         \A s \in R!Slot : row'[s] = row[s] \/ RowHome(s)',
         \A r \in Req : req'[r] = req[r] \/ ReqSound(req[r])'
  PROVE  ResInv'
  <1>1. \A s \in R!Slot : RowHome(s)'
    BY KeptRow
  <1>2. \A r \in Req : ReqSound(req[r])'
    <2> SUFFICES ASSUME NEW r \in Req, req'[r] = req[r] PROVE ReqSound(req[r])'
      OBVIOUS
    <2>1. PICK q \in ReqRec : q = req[r]
      BY DEF ResInv, R!TypeOK, ReqRec
    <2>2. ReqSound(q)'
      BY <2>1, KeptReq DEF ResInv
    <2> QED BY <2>1, <2>2 DEF ReqSound
  <1> QED BY <1>1, <1>2, KeptShared DEF ResInv

LEMMA OwnRow ==
  ASSUME ResInv, NEW u \in User, NEW s \in R!Slot, row[s] # None, row[s].owner = u
  PROVE  rcdn[s] \in {u, "gone"}
  BY Names DEF ResInv, RowHome

LEMMA OwnNumber ==
  ASSUME ResInv, NEW u \in User, NEW k \in R!Kind, NEW a \in Account, NEW s \in R!OwnNumbers(u, k, a)
  PROVE  s \in R!Slot /\ rcdn[s] \in {u, "gone"}
  BY OwnRow DEF R!OwnNumbers, R!ByLocal

LEMMA OwnRefs ==
  ASSUME ResInv, NEW u \in User, NEW k \in R!Kind, NEW a \in Account, NEW refs \in R!RefsOf(u, k, a)
  PROVE  refs \in SUBSET R!Slot /\ \A s \in refs : rcdn[s] \in {u, "gone"}
  <1>1. \A s \in R!Numbers(u, "dnsapis", a) : s \in R!Slot /\ rcdn[s] \in {u, "gone"}
    <2>1. "dnsapis" \in R!Kind
      BY DEF R!Kind
    <2> QED BY <2>1, OwnNumber DEF R!Numbers
  <1> QED BY <1>1 DEF R!RefsOf

(* What is named or shown is one's own, or gone, also after the step.      *)
LEMMA StillOwn ==
  ASSUME ResInv, Kept, NEW u \in User, NEW s \in R!Slot
  PROVE  /\ rcdn[s] \in {u, "gone"} => rcdn'[s] \in {u, "gone"}
         /\ rcdn[s] \in {u, "gone", "platform"} => rcdn'[s] \in {u, "gone", "platform"}
  BY Names DEF Kept

LEMMA NamedOwn ==
  ASSUME ResInv, Kept, NEW u \in User, NEW slots \in SUBSET R!Slot, R!Name(u, slots),
         \A s \in slots : rcdn[s] \in {u, "gone", "platform"}
  PROVE  /\ R!SentOwn' /\ R!ShownOwn' /\ rshown' = {}
         /\ rsent' \in {None} \cup [user : User, slots : SUBSET R!Slot]
  <1>1. rsent' = [user |-> u, slots |-> slots] /\ rshown' = {}
    BY DEF R!Name
  <1> QED BY <1>1, StillOwn DEF R!SentOwn, R!ShownOwn

LEMMA QuietOwn ==
  ASSUME R!Quiet
  PROVE  R!SentOwn' /\ R!ShownOwn' /\ rsent' = None /\ rshown' = {}
  BY DEF R!Quiet, R!SentOwn, R!ShownOwn

LEMMA KindsOf ==
  ASSUME R!TypeOK
  PROVE  kinds \subseteq R!Kind
  BY DEF R!TypeOK, R!Themes, R!Kind

LEMMA ResCreate ==
  ASSUME ResInv, NEW r \in Req, R!Create(r)
  PROVE  ResInv' /\ R!SentOwn'
  <1>1. PICK u \in User, k \in kinds \ {"domains"}, a \in Account : \E s \in R!Fresh(k, a), refs \in R!RefsOf(u, k, a) :
          /\ R!Name(u, refs) /\ rcdn' = [rcdn EXCEPT ![s] = u]
          /\ R!Wait(r, "save", u, {s}) \/ UNCHANGED req
    BY DEF R!Create
  <1>2. PICK s \in R!Fresh(k, a), refs \in R!RefsOf(u, k, a) :
          /\ R!Name(u, refs) /\ rcdn' = [rcdn EXCEPT ![s] = u]
          /\ R!Wait(r, "save", u, {s}) \/ UNCHANGED req
    BY <1>1
  <1>3. s \in R!Slot /\ rcdn[s] = None /\ k \in R!Kind
    BY KindsOf DEF R!Fresh, R!Kinds, ResInv
  <1>4. Kept /\ rcdn'[s] = u
    BY <1>2, <1>3 DEF Kept, ResInv, R!TypeOK
  <1>5. refs \in SUBSET R!Slot /\ \A t \in refs : rcdn[t] \in {u, "gone"}
    BY <1>3, OwnRefs
  <1>6. /\ R!SentOwn' /\ R!ShownOwn' /\ rshown' = {}
        /\ rsent' \in {None} \cup [user : User, slots : SUBSET R!Slot]
    BY <1>2, <1>4, <1>5, NamedOwn
  <1>7. UNCHANGED <<kinds, row, rsite>> /\ made < MaxMade /\ made' = made + 1
    BY DEF R!Create
  <1>8. R!TypeOK'
    BY <1>2, <1>3, <1>6, <1>7, Names DEF ResInv, R!TypeOK, R!Wait
  <1>9. req'[r] = req[r] \/ ReqSound(req[r])'
    <2> SUFFICES ASSUME R!Wait(r, "save", u, {s}) PROVE ReqSound(req[r])'
      BY <1>2
    <2>1. req'[r] = [pc |-> "save", user |-> u, slots |-> {s}]
      BY DEF R!Wait, ResInv, R!TypeOK
    <2> QED BY <2>1, <1>3, <1>4 DEF ReqSound, R!Slot
  <1>10. \A q \in Req : req'[q] = req[q] \/ ReqSound(req[q])'
    <2> SUFFICES ASSUME NEW q \in Req, q # r PROVE req'[q] = req[q]
      BY <1>9
    <2> QED BY <1>2 DEF R!Wait, ResInv, R!TypeOK
  <1> QED BY <1>4, <1>6, <1>7, <1>8, <1>10, ResPost

LEMMA Waits ==
  ASSUME R!TypeOK, NEW r \in Req, NEW u \in User, NEW slots \in SUBSET R!Slot,
         NEW pc \in {"save", "keep", "remove", "found", "domains"}, R!Wait(r, pc, u, slots)
  PROVE  /\ req' \in [Req -> ReqRec] /\ req'[r] = [pc |-> pc, user |-> u, slots |-> slots]
         /\ \A q \in Req \ {r} : req'[q] = req[q]
  BY DEF R!TypeOK, R!Wait, ReqRec

LEMMA Leaves ==
  ASSUME R!TypeOK, NEW r \in Req, R!Leave(r)
  PROVE  /\ req' \in [Req -> ReqRec] /\ ReqSound(req[r])'
         /\ \A q \in Req \ {r} : req'[q] = req[q]
  <1>1. R!Idle \in ReqRec /\ R!Idle.pc = "idle"
    BY DEF R!Idle, ReqRec
  <1>2. req' = [req EXCEPT ![r] = R!Idle]
    BY DEF R!Leave
  <1>3. req' \in [Req -> ReqRec] /\ req'[r] = R!Idle /\ \A q \in Req \ {r} : req'[q] = req[q]
    BY <1>1, <1>2 DEF R!TypeOK, ReqRec
  <1> QED BY <1>1, <1>3 DEF ReqSound

(* A request about one resource.                                           *)
LEMMA OnlySlot ==
  ASSUME ResInv, NEW r \in Req, req[r].pc \in {"save", "adopt", "keep", "remove"}
  PROVE  /\ req[r].user \in User /\ R!Only(r) \in R!Slot /\ req[r].slots = {R!Only(r)}
         /\ rcdn[R!Only(r)] \in {req[r].user, "gone"}
  <1>1. PICK s \in R!Slot : req[r].slots = {s} /\ rcdn[s] \in {req[r].user, "gone"}
    BY DEF ResInv, ReqSound
  <1>2. R!Only(r) = s
    BY <1>1 DEF R!Only
  <1> QED BY <1>1, <1>2 DEF ResInv, ReqSound

(* The CDN is left alone.                                                  *)
LEMMA SameKept ==
  ASSUME rcdn' = rcdn
  PROVE  Kept
  BY DEF Kept

LEMMA SavedRow ==
  ASSUME ResInv, NEW s \in R!Slot, NEW u \in User, rcdn[s] \in {u, "gone"}, rcdn' = rcdn, row' = R!Saved(s, u)
  PROVE  /\ row' \in [R!Slot -> {None} \cup RowRec]
         /\ \A t \in R!Slot : row'[t] = row[t] \/ RowHome(t)'
  <1>1. CASE row[s] = None
    <2>1. row' = [row EXCEPT ![s] = [owner |-> u, sub |-> None]]
      BY <1>1 DEF R!Saved
    <2>2. row' \in [R!Slot -> {None} \cup RowRec] /\ row'[s].owner = u
          /\ \A t \in R!Slot \ {s} : row'[t] = row[t]
      BY <2>1 DEF ResInv, R!TypeOK, RowRec
    <2>3. RowHome(s)'
      BY <2>2, Names DEF RowHome
    <2> QED BY <2>2, <2>3
  <1>2. CASE row[s] # None
    BY <1>2 DEF R!Saved, ResInv, R!TypeOK, RowRec
  <1> QED BY <1>1, <1>2

LEMMA ResSaveCreate ==
  ASSUME ResInv, NEW r \in Req, R!SaveCreate(r)
  PROVE  ResInv' /\ R!SentOwn'
  <1> DEFINE s == R!Only(r)
             u == req[r].user
  <1>1. u \in User /\ s \in R!Slot /\ req[r].slots = {s} /\ rcdn[s] \in {u, "gone"}
    BY OnlySlot DEF R!SaveCreate
  <1>2. /\ row' = R!Saved(s, u) /\ req' = [req EXCEPT ![r].pc = "adopt"]
        /\ R!Quiet /\ UNCHANGED <<kinds, rcdn, rsite, made>>
    BY DEF R!SaveCreate, R!Home
  <1>3. Kept /\ R!SentOwn' /\ R!ShownOwn' /\ rsent' = None /\ rshown' = {}
    BY <1>2, SameKept, QuietOwn
  <1> HIDE DEF s, u
  <1>4. row' \in [R!Slot -> {None} \cup RowRec] /\ \A t \in R!Slot : row'[t] = row[t] \/ RowHome(t)'
    BY <1>1, <1>2, SavedRow
  <1>5. PICK old \in ReqRec : req[r] = old
    BY DEF ResInv, R!TypeOK, ReqRec
  <1>6. req' = [req EXCEPT ![r] = [old EXCEPT !.pc = "adopt"]]
    BY <1>2, <1>5
  <1>7. req'[r] = [old EXCEPT !.pc = "adopt"] /\ \A q \in Req \ {r} : req'[q] = req[q]
    BY <1>6 DEF ResInv, R!TypeOK
  <1>8. [old EXCEPT !.pc = "adopt"] \in ReqRec
    BY DEF ReqRec
  <1>9. req' \in [Req -> ReqRec]
    BY <1>6, <1>8 DEF ResInv, R!TypeOK, ReqRec
  <1>10. R!TypeOK'
    BY <1>2, <1>3, <1>4, <1>9 DEF ResInv, R!TypeOK, RowRec, ReqRec
  <1>11. req'[r].pc = "adopt" /\ req'[r].slots = {s} /\ req'[r].user = u
    BY <1>1, <1>5, <1>7 DEF ReqRec, u
  <1>12. ReqSound(req[r])'
    BY <1>1, <1>2, <1>11 DEF ReqSound
  <1> QED BY <1>3, <1>4, <1>7, <1>10, <1>12, ResPost

(* A row that is left as it is but for its subscription, or is removed.    *)
LEMMA ResSetSubscription ==
  ASSUME ResInv, NEW r \in Req, R!SetSubscription(r)
  PROVE  ResInv' /\ R!SentOwn'
  <1> DEFINE s == R!Only(r)
             u == req[r].user
  <1>1. u \in User /\ s \in R!Slot /\ rcdn[s] \in {u, "gone"}
    BY OnlySlot DEF R!SetSubscription
  <1>2. /\ row' = IF row[s] # None THEN [row EXCEPT ![s].sub = u] ELSE row
        /\ R!Leave(r) /\ R!Quiet /\ UNCHANGED <<kinds, rcdn, rsite, made>>
    BY DEF R!SetSubscription
  <1>3. Kept /\ R!SentOwn' /\ R!ShownOwn' /\ rsent' = None /\ rshown' = {}
    BY <1>2, SameKept, QuietOwn
  <1> HIDE DEF s, u
  <1>4. row' \in [R!Slot -> {None} \cup RowRec] /\ \A t \in R!Slot : row'[t] = row[t] \/ RowHome(t)'
    <2>1. CASE row[s] = None
      BY <1>2, <2>1 DEF ResInv, R!TypeOK, RowRec
    <2>2. CASE row[s] # None
      <3>1. PICK old \in RowRec : row[s] = old
        BY <1>1, <2>2, RowIs DEF ResInv
      <3>2. row' = [row EXCEPT ![s] = [old EXCEPT !.sub = u]]
        BY <1>2, <2>2, <3>1
      <3>3. [old EXCEPT !.sub = u] \in RowRec /\ [old EXCEPT !.sub = u].owner = old.owner
        BY <1>1 DEF RowRec
      <3>4. row' \in [R!Slot -> {None} \cup RowRec] /\ row'[s].owner = old.owner
            /\ \A t \in R!Slot \ {s} : row'[t] = row[t]
        BY <1>1, <3>2, <3>3 DEF ResInv, R!TypeOK, RowRec
      <3>5. ASSUME NEW t \in R!Slot, t = s PROVE RowHome(t)'
        BY <1>1, <1>2, <2>2, <3>1, <3>4, <3>5 DEF ResInv, RowHome
      <3> QED BY <3>4, <3>5
    <2> QED BY <2>1, <2>2
  <1>5. req' \in [Req -> ReqRec] /\ \A q \in Req : req'[q] = req[q] \/ ReqSound(req[q])'
    BY <1>2, Leaves DEF ResInv
  <1>6. R!TypeOK'
    BY <1>2, <1>3, <1>4, <1>5 DEF ResInv, R!TypeOK, RowRec, ReqRec
  <1> QED BY <1>3, <1>4, <1>5, <1>6, ResPost

LEMMA ResSaveUpdate ==
  ASSUME ResInv, NEW r \in Req, R!SaveUpdate(r)
  PROVE  ResInv' /\ R!SentOwn'
  <1> DEFINE s == R!Only(r)
             u == req[r].user
  <1>1. u \in User /\ s \in R!Slot /\ rcdn[s] \in {u, "gone"}
    BY OnlySlot DEF R!SaveUpdate
  <1>2. /\ row' = R!Saved(s, u) /\ R!Leave(r) /\ R!Quiet /\ UNCHANGED <<kinds, rcdn, rsite, made>>
    BY DEF R!SaveUpdate
  <1>3. Kept /\ R!SentOwn' /\ R!ShownOwn' /\ rsent' = None /\ rshown' = {}
    BY <1>2, SameKept, QuietOwn
  <1> HIDE DEF s, u
  <1>4. row' \in [R!Slot -> {None} \cup RowRec] /\ \A t \in R!Slot : row'[t] = row[t] \/ RowHome(t)'
    BY <1>1, <1>2, SavedRow
  <1>5. req' \in [Req -> ReqRec] /\ \A q \in Req : req'[q] = req[q] \/ ReqSound(req[q])'
    BY <1>2, Leaves DEF ResInv
  <1>6. R!TypeOK'
    BY <1>2, <1>3, <1>4, <1>5 DEF ResInv, R!TypeOK, RowRec, ReqRec
  <1> QED BY <1>3, <1>4, <1>5, <1>6, ResPost

LEMMA ResRemove ==
  ASSUME ResInv, NEW r \in Req, R!Remove(r)
  PROVE  ResInv' /\ R!SentOwn'
  <1> DEFINE s == R!Only(r)
  <1>1. s \in R!Slot
    BY OnlySlot DEF R!Remove
  <1>2. /\ row' = [row EXCEPT ![s] = None] /\ R!Leave(r) /\ R!Quiet /\ UNCHANGED <<kinds, rcdn, rsite, made>>
    BY DEF R!Remove
  <1>3. Kept /\ R!SentOwn' /\ R!ShownOwn' /\ rsent' = None /\ rshown' = {}
    BY <1>2, SameKept, QuietOwn
  <1> HIDE DEF s
  <1>4. /\ row' \in [R!Slot -> {None} \cup RowRec] /\ row'[s] = None
        /\ \A t \in R!Slot \ {s} : row'[t] = row[t]
    BY <1>1, <1>2 DEF ResInv, R!TypeOK, RowRec
  <1>5. \A t \in R!Slot : row'[t] = row[t] \/ RowHome(t)'
    BY <1>4 DEF RowHome
  <1>6. req' \in [Req -> ReqRec] /\ \A q \in Req : req'[q] = req[q] \/ ReqSound(req[q])'
    BY <1>2, Leaves DEF ResInv
  <1>7. R!TypeOK'
    BY <1>2, <1>3, <1>4, <1>6 DEF ResInv, R!TypeOK, RowRec, ReqRec
  <1> QED BY <1>3, <1>5, <1>6, <1>7, ResPost

(* A request that names what it may, and changes nothing itself.           *)
LEMMA ResName ==
  ASSUME ResInv, NEW u \in User, NEW slots \in SUBSET R!Slot, R!Name(u, slots),
         \A s \in slots : rcdn[s] \in {u, "gone", "platform"},
         Kept, rcdn' \in [R!Slot -> User \cup {None, "gone", "platform"}],
         req' \in [Req -> ReqRec], \A q \in Req : req'[q] = req[q] \/ ReqSound(req[q])',
         UNCHANGED <<kinds, row, rsite, made>>
  PROVE  ResInv' /\ R!SentOwn'
  <1>1. /\ R!SentOwn' /\ R!ShownOwn' /\ rshown' = {}
        /\ rsent' \in {None} \cup [user : User, slots : SUBSET R!Slot]
    BY NamedOwn
  <1>2. R!TypeOK'
    BY <1>1 DEF ResInv, R!TypeOK, RowRec, ReqRec
  <1> QED BY <1>1, <1>2, ResPost

LEMMA ResUpdate ==
  ASSUME ResInv, NEW r \in Req, R!Update(r)
  PROVE  ResInv' /\ R!SentOwn'
  <1>1. PICK u \in User, k \in kinds \ {"domains"} : \E s \in R!ByLocal(u, k) : \E refs \in R!RefsOf(u, k, s[2]) :
          R!Name(u, refs \cup {s}) /\ IF R!Alive(s) THEN R!Wait(r, "keep", u, {s}) ELSE UNCHANGED req
    BY DEF R!Update
  <1>2. PICK s \in R!ByLocal(u, k) : \E refs \in R!RefsOf(u, k, s[2]) :
          R!Name(u, refs \cup {s}) /\ IF R!Alive(s) THEN R!Wait(r, "keep", u, {s}) ELSE UNCHANGED req
    BY <1>1
  <1>3. PICK refs \in R!RefsOf(u, k, s[2]) :
          R!Name(u, refs \cup {s}) /\ IF R!Alive(s) THEN R!Wait(r, "keep", u, {s}) ELSE UNCHANGED req
    BY <1>2
  <1>4. s \in R!Slot /\ rcdn[s] \in {u, "gone"} /\ k \in R!Kind /\ s[2] \in Account
    BY OwnRow, KindsOf, SlotIs DEF R!ByLocal, ResInv
  <1>5. refs \in SUBSET R!Slot /\ \A t \in refs : rcdn[t] \in {u, "gone"}
    BY <1>4, OwnRefs
  <1>6. UNCHANGED <<kinds, rcdn, row, rsite, made>>
    BY DEF R!Update
  <1>7. Kept /\ rcdn' \in [R!Slot -> User \cup {None, "gone", "platform"}]
    BY <1>6, SameKept DEF ResInv, R!TypeOK
  <1>8. req' \in [Req -> ReqRec] /\ \A q \in Req : req'[q] = req[q] \/ ReqSound(req[q])'
    <2>1. CASE req' = req
      BY <2>1 DEF ResInv, R!TypeOK, ReqRec
    <2>2. CASE R!Wait(r, "keep", u, {s})
      <3>1. /\ req' \in [Req -> ReqRec] /\ req'[r] = [pc |-> "keep", user |-> u, slots |-> {s}]
            /\ \A q \in Req \ {r} : req'[q] = req[q]
        BY <1>4, <2>2, Waits DEF ResInv
      <3>2. ReqSound(req[r])'
        BY <3>1, <1>4, <1>6 DEF ReqSound, R!Slot
      <3> QED BY <3>1, <3>2
    <2> QED BY <1>3, <2>1, <2>2
  <1>9. refs \cup {s} \in SUBSET R!Slot /\ \A t \in refs \cup {s} : rcdn[t] \in {u, "gone", "platform"}
    BY <1>4, <1>5
  <1> QED BY <1>3, <1>6, <1>7, <1>8, <1>9, ResName

LEMMA ResDelete ==
  ASSUME ResInv, NEW r \in Req, R!Delete(r)
  PROVE  ResInv' /\ R!SentOwn'
  <1>1. PICK u \in User, k \in kinds \ {"domains"} : \E s \in R!ByLocal(u, k) :
          /\ R!Name(u, {s})
          /\ \/ R!Alive(s) /\ rcdn' = [rcdn EXCEPT ![s] = "gone"] /\ (R!Wait(r, "remove", u, {s}) \/ UNCHANGED req)
             \/ UNCHANGED <<kinds, rcdn, req>>
    BY DEF R!Delete
  <1>2. PICK s \in R!ByLocal(u, k) :
          /\ R!Name(u, {s})
          /\ \/ R!Alive(s) /\ rcdn' = [rcdn EXCEPT ![s] = "gone"] /\ (R!Wait(r, "remove", u, {s}) \/ UNCHANGED req)
             \/ UNCHANGED <<kinds, rcdn, req>>
    BY <1>1
  <1>3. s \in R!Slot /\ rcdn[s] \in {u, "gone"}
    BY OwnRow DEF R!ByLocal
  <1>4. UNCHANGED <<kinds, row, rsite, made>>
    BY DEF R!Delete
  <1>5. Kept /\ rcdn' \in [R!Slot -> User \cup {None, "gone", "platform"}] /\ (rcdn' = rcdn \/ rcdn'[s] = "gone")
    <2>1. CASE rcdn' = rcdn
      BY <2>1, SameKept DEF ResInv, R!TypeOK
    <2>2. CASE R!Alive(s) /\ rcdn' = [rcdn EXCEPT ![s] = "gone"]
      BY <1>3, <2>2 DEF ResInv, R!TypeOK, Kept, R!Alive
    <2> QED BY <1>2, <2>1, <2>2
  <1>6. req' \in [Req -> ReqRec] /\ \A q \in Req : req'[q] = req[q] \/ ReqSound(req[q])'
    <2>1. CASE req' = req
      BY <2>1 DEF ResInv, R!TypeOK, ReqRec
    <2>2. CASE R!Wait(r, "remove", u, {s})
      <3>1. /\ req' \in [Req -> ReqRec] /\ req'[r] = [pc |-> "remove", user |-> u, slots |-> {s}]
            /\ \A q \in Req \ {r} : req'[q] = req[q]
        BY <1>3, <2>2, Waits DEF ResInv
      <3>2. ReqSound(req[r])'
        BY <3>1, <1>3, <1>5 DEF ReqSound, R!Slot
      <3> QED BY <3>1, <3>2
    <2> QED BY <1>2, <2>1, <2>2
  <1> QED BY <1>2, <1>3, <1>4, <1>5, <1>6, ResName

(* The requests for sites and their domains.                               *)
LEMMA ResNames ==
  ASSUME ResInv, R!SiteWrite \/ R!RulesWrite \/ R!SyncDomains
  PROVE  ResInv' /\ (Alike => R!SentOwn')
  <1>1. UNCHANGED <<kinds, rcdn, row, rsite, req, made>>
    BY DEF R!SiteWrite, R!RulesWrite, R!SyncDomains
  <1>2. \E u \in User, s \in R!Slot : R!Name(u, {s}) /\ (Alike => rcdn[s] \in {u, "gone", "platform"})
    <2>1. ASSUME NEW s \in R!Slot, R!Shared(s) PROVE rcdn[s] = "platform"
      BY <2>1 DEF ResInv, RowHome, R!Shared
    <2>2. CASE R!SiteWrite
      <3>1. PICK u \in User : \E a \in rsite[u] :
              \E s \in R!Numbers(u, "certs", a) \cup R!Numbers(u, "waf-rules", a) : R!Name(u, {s})
        BY <2>2 DEF R!SiteWrite
      <3>2. PICK a \in Account :
              \E s \in R!Numbers(u, "certs", a) \cup R!Numbers(u, "waf-rules", a) : R!Name(u, {s})
        BY <3>1 DEF ResInv, R!TypeOK
      <3>3. PICK s \in R!Numbers(u, "certs", a) \cup R!Numbers(u, "waf-rules", a) : R!Name(u, {s})
        BY <3>2
      <3>4. "certs" \in R!Kind /\ "waf-rules" \in R!Kind
        BY DEF R!Kind
      <3>5. CASE s \in R!OwnNumbers(u, "certs", a) \/ s \in R!OwnNumbers(u, "waf-rules", a)
        <4>1. CASE s \in R!OwnNumbers(u, "certs", a)
          <5>1. s \in R!Slot /\ rcdn[s] \in {u, "gone"}
            BY <3>4, <4>1, OwnNumber
          <5> QED BY <3>3, <5>1
        <4>2. CASE s \in R!OwnNumbers(u, "waf-rules", a)
          <5>1. s \in R!Slot /\ rcdn[s] \in {u, "gone"}
            BY <3>4, <4>2, OwnNumber
          <5> QED BY <3>3, <5>1
        <4> QED BY <3>5, <4>1, <4>2
      <3>6. CASE s \in {<<"waf-rules", a, t[3]>> : t \in R!SharedRules}
        <4>1. PICK t \in R!SharedRules : s = <<"waf-rules", a, t[3]>>
          BY <3>6
        <4>2. t \in R!Slot /\ t[1] = "waf-rules" /\ rcdn[t] = "platform"
          BY <2>1 DEF R!SharedRules
        <4>3. t[3] = 1
          BY <4>2 DEF ResInv, SharedAlike
        <4>4. s \in R!Slot
          BY <4>1, <4>3, <3>4, SlotOf DEF R!Number
        <4>5. Alike => rcdn[s] = "platform"
          BY <4>1, <4>3, <4>4 DEF ResInv, SharedAlike
        <4> QED BY <3>3, <4>4, <4>5
      <3> QED BY <3>3, <3>5, <3>6 DEF R!Numbers
    <2>3. CASE R!RulesWrite
      <3>1. PICK u \in User : \E a \in rsite[u] : \E s \in R!ByUpstream(u, "waf-rules", a) : R!Name(u, {s})
        BY <2>3 DEF R!RulesWrite
      <3>2. PICK s \in R!Slot : R!Name(u, {s}) /\ row[s] # None /\ (row[s].owner = u \/ R!Shared(s))
        BY <3>1 DEF R!ByUpstream, R!Kinds
      <3> QED BY <2>1, <3>2, OwnRow
    <2>4. CASE R!SyncDomains
      <3>1. PICK u \in User : \E s \in R!ByLocal(u, "domains") : R!Name(u, {s})
        BY <2>4 DEF R!SyncDomains
      <3> QED BY <3>1, OwnRow DEF R!ByLocal
    <2> QED BY <2>2, <2>3, <2>4
  <1>3. PICK u \in User, s \in R!Slot : R!Name(u, {s}) /\ (Alike => rcdn[s] \in {u, "gone", "platform"})
    BY <1>2
  <1>4. Kept /\ rcdn' \in [R!Slot -> User \cup {None, "gone", "platform"}] /\ req' \in [Req -> ReqRec]
    BY <1>1, SameKept DEF ResInv, R!TypeOK, ReqRec
  <1>5. Alike => R!SentOwn'
    <2> SUFFICES ASSUME Alike PROVE R!SentOwn'
      OBVIOUS
    <2> QED BY <1>3, <1>4, NamedOwn
  <1>6. rsent' = [user |-> u, slots |-> {s}] /\ rshown' = {}
    BY <1>3 DEF R!Name
  <1>7. R!TypeOK' /\ R!ShownOwn'
    BY <1>1, <1>4, <1>6 DEF ResInv, R!TypeOK, RowRec, ReqRec, R!ShownOwn
  <1> QED BY <1>1, <1>4, <1>5, <1>7, ResPost

(* The rows of a list.                                                     *)
LEMMA ResLook ==
  ASSUME ResInv, NEW r \in Req, R!Look(r)
  PROVE  ResInv' /\ R!SentOwn'
  <1>1. PICK u \in User, k \in kinds \ {"domains"}, a \in Account :
          LET new == {s \in R!Kinds(k, a) : k = "waf-rules" /\ rcdn[s] = "platform" /\ row[s] = None} IN
            /\ row' = [s \in R!Slot |-> IF s \in new THEN [owner |-> None, sub |-> None] ELSE row[s]]
            /\ R!Wait(r, "found", u, {s \in R!ByUpstream(u, k, a) : R!Alive(s)} \cup new)
    BY DEF R!Look
  <1> DEFINE new == {s \in R!Kinds(k, a) : k = "waf-rules" /\ rcdn[s] = "platform" /\ row[s] = None}
             slots == {s \in R!ByUpstream(u, k, a) : R!Alive(s)} \cup new
  <1>2. UNCHANGED <<kinds, rcdn, rsite, made>> /\ R!Quiet
    BY DEF R!Look
  <1>3. Kept /\ R!SentOwn' /\ R!ShownOwn' /\ rsent' = None /\ rshown' = {}
    BY <1>2, SameKept, QuietOwn
  <1>4. /\ row' \in [R!Slot -> {None} \cup RowRec]
        /\ \A t \in R!Slot : row'[t] = row[t] \/ (row'[t].owner = None /\ rcdn[t] = "platform")
    <2>1. row' = [s \in R!Slot |-> IF s \in new THEN [owner |-> None, sub |-> None] ELSE row[s]]
      BY <1>1
    <2>2. \A s \in new : rcdn[s] = "platform"
      OBVIOUS
    <2> HIDE DEF new
    <2> QED BY <2>1, <2>2 DEF ResInv, R!TypeOK, RowRec
  <1>5. \A t \in R!Slot : row'[t] = row[t] \/ RowHome(t)'
    BY <1>2, <1>4 DEF RowHome
  <1>6. slots \in SUBSET R!Slot /\ \A s \in slots : rcdn[s] \in {u, "gone", "platform"}
    <2>1. new \subseteq R!Slot /\ \A s \in new : rcdn[s] = "platform"
      BY DEF R!Kinds
    <2>2. ASSUME NEW s \in R!ByUpstream(u, k, a) PROVE s \in R!Slot /\ rcdn[s] \in {u, "gone", "platform"}
      <3>1. s \in R!Slot /\ row[s] # None /\ (row[s].owner = u \/ R!Shared(s))
        BY <2>2 DEF R!ByUpstream, R!Kinds
      <3>2. R!Shared(s) => rcdn[s] = "platform"
        BY <3>1 DEF ResInv, RowHome, R!Shared
      <3> QED BY <3>1, <3>2, OwnRow
    <2> QED BY <2>1, <2>2
  <1>7. R!Wait(r, "found", u, slots)
    BY <1>1
  <1> HIDE DEF new, slots
  <1>8. PICK S \in SUBSET R!Slot : S = slots
    BY <1>6
  <1>9. /\ req' \in [Req -> ReqRec] /\ req'[r] = [pc |-> "found", user |-> u, slots |-> S]
        /\ \A q \in Req \ {r} : req'[q] = req[q]
    BY <1>7, <1>8, Waits DEF ResInv
  <1>10. ReqSound(req[r])'
    BY <1>2, <1>6, <1>8, <1>9 DEF ReqSound
  <1>11. R!TypeOK'
    BY <1>2, <1>3, <1>4, <1>9 DEF ResInv, R!TypeOK, RowRec, ReqRec
  <1> QED BY <1>3, <1>5, <1>9, <1>10, <1>11, ResPost

LEMMA ResShow ==
  ASSUME ResInv, NEW r \in Req, R!Show(r)
  PROVE  ResInv' /\ R!SentOwn'
  <1>1. PICK u \in User, S \in SUBSET R!Slot :
          u = req[r].user /\ S = req[r].slots /\ \A s \in S : rcdn[s] \in {u, "gone", "platform"}
    BY DEF ResInv, ReqSound, R!TypeOK, R!Show
  <1>2. /\ row' = [s \in R!Slot |-> IF s \in S THEN R!Adopted(s, u) ELSE row[s]]
        /\ rshown' = {[user |-> u, slot |-> s, sub |-> row'[s].sub] : s \in S}
        /\ rsent' = None /\ R!Leave(r) /\ UNCHANGED <<kinds, rcdn, rsite, made>>
    BY <1>1 DEF R!Show
  <1>3. Kept
    BY <1>2, SameKept
  <1>4. ASSUME NEW s \in S
        PROVE  /\ R!Adopted(s, u) \in RowRec
               /\ IF R!Adopted(s, u).owner = None THEN rcdn[s] = "platform" ELSE rcdn[s] \in {R!Adopted(s, u).owner, "gone"}
    <2>1. s \in R!Slot /\ RowHome(s)
      BY <1>4 DEF ResInv
    <2>2. CASE row[s] = None
      <3>1. R!Adopted(s, u) = [owner |-> IF rcdn[s] = "platform" THEN None ELSE u, sub |-> None]
        BY <2>2 DEF R!Adopted
      <3> QED BY <1>1, <3>1, Names DEF RowRec
    <2>3. CASE row[s] # None
      <3>1. PICK old \in RowRec : old = row[s]
        BY <2>1, <2>3, RowIs DEF ResInv
      <3>2. R!Adopted(s, u) = old \/ R!Adopted(s, u) = [old EXCEPT !.sub = u]
        BY <2>3, <3>1 DEF R!Adopted
      <3>3. [old EXCEPT !.sub = u] \in RowRec /\ [old EXCEPT !.sub = u].owner = old.owner
        BY DEF RowRec
      <3> QED BY <2>1, <2>3, <3>1, <3>2, <3>3 DEF RowHome
    <2> QED BY <2>2, <2>3
  <1>5. row' \in [R!Slot -> {None} \cup RowRec] /\ \A s \in S : row'[s] \in RowRec
    <2>1. \A s \in S : row'[s] = R!Adopted(s, u)
      BY <1>2
    <2>2. \A s \in R!Slot \ S : row'[s] = row[s]
      BY <1>2
    <2>3. \A s \in R!Slot : row[s] \in {None} \cup RowRec
      BY RowIs DEF ResInv
    <2>4. \A s \in R!Slot : row'[s] \in {None} \cup RowRec
      BY <1>4, <2>1, <2>2, <2>3
    <2>5. row' = [s \in R!Slot |-> row'[s]]
      BY <1>2
    <2> QED BY <1>4, <2>1, <2>4, <2>5
  <1>6. \A t \in R!Slot : row'[t] = row[t] \/ RowHome(t)'
    <2> SUFFICES ASSUME NEW t \in R!Slot, t \in S PROVE RowHome(t)'
      BY <1>2
    <2>1. row'[t] = R!Adopted(t, u)
      BY <1>2
    <2>2. IF row'[t].owner = None THEN rcdn'[t] = "platform" ELSE rcdn'[t] \in {row'[t].owner, "gone"}
      BY <1>2, <1>4, <2>1
    <2> QED BY <2>2 DEF RowHome
  <1>7. /\ rshown' \in SUBSET [user : User, slot : R!Slot, sub : User \cup {None}]
        /\ \A x \in rshown' : x.user = u /\ x.slot \in S
    <2>1. \A s \in S : row'[s].sub \in User \cup {None}
      BY <1>5 DEF RowRec
    <2>2. \A x \in rshown' : \E s \in S : x = [user |-> u, slot |-> s, sub |-> row'[s].sub]
      BY <1>2
    <2>3. \A x \in rshown' : x \in [user : User, slot : R!Slot, sub : User \cup {None}] /\ x.user = u /\ x.slot \in S
      BY <2>1, <2>2
    <2> QED BY <2>3
  <1>8. R!SentOwn' /\ R!ShownOwn'
    BY <1>1, <1>2, <1>7 DEF R!SentOwn, R!ShownOwn
  <1>9. req' \in [Req -> ReqRec] /\ \A q \in Req : req'[q] = req[q] \/ ReqSound(req[q])'
    BY <1>2, Leaves DEF ResInv
  <1>10. R!TypeOK'
    BY <1>2, <1>5, <1>7, <1>9 DEF ResInv, R!TypeOK, RowRec, ReqRec
  <1> QED BY <1>3, <1>6, <1>8, <1>9, <1>10, ResPost

LEMMA ResSiteGone ==
  ASSUME ResInv, R!SiteGone
  PROVE  ResInv' /\ R!SentOwn'
  <1>1. PICK u \in User : \E a \in rsite[u] :
          /\ rsite' = [rsite EXCEPT ![u] = @ \ {a}]
          /\ rcdn' = [s \in R!Slot |-> IF s \in R!Kinds("domains", a) /\ rcdn[s] = u THEN "gone" ELSE rcdn[s]]
    BY DEF R!SiteGone
  <1>2. R!Quiet /\ UNCHANGED <<kinds, row, req, made>>
    BY DEF R!SiteGone
  <1>3. R!SentOwn' /\ R!ShownOwn' /\ rsent' = None /\ rshown' = {}
    BY <1>2, QuietOwn
  <1>4. Kept /\ rcdn' \in [R!Slot -> User \cup {None, "gone", "platform"}]
    BY <1>1 DEF Kept, ResInv, R!TypeOK
  <1>5. rsite' \in [User -> SUBSET Account]
    BY <1>1 DEF ResInv, R!TypeOK
  <1>6. R!TypeOK'
    BY <1>2, <1>3, <1>4, <1>5 DEF ResInv, R!TypeOK
  <1> QED BY <1>2, <1>3, <1>4, <1>6, ResPost

LEMMA ResLookDomains ==
  ASSUME ResInv, NEW r \in Req, R!LookDomains(r)
  PROVE  ResInv' /\ R!SentOwn'
  <1>1. PICK u \in User, a \in Account :
          /\ R!Wait(r, "domains", u, R!OwnDomains(u, a))
          /\ row' = [s \in R!Slot |-> IF s \in R!ByUpstream(u, "domains", a) /\ s \notin R!OwnDomains(u, a)
                                      THEN None ELSE row[s]]
    BY DEF R!LookDomains
  <1>2. UNCHANGED <<kinds, rcdn, rsite, made>> /\ R!Quiet
    BY DEF R!LookDomains
  <1>3. Kept /\ R!SentOwn' /\ R!ShownOwn' /\ rsent' = None /\ rshown' = {}
    BY <1>2, SameKept, QuietOwn
  <1>4. row' \in [R!Slot -> {None} \cup RowRec] /\ \A t \in R!Slot : row'[t] = row[t] \/ row'[t] = None
    BY <1>1 DEF ResInv, R!TypeOK, RowRec
  <1>5. \A t \in R!Slot : row'[t] = row[t] \/ RowHome(t)'
    BY <1>4 DEF RowHome
  <1>6. PICK S \in SUBSET R!Slot : S = R!OwnDomains(u, a) /\ \A s \in S : rcdn[s] = u
    <2>1. R!OwnDomains(u, a) \in SUBSET R!Slot /\ \A s \in R!OwnDomains(u, a) : rcdn[s] = u
      BY DEF R!OwnDomains, R!Kinds
    <2> QED BY <2>1
  <1>7. /\ req' \in [Req -> ReqRec] /\ req'[r] = [pc |-> "domains", user |-> u, slots |-> S]
        /\ \A q \in Req \ {r} : req'[q] = req[q]
    BY <1>1, <1>6, Waits DEF ResInv
  <1>8. ReqSound(req[r])'
    BY <1>2, <1>6, <1>7 DEF ReqSound
  <1>9. R!TypeOK'
    BY <1>2, <1>3, <1>4, <1>7 DEF ResInv, R!TypeOK, RowRec, ReqRec
  <1> QED BY <1>3, <1>5, <1>7, <1>8, <1>9, ResPost

LEMMA ResShowDomains ==
  ASSUME ResInv, NEW r \in Req, R!ShowDomains(r)
  PROVE  ResInv' /\ R!SentOwn'
  <1>1. PICK u \in User, S \in SUBSET R!Slot :
          u = req[r].user /\ S = req[r].slots /\ \A s \in S : rcdn[s] \in {u, "gone"}
    BY DEF ResInv, ReqSound, R!TypeOK, R!ShowDomains
  <1>2. /\ row' = [s \in R!Slot |-> IF s \in S THEN [owner |-> u, sub |-> u] ELSE row[s]]
        /\ rshown' = {[user |-> u, slot |-> s, sub |-> u] : s \in S}
        /\ rsent' = None /\ R!Leave(r) /\ UNCHANGED <<kinds, rcdn, rsite, made>>
    BY <1>1 DEF R!ShowDomains
  <1>3. Kept
    BY <1>2, SameKept
  <1>4. /\ row' \in [R!Slot -> {None} \cup RowRec]
        /\ \A t \in R!Slot : row'[t] = row[t] \/ (t \in S /\ row'[t].owner = u)
    BY <1>2 DEF ResInv, R!TypeOK, RowRec
  <1>5. \A t \in R!Slot : row'[t] = row[t] \/ RowHome(t)'
    BY <1>1, <1>2, <1>4, Names DEF RowHome
  <1>6. /\ rshown' \in SUBSET [user : User, slot : R!Slot, sub : User \cup {None}]
        /\ \A x \in rshown' : x.user = u /\ x.slot \in S
    BY <1>2
  <1>7. R!SentOwn' /\ R!ShownOwn'
    BY <1>1, <1>2, <1>6 DEF R!SentOwn, R!ShownOwn
  <1>8. req' \in [Req -> ReqRec] /\ \A q \in Req : req'[q] = req[q] \/ ReqSound(req[q])'
    BY <1>2, Leaves DEF ResInv
  <1>9. R!TypeOK'
    BY <1>2, <1>4, <1>6, <1>8 DEF ResInv, R!TypeOK, RowRec, ReqRec
  <1> QED BY <1>3, <1>5, <1>7, <1>8, <1>9, ResPost

LEMMA ResInit ==
  ASSUME R!Init
  PROVE  ResInv /\ R!SentOwn
  <1>1. PICK sharing \in SUBSET Account \ {{}} :
          /\ Alike => sharing = Account
          /\ rcdn = [s \in R!Slot |->
               CASE s[1] = "waf-rules" /\ s[3] = 1 /\ s[2] \in sharing -> "platform"
                 [] s[1] = "domains" /\ (\E u \in User : s[2] \in rsite[u]) -> CHOOSE u \in User : s[2] \in rsite[u]
                 [] OTHER -> None]
    BY DEF R!Init
  <1>2. ASSUME NEW s \in R!Slot
        PROVE  IF s[1] = "waf-rules" /\ s[3] = 1 /\ s[2] \in sharing THEN rcdn[s] = "platform"
               ELSE rcdn[s] \in User \cup {None}
    BY <1>1
  <1>3. SharedAlike
    BY <1>1, <1>2, SlotIs, Names DEF SharedAlike
  <1>4. rcdn \in [R!Slot -> User \cup {None, "gone", "platform"}]
    <2>1. rcdn = [s \in R!Slot |-> rcdn[s]]
      BY <1>1
    <2> QED BY <1>2, <2>1
  <1>5. /\ kinds \in R!Themes /\ rsite \in [User -> SUBSET Account] /\ made = 0 /\ rsent = None /\ rshown = {}
        /\ row = [s \in R!Slot |-> None] /\ req = [r \in Req |-> R!Idle]
    BY DEF R!Init
  <1>6. R!Idle \in ReqRec /\ R!Idle.pc = "idle"
    BY DEF R!Idle, ReqRec
  <1>7. R!TypeOK
    BY <1>4, <1>5, <1>6, Names DEF R!TypeOK, RowRec, ReqRec
  <1>8. R!SentOwn /\ R!ShownOwn /\ (\A s \in R!Slot : RowHome(s)) /\ (\A r \in Req : ReqSound(req[r]))
    BY <1>5, <1>6 DEF R!SentOwn, R!ShownOwn, RowHome, ReqSound
  <1> QED BY <1>3, <1>7, <1>8 DEF ResInv

LEMMA ResNext ==
  ASSUME ResInv, Alike => R!SentOwn, R!Next \/ UNCHANGED resources
  PROVE  (ResInv /\ (Alike => R!SentOwn))'
  <1>1. CASE UNCHANGED resources
    BY <1>1 DEF resources, ResInv, R!TypeOK, SharedAlike, R!ShownOwn, RowHome, ReqSound, R!SentOwn
  <1>2. ASSUME NEW r \in Req,
               \/ R!Create(r) \/ R!SaveCreate(r) \/ R!SetSubscription(r) \/ R!Update(r) \/ R!SaveUpdate(r)
               \/ R!Delete(r) \/ R!Remove(r) \/ R!Look(r) \/ R!Show(r) \/ R!LookDomains(r) \/ R!ShowDomains(r)
        PROVE  ResInv' /\ R!SentOwn'
    BY <1>2, ResCreate, ResSaveCreate, ResSetSubscription, ResUpdate, ResSaveUpdate, ResDelete, ResRemove,
       ResLook, ResShow, ResLookDomains, ResShowDomains
  <1>3. CASE R!SiteWrite \/ R!RulesWrite \/ R!SyncDomains
    BY <1>3, ResNames
  <1>4. CASE R!SiteGone
    BY <1>4, ResSiteGone
  <1> QED BY <1>1, <1>2, <1>3, <1>4 DEF R!Next

-----------------------------------------------------------------------------
(* Scoping.  The numbers of an account tell its sites apart.               *)
DistinctIds ==
  \A s, t \in Site :
    s # t /\ site[s] # None /\ site[t] # None /\ site[s].account = site[t].account => site[s].id # site[t].id

(* A remembered log entry is of one's own site, and a job that has a row   *)
(* is whose the row says.                                                  *)
DocsMine == \A doc \in docs : \E s \in Mine : site[s].account = doc[1] /\ site[s].id = doc[2]
JobsTrue == \A a \in Account : <<"me", a>> \in table => job[a] = "me"

(* The list in the cache lacks streams that nobody knows of.               *)
ListSound == slist # None => \A s \in Stream \ hidden : slist[s] = cdn[s]

(* Until the streams change, nobody else uses the ports to be shown.       *)
Tame(s) == s \in hidden \/ cdn[s].owner = "me"
QuerySound ==
  /\ query.pc = "ports" => query.visible = {} /\ ~query.all
  /\ query.pc = "rows" /\ ~moved =>
       /\ \A s \in All(cdn) : cdn[s].ports \cap query.visible # {} => Tame(s)
       /\ query.all => \A s \in All(cdn) : Tame(s)

ScInv ==
  /\ TypeOK /\ DistinctIds /\ DocsMine /\ JobsTrue /\ ListSound /\ QuerySound
  /\ OwnSites /\ OwnTraffic /\ JobsHome

QueryRec ==
  [kind : {"none", "realtime", "top"}, pc : {"idle", "ports", "rows"}, ports : SUBSET Port,
   visible : SUBSET Port, all : BOOLEAN]

LEMMA Apartness ==
  /\ Site \cap Stream = {} /\ MaxChanges \in Nat /\ None \notin Site /\ None \notin 1..2
  /\ None \notin Owner /\ None \notin Domain
  BY ScopingAssumption

LEMMA SiteIs ==
  ASSUME TypeOK, NEW s \in Site, site[s] # None
  PROVE  /\ site[s] \in Sites /\ site[s].owner \in Owner /\ site[s].account \in Account
         /\ site[s].id \in 1..2 /\ site[s].domain \in Domain
  BY DEF TypeOK, Sites

LEMMA StreamIs ==
  ASSUME TypeOK, NEW s \in Stream, cdn[s] # None
  PROVE  cdn[s] \in Streams /\ cdn[s].owner \in Owner \cup {None} /\ cdn[s].ports \in SUBSET Port
  BY DEF TypeOK, Streams

(* Of what is answered, only what is counted for what was asked is shown.  *)
LEMMA Answered ==
  ASSUME NEW ask, NEW every, NEW count, None \notin ask, None \notin every,
         NEW result \in Answers(ask, every, count), NEW c \in Counts(Scoped(result, ask)), NEW s \in c
  PROVE  \E t \in ask : s \in count[t]
  <1>1. PICK r \in Scoped(result, ask) : c = r.counts
    BY DEF Counts
  <1>2. CASE result = {[tag |-> t, counts |-> count[t]] : t \in ask}
    <2>1. r \in result
      BY <1>1 DEF Scoped, Tagged
    <2> QED BY <1>1, <1>2, <2>1
  <1>3. CASE result = {[tag |-> t, counts |-> count[t]] : t \in every}
    <2>1. r \in result
      BY <1>1 DEF Scoped, Tagged
    <2>2. PICK t \in every : r = [tag |-> t, counts |-> count[t]]
      BY <1>3, <2>1
    <2>3. r.tag # None
      BY <2>2
    <2>4. r.tag \in ask
      BY <1>1, <2>1, <2>3 DEF Scoped, Tagged
    <2> QED BY <1>1, <2>2, <2>4
  <1>4. CASE result = {[tag |-> None, counts |-> UNION {count[t] : t \in ask}]}
    <2>1. r \in result
      BY <1>1 DEF Scoped, Tagged
    <2> QED BY <1>1, <1>4, <2>1
  <1> QED BY <1>2, <1>3, <1>4 DEF Answers

(* A domain that is one's own in an account is counted for one's own sites *)
(* there, and no others.                                                   *)
LEMMA OwnedAlone ==
  ASSUME TypeOK, NEW chosen \in SUBSET Mine, NEW a \in Account, NEW d \in Domain, DomainOwned(d, chosen),
         \A s \in chosen : DomainOwned(d, {s}) => site[s].account = a
  PROVE  CountedBy(a, d) \subseteq Mine
  <1>1. PICK s \in chosen : Serves(s, d) /\ \A e \in Conflicting(s) : ~Overlaps(d, e)
    BY DEF DomainOwned
  <1>2. DomainOwned(d, {s})
    BY <1>1 DEF DomainOwned
  <1>3. site[s].account = a
    BY <1>2
  <1>4. ASSUME NEW t \in CountedBy(a, d) PROVE t \in Mine
    <2>1. t \in Site /\ site[t] # None /\ site[t].account = a /\ Overlaps(site[t].domain, d)
      BY DEF CountedBy, In
    <2>2. Overlaps(d, site[t].domain)
      BY <2>1 DEF Overlaps
    <2>3. ~Clashing(s, t)
      BY <1>1, <2>1, <2>2 DEF Conflicting
    <2> QED BY <1>3, <2>1, <2>3 DEF Clashing, Mine
  <1> QED BY <1>4

(* Whoever shows only one's own sites does right.                          *)
LEMMA ScShow ==
  ASSUME ScInv, NEW result, Show(result), \A c \in result : c \subseteq Mine,
         UNCHANGED <<unscoped, job, table>>, docs' \subseteq Account \X (1..2),
         \A doc \in docs' : \E s \in Mine : site[s].account = doc[1] /\ site[s].id = doc[2]
  PROVE  ScInv'
  <1>1. UNCHANGED <<site, cdn, slist, hidden, moved, changes, query>>
    BY DEF unscoped
  <1>2. shown' = result /\ sent' = None
    BY DEF Show
  <1>3. Mine' = Mine /\ Mine \subseteq Site
    BY <1>1 DEF Mine
  <1>4. \A c \in shown' : c \subseteq Site /\ c \cap Stream = {} /\ \A s \in c : site[s].owner = "me"
    BY <1>2, <1>3, Apartness DEF Mine
  <1>5. TypeOK'
    BY <1>1, <1>2, <1>4 DEF ScInv, TypeOK
  <1>6. OwnSites' /\ OwnTraffic' /\ JobsHome'
    BY <1>1, <1>2, <1>4 DEF OwnSites, OwnTraffic, JobsHome
  <1>7. DistinctIds' /\ JobsTrue' /\ ListSound' /\ QuerySound'
    BY <1>1 DEF ScInv, DistinctIds, JobsTrue, ListSound, QuerySound, Tame, All
  <1>8. DocsMine'
    BY <1>1, <1>3 DEF DocsMine
  <1> QED BY <1>5, <1>6, <1>7, <1>8 DEF ScInv

LEMMA ScShowOnly ==
  ASSUME ScInv, NEW result, Show(result), \A c \in result : c \subseteq Mine,
         UNCHANGED <<unscoped, docs, job, table>>
  PROVE  ScInv'
  BY ScShow DEF ScInv, TypeOK, DocsMine

LEMMA Alone ==
  ASSUME ScInv, NEW a \in Account, NEW domains \in SUBSET Domain, ScopeDomain(domains, a)
  PROVE  \A d \in domains : CountedBy(a, d) \subseteq Mine
  <1> SUFFICES ASSUME NEW d \in domains PROVE CountedBy(a, d) \subseteq Mine
    OBVIOUS
  <1>1. DomainOwned(d, Mine)
    BY DEF ScopeDomain
  <1>2. ASSUME NEW s \in Mine, DomainOwned(d, {s}) PROVE site[s].account = a
    <2>1. s \in Matched(domains)
      BY <1>2 DEF Matched
    <2> QED BY <2>1 DEF ScopeDomain, Accounts
  <1> QED BY <1>1, <1>2, OwnedAlone DEF ScInv

LEMMA DomainsAnswered ==
  ASSUME ScInv, NEW a \in Account, NEW domains \in SUBSET Domain, \A d \in domains : CountedBy(a, d) \subseteq Mine,
         NEW result \in DomainAnswers(a, domains)
  PROVE  \A c \in Counts(Scoped(result, domains)) : c \subseteq Mine
  <1> DEFINE every == {site[s].domain : s \in In(a)}
             count == [d \in Domain |-> CountedBy(a, d)]
  <1>1. None \notin domains /\ None \notin every
    <2>1. \A s \in In(a) : site[s].domain \in Domain
      BY SiteIs DEF In, ScInv
    <2> QED BY <2>1, Apartness
  <1>2. result \in Answers(domains, every, count)
    BY DEF DomainAnswers
  <1>3. \A d \in domains : count[d] \subseteq Mine
    OBVIOUS
  <1> HIDE DEF every, count
  <1> SUFFICES ASSUME NEW c \in Counts(Scoped(result, domains)), NEW s \in c PROVE s \in Mine
    OBVIOUS
  <1>4. \E t \in domains : s \in count[t]
    BY <1>1, <1>2, Answered
  <1> QED BY <1>3, <1>4

LEMMA ScFigures ==
  ASSUME ScInv, Figures
  PROVE  ScInv'
  <1>1. PICK domains \in SUBSET Domain, a \in Account :
          ScopeDomain(domains, a) /\ \E result \in DomainAnswers(a, domains) : Show(Counts(Scoped(result, domains)))
    BY DEF Figures
  <1>2. PICK result \in DomainAnswers(a, domains) : Show(Counts(Scoped(result, domains)))
    BY <1>1
  <1>3. \A c \in Counts(Scoped(result, domains)) : c \subseteq Mine
    BY <1>1, Alone, DomainsAnswered
  <1> QED BY <1>2, <1>3, ScShowOnly DEF Figures

LEMMA ScOverview ==
  ASSUME ScInv, Overview
  PROVE  ScInv'
  <1> DEFINE mine(a) == Mine \cap In(a)
             domains(a) == {site[s].domain : s \in mine(a)}
  <1>1. \A a \in Accounts(Mine) : \A d \in domains(a) : DomainOwned(d, mine(a))
    BY DEF Overview
  <1>2. PICK a \in Accounts(Mine) : \E result \in DomainAnswers(a, domains(a)) : Show(Counts(Scoped(result, domains(a))))
    BY DEF Overview
  <1>3. PICK result \in DomainAnswers(a, domains(a)) : Show(Counts(Scoped(result, domains(a))))
    BY <1>2
  <1>4. a \in Account
    BY SiteIs DEF Accounts, Mine, ScInv
  <1>5. domains(a) \in SUBSET Domain
    BY SiteIs DEF In, ScInv
  <1>6. ASSUME NEW d \in domains(a) PROVE CountedBy(a, d) \subseteq Mine
    <2>1. DomainOwned(d, mine(a)) /\ d \in Domain
      BY <1>1, <1>5
    <2>2. mine(a) \in SUBSET Mine /\ \A s \in mine(a) : site[s].account = a
      BY DEF In
    <2> QED BY <1>4, <2>1, <2>2, OwnedAlone DEF ScInv
  <1> HIDE DEF mine, domains
  <1>7. \A c \in Counts(Scoped(result, domains(a))) : c \subseteq Mine
    BY <1>4, <1>5, <1>6, DomainsAnswered
  <1> QED BY <1>3, <1>7, ScShowOnly DEF Overview

LEMMA ScLog ==
  ASSUME ScInv, Log
  PROVE  ScInv'
  <1>1. PICK domains \in SUBSET Domain, a \in Account :
          /\ ScopeDomain(domains, a)
          /\ LET entries == {s \in In(a) : \E d \in domains : Serves(s, d)} IN
               Show({{s} : s \in entries}) /\ \E s \in entries : docs' = {<<a, site[s].id>>}
    BY DEF Log
  <1> DEFINE entries == {s \in In(a) : \E d \in domains : Serves(s, d)}
  <1>2. ASSUME NEW s \in entries PROVE s \in Mine
    <2>1. PICK d \in domains : Serves(s, d)
      OBVIOUS
    <2>2. s \in CountedBy(a, d)
      BY <2>1 DEF CountedBy, Serves, Overlaps
    <2> QED BY <1>1, <2>2, Alone
  <1>3. PICK s \in entries : docs' = {<<a, site[s].id>>}
    BY <1>1
  <1>4. site[s].account = a /\ site[s].id \in 1..2
    BY <1>3, SiteIs DEF In, ScInv
  <1>5. docs' \subseteq Account \X (1..2) /\ \A doc \in docs' : \E t \in Mine : site[t].account = doc[1] /\ site[t].id = doc[2]
    BY <1>2, <1>3, <1>4
  <1>6. Show({{t} : t \in entries})
    BY <1>1
  <1> HIDE DEF entries
  <1>7. \A c \in {{t} : t \in entries} : c \subseteq Mine
    BY <1>2
  <1>8. UNCHANGED <<unscoped, job, table>>
    BY DEF Log
  <1> QED BY <1>5, <1>6, <1>7, <1>8, ScShow

(* One's own number in an account is nobody else's.                        *)
LEMMA SameSite ==
  ASSUME ScInv, NEW s \in Mine, NEW t \in In(site[s].account), site[t].id = site[s].id
  PROVE  t = s
  BY DEF ScInv, DistinctIds, Mine, In

LEMMA ScLogEntry ==
  ASSUME ScInv, LogEntry
  PROVE  ScInv'
  <1>1. PICK doc \in docs : Show({{s} : s \in {t \in In(doc[1]) : site[t].id = doc[2]}})
    BY DEF LogEntry
  <1>2. PICK s \in Mine : site[s].account = doc[1] /\ site[s].id = doc[2]
    BY DEF ScInv, DocsMine
  <1>3. \A c \in {{t} : t \in {t \in In(doc[1]) : site[t].id = doc[2]}} : c \subseteq Mine
    BY <1>2, SameSite
  <1> QED BY <1>1, <1>3, ScShowOnly DEF LogEntry

LEMMA ScUsage ==
  ASSUME ScInv, Usage
  PROVE  ScInv'
  <1>0. PICK chosen \in SUBSET Mine : \E a \in Accounts(chosen) :
          LET count == [i \in 1..2 |-> {s \in In(a) : site[s].id = i}]
              ids == IdsIn(chosen, a)
          IN \E result \in Answers(ids, {site[s].id : s \in In(a)}, count) : Show(Counts(Scoped(result, ids)))
    BY DEF Usage
  <1>1. PICK a \in Accounts(chosen) :
          LET count == [i \in 1..2 |-> {s \in In(a) : site[s].id = i}]
              ids == IdsIn(chosen, a)
          IN \E result \in Answers(ids, {site[s].id : s \in In(a)}, count) : Show(Counts(Scoped(result, ids)))
    BY <1>0
  <1> DEFINE count == [i \in 1..2 |-> {s \in In(a) : site[s].id = i}]
             every == {site[s].id : s \in In(a)}
  <1>2. PICK ids : ids = IdsIn(chosen, a)
    OBVIOUS
  <1>3. PICK result \in Answers(ids, every, count) : Show(Counts(Scoped(result, ids)))
    BY <1>1, <1>2
  <1>4. \A s \in In(a) : site[s].id \in 1..2 /\ site[s].account = a
    BY SiteIs DEF In, ScInv
  <1>5. None \notin ids /\ None \notin every
    BY <1>2, <1>4, Apartness DEF IdsIn
  <1>6. ASSUME NEW i \in ids, NEW t \in count[i] PROVE t \in Mine
    <2>1. PICK s \in chosen \cap In(a) : site[s].id = i
      BY <1>2 DEF IdsIn
    <2>2. i \in 1..2
      BY <1>4, <2>1
    <2>3. t \in In(a) /\ site[t].id = i
      BY <2>2
    <2>4. t = s
      BY <1>4, <2>1, <2>3, SameSite
    <2> QED BY <2>1, <2>4
  <1> HIDE DEF count, every
  <1>7. ASSUME NEW c \in Counts(Scoped(result, ids)), NEW t \in c PROVE t \in Mine
    <2>1. \E i \in ids : t \in count[i]
      BY <1>5, Answered
    <2> QED BY <1>6, <2>1
  <1>8. \A c \in Counts(Scoped(result, ids)) : c \subseteq Mine
    BY <1>7
  <1> QED BY <1>3, <1>8, ScShowOnly DEF Usage

LEMMA ScBlocked ==
  ASSUME ScInv, Blocked \/ BlockedCount
  PROVE  ScInv'
  <1>1. CASE Blocked
    <2>1. PICK s \in Mine : Show({{t} : t \in {t \in In(site[s].account) : site[t].id = site[s].id}})
      BY <1>1 DEF Blocked
    <2>2. \A c \in {{t} : t \in {t \in In(site[s].account) : site[t].id = site[s].id}} : c \subseteq Mine
      BY SameSite
    <2> QED BY <1>1, <2>1, <2>2, ScShowOnly DEF Blocked
  <1>2. CASE BlockedCount
    <2>1. PICK a \in Accounts(Mine) : Show({{s} : s \in {t \in In(a) : site[t].id \in IdsIn(Mine, a)}})
      BY <1>2 DEF BlockedCount
    <2>2. ASSUME NEW t \in In(a), site[t].id \in IdsIn(Mine, a) PROVE t \in Mine
      <3>1. PICK s \in Mine \cap In(a) : site[s].id = site[t].id
        BY <2>2 DEF IdsIn
      <3> QED BY <3>1, SameSite DEF In
    <2>3. \A c \in {{s} : s \in {t \in In(a) : site[t].id \in IdsIn(Mine, a)}} : c \subseteq Mine
      BY <2>2
    <2> QED BY <1>2, <2>1, <2>3, ScShowOnly DEF BlockedCount
  <1> QED BY <1>1, <1>2

LEMMA ScListJobs ==
  ASSUME ScInv, ListJobs
  PROVE  ScInv'
  <1>1. PICK a \in Accounts(Mine) : job[a] # None /\ Show({JobsOf(a)})
    BY DEF ListJobs
  <1>2. a \in Account
    BY SiteIs DEF Accounts, Mine, ScInv
  <1>3. JobsOf(a) \subseteq Mine
    BY <1>2 DEF JobsOf, Listed, ScInv, JobsTrue
  <1> QED BY <1>1, <1>3, ScShowOnly DEF ListJobs

(* Jobs are sent where their target is one's own.                          *)
LEMMA ScPost ==
  ASSUME ScInv, NEW a \in Account, NEW s \in Site \cup {None}, NEW d \in Domain \cup {None},
         Post(Target(s, d, a), a), UNCHANGED <<unscoped, docs>>,
         LET targets == IF s # None THEN {s} ELSE CountedBy(a, d) IN
           targets # {} /\ \A t \in targets : site[t].owner = "me" /\ site[t].account = a
  PROVE  ScInv'
  <1>1. UNCHANGED <<site, cdn, slist, hidden, moved, changes, query, docs>>
    BY DEF unscoped
  <1>2. /\ sent' = [account |-> a, site |-> s, domain |-> d] /\ shown' = {}
        /\ IF job[a] = None
             THEN job' = [job EXCEPT ![a] = "me"] /\ (table' = table \cup {<<"me", a>>} \/ table' = table)
             ELSE UNCHANGED <<job, table>>
    BY DEF Post, Target
  <1>3. job' \in [Account -> Owner \cup {None}] /\ table' \in SUBSET (Owner \X Account)
    BY <1>2 DEF ScInv, TypeOK, Owner
  <1>4. sent' \in [account : Account, site : Site \cup {None}, domain : Domain \cup {None}]
    BY <1>2
  <1>5. TypeOK'
    BY <1>1, <1>2, <1>3, <1>4 DEF ScInv, TypeOK
  <1>6. JobsTrue'
    <2> SUFFICES ASSUME NEW b \in Account, <<"me", b>> \in table' PROVE job'[b] = "me"
      BY DEF JobsTrue
    <2>1. CASE job[a] # None
      BY <1>2, <2>1 DEF ScInv, JobsTrue
    <2>2. CASE job[a] = None /\ b = a
      BY <1>2, <2>2 DEF ScInv, TypeOK
    <2>3. CASE job[a] = None /\ b # a
      BY <1>2, <2>3 DEF ScInv, JobsTrue, TypeOK
    <2> QED BY <2>1, <2>2, <2>3
  <1>7. JobsHome'
    <2>1. CountedBy(a, d)' = CountedBy(a, d)
      BY <1>1 DEF CountedBy, In
    <2>2. sent'.site = s /\ sent'.account = a /\ sent'.domain = d
      BY <1>2
    <2>3. CountedBy(sent.account, sent.domain)' = CountedBy(a, d)
      BY <1>1, <2>2 DEF CountedBy, In
    <2> QED BY <1>1, <2>2, <2>3 DEF JobsHome
  <1>8. OwnSites' /\ OwnTraffic'
    BY <1>2 DEF OwnSites, OwnTraffic
  <1>9. DistinctIds' /\ DocsMine' /\ ListSound' /\ QuerySound'
    BY <1>1 DEF ScInv, DistinctIds, DocsMine, Mine, ListSound, QuerySound, Tame, All
  <1> QED BY <1>5, <1>6, <1>7, <1>8, <1>9 DEF ScInv

LEMMA ScSiteJob ==
  ASSUME ScInv, SiteJob
  PROVE  ScInv'
  <1>1. PICK s \in Mine : Post(Target(s, None, site[s].account), site[s].account)
    BY DEF SiteJob
  <1>2. s \in Site /\ site[s] # None /\ site[s].owner = "me" /\ site[s].account \in Account /\ s # None
    BY SiteIs, Apartness DEF Mine, ScInv
  <1>3. PICK a \in Account : a = site[s].account
    BY <1>2
  <1> QED BY <1>1, <1>2, <1>3, ScPost DEF SiteJob

LEMMA ScDomainJob ==
  ASSUME ScInv, DomainJob
  PROVE  ScInv'
  <1>1. PICK d \in Domain, s \in Site :
          DomainOwned(d, Mine) /\ s \in Matched({d}) /\ Post(Target(None, d, site[s].account), site[s].account)
    BY DEF DomainJob
  <1>2. s \in Mine /\ DomainOwned(d, {s})
    BY <1>1 DEF Matched
  <1>3. PICK a \in Account : a = site[s].account
    BY <1>2, SiteIs DEF Mine, ScInv
  <1>4. {s} \in SUBSET Mine /\ \A t \in {s} : site[t].account = a
    BY <1>2, <1>3
  <1>5. CountedBy(a, d) \subseteq Mine
    BY <1>2, <1>4, OwnedAlone DEF ScInv
  <1>6. s \in CountedBy(a, d)
    BY <1>2, <1>3 DEF DomainOwned, Serves, CountedBy, In, Mine, Overlaps
  <1>7. \A t \in CountedBy(a, d) : site[t].owner = "me" /\ site[t].account = a
    BY <1>5 DEF CountedBy, In, Mine
  <1> QED BY <1>1, <1>3, <1>6, <1>7, ScPost DEF DomainJob

LEMMA ScOtherJob ==
  ASSUME ScInv, OtherJob
  PROVE  ScInv'
  <1>1. PICK a \in Account : job[a] = None /\ job' = [job EXCEPT ![a] = "other"] /\ table' = table \cup {<<"other", a>>}
    BY DEF OtherJob
  <1>2. UNCHANGED <<site, cdn, slist, hidden, moved, changes, query, docs, shown, sent>>
    BY DEF OtherJob, unscoped
  <1>3. TypeOK'
    BY <1>1, <1>2 DEF ScInv, TypeOK, Owner
  <1>4. JobsTrue'
    <2> SUFFICES ASSUME NEW b \in Account, <<"me", b>> \in table' PROVE job'[b] = "me"
      BY DEF JobsTrue
    <2>1. <<"me", b>> \in table
      BY <1>1
    <2>2. job[b] = "me"
      BY <2>1 DEF ScInv, JobsTrue
    <2>3. b # a
      BY <1>1, <2>2, Apartness DEF Owner
    <2> QED BY <1>1, <2>2, <2>3 DEF ScInv, TypeOK
  <1>5. DistinctIds' /\ DocsMine' /\ ListSound' /\ QuerySound' /\ OwnSites' /\ OwnTraffic' /\ JobsHome'
    BY <1>2 DEF ScInv, DistinctIds, DocsMine, Mine, ListSound, QuerySound, Tame, All, OwnSites, OwnTraffic, JobsHome, CountedBy, In
  <1> QED BY <1>3, <1>4, <1>5 DEF ScInv

-----------------------------------------------------------------------------
(* Traffic by port.                                                        *)
LEMMA ScScopePorts ==
  ASSUME ScInv, ScopePorts
  PROVE  ScInv'
  <1>1. UNCHANGED <<site, cdn, slist, hidden, changes, docs, job, table>> /\ moved' = FALSE /\ shown' = {} /\ sent' = None
    BY DEF ScopePorts
  <1>2. PICK k \in {"realtime", "top"}, P0 \in SUBSET Port :
          query' = [kind |-> k, pc |-> "ports", ports |-> P0, visible |-> {}, all |-> FALSE]
    <2>1. PICK k \in {"realtime", "top"}, ask \in SUBSET Port :
            /\ ask \subseteq PortsOf(cdn, Own(cdn))
            /\ query' = [Idle EXCEPT !.kind = k, !.pc = "ports", !.ports = IF ask = {} THEN PortsOf(cdn, Own(cdn)) ELSE ask]
      BY DEF ScopePorts
    <2>2. PortsOf(cdn, Own(cdn)) \in SUBSET Port
      BY StreamIs DEF PortsOf, Own, ScInv
    <2>3. PICK P0 \in SUBSET Port : P0 = IF ask = {} THEN PortsOf(cdn, Own(cdn)) ELSE ask
      BY <2>2
    <2>4. query' = [kind |-> k, pc |-> "ports", ports |-> P0, visible |-> {}, all |-> FALSE]
      BY <2>1, <2>3 DEF Idle
    <2> QED BY <2>4
  <1>3. query' \in QueryRec
    BY <1>2 DEF QueryRec
  <1>4. TypeOK'
    BY <1>1, <1>3 DEF ScInv, TypeOK, QueryRec
  <1>5. QuerySound'
    BY <1>2 DEF QuerySound
  <1>6. DistinctIds' /\ DocsMine' /\ JobsTrue' /\ ListSound' /\ OwnSites' /\ OwnTraffic' /\ JobsHome'
    BY <1>1 DEF ScInv, DistinctIds, DocsMine, Mine, JobsTrue, ListSound, OwnSites, OwnTraffic, JobsHome
  <1> QED BY <1>4, <1>5, <1>6 DEF ScInv

(* A list from the cache says of a stream what the CDN has, or the stream  *)
(* is hidden.                                                              *)
LEMMA ListTold ==
  ASSUME ScInv, NEW l \in {cdn} \cup ({slist} \ {None}), NEW s \in All(cdn)
  PROVE  /\ \A p \in cdn[s].ports : Exclusive(l, p) => Tame(s)
         /\ AllOwned(l) => Tame(s)
  <1> SUFFICES ASSUME s \notin hidden
               PROVE  (\A p \in cdn[s].ports : Exclusive(l, p) => Tame(s)) /\ (AllOwned(l) => Tame(s))
    BY DEF Tame
  <1>1. s \in Stream /\ l[s] = cdn[s] /\ l[s] # None
    BY DEF ScInv, ListSound, All
  <1>2. s \in All(l)
    BY <1>1 DEF All
  <1>3. AllOwned(l) => l[s].owner = "me"
    BY <1>2 DEF AllOwned, Own
  <1>4. ASSUME NEW p \in cdn[s].ports, Exclusive(l, p) PROVE l[s].owner = "me"
    BY <1>1, <1>2, <1>4 DEF Exclusive, PortsOf, Own
  <1> QED BY <1>1, <1>3, <1>4 DEF Tame

LEMMA ScVisibility ==
  ASSUME ScInv, Visibility
  PROVE  ScInv'
  <1>1. UNCHANGED <<site, cdn, hidden, moved, changes, shown, docs, job, table, sent>> /\ query.pc = "ports"
    BY DEF Visibility
  <1>2. PICK old \in QueryRec : old = query /\ old.visible = {} /\ old.all = FALSE
    BY <1>1 DEF ScInv, TypeOK, QueryRec, QuerySound
  <1>3. DistinctIds' /\ DocsMine' /\ JobsTrue' /\ OwnSites' /\ OwnTraffic' /\ JobsHome'
    BY <1>1 DEF ScInv, DistinctIds, DocsMine, Mine, JobsTrue, OwnSites, OwnTraffic, JobsHome, CountedBy, In
  <1>4. CASE query' = [query EXCEPT !.pc = "rows"] /\ UNCHANGED slist
    <2>1. query' = [old EXCEPT !.pc = "rows"]
      BY <1>2, <1>4
    <2>2. query' \in QueryRec /\ query'.visible = {} /\ query'.all = FALSE /\ query'.pc = "rows"
      BY <1>2, <2>1 DEF QueryRec
    <2>3. TypeOK'
      BY <1>1, <1>4, <2>2 DEF ScInv, TypeOK, QueryRec
    <2>4. QuerySound' /\ ListSound'
      BY <1>1, <1>4, <2>2 DEF ScInv, QuerySound, ListSound
    <2> QED BY <1>3, <2>3, <2>4 DEF ScInv
  <1>5. ASSUME NEW l \in {cdn} \cup ({slist} \ {None}), slist' = l,
               query' = [query EXCEPT !.pc = "rows", !.visible = {p \in query.ports : Exclusive(l, p)},
                           !.all = All(l) # {} /\ AllOwned(l) /\ PortsOf(l, Own(l)) \subseteq query.ports]
        PROVE  ScInv'
    <2>1. PICK V \in SUBSET Port, all \in BOOLEAN :
            /\ V = {p \in query.ports : Exclusive(l, p)}
            /\ all = (All(l) # {} /\ AllOwned(l) /\ PortsOf(l, Own(l)) \subseteq query.ports)
      BY <1>2 DEF QueryRec
    <2>2. query' = [old EXCEPT !.pc = "rows", !.visible = V, !.all = all]
      BY <1>2, <1>5, <2>1
    <2>3. query' \in QueryRec /\ query'.visible = V /\ query'.all = all /\ query'.pc = "rows"
      BY <2>2 DEF QueryRec
    <2>4. slist' \in Lists
      BY <1>5 DEF ScInv, TypeOK, Lists
    <2>5. TypeOK'
      BY <1>1, <2>3, <2>4 DEF ScInv, TypeOK, QueryRec
    <2>6. ListSound'
      BY <1>1, <1>5 DEF ScInv, ListSound
    <2>7. ASSUME NEW s \in All(cdn)
          PROVE  (cdn[s].ports \cap V # {} => Tame(s)) /\ (all => Tame(s))
      BY <2>1, ListTold
    <2>8. QuerySound'
      BY <1>1, <2>3, <2>7 DEF QuerySound, All, Tame
    <2> QED BY <1>3, <2>5, <2>6, <2>8 DEF ScInv
  <1> QED BY <1>4, <1>5 DEF Visibility

LEMMA ScTraffic ==
  ASSUME ScInv, Traffic
  PROVE  ScInv'
  <1> DEFINE using(p) == {s \in All(cdn) : p \in cdn[s].ports}
  <1>1. UNCHANGED <<site, cdn, slist, hidden, moved, changes, docs, job, table, sent>> /\ query' = Idle /\ query.pc = "rows"
    BY DEF Traffic
  <1>2. ASSUME NEW c \in shown'
        PROVE  c \subseteq Stream /\ (~moved => \A s \in c : Tame(s))
    <2>1. CASE shown' = {using(p) : p \in {p \in query.visible : using(p) # {}}}
      <3>1. PICK p \in query.visible : c = using(p)
        BY <1>2, <2>1
      <3>2. ASSUME ~moved, NEW s \in c PROVE Tame(s)
        <4>1. s \in All(cdn) /\ p \in cdn[s].ports \cap query.visible
          BY <3>1
        <4> QED BY <1>1, <3>2, <4>1 DEF ScInv, QuerySound
      <3> QED BY <3>1, <3>2 DEF All
    <2>2. CASE shown' = IF query.kind = "realtime" /\ query.all THEN {All(cdn)} ELSE {}
      <3>1. c = All(cdn) /\ query.all
        BY <1>2, <2>2
      <3> QED BY <1>1, <3>1 DEF ScInv, QuerySound, All
    <2> QED BY <2>1, <2>2 DEF Traffic
  <1>3. shown' \subseteq SUBSET (Site \cup Stream)
    BY <1>2
  <1>4. Idle \in QueryRec /\ Idle.pc = "idle"
    BY DEF Idle, QueryRec
  <1>5. TypeOK'
    BY <1>1, <1>3, <1>4 DEF ScInv, TypeOK, QueryRec
  <1>6. OwnSites'
    BY <1>2, Apartness DEF OwnSites
  <1>7. OwnTraffic'
    BY <1>1, <1>2 DEF OwnTraffic, Tame
  <1>8. QuerySound'
    BY <1>1, <1>4 DEF QuerySound
  <1>9. DistinctIds' /\ DocsMine' /\ JobsTrue' /\ ListSound' /\ JobsHome'
    BY <1>1 DEF ScInv, DistinctIds, DocsMine, Mine, JobsTrue, ListSound, JobsHome, CountedBy, In
  <1> QED BY <1>5, <1>6, <1>7, <1>8, <1>9 DEF ScInv

(* After a change of the streams nothing is said of them until the next    *)
(* query.                                                                  *)
LEMMA ScMoved ==
  ASSUME ScInv, changes < MaxChanges, changes' = changes + 1, moved' = TRUE,
         UNCHANGED <<site, query, shown, docs, job, table, sent>>,
         cdn' \in [Stream -> Streams \cup {None}], hidden' \subseteq Stream, slist' \in Lists, ListSound'
  PROVE  ScInv'
  <1>1. TypeOK'
    BY Apartness DEF ScInv, TypeOK
  <1>2. OwnTraffic' /\ QuerySound'
    BY DEF OwnTraffic, QuerySound, ScInv
  <1>3. DistinctIds' /\ DocsMine' /\ JobsTrue' /\ OwnSites' /\ JobsHome'
    BY DEF ScInv, DistinctIds, DocsMine, Mine, JobsTrue, OwnSites, JobsHome, CountedBy, In
  <1> QED BY <1>1, <1>2, <1>3 DEF ScInv

LEMMA ScCreate ==
  ASSUME ScInv, Create
  PROVE  ScInv'
  <1>1. PICK s \in Stream, o \in Owner, ports \in SUBSET Port \ {{}} :
          \/ cdn' = [cdn EXCEPT ![s] = [owner |-> o, ports |-> ports]] /\ slist' = None /\ UNCHANGED hidden
          \/ cdn' = [cdn EXCEPT ![s] = [owner |-> None, ports |-> ports]] /\ hidden' = hidden \cup {s} /\ UNCHANGED slist
    BY DEF Create
  <1>2. cdn' \in [Stream -> Streams \cup {None}] /\ hidden' \subseteq Stream /\ slist' \in Lists
    BY <1>1 DEF ScInv, TypeOK, Streams, Lists
  <1>3. ListSound'
    BY <1>1 DEF ScInv, ListSound, TypeOK
  <1> QED BY <1>2, <1>3, ScMoved DEF Create

LEMMA ScDelete ==
  ASSUME ScInv, Delete
  PROVE  ScInv'
  <1>1. PICK s \in All(cdn) : cdn' = [cdn EXCEPT ![s] = None] /\ hidden' = hidden \ {s}
    BY DEF Delete
  <1>2. slist' = None
    BY DEF Delete
  <1>3. cdn' \in [Stream -> Streams \cup {None}] /\ hidden' \subseteq Stream /\ slist' \in Lists
    BY <1>1, <1>2 DEF ScInv, TypeOK, Lists
  <1>4. ListSound'
    BY <1>2 DEF ListSound
  <1> QED BY <1>3, <1>4, ScMoved DEF Delete

LEMMA ScInit ==
  ASSUME Init
  PROVE  ScInv
  <1>1. /\ site \in [Site -> Sites \cup {None}] /\ cdn \in [Stream -> Streams \cup {None}] /\ changes \in 0..MaxChanges
        /\ slist = None /\ hidden = {} /\ moved = FALSE /\ query = Idle /\ shown = {} /\ sent = None
        /\ docs = {} /\ job = [a \in Account |-> None] /\ table = {}
    BY Apartness DEF Init
  <1>2. Idle \in QueryRec /\ Idle.pc = "idle"
    BY DEF Idle, QueryRec
  <1>3. TypeOK
    BY <1>1, <1>2 DEF TypeOK, QueryRec, Lists
  <1>4. DistinctIds
    BY DEF Init, DistinctIds
  <1>5. DocsMine /\ JobsTrue /\ ListSound /\ QuerySound /\ OwnSites /\ OwnTraffic /\ JobsHome
    BY <1>1, <1>2 DEF DocsMine, JobsTrue, ListSound, QuerySound, OwnSites, OwnTraffic, JobsHome
  <1> QED BY <1>3, <1>4, <1>5 DEF ScInv

LEMMA ScNext ==
  ASSUME ScInv, Next \/ UNCHANGED vars
  PROVE  ScInv'
  <1>1. CASE UNCHANGED vars
    BY <1>1 DEF vars, unscoped, ScInv, TypeOK, DistinctIds, DocsMine, Mine, JobsTrue, ListSound, QuerySound, Tame, All,
                OwnSites, OwnTraffic, JobsHome, CountedBy, In
  <1>2. CASE Next
    BY <1>2, ScFigures, ScLog, ScLogEntry, ScOverview, ScUsage, ScBlocked, ScSiteJob, ScDomainJob, ScOtherJob, ScListJobs,
       ScScopePorts, ScVisibility, ScTraffic, ScCreate, ScDelete DEF Next
  <1> QED BY <1>1, <1>2

-----------------------------------------------------------------------------
(* Both together.                                                          *)
MCInv == ScInv /\ ResInv /\ (Alike => R!SentOwn)

LEMMA MCInvariance == MCSpec => []MCInv
  <1>1. MCInit => MCInv
    BY ScInit, ResInit DEF MCInit, MCInv
  <1>2. MCInv /\ [MCNext]_<<part, vars, resources, monitor, pages, lists>> => MCInv'
    <2> SUFFICES ASSUME MCInv, [MCNext]_<<part, vars, resources, monitor, pages, lists>> PROVE MCInv'
      OBVIOUS
    <2>1. /\ Next \/ UNCHANGED vars
          /\ R!Next \/ UNCHANGED resources
      BY DEF MCNext
    <2> QED BY <2>1, ScNext, ResNext DEF MCInv
  <1> QED BY <1>1, <1>2, PTL DEF MCSpec

(* AnswersOwn: whatever form the CDN answers in, a customer is shown       *)
(* figures, traffic, logs, jobs and resources of nobody else               *)
(* (filterScopedRecords, streamVisibility, listResources).                 *)
THEOREM AnswersStayOwn == MCSpec => []AnswersOwn
  <1>1. MCInv => AnswersOwn
    BY DEF MCInv, ScInv, ResInv, AnswersOwn
  <1> QED BY <1>1, MCInvariance, PTL

(* RequestsOwn: what a request names at the CDN is its customer's or       *)
(* shared, however requests overlap and whatever the CDN leaves            *)
(* unanswered; jobs go to the account that serves their target, and rows   *)
(* never say that a resource is another's (translateScalar, saveResource,  *)
(* prepareJob).                                                            *)
THEOREM RequestsStayOwn ==
  ASSUME Alike
  PROVE  MCSpec => []RequestsOwn
  <1>1. MCInv => RequestsOwn
    <2> SUFFICES ASSUME MCInv PROVE RequestsOwn
      OBVIOUS
    <2>1. R!RowsTrue
      BY Names DEF MCInv, ResInv, RowHome, R!RowsTrue, R!Shared, R!Alive
    <2> QED BY <2>1 DEF MCInv, ScInv, ResInv, RequestsOwn
  <1> QED BY <1>1, MCInvariance, PTL

-----------------------------------------------------------------------------
(* The monitoring page.  No two queries have one number, and the one that  *)
(* is waited for was asked since the last reset, of the endpoint shown.    *)
MonInv ==
  /\ M!TypeOK
  /\ endpoint \notin Local => field = endpoint
  /\ \A q \in asked : q.stamp <= stamp
  /\ \A q \in asked : q.stamp = stamp => q.stamp > reset /\ q.endpoint = endpoint
  /\ \A p1, p2 \in asked : p1.stamp = p2.stamp => p1 = p2
  /\ items # None =>
       /\ items.stamp <= stamp /\ items.stamp > reset /\ items.endpoint = endpoint
       /\ \A q \in asked : q.stamp = items.stamp => q = items

Later ==
  items # None /\ items' # None /\ items' # items => items'.stamp > items.stamp

LEMMA MonInit ==
  ASSUME M!Init
  PROVE  MonInv
  BY PartsAssumption DEF M!Init, MonInv, M!TypeOK

LEMMA MonTypes ==
  ASSUME MonInv
  PROVE  /\ stamp \in Nat /\ reset \in Nat /\ reset <= stamp /\ MaxStamp \in Nat
         /\ \A q \in asked : q \in M!Query /\ q.stamp \in Nat
         /\ items # None => items \in M!Query /\ items.stamp \in Nat
  BY PartsAssumption DEF MonInv, M!TypeOK, M!Query

(* A query with a number that none has had.                                *)
LEMMA MonSend ==
  ASSUME MonInv, NEW n \in Nat, n >= stamp, n < MaxStamp, NEW e \in Remote, M!Send(n, e, msite),
         endpoint' \in Remote \cup Local, endpoint' # e => msite = None, msite = None => n > stamp,
         UNCHANGED msite, field' = e, endpoint' \notin Local => endpoint' = e,
         \/ items' = None /\ reset' = n
         \/ UNCHANGED <<items, reset>> /\ (items # None => endpoint' = endpoint) /\ msite # None
  PROVE  MonInv'
  <1>1. CASE msite # None
    <2> DEFINE new == [stamp |-> n + 1, endpoint |-> e, site |-> msite]
    <2>1. stamp' = n + 1 /\ asked' = asked \cup {new} /\ endpoint' = e
      BY <1>1 DEF M!Send
    <2>2. new \in M!Query /\ new.stamp = n + 1 /\ new.endpoint = e
      BY <1>1, MonTypes DEF M!Query, MonInv, M!TypeOK
    <2> HIDE DEF new
    <2>3. \A q \in asked : q.stamp < n + 1
      BY MonTypes DEF MonInv
    <2>4. M!TypeOK'
      BY <2>1, <2>2, MonTypes DEF MonInv, M!TypeOK
    <2>5. \A q \in asked' : q.stamp <= stamp' /\ (q.stamp = stamp' => q = new)
      BY <2>1, <2>2, <2>3, MonTypes
    <2>6. reset' < stamp'
      BY <2>1, MonTypes
    <2>7. \A p1, p2 \in asked' : p1.stamp = p2.stamp => p1 = p2
      BY <2>1, <2>2, <2>3, MonTypes DEF MonInv
    <2>8. items' # None =>
            /\ items'.stamp <= stamp' /\ items'.stamp > reset' /\ items'.endpoint = endpoint'
            /\ \A q \in asked' : q.stamp = items'.stamp => q = items'
      <3> SUFFICES ASSUME items' # None PROVE
            /\ items'.stamp <= stamp' /\ items'.stamp > reset' /\ items'.endpoint = endpoint'
            /\ \A q \in asked' : q.stamp = items'.stamp => q = items'
        OBVIOUS
      <3>1. UNCHANGED <<items, reset>> /\ endpoint' = endpoint
        OBVIOUS
      <3>2. items.stamp <= stamp /\ items.stamp < n + 1 /\ items.stamp > reset /\ items.endpoint = endpoint
        BY <3>1, MonTypes DEF MonInv
      <3>3. \A q \in asked' : q.stamp = items.stamp => q = items
        BY <2>1, <2>2, <3>1, <3>2 DEF MonInv
      <3> QED BY <2>1, <3>1, <3>2, <3>3, MonTypes
    <2> QED BY <2>1, <2>2, <2>4, <2>5, <2>6, <2>7, <2>8 DEF MonInv
  <1>2. CASE msite = None
    <2>1. stamp' = n /\ asked' = asked /\ items' = None /\ reset' = n
      BY <1>2 DEF M!Send
    <2>2. M!TypeOK'
      BY <2>1, MonTypes DEF MonInv, M!TypeOK
    <2>3. \A q \in asked' : q.stamp <= stamp' /\ q.stamp # stamp'
      BY <1>2, <2>1, MonTypes DEF MonInv
    <2> QED BY <2>1, <2>2, <2>3 DEF MonInv
  <1> QED BY <1>1, <1>2

LEMMA MonChoose ==
  ASSUME MonInv, NEW e \in Remote \cup Local, M!Choose(e)
  PROVE  MonInv' /\ items' = None
  <1>1. stamp + 2 <= MaxStamp /\ endpoint' = e /\ items' = None /\ reset' = stamp + 1 /\ UNCHANGED msite
    BY DEF M!Choose, M!Emptied
  <1>2. CASE e \in Local
    <2>1. stamp' = stamp + 1 /\ UNCHANGED <<field, asked>>
      BY <1>2 DEF M!Choose
    <2>2. \A q \in asked : q.stamp <= stamp' /\ q.stamp # stamp'
      BY <2>1, MonTypes DEF MonInv
    <2>3. M!TypeOK'
      BY <1>1, <2>1, MonTypes DEF MonInv, M!TypeOK
    <2> QED BY <1>1, <1>2, <2>1, <2>2, <2>3 DEF MonInv
  <1>3. CASE e \notin Local
    <2>1. field' = e /\ M!Send(stamp + 1, e, msite)
      BY <1>3 DEF M!Choose
    <2>2. PICK n \in Nat : n = stamp + 1 /\ n > stamp /\ n >= stamp /\ n < MaxStamp
      BY <1>1, MonTypes
    <2>3. M!Send(n, e, msite) /\ reset' = n
      BY <1>1, <2>1, <2>2
    <2> QED BY <1>1, <1>3, <2>1, <2>2, <2>3, MonSend
  <1> QED BY <1>2, <1>3

LEMMA MonEnter ==
  ASSUME MonInv, NEW e \in Remote \cup Local, M!Enter(e)
  PROVE  MonInv' /\ items' = None
  <1>1. PICK f \in Remote : f = IF e \in Local THEN field ELSE e
    BY DEF MonInv, M!TypeOK
  <1>2. /\ stamp + 3 <= MaxStamp /\ field' = f /\ endpoint' = (IF msite = None THEN e ELSE f)
        /\ items' = None /\ reset' = stamp + 2 /\ M!Send(stamp + 2, f, msite) /\ UNCHANGED msite
    BY <1>1 DEF M!Enter, M!Emptied
  <1>3. PICK n \in Nat : n = stamp + 2 /\ n > stamp /\ n >= stamp /\ n < MaxStamp
    BY <1>2, MonTypes
  <1>4. endpoint' \in Remote \cup Local /\ (endpoint' \notin Local => endpoint' = f) /\ (endpoint' # f => msite = None)
    BY <1>1, <1>2
  <1>5. M!Send(n, f, msite) /\ reset' = n
    BY <1>2, <1>3
  <1> QED BY <1>2, <1>3, <1>4, <1>5, MonSend

LEMMA MonSubmit ==
  ASSUME MonInv, NEW valid \in BOOLEAN, M!Submit(valid)
  PROVE  MonInv' /\ items' = items
  <1>1. /\ endpoint \notin Local /\ msite # None /\ stamp < MaxStamp /\ endpoint' = field
        /\ UNCHANGED <<field, msite, items, reset>>
    BY DEF M!Submit
  <1>2. field = endpoint /\ field \in Remote
    BY <1>1 DEF MonInv, M!TypeOK
  <1>3. CASE valid
    <2>1. M!Send(stamp, field, msite)
      BY <1>3 DEF M!Submit
    <2>2. PICK f \in Remote : f = field
      BY <1>2
    <2>3. stamp \in Nat /\ stamp >= stamp
      BY MonTypes
    <2> QED BY <1>1, <1>2, <2>1, <2>2, <2>3, MonSend
  <1>4. CASE ~valid
    <2>1. stamp' = stamp + 1 /\ UNCHANGED asked
      BY <1>4 DEF M!Submit
    <2>2. \A q \in asked : q.stamp <= stamp' /\ q.stamp # stamp'
      BY <2>1, MonTypes DEF MonInv
    <2>3. M!TypeOK'
      BY <1>1, <1>2, <2>1, MonTypes DEF MonInv, M!TypeOK
    <2>4. items # None => items.stamp <= stamp'
      BY <2>1, MonTypes DEF MonInv
    <2> QED BY <1>1, <1>2, <2>1, <2>2, <2>3, <2>4 DEF MonInv
  <1> QED BY <1>3, <1>4

LEMMA MonAnswer ==
  ASSUME MonInv, NEW q \in asked, M!Answer(q) \/ M!Fail(q)
  PROVE  MonInv' /\ [Later]_items
  <1>1. asked' = asked \ {q} /\ UNCHANGED <<endpoint, field, msite, stamp, reset>>
    BY DEF M!Answer, M!Fail
  <1>2. CASE items' = items
    <2>1. M!TypeOK'
      BY <1>1, <1>2 DEF MonInv, M!TypeOK
    <2> QED BY <1>1, <1>2, <2>1 DEF MonInv
  <1>3. CASE items' # items
    <2>1. items' = q /\ q.stamp = stamp
      BY <1>3 DEF M!Answer, M!Fail, M!Awaited
    <2>2. M!TypeOK'
      BY <1>1, <2>1 DEF MonInv, M!TypeOK
    <2>3. MonInv'
      BY <1>1, <2>1, <2>2 DEF MonInv
    <2>4. Later
      BY <1>3, <2>1, MonTypes DEF MonInv, Later
    <2> QED BY <2>3, <2>4
  <1> QED BY <1>2, <1>3

LEMMA MonNext ==
  ASSUME MonInv, M!Next \/ UNCHANGED monitor
  PROVE  MonInv' /\ [Later]_items
  <1>1. CASE UNCHANGED monitor
    BY <1>1 DEF monitor, MonInv, M!TypeOK
  <1>2. ASSUME NEW e \in Remote \cup Local, M!Choose(e) \/ M!Enter(e) PROVE MonInv' /\ [Later]_items
    BY <1>2, MonChoose, MonEnter DEF Later
  <1>3. ASSUME NEW valid \in BOOLEAN, M!Submit(valid) PROVE MonInv' /\ [Later]_items
    BY <1>3, MonSubmit
  <1>4. ASSUME NEW s \in Web, M!ChooseSite(s) PROVE MonInv' /\ [Later]_items
    BY <1>4 DEF M!ChooseSite, MonInv, M!TypeOK
  <1>5. ASSUME NEW q \in asked, M!Answer(q) \/ M!Fail(q) PROVE MonInv' /\ [Later]_items
    BY <1>5, MonAnswer
  <1> QED BY <1>1, <1>2, <1>3, <1>4, <1>5 DEF M!Next

-----------------------------------------------------------------------------
(* The pages of a site and of a stream.  While no other site is opened     *)
(* before the answers about one are there, all answers are about the open  *)
(* site; number and values of a stream are set at once.                    *)
FormRec == [P!Page -> Web \cup Stream \cup {None}]
CallTypes == [Req -> {None} \cup P!Request]
SiteCalls == {"read_site", "put_site", "list_sites"}

CallSound(q) ==
  q # None =>
    /\ q.call \in SiteCalls => psite \in Web /\ q.id = psite
    /\ q.call \notin SiteCalls => q.id \in Stream
    /\ q.call = "put_stream" => stream \in Stream

PagesInv ==
  /\ P!TypeOK /\ P!SavedWhole
  /\ form \in FormRec /\ calls \in CallTypes
  /\ form["site"] = psite /\ config \in {None, psite} /\ form["stream"] = stream
  /\ page = "site" => psite \in Web
  /\ page = "stream" => stream \in Stream
  /\ \A r \in Req : CallSound(calls[r])

LEMMA PagesInit ==
  ASSUME P!Init
  PROVE  PagesInv
  BY DEF P!Init, PagesInv, P!TypeOK, P!SavedWhole, FormRec, CallTypes, CallSound, P!Page

LEMMA CallIs ==
  ASSUME PagesInv, NEW r \in Req, calls[r] # None
  PROVE  calls[r] \in P!Request /\ calls[r].call \in P!Call /\ calls[r].id \in Web \cup Stream
  BY DEF PagesInv, CallTypes, P!Request

(* The other requests, when the open site stays or none of them is about a *)
(* site, and a stream that is open is not closed.                          *)
LEMMA OtherCalls ==
  ASSUME PagesInv, NEW r \in Req, \A q \in Req \ {r} : calls'[q] = calls[q],
         psite' = psite \/ \A q \in Req : ~P!AboutSite(calls[q]), stream \in Stream => stream' \in Stream
  PROVE  \A q \in Req \ {r} : CallSound(calls[q])'
  <1> SUFFICES ASSUME NEW q \in Req \ {r} PROVE CallSound(calls[q])'
    OBVIOUS
  <1>1. CallSound(calls[q]) /\ calls'[q] = calls[q]
    BY DEF PagesInv
  <1>2. CASE psite' = psite
    BY <1>1, <1>2 DEF CallSound
  <1>3. CASE ~P!AboutSite(calls[q])
    BY <1>1, <1>3 DEF CallSound, P!AboutSite, SiteCalls
  <1> QED BY <1>2, <1>3

(* A request that is sent, in place of none or of one that was answered.   *)
LEMMA Asks ==
  ASSUME PagesInv, NEW r \in Req, NEW c \in P!Call, NEW x \in Web \cup Stream, NEW save \in BOOLEAN,
         P!Ask(r, c, x, save), \A q \in Req \ {r} : CallSound(calls[q])',
         c \in SiteCalls => psite' \in Web /\ x = psite',
         c \notin SiteCalls => x \in Stream,
         c = "put_stream" => stream' \in Stream
  PROVE  calls' \in CallTypes /\ \A q \in Req : CallSound(calls[q])'
  <1>1. calls' = [calls EXCEPT ![r] = [call |-> c, id |-> x, save |-> save]]
    BY DEF P!Ask
  <1>2. [call |-> c, id |-> x, save |-> save] \in P!Request
    BY DEF P!Request
  <1>3. calls' \in CallTypes /\ calls'[r] = [call |-> c, id |-> x, save |-> save]
    BY <1>1, <1>2 DEF PagesInv, CallTypes
  <1>4. CallSound(calls[r])'
    BY <1>3 DEF CallSound
  <1> QED BY <1>3, <1>4

LEMMA Replies ==
  ASSUME PagesInv, NEW r \in Req, P!Answered(r), \A q \in Req \ {r} : CallSound(calls[q])'
  PROVE  calls' \in CallTypes /\ \A q \in Req : CallSound(calls[q])'
  <1>1. calls' = [calls EXCEPT ![r] = None]
    BY DEF P!Answered
  <1>2. calls' \in CallTypes /\ calls'[r] = None
    BY <1>1 DEF PagesInv, CallTypes
  <1>3. CallSound(calls[r])'
    BY <1>2 DEF CallSound
  <1> QED BY <1>2, <1>3

(* Only request r changes.                                                 *)
LEMMA OneCall ==
  ASSUME PagesInv, NEW r \in Req,
         (\E c \in P!Call, x \in Web \cup Stream, save \in BOOLEAN : P!Ask(r, c, x, save)) \/ P!Answered(r)
  PROVE  \A q \in Req \ {r} : calls'[q] = calls[q]
  BY DEF P!Ask, P!Answered, PagesInv, CallTypes

LEMMA PagesPost ==
  ASSUME PagesInv, calls' \in CallTypes, \A q \in Req : CallSound(calls[q])',
         page' \in P!Page \cup {"list"}, psite' \in Web \cup {None}, stream' \in Stream \cup {None},
         saving' \subseteq P!Page, form' \in FormRec,
         form'["site"] = psite', config' \in {None, psite'}, form'["stream"] = stream',
         page' = "site" => psite' \in Web, page' = "stream" => stream' \in Stream,
         \A s \in psent' : \/ s \in psent
                           \/ s = <<psite, psite>> /\ psite \in Web
                           \/ s = <<stream, stream>> /\ stream \in Stream
  PROVE  PagesInv'
  <1>1. \A s \in psent' : s \in (Web \X Web) \cup (Stream \X Stream) /\ s[1] = s[2]
    <2> SUFFICES ASSUME NEW s \in psent' PROVE s \in (Web \X Web) \cup (Stream \X Stream) /\ s[1] = s[2]
      OBVIOUS
    <2>1. CASE s \in psent
      BY <2>1 DEF PagesInv, P!TypeOK, P!SavedWhole
    <2>2. CASE s = <<psite, psite>> /\ psite \in Web
      BY <2>2
    <2>3. CASE s = <<stream, stream>> /\ stream \in Stream
      BY <2>3
    <2> QED BY <2>1, <2>2, <2>3
  <1>2. \A r \in Req : calls'[r] = None \/ calls'[r] \in P!Request
    BY DEF CallTypes
  <1>3. P!TypeOK' /\ P!SavedWhole'
    BY <1>1, <1>2 DEF P!TypeOK, P!SavedWhole
  <1> QED BY <1>3 DEF PagesInv

LEMMA PagesTypes ==
  ASSUME PagesInv
  PROVE  /\ page \in P!Page \cup {"list"} /\ psite \in Web \cup {None} /\ stream \in Stream \cup {None}
         /\ saving \subseteq P!Page /\ form \in FormRec
         /\ form["site"] = psite /\ config \in {None, psite} /\ form["stream"] = stream
         /\ page = "site" => psite \in Web
         /\ page = "stream" => stream \in Stream
         /\ calls \in CallTypes /\ \A q \in Req : CallSound(calls[q])
  BY DEF PagesInv, P!TypeOK

LEMMA PagesOpenSite ==
  ASSUME Patient, PagesInv, NEW r \in Req, NEW s \in Web, P!OpenSite(r, s)
  PROVE  PagesInv'
  <1>1. /\ page' = "site" /\ psite' = s /\ config' = None /\ form' = [form EXCEPT !["site"] = s]
        /\ P!Ask(r, "read_site", s, FALSE) /\ UNCHANGED <<stream, saving, psent>>
        /\ psite' = psite \/ \A q \in Req : ~P!AboutSite(calls[q])
    BY DEF P!OpenSite, P!MayOpen
  <1>2. "read_site" \in P!Call /\ "read_site" \in SiteCalls
    BY DEF P!Call, SiteCalls
  <1>3. \A q \in Req \ {r} : CallSound(calls[q])'
    BY <1>1, <1>2, OneCall, OtherCalls
  <1>4. calls' \in CallTypes /\ \A q \in Req : CallSound(calls[q])'
    BY <1>1, <1>2, <1>3, Asks
  <1>5. form' \in FormRec /\ form'["site"] = s /\ form'["stream"] = stream
    BY <1>1, PagesTypes DEF FormRec, P!Page
  <1>6. page' \in P!Page
    BY <1>1 DEF P!Page
  <1> QED BY <1>1, <1>4, <1>5, <1>6, PagesTypes, PagesPost

(* The requests that are sent without a change of what is open.            *)
LEMMA PagesAsk ==
  ASSUME PagesInv, NEW r \in Req, NEW c \in P!Call, NEW x \in Web \cup Stream, NEW save \in BOOLEAN,
         P!Ask(r, c, x, save), UNCHANGED <<page, psite, config, stream, form>>,
         c \in SiteCalls => psite \in Web /\ x = psite,
         c \notin SiteCalls => x \in Stream, c = "put_stream" => stream \in Stream,
         saving' \subseteq P!Page,
         \A s \in psent' : \/ s \in psent
                           \/ s = <<psite, psite>> /\ psite \in Web
                           \/ s = <<stream, stream>> /\ stream \in Stream
  PROVE  PagesInv'
  <1>1. \A q \in Req \ {r} : CallSound(calls[q])'
    BY OneCall, OtherCalls
  <1>2. calls' \in CallTypes /\ \A q \in Req : CallSound(calls[q])'
    BY <1>1, Asks
  <1> QED BY <1>2, PagesTypes, PagesPost

LEMMA PagesSite ==
  ASSUME PagesInv, NEW r \in Req, P!SyncSite(r) \/ P!SaveSite(r) \/ P!SiteSaved(r) \/ P!SitesListed(r)
  PROVE  PagesInv'
  <1>1. /\ {"read_site", "put_site", "list_sites"} \subseteq P!Call \cap SiteCalls
        /\ "put_stream" \notin SiteCalls /\ "site" \in P!Page
    BY DEF P!Call, SiteCalls, P!Page
  <1>2. /\ psite \in Web /\ UNCHANGED <<page, psite, config, stream, form>>
        /\ P!SaveSite(r) \/ UNCHANGED <<saving, psent>>
        /\ \E c \in {"read_site", "put_site", "list_sites"}, save \in BOOLEAN : P!Ask(r, c, psite, save)
    <2>1. CASE P!SyncSite(r) \/ P!SaveSite(r)
      BY <2>1, PagesTypes DEF P!SyncSite, P!SaveSite
    <2>2. CASE P!SiteSaved(r) \/ P!SitesListed(r)
      <3>1. psite \in Web /\ calls[r].id = psite
        BY <2>2, PagesTypes DEF P!SiteSaved, P!SitesListed, CallSound, SiteCalls
      <3> QED BY <2>2, <3>1 DEF P!SiteSaved, P!SitesListed
    <2> QED BY <2>1, <2>2
  <1>3. PICK c \in {"read_site", "put_site", "list_sites"}, save \in BOOLEAN : P!Ask(r, c, psite, save)
    BY <1>2
  <1>4. PICK x \in Web : x = psite
    BY <1>2
  <1>5. P!Ask(r, c, x, save) /\ c \in P!Call /\ c \in SiteCalls /\ c # "put_stream"
    BY <1>1, <1>3, <1>4
  <1>6. saving' \subseteq P!Page /\ \A s \in psent' : s \in psent \/ s = <<psite, psite>>
    <2>1. CASE P!SaveSite(r)
      <3>1. saving' = saving \cup {"site"} /\ psent' = psent \cup {<<psite, psite>>}
        BY <2>1, PagesTypes DEF P!SaveSite
      <3> QED BY <1>1, <3>1, PagesTypes
    <2>2. CASE UNCHANGED <<saving, psent>>
      BY <2>2, PagesTypes
    <2> QED BY <1>2, <2>1, <2>2
  <1> QED BY <1>2, <1>4, <1>5, <1>6, PagesAsk

LEMMA PagesReadSite ==
  ASSUME PagesInv, NEW r \in Req, P!ReadSite(r)
  PROVE  PagesInv'
  <1>1. psite \in Web /\ calls[r].id = psite
    BY PagesTypes DEF P!ReadSite, CallSound, SiteCalls
  <1>2. /\ config' = psite /\ form' = [form EXCEPT !["site"] = psite] /\ P!Answered(r)
        /\ saving' \subseteq saving /\ UNCHANGED <<page, psite, stream, psent>>
    BY <1>1 DEF P!ReadSite, P!Done
  <1>3. \A q \in Req \ {r} : CallSound(calls[q])'
    BY <1>2, OneCall, OtherCalls
  <1>4. calls' \in CallTypes /\ \A q \in Req : CallSound(calls[q])'
    BY <1>2, <1>3, Replies
  <1>5. form' \in FormRec /\ form'["site"] = psite /\ form'["stream"] = stream
    BY <1>1, <1>2, PagesTypes DEF FormRec, P!Page
  <1> QED BY <1>2, <1>4, <1>5, PagesTypes, PagesPost

LEMMA PagesStream ==
  ASSUME PagesInv, NEW r \in Req,
         (\E s \in Stream : P!OpenStream(r, s)) \/ P!SyncStream(r) \/ P!SaveStream(r) \/ P!StreamSaved(r)
  PROVE  PagesInv'
  <1>1. /\ {"open_stream", "read_stream", "put_stream"} \subseteq P!Call \ SiteCalls
        /\ "stream" \in P!Page
    BY DEF P!Call, SiteCalls, P!Page
  <1>2. /\ UNCHANGED <<page, psite, config, stream, form>>
        /\ P!SaveStream(r) \/ UNCHANGED <<saving, psent>>
        /\ P!SaveStream(r) => stream \in Stream
        /\ \E c \in {"open_stream", "read_stream", "put_stream"}, save \in BOOLEAN, x \in Stream :
             P!Ask(r, c, x, save) /\ (c = "put_stream" => stream \in Stream)
    <2>1. CASE \E s \in Stream : P!OpenStream(r, s)
      <3>1. PICK s \in Stream : P!OpenStream(r, s)
        BY <2>1
      <3>2. P!Ask(r, "open_stream", s, FALSE) /\ UNCHANGED <<page, psite, config, stream, form, saving, psent>>
        BY <3>1 DEF P!OpenStream
      <3>3. P!SaveStream(r) => stream \in Stream
        BY PagesTypes DEF P!SaveStream
      <3> QED BY <3>2, <3>3
    <2>2. CASE P!SyncStream(r) \/ P!SaveStream(r)
      <3>1. stream \in Stream
        BY <2>2, PagesTypes DEF P!SyncStream, P!SaveStream
      <3> QED BY <2>2, <3>1 DEF P!SyncStream, P!SaveStream
    <2>3. CASE P!StreamSaved(r)
      <3>1. stream \in Stream
        BY <2>3, PagesTypes DEF P!StreamSaved, CallSound
      <3> QED BY <2>3, <3>1 DEF P!StreamSaved
    <2> QED BY <2>1, <2>2, <2>3
  <1>3. PICK c \in {"open_stream", "read_stream", "put_stream"}, save \in BOOLEAN, x \in Stream :
          P!Ask(r, c, x, save) /\ (c = "put_stream" => stream \in Stream)
    BY <1>2
  <1>4. c \in P!Call /\ c \notin SiteCalls
    BY <1>1
  <1>5. saving' \subseteq P!Page /\ \A s \in psent' : s \in psent \/ (s = <<stream, stream>> /\ stream \in Stream)
    <2>1. CASE P!SaveStream(r)
      <3>1. saving' = saving \cup {"stream"} /\ psent' = psent \cup {<<stream, stream>>}
        BY <2>1, PagesTypes DEF P!SaveStream
      <3> QED BY <1>1, <1>2, <2>1, <3>1, PagesTypes
    <2>2. CASE UNCHANGED <<saving, psent>>
      BY <2>2, PagesTypes
    <2> QED BY <1>2, <2>1, <2>2
  <1> QED BY <1>2, <1>3, <1>4, <1>5, PagesAsk

LEMMA PagesReadStream ==
  ASSUME PagesInv, NEW r \in Req, P!ReadStream(r)
  PROVE  PagesInv'
  <1>1. calls[r].id \in Stream
    BY PagesTypes DEF P!ReadStream, CallSound, SiteCalls
  <1>2. PICK x \in Stream : x = calls[r].id
    BY <1>1
  <1>3. /\ stream' = x /\ form' = [form EXCEPT !["stream"] = x] /\ P!Answered(r)
        /\ page' \in {"stream", page} /\ saving' \subseteq saving /\ UNCHANGED <<psite, config, psent>>
    BY <1>2 DEF P!ReadStream, P!StreamOf, P!Done
  <1>4. \A q \in Req \ {r} : CallSound(calls[q])'
    BY <1>3, OneCall, OtherCalls
  <1>5. calls' \in CallTypes /\ \A q \in Req : CallSound(calls[q])'
    BY <1>3, <1>4, Replies
  <1>6. form' \in FormRec /\ form'["stream"] = x /\ form'["site"] = psite
    BY <1>3, PagesTypes DEF FormRec, P!Page
  <1>7. page' \in P!Page \cup {"list"} /\ (page' = "site" => psite' \in Web)
    BY <1>3, PagesTypes DEF P!Page
  <1> QED BY <1>3, <1>5, <1>6, <1>7, PagesTypes, PagesPost

LEMMA PagesFail ==
  ASSUME PagesInv, NEW r \in Req, P!Fail(r)
  PROVE  PagesInv'
  <1>1. P!Answered(r) /\ saving' \subseteq saving /\ UNCHANGED <<page, psite, config, stream, form, psent>>
    BY DEF P!Fail, P!Done
  <1>2. \A q \in Req \ {r} : CallSound(calls[q])'
    BY <1>1, OneCall, OtherCalls
  <1>3. calls' \in CallTypes /\ \A q \in Req : CallSound(calls[q])'
    BY <1>1, <1>2, Replies
  <1> QED BY <1>1, <1>3, PagesTypes, PagesPost

LEMMA PagesNext ==
  ASSUME Patient, PagesInv, P!Next \/ UNCHANGED pages
  PROVE  PagesInv'
  <1>1. CASE UNCHANGED pages
    BY <1>1 DEF pages, PagesInv, P!TypeOK, P!SavedWhole, CallSound
  <1>2. CASE P!Leave \/ P!CancelSite
    <2>1. /\ UNCHANGED <<psite, config, stream, saving, calls, psent>> /\ page' \in {page, "list"}
          /\ form' = form \/ form' = [form EXCEPT !["site"] = psite]
      BY <1>2, PagesTypes DEF P!Leave, P!CancelSite
    <2>2. form' \in FormRec /\ form'["site"] = psite /\ form'["stream"] = stream
      BY <2>1, PagesTypes DEF FormRec, P!Page
    <2>3. \A q \in Req : CallSound(calls[q])'
      BY <2>1, PagesTypes DEF CallSound
    <2> QED BY <2>1, <2>2, <2>3, PagesTypes, PagesPost
  <1>3. ASSUME NEW r \in Req, NEW s \in Web, P!OpenSite(r, s) PROVE PagesInv'
    BY <1>3, PagesOpenSite
  <1>4. ASSUME NEW r \in Req, P!SyncSite(r) \/ P!SaveSite(r) \/ P!SiteSaved(r) \/ P!SitesListed(r)
        PROVE  PagesInv'
    BY <1>4, PagesSite
  <1>5. ASSUME NEW r \in Req,
               (\E s \in Stream : P!OpenStream(r, s)) \/ P!SyncStream(r) \/ P!SaveStream(r) \/ P!StreamSaved(r)
        PROVE  PagesInv'
    BY <1>5, PagesStream
  <1>6. ASSUME NEW r \in Req, P!ReadSite(r) \/ P!ReadStream(r) \/ P!Fail(r) PROVE PagesInv'
    BY <1>6, PagesReadSite, PagesReadStream, PagesFail
  <1> QED BY <1>1, <1>2, <1>3, <1>4, <1>5, <1>6 DEF P!Next
-----------------------------------------------------------------------------
(* The dialog of a resource.  The number that is saved and the name beside *)
(* it are set at once; the values that are asked for come later, only in   *)
(* the dialog of a certificate.                                            *)
KindOfRes == [x \in Rule \cup Cert |-> IF x \in Rule THEN "acls" ELSE "certs"]
WaitTypes == [Req -> {None} \cup L!Request]

WaitsSound ==
  /\ waits \in WaitTypes
  /\ \A r \in Req : waits[r] # None /\ waits[r].call = "more" => waits[r].kind = "certs"

DialogSound ==
  dialog \in L!Dialog /\ dialog.base = dialog.id /\ (dialog.kind = "acls" => dialog.detail = dialog.id)

ListsInv ==
  /\ L!TypeOK /\ L!WholeSaved
  /\ WaitsSound /\ DialogSound

LEMMA ListsInit ==
  ASSUME L!Init
  PROVE  ListsInv
  <1>1. PICK k \in {"acls", "certs"} : k = kind
    BY DEF L!Init
  <1>2. dialog = [open |-> FALSE, kind |-> k, id |-> None, base |-> None, detail |-> None]
    BY <1>1 DEF L!Init
  <1>3. DialogSound
    BY <1>2 DEF DialogSound, L!Dialog, L!Some
  <1> QED BY <1>1, <1>3 DEF L!Init, ListsInv, L!TypeOK, L!WholeSaved, WaitsSound, WaitTypes, DialogSound

LEMMA ListsTypes ==
  ASSUME ListsInv
  PROVE  /\ kind \in {"acls", "certs"} /\ rows \in {"acls", "certs", None} /\ DialogSound /\ WaitsSound
  BY DEF ListsInv, L!TypeOK

LEMMA WaitAsked ==
  ASSUME ListsInv, NEW r \in Req, NEW c \in L!Call, NEW k \in {"acls", "certs"}, NEW x \in L!Some,
         L!Ask(r, c, k, x), c = "more" => k = "certs"
  PROVE  WaitsSound'
  <1>1. waits' = [waits EXCEPT ![r] = [call |-> c, kind |-> k, id |-> x]]
    BY DEF L!Ask
  <1>2. [call |-> c, kind |-> k, id |-> x] \in L!Request
    BY DEF L!Request
  <1> QED BY <1>1, <1>2, ListsTypes DEF WaitsSound, WaitTypes

LEMMA WaitDone ==
  ASSUME ListsInv, NEW r \in Req, L!Answered(r)
  PROVE  WaitsSound'
  <1>1. waits' = [waits EXCEPT ![r] = None]
    BY DEF L!Answered
  <1> QED BY <1>1, ListsTypes DEF WaitsSound, WaitTypes

LEMMA ListsPost ==
  ASSUME ListsInv, WaitsSound', DialogSound', saved' = saved,
         kind' \in {"acls", "certs"}, rows' \in {"acls", "certs", None}
  PROVE  ListsInv'
  <1>1. \A q \in Req : waits'[q] = None \/ waits'[q] \in L!Request
    BY DEF WaitsSound, WaitTypes
  <1>2. L!TypeOK' /\ L!WholeSaved'
    BY <1>1 DEF ListsInv, L!TypeOK, L!WholeSaved, DialogSound
  <1> QED BY <1>2 DEF ListsInv

(* The dialog opened anew, and one that is only shown or closed.           *)
LEMMA DialogOpened ==
  ASSUME ListsInv, NEW k \in {"acls", "certs"}, NEW x \in L!Some, dialog' = L!Opened(k, x)
  PROVE  DialogSound'
  <1>1. PICK o \in BOOLEAN : o = (dialog.open \/ k \notin {"certs"})
    OBVIOUS
  <1>2. PICK d \in L!Some : d = IF k \in {"certs"} THEN None ELSE x
    BY DEF L!Some
  <1>3. dialog' = [open |-> o, kind |-> k, id |-> x, base |-> x, detail |-> d]
    BY <1>1, <1>2 DEF L!Opened
  <1> QED BY <1>2, <1>3 DEF DialogSound, L!Dialog

LEMMA DialogChanged ==
  ASSUME ListsInv, NEW o \in BOOLEAN, NEW d \in L!Some, dialog' = [dialog EXCEPT !.open = o, !.detail = d],
         dialog.kind = "acls" => d = dialog.detail
  PROVE  DialogSound'
  <1>1. PICK old \in L!Dialog : old = dialog
    BY ListsTypes DEF DialogSound
  <1>2. dialog' = [old EXCEPT !.open = o, !.detail = d]
    BY <1>1
  <1> QED BY <1>1, <1>2, ListsTypes DEF DialogSound, L!Dialog

LEMMA DialogShut ==
  ASSUME ListsInv, NEW o \in BOOLEAN, dialog' = [dialog EXCEPT !.open = o]
  PROVE  DialogSound'
  <1>1. PICK old \in L!Dialog : old = dialog
    BY ListsTypes DEF DialogSound
  <1>2. dialog' = [old EXCEPT !.open = o]
    BY <1>1
  <1> QED BY <1>1, <1>2, ListsTypes DEF DialogSound, L!Dialog

LEMMA ListsOpen ==
  ASSUME ListsInv, NEW r \in Req, NEW x \in L!Some, dialog' = L!Opened(kind, x), UNCHANGED <<kind, rows, saved>>,
         IF kind \in {"certs"} THEN L!Ask(r, "more", kind, x) ELSE L!Answered(r) \/ UNCHANGED waits
  PROVE  ListsInv'
  <1>1. PICK k \in {"acls", "certs"} : k = kind
    BY ListsTypes
  <1>2. DialogSound'
    BY <1>1, DialogOpened
  <1>3. WaitsSound'
    <2>1. CASE kind = "certs"
      <3>1. L!Ask(r, "more", k, x) /\ "more" \in L!Call
        BY <1>1, <2>1 DEF L!Call
      <3> QED BY <1>1, <2>1, <3>1, WaitAsked
    <2>2. CASE kind # "certs" /\ L!Answered(r)
      BY <2>2, WaitDone
    <2>3. CASE kind # "certs" /\ UNCHANGED waits
      BY <2>3, ListsTypes DEF WaitsSound
    <2> QED BY <2>1, <2>2, <2>3
  <1> QED BY <1>2, <1>3, ListsTypes, ListsPost

LEMMA ListsFilled ==
  ASSUME ListsInv, NEW r \in Req, L!Filled(r)
  PROVE  ListsInv'
  <1>1. /\ L!Answered(r) /\ UNCHANGED <<kind, rows, saved>>
        /\ waits[r] # None /\ waits[r].call = "more"
        /\ dialog' = [dialog EXCEPT !.open = TRUE,
                                    !.detail = IF dialog.kind = waits[r].kind THEN waits[r].id ELSE @]
    BY DEF L!Filled, L!Asked
  <1>2. PICK old \in L!Dialog : old = dialog
    BY ListsTypes DEF DialogSound
  <1>3. waits[r] \in L!Request /\ waits[r].kind = "certs"
    BY <1>1, ListsTypes DEF WaitsSound, WaitTypes
  <1>4. PICK d \in L!Some : d = IF old.kind = waits[r].kind THEN waits[r].id ELSE old.detail
    BY <1>2, <1>3 DEF L!Request, L!Dialog
  <1>5. dialog' = [old EXCEPT !.open = TRUE, !.detail = d]
    BY <1>1, <1>2, <1>4 DEF L!Dialog
  <1>6. dialog' = [dialog EXCEPT !.open = TRUE, !.detail = d] /\ (dialog.kind = "acls" => d = dialog.detail)
    BY <1>2, <1>3, <1>4, <1>5
  <1>7. DialogSound'
    BY <1>6, DialogChanged
  <1>8. WaitsSound'
    BY <1>1, WaitDone
  <1> QED BY <1>1, <1>7, <1>8, ListsTypes, ListsPost

LEMMA ListsSave ==
  ASSUME ListsInv, NEW r \in Req, L!Save(r)
  PROVE  ListsInv'
  <1>1. PICK d \in L!Dialog : d = dialog
    BY ListsTypes DEF DialogSound
  <1>2. /\ d.kind \in {"acls", "certs"} /\ d.id \in L!Some /\ d.base = d.id
        /\ d.detail \in L!Some /\ (d.kind = "acls" => d.detail = d.id)
    BY <1>1, ListsTypes DEF DialogSound, L!Dialog
  <1>3. /\ L!Ask(r, "save", d.kind, d.id) /\ UNCHANGED <<kind, rows, dialog>>
        /\ saved' = IF L!Found(d.kind, d.id)
                      THEN [kind |-> d.kind, to |-> d.id, base |-> d.base, detail |-> d.detail]
                      ELSE saved
    BY <1>1 DEF L!Save
  <1>4. "save" \in L!Call
    BY DEF L!Call
  <1>5. WaitsSound'
    BY <1>2, <1>3, <1>4, WaitAsked
  <1>6. \A q \in Req : waits'[q] = None \/ waits'[q] \in L!Request
    BY <1>5 DEF WaitsSound, WaitTypes
  <1>7. /\ saved' \in [kind : {"acls", "certs"}, to : L!Some, base : L!Some, detail : L!Some] \cup {None}
        /\ L!WholeSaved'
    <2>1. CASE saved' = saved
      BY <2>1 DEF ListsInv, L!TypeOK, L!WholeSaved
    <2>2. CASE saved' = [kind |-> d.kind, to |-> d.id, base |-> d.base, detail |-> d.detail] /\ L!Found(d.kind, d.id)
      <3>1. saved'.kind = d.kind /\ saved'.to = d.id /\ saved'.base = d.base /\ saved'.detail = d.detail
        BY <2>2
      <3>2. saved'.to # None => KindOfRes[saved'.to] = saved'.kind
        BY <2>2, <3>1 DEF L!Found, KindOfRes
      <3> QED BY <1>2, <2>2, <3>1, <3>2 DEF L!WholeSaved, KindOfRes
    <2> QED BY <1>3, <2>1, <2>2
  <1>8. L!TypeOK'
    BY <1>3, <1>6, <1>7 DEF ListsInv, L!TypeOK
  <1> QED BY <1>3, <1>5, <1>7, <1>8 DEF ListsInv, DialogSound

LEMMA ListsNext ==
  ASSUME ListsInv, L!Next \/ UNCHANGED lists
  PROVE  ListsInv'
  <1>0. {"list", "one", "more", "save"} \subseteq L!Call /\ None \in L!Some /\ Rule \cup Cert \subseteq L!Some
    BY DEF L!Call, L!Some
  <1>1. CASE UNCHANGED lists
    BY <1>1 DEF lists, ListsInv, L!TypeOK, L!WholeSaved, DialogSound, WaitsSound
  <1>2. CASE L!Close
    <2>1. dialog' = [dialog EXCEPT !.open = FALSE] /\ UNCHANGED <<kind, rows, waits, saved>>
      BY <1>2 DEF L!Close
    <2>2. DialogSound'
      BY <2>1, DialogShut
    <2>3. WaitsSound'
      BY <2>1, ListsTypes DEF WaitsSound
    <2> QED BY <2>1, <2>2, <2>3, ListsTypes, ListsPost
  <1>3. ASSUME NEW r \in Req, NEW k \in {"acls", "certs"}, L!Choose(r, k) PROVE ListsInv'
    <2>1. L!Ask(r, "list", k, None) /\ kind' = k /\ UNCHANGED <<rows, dialog, saved>>
      BY <1>3 DEF L!Choose
    <2>2. WaitsSound'
      BY <1>0, <2>1, WaitAsked
    <2>3. DialogSound'
      BY <2>1, ListsTypes DEF DialogSound
    <2> QED BY <2>1, <2>2, <2>3, ListsTypes, ListsPost
  <1>4. ASSUME NEW r \in Req, NEW x \in Rule \cup Cert, L!Edit(r, x) PROVE ListsInv'
    <2>1. PICK k \in {"acls", "certs"} : k = kind
      BY ListsTypes
    <2>2. L!Ask(r, "one", k, x) /\ UNCHANGED <<kind, rows, dialog, saved>>
      BY <1>4, <2>1 DEF L!Edit
    <2>3. WaitsSound'
      BY <1>0, <2>2, WaitAsked
    <2>4. DialogSound'
      BY <2>2, ListsTypes DEF DialogSound
    <2> QED BY <2>2, <2>3, <2>4, ListsTypes, ListsPost
  <1>5. ASSUME NEW r \in Req, L!New(r) PROVE ListsInv'
    <2>1. /\ dialog' = L!Opened(kind, None) /\ UNCHANGED <<kind, rows, saved>>
          /\ IF kind \in {"certs"} THEN L!Ask(r, "more", kind, None) ELSE UNCHANGED waits
      BY <1>5 DEF L!New
    <2> QED BY <1>0, <2>1, ListsOpen
  <1>6. ASSUME NEW r \in Req, L!Listed(r) PROVE ListsInv'
    <2>1. waits[r] \in L!Request /\ rows' = waits[r].kind /\ L!Answered(r) /\ UNCHANGED <<kind, dialog, saved>>
      BY <1>6, ListsTypes DEF L!Listed, L!Asked, WaitsSound, WaitTypes
    <2>2. WaitsSound'
      BY <2>1, WaitDone
    <2>3. DialogSound' /\ rows' \in {"acls", "certs"}
      BY <2>1, ListsTypes DEF DialogSound, L!Request
    <2> QED BY <2>1, <2>2, <2>3, ListsTypes, ListsPost
  <1>7. ASSUME NEW r \in Req, L!Read(r) PROVE ListsInv'
    <2>1. waits[r] \in L!Request
      BY <1>7, ListsTypes DEF L!Read, L!Asked, WaitsSound, WaitTypes
    <2>2. PICK x \in L!Some : x = waits[r].id
      BY <2>1 DEF L!Request
    <2>3. /\ dialog' = L!Opened(kind, x) /\ UNCHANGED <<kind, rows, saved>>
          /\ IF kind \in {"certs"} THEN L!Ask(r, "more", kind, x) ELSE L!Answered(r)
      BY <1>7, <2>2 DEF L!Read
    <2> QED BY <2>3, ListsOpen
  <1>8. ASSUME NEW r \in Req, L!Filled(r) \/ L!Save(r) PROVE ListsInv'
    BY <1>8, ListsFilled, ListsSave
  <1>9. ASSUME NEW r \in Req, L!Saved(r) PROVE ListsInv'
    <2>1. PICK k \in {"acls", "certs"} : k = kind
      BY ListsTypes
    <2>2. dialog' = [dialog EXCEPT !.open = FALSE] /\ L!Ask(r, "list", k, None) /\ UNCHANGED <<kind, rows, saved>>
      BY <1>9, <2>1 DEF L!Saved
    <2>3. WaitsSound'
      BY <1>0, <2>2, WaitAsked
    <2>4. DialogSound'
      BY <2>2, DialogShut
    <2> QED BY <2>2, <2>3, <2>4, ListsTypes, ListsPost
  <1>10. ASSUME NEW r \in Req, L!Fail(r) PROVE ListsInv'
    <2>1. L!Answered(r) /\ UNCHANGED <<kind, rows, dialog, saved>>
      BY <1>10 DEF L!Fail
    <2>2. WaitsSound'
      BY <2>1, WaitDone
    <2>3. DialogSound'
      BY <2>1, ListsTypes DEF DialogSound
    <2> QED BY <2>1, <2>2, <2>3, ListsTypes, ListsPost
  <1> QED BY <1>1, <1>2, <1>3, <1>4, <1>5, <1>6, <1>7, <1>8, <1>9, <1>10 DEF L!Next

-----------------------------------------------------------------------------
(* No answer shows what was not asked last, and none mixes two things in a *)
(* form that is saved: the numbers of queries in features/monitor/index.js,*)
(* the dialog of views/security-view.js, and, as long as no other site is  *)
(* opened while an answer about one is due, the pages of                   *)
(* views/site-detail-view.js and views/data-view.js.                       *)
THEOREM LateAnswersStayHarmless ==
  ASSUME Patient
  PROVE  MCSpec => LateAnswersHarmless
  <1> DEFINE AnswersInv == MonInv /\ PagesInv /\ ListsInv
  <1>1. MCInit => AnswersInv
    BY MonInit, PagesInit, ListsInit DEF MCInit
  <1>2. AnswersInv /\ [MCNext]_<<part, vars, resources, monitor, pages, lists>> => AnswersInv' /\ [Later]_items
    <2> SUFFICES ASSUME AnswersInv, [MCNext]_<<part, vars, resources, monitor, pages, lists>>
                 PROVE  AnswersInv' /\ [Later]_items
      OBVIOUS
    <2>1. /\ M!Next \/ UNCHANGED monitor
          /\ P!Next \/ UNCHANGED pages
          /\ L!Next \/ UNCHANGED lists
      BY DEF MCNext
    <2> QED BY <2>1, MonNext, PagesNext, ListsNext
  <1>3. AnswersInv => /\ M!TypeOK /\ P!TypeOK /\ L!TypeOK /\ P!SavedWhole /\ L!WholeSaved
                      /\ items # None => items.stamp > reset /\ items.endpoint = endpoint
    BY DEF MonInv, PagesInv, ListsInv
  <1> HIDE DEF AnswersInv
  <1> QED BY <1>1, <1>2, <1>3, PTL DEF MCSpec, LateAnswersHarmless, M!ResultsFresh, Later
=============================================================================
