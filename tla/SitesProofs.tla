---------------------------- MODULE SitesProofs ----------------------------
(***************************************************************************)
(* Proofs about module Sites for any number of customers, domains,         *)
(* requests and failures, as long as no request is an administrator's:     *)
(* those take no lock when they create, and the run MCSitesAdminRace shows *)
(* what comes of it.  The second part proves what MCConfig says of the     *)
(* settings of a customer's sites: their defaults by group (Defaults), the *)
(* changes of a resource piece by piece (Fields) and the targets that the  *)
(* lists of sites put on the rows (Cnames).                                *)
(***************************************************************************)
EXTENDS Sites, MCConfig, Sequences, FiniteSetTheorems, WellFoundedInduction, TLAPS

CreatePc == {"insert", "post", "recover", "register", "answer", "undo"}
DeletePc == {"del_cdn", "del_row"}

SiteRec == [there : BOOLEAN, domain : Domain \cup {None}, group : User \cup {None}, by : 0..MaxCalls]
RowRec == [there : BOOLEAN, owner : User \cup {None}, domain : Domain \cup {None},
           site : Site \cup {None}, enabled : BOOLEAN]
CallRec ==
  [pc : {"idle"} \cup CreatePc \cup DeletePc, op : Op \cup {None}, user : User \cup {None},
   domain : Domain \cup {None}, row : 0..MaxCalls, site : Site \cup {None},
   reads : 0..3, good : 0..3, tries : 0..1, late : BOOLEAN]

(* The types that TypeOK leaves to the models that run.                    *)
Typed ==
  /\ cdn \in [Site -> SiteRec] /\ row \in [Row -> RowRec]
  /\ lock \in [User -> Call \cup {None}] /\ call \in [Call -> CallRec]
  /\ begun \in 0..MaxCalls /\ faults \in 0..MaxFaults

Creating(c) == call[c].pc \in CreatePc
Deleting(c) == call[c].pc \in DeletePc

(* A site that was made has a customer and a creation, for ever.           *)
SitesSound ==
  /\ \A s \in Site : IF cdn[s].by = 0 THEN ~cdn[s].there
                     ELSE cdn[s].by <= begun /\ cdn[s].group \in User
  /\ CreatesOnce

(* A row's site is its owner's, and has the row's domain.                  *)
RowsSound ==
  \A r \in Row : row[r].there =>
    /\ row[r].owner \in User /\ row[r].domain \in Domain /\ r <= begun
    /\ row[r].site # None =>
         LET s == row[r].site
         IN cdn[s].by # 0 /\ cdn[s].group = row[r].owner /\ cdn[s].domain = row[r].domain

(* Who creates holds the lock of its customer, and has a row of its own.   *)
HoldSound(c) ==
  IF Creating(c)
  THEN /\ call[c].op \in {"create", "compat"} /\ call[c].user \in User /\ call[c].domain \in Domain
       /\ call[c].row \in 1..begun /\ lock[call[c].user] = c
       /\ call[c].op = "compat" => call[c].pc \in {"post", "register", "answer"}
       /\ \A k \in Call \ {c} : Creating(k) \/ Deleting(k) => call[k].row # call[c].row
  ELSE ~call[c].late

(* The row: before it is inserted there is room for it, and then nobody    *)
(* else can change it; no other row of the customer has the domain.        *)
RowSound(c) ==
  LET n == call[c].row
      u == call[c].user
      inserted == call[c].pc = "answer" \/ (call[c].op = "create" /\ call[c].pc # "insert")
  IN Creating(c) =>
       /\ IF inserted
          THEN /\ row[n].there /\ row[n].owner = u /\ row[n].enabled
               /\ call[c].pc \in {"post", "recover", "register"} => row[n].site = None
          ELSE ~row[n].there /\ Cardinality(Owned(u)) < Limit
       /\ call[c].pc # "undo" =>
            /\ \A r \in Row \ {n} : row[r].there /\ row[r].owner = u => row[r].domain # call[c].domain
            /\ inserted => row[n].domain = call[c].domain

(* The site: none is made before the POST, and one that may have been made *)
(* is found.                                                               *)
SiteSound(c) ==
  LET n == call[c].row
      mine(s) == /\ cdn[s].there /\ cdn[s].group = call[c].user
                 /\ cdn[s].domain = call[c].domain
  IN /\ call[c].pc \in {"insert", "post"} => ~call[c].late
     /\ call[c].pc \in {"insert", "post"} \/ call[c].late => \A s \in Site : cdn[s].by # n
     /\ call[c].pc = "recover" =>
          /\ call[c].good <= call[c].reads
          /\ \A s \in Site : cdn[s].by = n => mine(s) /\ ~Taken(s) /\ call[c].good < 3
     /\ call[c].pc = "register" =>
          call[c].site \in Site /\ mine(call[c].site) /\ ~Taken(call[c].site)
     /\ call[c].pc = "answer" =>
          call[c].site \in Site /\ mine(call[c].site) /\ row[n].site = call[c].site

(* What is being deleted is the site of the row, or no more there.         *)
DeleteSound(c) ==
  LET n == call[c].row
      s == call[c].site
  IN Deleting(c) =>
       /\ call[c].op \in {"delete", "compat_delete"} /\ call[c].user \in User
       /\ n \in 1..begun /\ s \in Site /\ cdn[s].by # 0
       /\ row[n].there => row[n].site = s
       /\ cdn[s].there => row[n].there /\ call[c].pc = "del_cdn"

LockSound ==
  \A u \in User : lock[u] # None => call[lock[u]].pc # "idle" /\ call[lock[u]].user = u

(* The inductive invariant.                                                *)
IInv ==
  /\ Typed /\ SitesSound /\ RowsSound /\ LockSound /\ WithinLimit
  /\ \A c \in Call : HoldSound(c) /\ RowSound(c) /\ SiteSound(c) /\ DeleteSound(c)

-----------------------------------------------------------------------------
(* The steps of one request.                                               *)
Creates(c) == \E op \in {"create", "compat"}, u \in User, d \in Domain : Create(c, op, u, d)
Deletes(c) == \E op \in {"delete", "compat_delete"}, r \in Row : Delete(c, op, r)

Act(c) ==
  \/ GoOn(c) \/ Creates(c) \/ Deletes(c)
  \/ Unanswered(c) \/ Arrives(c) \/ ReadFails(c) \/ DeleteUnanswered(c)
  \/ StatementFails(c) \/ Crash(c)

LEMMA Constants ==
  /\ MaxCalls \in Nat /\ MaxCalls > 0 /\ Limit \in Nat /\ MaxFaults \in Nat
  /\ \A c \in Call : c # None
  /\ \A s \in Site : s # None
  BY ConstantsAssumption

(* The sites are never used up: a creation makes one at the most.          *)
LEMMA Least ==
  ASSUME NEW S \in SUBSET Nat, S # {}
  PROVE  \E x \in S : \A y \in S : x <= y
  <1> DEFINE R == OpToRel(<, Nat)
  <1>1. \A x, y \in Nat : y < x => <<y, x>> \in R
    BY DEF OpToRel
  <1>2. IsWellFoundedOn(R, Nat)
    BY NatLessThanWellFounded
  <1> HIDE DEF R
  <1>3. PICK x \in S : \A y \in S : <<y, x>> \notin R
    BY <1>2, WFMin
  <1>4. ASSUME NEW y \in S PROVE x <= y
    <2>1. ~(y < x)
      BY <1>1, <1>3, Zenon
    <2> QED BY <2>1
  <1> QED BY <1>4

LEMMA NextUnused ==
  ASSUME Typed, CreatesOnce
  PROVE  First(Unused) \in Site /\ cdn[First(Unused)].by = 0
  <1>1. Unused # {}
    <2> SUFFICES ASSUME Unused = {} PROVE FALSE
      OBVIOUS
    <2> DEFINE f == [s \in Site |-> cdn[s].by]
    <2>1. \A s \in Site : cdn[s].by \in 0..MaxCalls /\ cdn[s].by # 0
      BY DEF Typed, SiteRec, Unused
    <2>2. \A s \in Site : cdn[s].by \in 1..MaxCalls
      BY <2>1, Constants
    <2>3. f \in [Site -> 1..MaxCalls]
      BY <2>2
    <2>4. /\ IsFiniteSet(Site) /\ Cardinality(Site) = 2 * MaxCalls
          /\ IsFiniteSet(1..MaxCalls) /\ Cardinality(1..MaxCalls) = MaxCalls
      BY Constants, FS_Interval DEF Site
    <2>5. Cardinality(1..MaxCalls) < Cardinality(Site)
      BY <2>4, Constants
    <2> HIDE DEF f
    <2>6. PICK s, t \in Site : s # t /\ f[s] = f[t]
      BY <2>3, <2>4, <2>5, FS_PigeonHole
    <2> QED BY <2>1, <2>6 DEF CreatesOnce, f
  <1>2. Unused \in SUBSET Nat
    BY Constants DEF Unused, Site
  <1>3. First(Unused) \in Unused
    BY <1>1, <1>2, Least DEF First
  <1> QED BY <1>3 DEF Unused

(* Sets of rows are finite.                                                *)
LEMMA OwnedFinite ==
  ASSUME NEW S \in SUBSET Row
  PROVE  IsFiniteSet(S) /\ Cardinality(S) \in Nat
  <1>1. IsFiniteSet(Row)
    BY Constants, FS_Interval DEF Row
  <1>2. IsFiniteSet(S)
    BY <1>1, FS_Subset
  <1> QED BY <1>2, FS_CardinalityType

LEMMA FewerOwned ==
  ASSUME NEW S \in SUBSET Row, NEW T \in SUBSET S
  PROVE  Cardinality(T) <= Cardinality(S)
  BY OwnedFinite, FS_Subset

LEMMA OneMoreOwned ==
  ASSUME NEW S \in SUBSET Row, NEW n \in Row, NEW T \in SUBSET (S \cup {n}),
         Cardinality(S) < Limit
  PROVE  Cardinality(T) <= Limit
  <1>1. IsFiniteSet(S) /\ Cardinality(S) \in Nat
    BY OwnedFinite
  <1>2. Cardinality(S \cup {n}) = IF n \in S THEN Cardinality(S) ELSE Cardinality(S) + 1
    BY <1>1, FS_AddElement, Zenon
  <1>3. Cardinality(S \cup {n}) <= Limit
    BY <1>1, <1>2, Constants
  <1>4. S \cup {n} \in SUBSET Row
    OBVIOUS
  <1>5. Cardinality(T) <= Cardinality(S \cup {n})
    BY <1>4, FewerOwned
  <1>6. Cardinality(T) \in Nat /\ Cardinality(S \cup {n}) \in Nat
    BY <1>4, OwnedFinite
  <1> QED BY <1>3, <1>5, <1>6, Constants

-----------------------------------------------------------------------------
(* What a step of one request leaves of the others, and of the locks that  *)
(* are not its own.                                                        *)
LEMMA OthersStay ==
  ASSUME Typed, NEW c \in Call, Act(c), NEW k \in Call, k # c
  PROVE  call'[k] = call[k]
  <1>1. CASE Insert(c) \/ Posted(c) \/ Refused(c) \/ Read(c) \/
             Decide(c) \/ Register(c) \/ Succeed(c) \/ Undo(c)
    BY <1>1
       DEF Typed, To, End, Insert, Posted, Refused, Read, Decide, Register,
           Succeed, Undo
  <1>2. CASE DeleteAtCdn(c) \/ DeleteRow(c) \/ Creates(c) \/ Deletes(c) \/
             Unanswered(c) \/ Arrives(c)
    BY <1>2
       DEF Typed, To, End, DeleteAtCdn, DeleteRow, Creates, Create, Deletes,
           Delete, Unanswered, Arrives
  <1>3. CASE ReadFails(c) \/ DeleteUnanswered(c) \/ StatementFails(c) \/
             Crash(c)
    BY <1>3
       DEF Typed, To, End, ReadFails, DeleteUnanswered, StatementFails, Crash
  <1> QED
    BY <1>1, <1>2, <1>3 DEF Act, GoOn

LEMMA LocksStay ==
  ASSUME Typed, NEW c \in Call, Act(c), NEW u \in User
  PROVE  \/ lock'[u] = lock[u]
         \/ lock[u] \in {None, c} /\ lock'[u] \in {None, c}
  <1>1. CASE Insert(c) \/ Posted(c) \/ Refused(c) \/ Read(c) \/
             Decide(c) \/ Register(c) \/ Succeed(c) \/ Undo(c)
    BY <1>1
       DEF Typed, To, End, Insert, Posted, Refused, Read, Decide, Register,
           Succeed, Undo
  <1>2. CASE DeleteAtCdn(c) \/ DeleteRow(c) \/ Creates(c) \/ Deletes(c) \/
             Unanswered(c) \/ Arrives(c)
    BY <1>2
       DEF Typed, To, End, Enter, DeleteAtCdn, DeleteRow, Creates, Create,
           Deletes, Delete, Unanswered, Arrives
  <1>3. CASE ReadFails(c) \/ DeleteUnanswered(c) \/ StatementFails(c) \/
             Crash(c)
    BY <1>3
       DEF Typed, To, End, ReadFails, DeleteUnanswered, StatementFails, Crash
  <1> QED
    BY <1>1, <1>2, <1>3 DEF Act, GoOn

(* What becomes of a site, and of a row, in a step of one request.         *)
Fresh(c) ==
  [there |-> TRUE, domain |-> call[c].domain, group |-> call[c].user, by |-> call[c].row]

SiteStep(c, s) ==
  \/ cdn'[s] = cdn[s]
  \/ Creating(c) /\ cdn[s].by = 0 /\ cdn'[s] = Fresh(c)
  \/ At(c, "del_cdn") /\ s = call[c].site /\ cdn'[s] = [cdn[s] EXCEPT !.there = FALSE]

Inserted(c) == call[c].pc = "answer" \/ (call[c].op = "create" /\ call[c].pc # "insert")

RowStep(c, r) ==
  \/ row'[r] = row[r]
  \/ /\ r = call[c].row
     /\ \/ /\ Creating(c) /\ ~Inserted(c)
           /\ row'[r] = [there |-> TRUE, owner |-> call[c].user, domain |-> call[c].domain,
                         site |-> IF At(c, "insert") THEN None ELSE call[c].site,
                         enabled |-> TRUE]
           /\ At(c, "insert") \/ At(c, "register")
        \/ At(c, "register") /\ Inserted(c) /\ row'[r] = [row[r] EXCEPT !.site = call[c].site]
        \/ (At(c, "undo") \/ At(c, "del_row")) /\ row'[r] = NoRow

LEMMA MadeStep ==
  ASSUME IInv, NEW c \in Call, Creating(c), Made(c), NEW s \in Site
  PROVE  SiteStep(c, s)
  <1>1. First(Unused) \in Site /\ cdn[First(Unused)].by = 0
    BY NextUnused DEF IInv, SitesSound
  <1>2. CASE s = First(Unused)
    <2>1. cdn'[s] = Fresh(c)
      BY <1>1, <1>2 DEF IInv, Typed, Made, Fresh
    <2> QED BY <1>1, <1>2, <2>1 DEF SiteStep
  <1>3. CASE s # First(Unused)
    BY <1>3 DEF IInv, Typed, Made, SiteStep
  <1> QED BY <1>2, <1>3

LEMMA SiteSteps ==
  ASSUME IInv, NEW c \in Call, Act(c), NEW s \in Site
  PROVE  SiteStep(c, s)
  <1>1. CASE Insert(c) \/ Refused(c) \/ Read(c) \/ Decide(c) \/
             Register(c) \/ Succeed(c) \/ Undo(c) \/ DeleteRow(c) \/
             Creates(c) \/ Deletes(c) \/ ReadFails(c) \/
             StatementFails(c)
    BY <1>1
       DEF SiteStep, Insert, Refused, Read, Decide, Register, Succeed, Undo,
           DeleteRow, Creates, Create, Deletes, Delete, ReadFails,
           StatementFails
  <1>2. CASE Posted(c) \/ Unanswered(c)
    BY <1>2, MadeStep DEF SiteStep, At, Creating, CreatePc, Posted, Unanswered
  <1>3. CASE Crash(c)
    BY <1>3, MadeStep DEF SiteStep, At, Creating, CreatePc, Crash
  <1>4. CASE Arrives(c)
    <2>1. Creating(c)
      BY <1>4 DEF IInv, HoldSound, Arrives
    <2> QED BY <1>4, <2>1, MadeStep DEF Arrives
  <1>5. CASE DeleteAtCdn(c) \/ DeleteUnanswered(c)
    BY <1>5 DEF IInv, Typed, SiteStep, DeleteAtCdn, DeleteUnanswered
  <1> QED
    BY <1>1, <1>2, <1>3, <1>4, <1>5 DEF Act, GoOn

LEMMA RowSteps ==
  ASSUME IInv, NEW c \in Call, Act(c), NEW r \in Row
  PROVE  RowStep(c, r)
  <1>1. CASE Posted(c) \/ Refused(c) \/ Read(c) \/ Decide(c) \/
             Succeed(c) \/ DeleteAtCdn(c) \/ Creates(c) \/ Deletes(c) \/
             Unanswered(c) \/ Arrives(c) \/ ReadFails(c) \/
             DeleteUnanswered(c) \/ StatementFails(c) \/ Crash(c)
    BY <1>1
       DEF RowStep, Posted, Refused, Read, Decide, Succeed, DeleteAtCdn,
           Creates, Create, Deletes, Delete, Unanswered, Arrives, ReadFails,
           DeleteUnanswered, StatementFails, Crash
  <1>2. CASE Insert(c)
    BY <1>2
       DEF IInv, Typed, RowStep, At, NewRow, Creating, CreatePc, Inserted,
           Insert
  <1>3. CASE Undo(c) \/ DeleteRow(c)
    BY <1>3 DEF IInv, Typed, RowStep, At, Undo, DeleteRow
  <1>4. CASE Register(c)
    <2>0. call[c].op = "create" \/ call[c].op = "compat"
      BY <1>4 DEF IInv, HoldSound, Creating, CreatePc, Register, At
    <2>1. CASE call[c].op = "compat"
      BY <1>4, <2>1
         DEF IInv, Typed, RowStep, At, NewRow, Creating, CreatePc, Inserted,
             Register
    <2>2. CASE call[c].op = "create"
      BY <1>4, <2>2 DEF IInv, Typed, RowStep, At, Inserted, Register
    <2> QED BY <2>0, <2>1, <2>2
  <1> QED
    BY <1>1, <1>2, <1>3, <1>4 DEF Act, GoOn

-----------------------------------------------------------------------------
(* Two creations under way are of different customers, and of rows that    *)
(* nobody else works on.                                                   *)
LEMMA Apart ==
  ASSUME IInv, NEW c \in Call, NEW k \in Call, k # c, Creating(k)
  PROVE  /\ Creating(c) => call[c].user # call[k].user
         /\ Creating(c) \/ Deleting(c) => call[c].row # call[k].row
         /\ call[k].row \in Row /\ call[k].row \in 1..begun /\ call[k].user \in User
         /\ lock[call[k].user] = k
  BY Constants DEF IInv, HoldSound, Typed, Row

(* The lock, the customer and the row of a request stay its own.           *)
LEMMA BegunStep ==
  ASSUME NEW c \in Call, Act(c)
  PROVE  begun' = begun \/ (Creates(c) /\ begun' = begun + 1 /\ begun < MaxCalls)
  <1>1. CASE Creates(c)
    BY <1>1 DEF Creates, Create
  <1>2. CASE Insert(c) \/ Posted(c) \/ Refused(c) \/ Read(c) \/
             Decide(c) \/ Register(c) \/ Succeed(c) \/ Undo(c) \/
             DeleteAtCdn(c) \/ DeleteRow(c)
    BY <1>2
       DEF Insert, Posted, Refused, Read, Decide, Register, Succeed, Undo,
           DeleteAtCdn, DeleteRow
  <1>3. CASE Deletes(c) \/ Unanswered(c) \/ Arrives(c) \/ ReadFails(c) \/
             DeleteUnanswered(c) \/ StatementFails(c) \/ Crash(c)
    BY <1>3
       DEF Deletes, Delete, Unanswered, Arrives, ReadFails, DeleteUnanswered,
           StatementFails, Crash
  <1> QED
    BY <1>1, <1>2, <1>3 DEF Act, GoOn

LEMMA BegunGrows ==
  ASSUME IInv, NEW c \in Call, Act(c)
  PROVE  begun' \in 0..MaxCalls /\ begun' \in Nat /\ begun <= begun'
  BY BegunStep, Constants DEF IInv, Typed

LEMMA Recovers ==
  ASSUME Typed, NEW c \in Call, NEW late \in BOOLEAN
  PROVE  LET r == Recovering(c, late)
         IN /\ r \in CallRec
            /\ r.pc = "recover" /\ r.reads = 0 /\ r.good = 0 /\ r.late = late
            /\ r.op = call[c].op /\ r.user = call[c].user /\ r.domain = call[c].domain
            /\ r.row = call[c].row /\ r.site = call[c].site /\ r.tries = call[c].tries
  <1> DEFINE q == call[c]
  <1>1. q \in CallRec
    BY DEF Typed
  <1>2. Recovering(c, late) = [q EXCEPT !.pc = "recover", !.reads = 0, !.good = 0, !.late = late]
    BY DEF Recovering
  <1> HIDE DEF q
  <1>3. Recovering(c, late) = [pc |-> "recover", op |-> q.op, user |-> q.user, domain |-> q.domain,
          row |-> q.row, site |-> q.site, reads |-> 0, good |-> 0, tries |-> q.tries, late |-> late]
    BY <1>1, <1>2 DEF CallRec
  <1>4. Recovering(c, late) \in CallRec
    BY <1>1, <1>3 DEF CallRec, CreatePc
  <1> QED BY <1>3, <1>4 DEF q

LEMMA Begins ==
  ASSUME IInv, NEW c \in Call, Act(c)
  PROVE  \/ Creates(c) \/ Deletes(c)
         \/ ~(Creating(c) \/ Deleting(c))'
         \/ (Creating(c) \/ Deleting(c)) /\ call'[c].row = call[c].row
  <1>1. CASE Creates(c)
    BY <1>1
  <1>2. CASE Deletes(c)
    BY <1>2
  <1>3. CASE Insert(c) \/ Posted(c)
    BY <1>3
       DEF IInv, Typed, CallRec, To, End, Recovering, Idle, At, Creating,
           Deleting, CreatePc, DeletePc, Insert, Posted
  <1>4. CASE Read(c) \/ Decide(c)
    BY <1>4
       DEF IInv, Typed, CallRec, To, End, Recovering, Idle, At, Creating,
           Deleting, CreatePc, DeletePc, Read, Decide
  <1>5. CASE Register(c)
    BY <1>5
       DEF IInv, Typed, CallRec, To, End, Recovering, Idle, At, Creating,
           Deleting, CreatePc, DeletePc, Register
  <1>6. CASE Succeed(c) \/ Undo(c)
    BY <1>6
       DEF IInv, Typed, CallRec, To, End, Recovering, Idle, At, Creating,
           Deleting, CreatePc, DeletePc, Succeed, Undo
  <1>7. CASE DeleteAtCdn(c)
    BY <1>7
       DEF IInv, Typed, CallRec, To, End, Recovering, Idle, At, Creating,
           Deleting, CreatePc, DeletePc, DeleteAtCdn
  <1>8. CASE DeleteRow(c)
    BY <1>8
       DEF IInv, Typed, CallRec, To, End, Recovering, Idle, At, Creating,
           Deleting, CreatePc, DeletePc, DeleteRow
  <1>9. CASE ReadFails(c) \/ DeleteUnanswered(c)
    BY <1>9
       DEF IInv, Typed, CallRec, To, End, Recovering, Idle, At, Creating,
           Deleting, CreatePc, DeletePc, ReadFails, DeleteUnanswered
  <1>10. CASE Crash(c)
    BY <1>10
       DEF IInv, Typed, CallRec, To, End, Recovering, Idle, At, Creating,
           Deleting, CreatePc, DeletePc, Crash
  <1>11. CASE Refused(c)
    <2>1. /\ call[c].pc = "post" /\ call[c] \in CallRec
          /\ \/ call'[c] = Idle \/ call'[c] = [call[c] EXCEPT !.pc = "undo"]
             \/ call'[c] = Recovering(c, FALSE)
      BY <1>11 DEF IInv, Typed, End, At, Refused
    <2>2. CASE call'[c] = Recovering(c, FALSE)
      BY <2>1, <2>2, Recovers DEF IInv, Creating, CreatePc
    <2>3. CASE call'[c] = [call[c] EXCEPT !.pc = "undo"] \/ call'[c] = Idle
      BY <2>1, <2>3 DEF CallRec, Idle, Creating, Deleting, CreatePc, DeletePc
    <2> QED BY <2>1, <2>2, <2>3
  <1>12. CASE Unanswered(c)
    <2>1. /\ call[c].pc = "post"
          /\ call'[c] = Idle \/ \E late \in BOOLEAN : call'[c] = Recovering(c, late)
      BY <1>12 DEF IInv, Typed, End, At, Unanswered
    <2>2. CASE call'[c] = Idle
      BY <2>2 DEF Idle, Creating, Deleting, CreatePc, DeletePc
    <2>3. ASSUME NEW late \in BOOLEAN, call'[c] = Recovering(c, late)
          PROVE  Creating(c) /\ call'[c].row = call[c].row
      BY <2>1, <2>3, Recovers DEF IInv, Creating, CreatePc
    <2> QED BY <2>1, <2>2, <2>3
  <1>13. CASE StatementFails(c)
    <2>1. call'[c] = Idle \/ (call'[c] = [call[c] EXCEPT !.pc = "undo"] /\ call[c].pc \in {"register", "answer"})
      BY <1>13 DEF IInv, Typed, End, To, StatementFails
    <2> QED BY <2>1
               DEF IInv, Typed, CallRec, Idle, Creating, Deleting, CreatePc,
                   DeletePc
  <1>14. CASE Arrives(c)
    <2>1. Creating(c)
      BY <1>14 DEF IInv, HoldSound, Arrives
    <2> QED BY <1>14, <2>1 DEF IInv, Typed, CallRec, Creating, Arrives
  <1> QED
    BY <1>1, <1>2, <1>3, <1>4, <1>5, <1>6, <1>7, <1>8, <1>9, <1>10, <1>11,
       <1>12, <1>13, <1>14 DEF Act, GoOn

LEMMA OthersHold ==
  ASSUME IInv, Admin = {}, NEW c \in Call, Act(c), NEW k \in Call, k # c
  PROVE  HoldSound(k)'
  <1>1. call'[k] = call[k]
    BY OthersStay DEF IInv
  <1>2. \A j \in Call : j # k /\ j # c => call'[j] = call[j]
    BY OthersStay DEF IInv
  <1>3. HoldSound(k)
    BY DEF IInv
  <1>4. CASE ~Creating(k)
    BY <1>1, <1>3, <1>4 DEF HoldSound, Creating
  <1>5. CASE Creating(k)
    <2>1. /\ call[k].row \in 1..begun /\ call[k].user \in User /\ lock[call[k].user] = k
          /\ call[k].row \in Row
      BY <1>5, Apart
    <2>2. lock'[call[k].user] = k
      BY <2>1, LocksStay, Constants DEF IInv
    <2>3. begun' \in Nat /\ begun <= begun'
      BY BegunGrows
    <2>4. call[k].row \in 1..begun'
      BY <2>1, <2>3 DEF IInv, Typed
    <2>5. (Creating(c) \/ Deleting(c))' => call'[c].row # call[k].row
      <3>1. CASE Creates(c)
        BY <2>1, <3>1 DEF IInv, Typed, Creates, Create
      <3>2. CASE Deletes(c)
        <4>1. PICK op \in {"delete", "compat_delete"}, r \in Row : Delete(c, op, r)
          BY <3>2 DEF Deletes
        <4>2. /\ call'[c].row = r /\ row[r].there /\ row[r].site # None
              /\ op = "delete" => ~row[r].enabled
              /\ op = "compat_delete" => lock[row[r].owner] = None
          BY <4>1 DEF IInv, Typed, Delete, Enter
        <4>3. r # call[k].row
          <5> SUFFICES ASSUME r = call[k].row PROVE FALSE
            OBVIOUS
          <5>1. row[r].owner = call[k].user /\ row[r].enabled
            BY <1>5, <4>2 DEF IInv, RowSound
          <5> QED BY <2>1, <4>2, <5>1, Constants
        <4> QED BY <4>2, <4>3
      <3>3. CASE (Creating(c) \/ Deleting(c)) /\ call'[c].row = call[c].row
        BY <1>5, <3>3, Apart
      <3> QED BY <3>1, <3>2, <3>3, Begins
    <2>6. \A j \in Call \ {k} : (Creating(j) \/ Deleting(j))' => call'[j].row # call[k].row
      BY <1>2, <1>3, <1>5, <2>5 DEF HoldSound, Creating, Deleting
    <2> QED BY <1>1, <1>3, <1>5, <2>2, <2>4, <2>6
               DEF HoldSound, Creating, Deleting
  <1> QED BY <1>4, <1>5

-----------------------------------------------------------------------------
(* A row that another request creates, or has created, stays as it is; the *)
(* rows of another creation's customer do not become more.                 *)
LEMMA OtherRows ==
  ASSUME IInv, NEW c \in Call, Act(c), NEW k \in Call, k # c, Creating(k), NEW r \in Row
  PROVE  /\ r = call[k].row => row'[r] = row[r]
         /\ row'[r].there /\ row'[r].owner = call[k].user =>
              row[r].there /\ row[r].owner = call[k].user /\ row'[r].domain = row[r].domain
  <1>1. RowStep(c, r)
    BY RowSteps
  <1>2. /\ Creating(c) => call[c].user # call[k].user
        /\ Creating(c) \/ Deleting(c) => call[c].row # call[k].row
    BY Apart
  <1>3. row[r] \in RowRec
    BY DEF IInv, Typed
  <1>4. CASE row'[r] = row[r]
    BY <1>4
  <1>5. CASE /\ r = call[c].row /\ Creating(c)
             /\ row'[r] = [there |-> TRUE, owner |-> call[c].user, domain |-> call[c].domain,
                           site |-> IF At(c, "insert") THEN None ELSE call[c].site,
                           enabled |-> TRUE]
    BY <1>2, <1>5
  <1>6. CASE r = call[c].row /\ At(c, "register") /\ row'[r] = [row[r] EXCEPT !.site = call[c].site]
    BY <1>2, <1>3, <1>6 DEF RowRec, At, Creating, CreatePc
  <1>7. CASE r = call[c].row /\ (At(c, "undo") \/ At(c, "del_row")) /\ row'[r] = NoRow
    BY <1>2, <1>7 DEF At, Creating, CreatePc, Deleting, DeletePc, NoRow
  <1> QED BY <1>1, <1>4, <1>5, <1>6, <1>7 DEF RowStep

(* What is needed of a step for the row of a creation.                     *)
LEMMA RowKept ==
  ASSUME IInv, NEW k \in Call, RowSound(k), call'[k] = call[k],
         Creating(k) => \A r \in Row :
           /\ r = call[k].row => row'[r] = row[r]
           /\ row'[r].there /\ row'[r].owner = call[k].user =>
                row[r].there /\ row[r].owner = call[k].user /\ row'[r].domain = row[r].domain
  PROVE  RowSound(k)'
  <1>1. CASE ~Creating(k)
    BY <1>1 DEF RowSound, Creating
  <1>2. CASE Creating(k)
    <2> DEFINE u == call[k].user
               n == call[k].row
    <2>1. n \in Row /\ u \in User
      BY <1>2, Constants DEF IInv, HoldSound, Typed, Row
    <2>2. row'[n] = row[n]
      BY <1>2, <2>1
    <2> DEFINE S == {r \in Row : row[r].there /\ row[r].owner = u}
               T == {r \in Row : row'[r].there /\ row'[r].owner = u}
    <2>3. S \in SUBSET Row /\ T \in SUBSET S
      BY <1>2
    <2>4. Cardinality(S) = Cardinality(Owned(call[k].user))
      BY DEF Owned
    <2>5. Cardinality(T) = Cardinality(Owned(call[k].user)')
      BY DEF Owned
    <2> HIDE DEF S, T
    <2>6. Cardinality(T) <= Cardinality(S) /\ Cardinality(T) \in Nat /\ Cardinality(S) \in Nat
      BY <2>3, FewerOwned, OwnedFinite
    <2>7. Cardinality(S) < Limit => Cardinality(T) < Limit
      BY <2>6, Constants
    <2> QED BY <1>2, <2>2, <2>4, <2>5, <2>7 DEF RowSound, Creating
  <1> QED BY <1>1, <1>2

LEMMA OthersRow ==
  ASSUME IInv, NEW c \in Call, Act(c), NEW k \in Call, k # c
  PROVE  RowSound(k)'
  BY OthersStay, OtherRows, RowKept DEF IInv

(* A site that a creation has made, or found, stays its own, and no other  *)
(* request gives it to a row.                                              *)
Matches(c, s) ==
  cdn[s].there /\ cdn[s].group = call[c].user /\ cdn[s].domain = call[c].domain

LEMMA OtherMade ==
  ASSUME IInv, NEW c \in Call, Act(c), NEW k \in Call, k # c, Creating(k), NEW s \in Site,
         cdn'[s].by = call[k].row
  PROVE  cdn[s].by = call[k].row
  <1>1. SiteStep(c, s) /\ cdn[s] \in SiteRec
    BY SiteSteps DEF IInv, Typed
  <1>2. Creating(c) => call[c].row # call[k].row
    BY Apart
  <1>3. CASE cdn'[s] = [cdn[s] EXCEPT !.there = FALSE]
    BY <1>1, <1>3 DEF SiteRec
  <1> QED BY <1>1, <1>2, <1>3 DEF SiteStep, Fresh

LEMMA OtherSites ==
  ASSUME IInv, NEW c \in Call, Act(c), NEW k \in Call, k # c, Creating(k), NEW s \in Site,
         Matches(k, s), ~Taken(s)
  PROVE  Matches(k, s)' /\ ~Taken(s)'
  <1>1. SiteStep(c, s) /\ cdn[s].by # 0 /\ call'[k] = call[k]
    BY SiteSteps, OthersStay DEF IInv, SitesSound, Matches
  <1>2. Creating(c) => call[c].user # call[k].user
    BY Apart
  <1>3. ~(At(c, "del_cdn") /\ s = call[c].site)
    <2> SUFFICES ASSUME At(c, "del_cdn"), s = call[c].site PROVE FALSE
      OBVIOUS
    <2>1. row[call[c].row].there /\ row[call[c].row].site = s /\ call[c].row \in Row
      BY Constants
         DEF IInv, Typed, DeleteSound, Deleting, DeletePc, At, Matches, Row
    <2> QED BY <2>1 DEF Taken
  <1>4. cdn'[s] = cdn[s]
    BY <1>1, <1>3 DEF SiteStep
  <1>5. ASSUME NEW r \in Row, row'[r].there, row'[r].site = s PROVE FALSE
    <2>1. RowStep(c, r) /\ row[r] \in RowRec
      BY RowSteps DEF IInv, Typed
    <2>2. At(c, "register") => call[c].site # s
      BY <1>2 DEF IInv, SiteSound, At, Creating, CreatePc, Matches
    <2>3. s # None
      BY Constants
    <2>4. CASE row'[r] = [row[r] EXCEPT !.site = call[c].site] /\ At(c, "register")
      BY <1>5, <2>1, <2>2, <2>4 DEF RowRec
    <2> QED BY <1>5, <2>1, <2>2, <2>3, <2>4 DEF RowStep, Taken, NoRow
  <1> QED BY <1>1, <1>4, <1>5 DEF Matches, Taken

LEMMA OtherAnswers ==
  ASSUME IInv, NEW c \in Call, Act(c), NEW k \in Call, k # c, At(k, "answer")
  PROVE  /\ call[k].site \in Site /\ Matches(k, call[k].site)'
         /\ row'[call[k].row].site = call[k].site
  <1> DEFINE s == call[k].site
             n == call[k].row
  <1>1. /\ s \in Site /\ Matches(k, s) /\ row[n].site = s /\ row[n].there
        /\ row[n].domain = call[k].domain
        /\ \A r \in Row \ {n} : row[r].there /\ row[r].owner = call[k].user =>
                                  row[r].domain # call[k].domain
    BY DEF IInv, RowSound, SiteSound, At, Matches, Creating, CreatePc
  <1>2. Creating(k)
    BY DEF At, Creating, CreatePc
  <1>3. n \in Row /\ row'[n] = row[n]
    BY <1>2, Apart, OtherRows
  <1>4. SiteStep(c, s) /\ cdn[s].by # 0 /\ call'[k] = call[k]
    BY <1>1, SiteSteps, OthersStay DEF IInv, SitesSound, Matches
  <1>5. ~(At(c, "del_cdn") /\ s = call[c].site)
    <2> SUFFICES ASSUME At(c, "del_cdn"), s = call[c].site PROVE FALSE
      OBVIOUS
    <2> DEFINE m == call[c].row
    <2>1. row[m].there /\ row[m].site = s /\ m \in Row
      BY <1>1, Constants
         DEF IInv, Typed, DeleteSound, Deleting, DeletePc, At, Matches, Row
    <2>2. m # n
      BY <1>2, Apart DEF At, Deleting, DeletePc
    <2>3. row[m].owner = call[k].user /\ row[m].domain = call[k].domain
      BY <1>1, <2>1, Constants DEF IInv, RowsSound, Matches
    <2> QED BY <1>1, <2>1, <2>2, <2>3
  <1>6. cdn'[s] = cdn[s]
    BY <1>4, <1>5 DEF SiteStep
  <1> QED BY <1>1, <1>3, <1>4, <1>6 DEF Matches

LEMMA OthersSite ==
  ASSUME IInv, NEW c \in Call, Act(c), NEW k \in Call, k # c
  PROVE  SiteSound(k)'
  <1>1. call'[k] = call[k] /\ SiteSound(k) /\ HoldSound(k)
    BY OthersStay DEF IInv
  <1>2. CASE ~Creating(k)
    BY <1>1, <1>2 DEF HoldSound, SiteSound, Creating, CreatePc
  <1>3. CASE Creating(k)
    <2>1. \A s \in Site : cdn'[s].by = call[k].row => cdn[s].by = call[k].row
      BY <1>3, OtherMade
    <2>2. \A s \in Site : Matches(k, s) /\ ~Taken(s) => Matches(k, s)' /\ ~Taken(s)'
      BY <1>3, OtherSites
    <2>3. (call[k].pc \in {"insert", "post"} \/ call[k].late) => \A s \in Site : cdn'[s].by # call[k].row
      BY <1>1, <2>1 DEF SiteSound
    <2>4. ASSUME call[k].pc = "recover"
          PROVE  /\ call[k].good <= call[k].reads
                 /\ \A s \in Site : cdn'[s].by = call[k].row =>
                      Matches(k, s)' /\ ~Taken(s)' /\ call[k].good < 3
      BY <1>1, <2>1, <2>2, <2>4 DEF SiteSound, Matches
    <2>5. ASSUME call[k].pc = "register"
          PROVE  call[k].site \in Site /\ Matches(k, call[k].site)' /\ ~Taken(call[k].site)'
      <3>1. call[k].site \in Site /\ Matches(k, call[k].site) /\ ~Taken(call[k].site)
        BY <1>1, <2>5 DEF SiteSound, Matches
      <3> QED BY <3>1, <1>3, OtherSites, <1>1 DEF Taken, Matches
    <2>6. ASSUME call[k].pc = "answer"
          PROVE  /\ call[k].site \in Site /\ Matches(k, call[k].site)'
                 /\ row'[call[k].row].site = call[k].site
      BY <2>6, OtherAnswers DEF At
    <2>7. call[k].pc \in {"insert", "post"} => ~call[k].late
      BY <1>1 DEF SiteSound
    <2> QED BY <1>1, <2>3, <2>4, <2>5, <2>6, <2>7
               DEF SiteSound, Matches, Taken
  <1> QED BY <1>2, <1>3

LEMMA OthersDelete ==
  ASSUME IInv, NEW c \in Call, Act(c), NEW k \in Call, k # c
  PROVE  DeleteSound(k)'
  <1>1. call'[k] = call[k] /\ DeleteSound(k)
    BY OthersStay DEF IInv
  <1>2. CASE ~Deleting(k)
    BY <1>1, <1>2 DEF DeleteSound, Deleting
  <1>3. CASE Deleting(k)
    <2> DEFINE n == call[k].row
               s == call[k].site
    <2>1. /\ call[k].op \in {"delete", "compat_delete"} /\ call[k].user \in User
          /\ n \in 1..begun /\ s \in Site /\ cdn[s].by # 0
          /\ row[n].there => row[n].site = s
          /\ cdn[s].there => row[n].there /\ call[k].pc = "del_cdn"
      BY <1>1, <1>3 DEF DeleteSound
    <2>2. n \in 1..begun' /\ n \in Row
      BY <2>1, BegunGrows, Constants DEF IInv, Typed, Row
    <2>3. SiteStep(c, s) /\ RowStep(c, n) /\ cdn[s] \in SiteRec /\ row[n] \in RowRec
      BY <2>1, <2>2, SiteSteps, RowSteps DEF IInv, Typed
    <2>4. Creating(c) => call[c].row # n
      BY <1>3 DEF IInv, HoldSound
    <2>5. CASE cdn'[s] = [cdn[s] EXCEPT !.there = FALSE]
      <3>1. cdn'[s].by = cdn[s].by /\ ~cdn'[s].there
        BY <2>3, <2>5 DEF SiteRec
      <3>2. row'[n].there => row[n].there /\ row'[n].site = row[n].site
        BY <2>3, <2>4 DEF RowStep, NoRow, At, Creating, CreatePc
      <3> QED BY <1>1, <1>3, <2>1, <2>2, <3>1, <3>2 DEF DeleteSound, Deleting
    <2>6. CASE cdn'[s] = cdn[s]
      <3>1. CASE row'[n] = row[n]
        BY <1>1, <1>3, <2>1, <2>2, <2>6, <3>1 DEF DeleteSound, Deleting
      <3>2. CASE n = call[c].row /\ At(c, "del_row") /\ row'[n] = NoRow
        <4>1. ~cdn[s].there
          <5> SUFFICES ASSUME cdn[s].there PROVE FALSE
            OBVIOUS
          <5>1. row[n].there /\ row[n].site = s
            BY <2>1
          <5>2. call[c].site = s
            BY <3>2, <5>1 DEF IInv, DeleteSound, At, Deleting, DeletePc
          <5> QED BY <3>2, <5>2 DEF IInv, DeleteSound, At, Deleting, DeletePc
        <4> QED BY <1>1, <1>3, <2>1, <2>2, <2>6, <3>2, <4>1
                   DEF DeleteSound, Deleting, NoRow
      <3> QED BY <2>3, <2>4, <3>1, <3>2 DEF RowStep, At, Creating, CreatePc
    <2> QED BY <2>1, <2>3, <2>5, <2>6 DEF SiteStep
  <1> QED BY <1>2, <1>3

-----------------------------------------------------------------------------
(* The request that takes the step.                                        *)
OwnSound(c) == HoldSound(c) /\ RowSound(c) /\ SiteSound(c) /\ DeleteSound(c)

LEMMA EndSound ==
  ASSUME NEW c \in Call, call'[c] = Idle
  PROVE  OwnSound(c)'
  BY
     DEF OwnSound, HoldSound, RowSound, SiteSound, DeleteSound, Creating,
         Deleting, CreatePc,
         DeletePc, Idle

LEMMA Ends ==
  ASSUME IInv, NEW c \in Call, End(c)
  PROVE  call'[c] = Idle
  BY DEF IInv, Typed, End

(* A request that holds its lock, and keeps its row, goes on doing so.     *)
LEMMA StillHolds ==
  ASSUME IInv, NEW c \in Call, Act(c), Creating(c), Creating(c)',
         UNCHANGED lock,
         call'[c].op = call[c].op, call'[c].user = call[c].user,
         call'[c].domain = call[c].domain, call'[c].row = call[c].row,
         call'[c].op = "compat" => call'[c].pc \in {"post", "register", "answer"}
  PROVE  HoldSound(c)'
  <1>1. \A k \in Call \ {c} : call'[k] = call[k]
    BY OthersStay DEF IInv
  <1>2. begun' \in Nat /\ begun <= begun'
    BY BegunGrows
  <1>3. call[c].row \in 1..begun'
    BY <1>2 DEF IInv, HoldSound, Typed
  <1> QED BY <1>1, <1>3 DEF IInv, HoldSound, Creating, Deleting

(* The fields of a request that creates, and goes to another label.        *)
LEMMA Goes ==
  ASSUME Typed, NEW c \in Call, NEW pc, To(c, pc)
  PROVE  /\ call'[c].pc = pc
         /\ call'[c].op = call[c].op /\ call'[c].user = call[c].user
         /\ call'[c].domain = call[c].domain /\ call'[c].row = call[c].row
         /\ call'[c].site = call[c].site /\ call'[c].late = call[c].late
         /\ call'[c].reads = call[c].reads /\ call'[c].good = call[c].good
         /\ call'[c].tries = call[c].tries
  BY DEF Typed, CallRec, To

(* A creation begins with the next row, which is not there yet, when its   *)
(* customer has room for it and nobody has the domain.                     *)
LEMMA CreateSound ==
  ASSUME IInv, Admin = {}, NEW c \in Call, Creates(c)
  PROVE  OwnSound(c)'
  <1>1. PICK op \in {"create", "compat"}, u \in User, d \in Domain : Create(c, op, u, d)
    BY DEF Creates
  <1>2. /\ begun' = begun + 1 /\ begun \in Nat /\ begun < MaxCalls
        /\ row' = row /\ cdn' = cdn /\ Accepted(u, d)
        /\ lock' = [lock EXCEPT ![u] = c]
    BY <1>1, Constants DEF IInv, Typed, Create, Enter
  <1>3. call'[c] = [Idle EXCEPT !.pc = IF op = "create" THEN "insert" ELSE "post",
                      !.op = op, !.user = u, !.domain = d, !.row = begun + 1]
    BY <1>1 DEF IInv, Typed, Create
  <1>4. /\ call'[c].pc = IF op = "create" THEN "insert" ELSE "post"
        /\ call'[c].op = op /\ call'[c].user = u /\ call'[c].domain = d
        /\ call'[c].row = begun + 1 /\ call'[c].late = FALSE
    BY <1>3 DEF Idle
  <1>5. Creating(c)' /\ ~Deleting(c)'
    BY <1>4 DEF Creating, Deleting, CreatePc, DeletePc
  <1>6. lock'[u] = c /\ begun + 1 \in 1..begun' /\ begun + 1 \in Row
    BY <1>2, Constants DEF IInv, Typed, Row
  <1>7. ASSUME NEW k \in Call \ {c}, (Creating(k) \/ Deleting(k))'
        PROVE  call'[k].row # begun + 1
    <2>1. Act(c)
      BY DEF Act
    <2>2. call'[k] = call[k]
      BY <2>1, OthersStay DEF IInv
    <2>3. call[k].row \in 1..begun
      BY <1>7, <2>2 DEF IInv, HoldSound, DeleteSound, Creating, Deleting
    <2> QED BY <1>2, <2>2, <2>3
  <1>8. HoldSound(c)'
    BY <1>4, <1>5, <1>6, <1>7 DEF HoldSound
  <1>9. ~row[begun + 1].there
    BY <1>2, <1>6 DEF IInv, RowsSound
  <1>10. RowSound(c)'
    <2>1. (Cardinality(Owned(u)) < Limit)'
      BY <1>2 DEF Accepted, Owned
    <2>2. \A r \in Row : row'[r].there => row'[r].domain # d
      BY <1>2 DEF Accepted
    <2> QED BY <1>2, <1>4, <1>9, <2>1, <2>2 DEF RowSound
  <1>11. \A s \in Site : cdn'[s].by # begun + 1
    BY <1>2 DEF IInv, SitesSound, Typed, SiteRec
  <1>12. SiteSound(c)' /\ DeleteSound(c)'
    BY <1>4, <1>5, <1>11 DEF SiteSound, DeleteSound
  <1> QED BY <1>8, <1>10, <1>12 DEF OwnSound

LEMMA InsertSound ==
  ASSUME IInv, NEW c \in Call, Insert(c)
  PROVE  OwnSound(c)'
  <1>1. /\ To(c, "post") /\ call[c].pc = "insert" /\ NewRow(c, None)
        /\ UNCHANGED <<cdn, lock, begun, faults>> /\ Act(c)
    BY DEF Insert, At, Act, GoOn
  <1>2. Creating(c) /\ call[c].op = "create" /\ call[c].row \in Row
    BY <1>1, Constants DEF IInv, HoldSound, Typed, Row, Creating, CreatePc
  <1>3. HoldSound(c)'
    BY <1>1, <1>2, Goes, StillHolds DEF IInv, Creating, CreatePc
  <1>4. /\ row'[call[c].row] = [there |-> TRUE, owner |-> call[c].user,
             domain |-> call[c].domain, site |-> None, enabled |-> TRUE]
        /\ \A r \in Row \ {call[c].row} : row'[r] = row[r]
    BY <1>1, <1>2 DEF IInv, Typed, NewRow
  <1>5. \A r \in Row \ {call[c].row} : row[r].there /\ row[r].owner = call[c].user =>
                                         row[r].domain # call[c].domain
    BY <1>1, <1>2 DEF IInv, RowSound
  <1>6. RowSound(c)'
    BY <1>1, <1>2, <1>4, <1>5, Goes DEF IInv, RowSound
  <1>7. SiteSound(c)'
    BY <1>1, Goes DEF IInv, SiteSound
  <1>8. DeleteSound(c)'
    BY <1>1, Goes DEF IInv, DeleteSound, Deleting, DeletePc
  <1> QED BY <1>3, <1>6, <1>7, <1>8 DEF OwnSound

(* While the table is left alone the row of a creation that goes on is     *)
(* what it was.                                                            *)
LEMMA RowGoesOn ==
  ASSUME IInv, NEW c \in Call, row' = row, Creating(c),
         call[c].pc \in {"post", "recover", "register", "answer"},
         call'[c].pc \in {"post", "recover", "register", "undo"},
         call[c].pc = "answer" => call'[c].pc = "undo",
         call'[c].op = call[c].op, call'[c].user = call[c].user,
         call'[c].domain = call[c].domain, call'[c].row = call[c].row,
         call[c].op = "create" \/ (call[c].pc # "answer" /\ call'[c].pc # "undo")
  PROVE  RowSound(c)' /\ DeleteSound(c)'
  <1>1. RowSound(c) /\ call[c].op \in {"create", "compat"}
    BY DEF IInv, HoldSound
  <1>2. (Cardinality(Owned(call[c].user)) < Limit)' <=> Cardinality(Owned(call[c].user)) < Limit
    BY DEF Owned
  <1>3. Creating(c)' /\ ~Deleting(c)'
    BY DEF Creating, CreatePc, Deleting, DeletePc
  <1>4. CASE call[c].op = "create"
    BY <1>1, <1>3, <1>4 DEF RowSound, DeleteSound
  <1>5. CASE call[c].op = "compat" /\ call[c].pc # "answer" /\ call'[c].pc # "undo"
    BY <1>1, <1>2, <1>3, <1>5 DEF RowSound, DeleteSound
  <1> QED BY <1>1, <1>4, <1>5

(* The site that a POST makes is no row's, and the only one of its         *)
(* creation.                                                               *)
LEMMA MadeSound ==
  ASSUME IInv, NEW c \in Call, Creating(c), Made(c)
  PROVE  /\ First(Unused) \in Site /\ cdn[First(Unused)].by = 0
         /\ cdn'[First(Unused)] = Fresh(c)
         /\ \A s \in Site \ {First(Unused)} : cdn'[s] = cdn[s]
         /\ ~Taken(First(Unused))
  <1>1. First(Unused) \in Site /\ cdn[First(Unused)].by = 0
    BY NextUnused DEF IInv, SitesSound
  <1>2. ~Taken(First(Unused))
    BY <1>1, Constants DEF IInv, RowsSound, Taken
  <1> QED BY <1>1, <1>2 DEF IInv, Typed, Made, Fresh

LEMMA PostedSound ==
  ASSUME IInv, NEW c \in Call, Posted(c)
  PROVE  OwnSound(c)'
  <1>1. /\ call[c].pc = "post" /\ Made(c) /\ Act(c) /\ Creating(c)
        /\ UNCHANGED <<row, lock, begun, faults>>
    BY DEF Posted, At, Act, GoOn, Creating, CreatePc
  <1>2. PICK new \in Site : new = First(Unused) /\ cdn'[new] = Fresh(c) /\ ~Taken(new)
    BY <1>1, MadeSound
  <1>3. /\ call'[c].pc = "register" /\ call'[c].site = new
        /\ call'[c].op = call[c].op /\ call'[c].user = call[c].user
        /\ call'[c].domain = call[c].domain /\ call'[c].row = call[c].row
        /\ call'[c].late = call[c].late
    BY <1>2 DEF IInv, Typed, CallRec, Posted
  <1>4. HoldSound(c)'
    BY <1>1, <1>3, StillHolds DEF Creating, CreatePc
  <1>5. RowSound(c)' /\ DeleteSound(c)'
    BY <1>1, <1>3, RowGoesOn DEF IInv, HoldSound
  <1>6. SiteSound(c)'
    <2>1. ~call[c].late
      BY <1>1 DEF IInv, SiteSound
    <2>2. ~Taken(new)'
      BY <1>1, <1>2 DEF Taken
    <2>3. cdn'[new].there /\ cdn'[new].group = call[c].user /\ cdn'[new].domain = call[c].domain
      BY <1>2 DEF Fresh
    <2> QED BY <1>2, <1>3, <2>1, <2>2, <2>3 DEF SiteSound, Taken
  <1> QED BY <1>4, <1>5, <1>6 DEF OwnSound

(* A creation that goes to look for its site, and one that gives up.       *)
LEMMA RecoverSound ==
  ASSUME IInv, NEW c \in Call, Act(c), At(c, "post"), call[c].op # "compat",
         UNCHANGED <<row, lock>>, NEW late \in BOOLEAN, call'[c] = Recovering(c, late),
         \/ UNCHANGED cdn
         \/ ~late /\ Made(c)
  PROVE  OwnSound(c)'
  <1>1. Creating(c) /\ call[c].pc = "post" /\ call[c].op = "create"
    BY DEF IInv, HoldSound, At, Creating, CreatePc
  <1>2. /\ call'[c].pc = "recover" /\ call'[c].late = late
        /\ call'[c].op = call[c].op /\ call'[c].user = call[c].user
        /\ call'[c].domain = call[c].domain /\ call'[c].row = call[c].row
        /\ call'[c].good = 0 /\ call'[c].reads = 0
    BY Recovers DEF IInv
  <1>3. HoldSound(c)'
    BY <1>1, <1>2, StillHolds DEF Creating, CreatePc
  <1>4. RowSound(c)' /\ DeleteSound(c)'
    BY <1>1, <1>2, RowGoesOn
  <1>5. \A s \in Site : cdn[s].by # call[c].row
    BY <1>1 DEF IInv, SiteSound
  <1>6. ASSUME UNCHANGED cdn PROVE SiteSound(c)'
    <2>1. \A s \in Site : cdn'[s].by # call'[c].row
      BY <1>2, <1>5, <1>6
    <2> QED BY <1>2, <2>1 DEF SiteSound
  <1>7. ASSUME ~late, Made(c) PROVE SiteSound(c)'
    <2>1. PICK new \in Site : /\ cdn'[new] = Fresh(c) /\ ~Taken(new)
                             /\ \A s \in Site \ {new} : cdn'[s] = cdn[s]
      BY <1>1, <1>7, MadeSound
    <2>2. \A s \in Site : cdn'[s].by = call[c].row => s = new
      BY <1>5, <2>1
    <2>3. ~Taken(new)'
      BY <2>1 DEF Taken
    <2>4. cdn'[new].there /\ cdn'[new].group = call[c].user /\ cdn'[new].domain = call[c].domain
      BY <2>1 DEF Fresh
    <2>5. ~call'[c].late
      BY <1>2, <1>7
    <2> QED BY <1>2, <2>2, <2>3, <2>4, <2>5 DEF SiteSound, Taken
  <1> QED BY <1>3, <1>4, <1>6, <1>7 DEF OwnSound

LEMMA UndoSound ==
  ASSUME IInv, NEW c \in Call, Act(c), call[c].pc \in {"post", "recover", "register", "answer"},
         call[c].op = "create", UNCHANGED <<cdn, row, lock>>,
         call'[c].pc = "undo",
         call'[c].op = call[c].op, call'[c].user = call[c].user,
         call'[c].domain = call[c].domain, call'[c].row = call[c].row,
         call'[c].late => call[c].late
  PROVE  OwnSound(c)'
  <1>1. Creating(c) /\ Creating(c)'
    BY DEF Creating, CreatePc
  <1>2. HoldSound(c)'
    BY <1>1, StillHolds
  <1>3. RowSound(c)' /\ DeleteSound(c)'
    BY <1>1, RowGoesOn
  <1>4. SiteSound(c)'
    BY DEF IInv, SiteSound
  <1> QED BY <1>2, <1>3, <1>4 DEF OwnSound

LEMMA RefusedSound ==
  ASSUME IInv, NEW c \in Call, Refused(c)
  PROVE  OwnSound(c)'
  <1>1. /\ At(c, "post") /\ UNCHANGED <<cdn, row, begun, faults>> /\ Act(c)
    BY DEF Refused, Act, GoOn
  <1>2. CASE call[c].op = "compat"
    BY <1>2, Ends, EndSound DEF Refused
  <1>3. CASE call[c].op # "compat"
    <2>1. UNCHANGED lock
      BY <1>3 DEF Refused
    <2>2. CASE call[c].tries = 0
      <3>1. call'[c] = [call[c] EXCEPT !.pc = "undo"]
        BY <1>3, <2>2 DEF IInv, Typed, Refused
      <3>2. /\ call'[c].pc = "undo" /\ call'[c].late = call[c].late
            /\ call'[c].op = call[c].op /\ call'[c].user = call[c].user
            /\ call'[c].domain = call[c].domain /\ call'[c].row = call[c].row
        BY <3>1 DEF IInv, Typed, CallRec
      <3>3. call[c].op = "create"
        BY <1>1, <1>3 DEF IInv, HoldSound, Creating, CreatePc, At
      <3> QED BY <1>1, <2>1, <3>2, <3>3, UndoSound DEF At
    <2>3. CASE call[c].tries # 0
      <3>1. call'[c] = Recovering(c, FALSE)
        BY <1>3, <2>3 DEF IInv, Typed, Refused
      <3> QED BY <1>1, <1>3, <2>1, <3>1, RecoverSound
    <2> QED BY <2>2, <2>3
  <1> QED BY <1>2, <1>3

LEMMA UnansweredSound ==
  ASSUME IInv, NEW c \in Call, Unanswered(c)
  PROVE  OwnSound(c)'
  <1>1. PICK made \in BOOLEAN, late \in BOOLEAN :
          /\ IF made THEN ~late /\ Made(c) ELSE UNCHANGED cdn
          /\ IF call[c].op = "compat" THEN ~late /\ End(c)
             ELSE call' = [call EXCEPT ![c] = Recovering(c, late)] /\ UNCHANGED lock
    BY DEF Unanswered
  <1>2. At(c, "post") /\ UNCHANGED row /\ Act(c)
    BY DEF Unanswered, Act
  <1>3. CASE call[c].op = "compat"
    BY <1>1, <1>3, Ends, EndSound
  <1>4. CASE call[c].op # "compat"
    <2>1. call'[c] = Recovering(c, late) /\ UNCHANGED lock
      BY <1>1, <1>4 DEF IInv, Typed
    <2>2. UNCHANGED cdn \/ (~late /\ Made(c))
      BY <1>1
    <2> QED BY <1>2, <1>4, <2>1, <2>2, RecoverSound
  <1> QED BY <1>3, <1>4

LEMMA ArrivesSound ==
  ASSUME IInv, NEW c \in Call, Arrives(c)
  PROVE  OwnSound(c)'
  <1>1. /\ call[c].late /\ call[c].reads < 3 /\ Made(c) /\ Act(c)
        /\ UNCHANGED <<row, lock, begun, faults>>
    BY DEF Arrives, Act
  <1>2. Creating(c) /\ call[c].pc \notin {"insert", "post"}
    BY <1>1 DEF IInv, HoldSound, SiteSound
  <1>3. /\ call'[c].late = FALSE /\ call'[c].pc = call[c].pc
        /\ call'[c].op = call[c].op /\ call'[c].user = call[c].user
        /\ call'[c].domain = call[c].domain /\ call'[c].row = call[c].row
        /\ call'[c].site = call[c].site
        /\ call'[c].reads = call[c].reads /\ call'[c].good = call[c].good
    BY DEF IInv, Typed, CallRec, Arrives
  <1>4. HoldSound(c)'
    <2>1. call[c].op = "compat" => call[c].pc \in {"post", "register", "answer"}
      BY <1>2 DEF IInv, HoldSound
    <2> QED BY <1>1, <1>2, <1>3, <2>1, StillHolds DEF Creating
  <1>5. RowSound(c)' /\ DeleteSound(c)'
    <2>1. (Cardinality(Owned(call[c].user)) < Limit)' <=> Cardinality(Owned(call[c].user)) < Limit
      BY <1>1, <1>3 DEF Owned
    <2>2. ~Deleting(c)'
      BY <1>2, <1>3 DEF Creating, CreatePc, Deleting, DeletePc
    <2>3. RowSound(c)
      BY DEF IInv
    <2> QED BY <1>1, <1>2, <1>3, <2>1, <2>2, <2>3
               DEF RowSound, DeleteSound, Creating
  <1>6. SiteSound(c)'
    <2>1. PICK new \in Site : /\ cdn'[new] = Fresh(c) /\ ~Taken(new) /\ cdn[new].by = 0
                             /\ \A s \in Site \ {new} : cdn'[s] = cdn[s]
      BY <1>1, <1>2, MadeSound
    <2>2. \A s \in Site : cdn'[s].by = call[c].row => s = new
      BY <1>1, <2>1 DEF IInv, SiteSound
    <2>3. cdn'[new].there /\ cdn'[new].group = call[c].user /\ cdn'[new].domain = call[c].domain
      BY <2>1 DEF Fresh
    <2>4. \A s \in Site : Taken(s)' => Taken(s)
      BY <1>1 DEF Taken
    <2>5. \A s \in Site : Matches(c, s) => cdn'[s] = cdn[s]
      BY <2>1 DEF IInv, SitesSound, Matches
    <2>6. ASSUME call[c].pc = "recover"
          PROVE  call[c].good <= call[c].reads /\ call[c].good < 3
      BY <1>1, <2>6 DEF IInv, Typed, CallRec, SiteSound
    <2>7. CASE call[c].pc = "recover"
      BY <1>3, <2>1, <2>2, <2>3, <2>4, <2>6, <2>7 DEF SiteSound
    <2>8. CASE call[c].pc = "register"
      <3>1. call[c].site \in Site /\ Matches(c, call[c].site) /\ ~Taken(call[c].site)
        BY <2>8 DEF IInv, SiteSound, Matches
      <3> QED BY <1>1, <1>3, <2>5, <2>8, <3>1 DEF SiteSound, Matches, Taken
    <2>9. CASE call[c].pc = "answer"
      <3>1. call[c].site \in Site /\ Matches(c, call[c].site) /\ row[call[c].row].site = call[c].site
        BY <2>9 DEF IInv, SiteSound, Matches
      <3> QED BY <1>1, <1>3, <2>5, <2>9, <3>1 DEF SiteSound, Matches
    <2>10. CASE call[c].pc = "undo"
      BY <1>3, <2>10 DEF SiteSound
    <2> QED BY <1>2, <2>7, <2>8, <2>9, <2>10 DEF Creating, CreatePc
  <1> QED BY <1>4, <1>5, <1>6 DEF OwnSound

(* What a creation finds is no row's: a row that has a site of its         *)
(* customer with its domain has the domain itself.                         *)
LEMMA FoundIsFree ==
  ASSUME IInv, NEW c \in Call, At(c, "recover"), NEW s \in Match(c)
  PROVE  s \in Site /\ Matches(c, s) /\ ~Taken(s)
  <1>1. s \in Site /\ Matches(c, s)
    BY DEF Match, Matches
  <1>2. call[c].op = "create" /\ Creating(c) /\ call[c].pc = "recover"
    BY DEF IInv, HoldSound, At, Creating, CreatePc
  <1>3. ASSUME NEW r \in Row, row[r].there, row[r].site = s PROVE FALSE
    <2>1. row[r].owner = call[c].user /\ row[r].domain = call[c].domain /\ s # None
      BY <1>1, <1>3, Constants DEF IInv, RowsSound, Matches
    <2>2. /\ row[call[c].row].site = None
          /\ \A q \in Row \ {call[c].row} : row[q].there /\ row[q].owner = call[c].user =>
                                              row[q].domain # call[c].domain
      BY <1>2 DEF IInv, RowSound
    <2> QED BY <1>3, <2>1, <2>2
  <1> QED BY <1>1, <1>3 DEF Taken

LEMMA ReadSound ==
  ASSUME IInv, NEW c \in Call, Read(c) \/ ReadFails(c)
  PROVE  OwnSound(c)'
  <1>1. /\ call[c].pc = "recover" /\ call[c].reads < 3 /\ Act(c) /\ Creating(c)
        /\ UNCHANGED <<cdn, row, lock, begun>>
    BY DEF Read, ReadFails, At, Act, GoOn, Creating, CreatePc
  <1>2. call[c].op = "create" /\ call[c].reads \in 0..3 /\ call[c].good \in 0..3
    BY <1>1 DEF IInv, HoldSound, Typed, CallRec
  <1>3. /\ call'[c].op = call[c].op /\ call'[c].user = call[c].user
        /\ call'[c].domain = call[c].domain /\ call'[c].row = call[c].row
        /\ call'[c].late = call[c].late /\ call'[c].pc \in {"recover", "register"}
        /\ \/ \E s \in Match(c) : call'[c].pc = "register" /\ call'[c].site = s
           \/ /\ call'[c].pc = "recover" /\ call'[c].reads = call[c].reads + 1
              /\ \/ call'[c].good = call[c].good
                 \/ Match(c) = {} /\ call'[c].good = call[c].good + 1
    <2>1. CASE ReadFails(c)
      BY <1>1, <2>1 DEF IInv, Typed, CallRec, ReadFails
    <2>2. CASE Read(c) /\ Match(c) = {}
      BY <1>1, <2>2 DEF IInv, Typed, CallRec, Read
    <2>3. CASE Read(c) /\ Match(c) # {}
      <3>1. PICK s \in Match(c) : call' = [call EXCEPT ![c].pc = "register", ![c].site = s]
        BY <2>3 DEF Read
      <3> QED BY <3>1 DEF IInv, Typed, CallRec
    <2> QED BY <2>1, <2>2, <2>3
  <1>4. HoldSound(c)'
    BY <1>1, <1>2, <1>3, StillHolds DEF Creating, CreatePc
  <1>5. RowSound(c)' /\ DeleteSound(c)'
    BY <1>1, <1>2, <1>3, RowGoesOn
  <1>6. SiteSound(c)
    BY DEF IInv
  <1>7. \A s \in Site : Taken(s)' => Taken(s)
    BY <1>1 DEF Taken
  <1>8. ASSUME NEW s \in Match(c), call'[c].pc = "register", call'[c].site = s
        PROVE  SiteSound(c)'
    <2>1. s \in Site /\ Matches(c, s) /\ ~Taken(s)
      BY <1>1, FoundIsFree DEF At
    <2>2. call[c].late => \A q \in Site : cdn[q].by # call[c].row
      BY <1>6 DEF SiteSound
    <2> QED BY <1>1, <1>3, <1>8, <2>1, <2>2 DEF SiteSound, Matches, Taken
  <1>9. ASSUME call'[c].pc = "recover", call'[c].reads = call[c].reads + 1,
               \/ call'[c].good = call[c].good
               \/ Match(c) = {} /\ call'[c].good = call[c].good + 1
        PROVE  SiteSound(c)'
    <2>1. call'[c].good <= call'[c].reads
      BY <1>1, <1>2, <1>6, <1>9 DEF SiteSound
    <2>2. \A s \in Site : cdn[s].by = call[c].row => s \in Match(c) /\ ~Taken(s) /\ call[c].good < 3
      BY <1>1, <1>6 DEF SiteSound, Match
    <2>3. \A s \in Site : cdn[s].by = call[c].row => call'[c].good < 3
      BY <1>9, <2>2
    <2>4. call[c].late => \A q \in Site : cdn[q].by # call[c].row
      BY <1>6 DEF SiteSound
    <2> QED BY <1>1, <1>3, <1>7, <1>9, <2>1, <2>2, <2>3, <2>4
               DEF SiteSound, Match
  <1>10. SiteSound(c)'
    BY <1>3, <1>8, <1>9
  <1> QED BY <1>4, <1>5, <1>10 DEF OwnSound

LEMMA DecideSound ==
  ASSUME IInv, NEW c \in Call, Decide(c)
  PROVE  OwnSound(c)'
  <1>1. /\ call[c].pc = "recover" /\ Act(c) /\ Creating(c)
        /\ UNCHANGED <<cdn, row, lock, begun, faults>>
    BY DEF Decide, At, Act, GoOn, Creating, CreatePc
  <1>2. call[c].op = "create"
    BY <1>1 DEF IInv, HoldSound
  <1>3. CASE ConfirmedMissing(c) /\ call[c].tries = 0
    <2>1. /\ call'[c].pc = "post" /\ call'[c].late = FALSE
          /\ call'[c].op = call[c].op /\ call'[c].user = call[c].user
          /\ call'[c].domain = call[c].domain /\ call'[c].row = call[c].row
      BY <1>3 DEF IInv, Typed, CallRec, Decide
    <2>2. HoldSound(c)'
      BY <1>1, <1>2, <2>1, StillHolds DEF Creating, CreatePc
    <2>3. RowSound(c)' /\ DeleteSound(c)'
      BY <1>1, <1>2, <2>1, RowGoesOn
    <2>4. \A s \in Site : cdn[s].by # call[c].row
      BY <1>1, <1>3 DEF IInv, SiteSound, ConfirmedMissing
    <2>5. SiteSound(c)'
      BY <1>1, <2>1, <2>4 DEF SiteSound
    <2> QED BY <2>2, <2>3, <2>5 DEF OwnSound
  <1>4. CASE ~(ConfirmedMissing(c) /\ call[c].tries = 0)
    <2>1. /\ call'[c].pc = "undo" /\ call'[c].late = FALSE
          /\ call'[c].op = call[c].op /\ call'[c].user = call[c].user
          /\ call'[c].domain = call[c].domain /\ call'[c].row = call[c].row
      BY <1>4 DEF IInv, Typed, CallRec, Decide
    <2> QED BY <1>1, <1>2, <2>1, UndoSound
  <1> QED BY <1>3, <1>4

LEMMA RegisterSound ==
  ASSUME IInv, NEW c \in Call, Register(c)
  PROVE  OwnSound(c)'
  <1> DEFINE n == call[c].row
             s == call[c].site
  <1>1. /\ call[c].pc = "register" /\ Act(c) /\ Creating(c)
        /\ UNCHANGED <<cdn, lock, begun, faults>>
    BY DEF Register, At, Act, GoOn, Creating, CreatePc
  <1>2. /\ s \in Site /\ Matches(c, s) /\ ~Taken(s)
        /\ call[c].late => \A q \in Site : cdn[q].by # n
    BY <1>1 DEF IInv, SiteSound, Matches
  <1>3. /\ To(c, "answer")
        /\ IF call[c].op = "compat" THEN NewRow(c, s) ELSE row' = [row EXCEPT ![n].site = s]
    BY <1>2 DEF Register
  <1>4. /\ call'[c].pc = "answer"
        /\ call'[c].op = call[c].op /\ call'[c].user = call[c].user
        /\ call'[c].domain = call[c].domain /\ call'[c].row = n
        /\ call'[c].site = s /\ call'[c].late = call[c].late
    BY <1>3, Goes DEF IInv
  <1>5. HoldSound(c)'
    BY <1>1, <1>4, StillHolds DEF Creating, CreatePc
  <1>6. n \in Row /\ row[n] \in RowRec /\ call[c].op \in {"create", "compat"}
    BY <1>1, Constants DEF IInv, HoldSound, Typed, Row
  <1>7. /\ row'[n].there /\ row'[n].owner = call[c].user /\ row'[n].enabled
        /\ row'[n].site = s /\ row'[n].domain = call[c].domain
    <2>1. CASE call[c].op = "compat"
      BY <1>3, <1>6, <2>1 DEF IInv, Typed, NewRow
    <2>2. CASE call[c].op = "create"
      <3>1. row'[n] = [row[n] EXCEPT !.site = s]
        BY <1>3, <1>6, <2>2 DEF IInv, Typed
      <3>2. row[n].there /\ row[n].owner = call[c].user /\ row[n].enabled /\ row[n].domain = call[c].domain
        BY <1>1, <2>2 DEF IInv, RowSound
      <3> QED BY <1>6, <3>1, <3>2 DEF RowRec
    <2> QED BY <1>6, <2>1, <2>2
  <1>8. \A r \in Row \ {n} : row'[r] = row[r]
    BY <1>3, <1>6 DEF IInv, Typed, NewRow
  <1>9. \A r \in Row \ {n} : row[r].there /\ row[r].owner = call[c].user => row[r].domain # call[c].domain
    BY <1>1 DEF IInv, RowSound
  <1>10. RowSound(c)'
    BY <1>4, <1>7, <1>8, <1>9 DEF RowSound
  <1>11. SiteSound(c)'
    BY <1>1, <1>2, <1>4, <1>7 DEF SiteSound, Matches
  <1>12. DeleteSound(c)'
    BY <1>4 DEF DeleteSound, Deleting, DeletePc
  <1> QED BY <1>5, <1>10, <1>11, <1>12 DEF OwnSound

LEMMA FailsSound ==
  ASSUME IInv, NEW c \in Call, StatementFails(c)
  PROVE  OwnSound(c)'
  <1>1. CASE call[c].op = "create" /\ call[c].pc \in {"register", "answer"}
    <2>1. To(c, "undo") /\ UNCHANGED <<cdn, row, lock>> /\ Act(c)
      BY <1>1 DEF StatementFails, Act
    <2> QED BY <1>1, <2>1, Goes, UndoSound DEF IInv
  <1>2. CASE ~(call[c].op = "create" /\ call[c].pc \in {"register", "answer"})
    BY <1>2, Ends, EndSound DEF StatementFails
  <1> QED BY <1>1, <1>2

LEMMA DeletesSound ==
  ASSUME IInv, Admin = {}, NEW c \in Call, Deletes(c)
  PROVE  OwnSound(c)'
  <1>1. PICK op \in {"delete", "compat_delete"}, r \in Row : Delete(c, op, r)
    BY DEF Deletes
  <1>2. /\ row[r].there /\ row[r].site # None /\ UNCHANGED <<cdn, row, begun, faults>>
        /\ call'[c] = [Idle EXCEPT !.pc = "del_cdn", !.op = op, !.user = row[r].owner,
                                   !.row = r, !.site = row[r].site]
    BY <1>1 DEF IInv, Typed, Delete
  <1>3. /\ call'[c].pc = "del_cdn" /\ call'[c].op = op /\ call'[c].user = row[r].owner
        /\ call'[c].row = r /\ call'[c].site = row[r].site /\ call'[c].late = FALSE
    BY <1>2 DEF Idle
  <1>4. row[r].owner \in User /\ row[r].site \in Site /\ cdn[row[r].site].by # 0 /\ r \in 1..begun
    BY <1>2 DEF IInv, Typed, RowRec, RowsSound, Row
  <1>5. HoldSound(c)' /\ RowSound(c)' /\ SiteSound(c)'
    BY <1>3 DEF HoldSound, RowSound, SiteSound, Creating, CreatePc
  <1>6. DeleteSound(c)'
    BY <1>2, <1>3, <1>4 DEF DeleteSound
  <1> QED BY <1>5, <1>6 DEF OwnSound

LEMMA DeleteAtCdnSound ==
  ASSUME IInv, NEW c \in Call, DeleteAtCdn(c)
  PROVE  OwnSound(c)'
  <1>1. CASE ~cdn[call[c].site].there
    BY <1>1, Ends, EndSound DEF DeleteAtCdn
  <1>2. CASE cdn[call[c].site].there
    <2>1. /\ call[c].pc = "del_cdn" /\ To(c, "del_row") /\ UNCHANGED <<row, begun, faults, lock>>
          /\ cdn' = [cdn EXCEPT ![call[c].site].there = FALSE]
      BY <1>2 DEF DeleteAtCdn, At
    <2>2. /\ call'[c].pc = "del_row" /\ call'[c].op = call[c].op /\ call'[c].user = call[c].user
          /\ call'[c].row = call[c].row /\ call'[c].site = call[c].site
          /\ call'[c].late = call[c].late
      BY <2>1, Goes DEF IInv
    <2>3. HoldSound(c)' /\ RowSound(c)' /\ SiteSound(c)'
      <3>1. ~call[c].late
        BY <2>1 DEF IInv, HoldSound, Creating, CreatePc
      <3> QED BY <2>2, <3>1
                 DEF HoldSound, RowSound, SiteSound, Creating, CreatePc
    <2>4. DeleteSound(c) /\ Deleting(c)
      BY <2>1 DEF IInv, Deleting, DeletePc
    <2>5. call[c].site \in Site /\ cdn[call[c].site] \in SiteRec
      BY <2>4 DEF DeleteSound, IInv, Typed
    <2>6. ~cdn'[call[c].site].there /\ cdn'[call[c].site].by = cdn[call[c].site].by
      BY <2>1, <2>5 DEF IInv, Typed, SiteRec
    <2> QED BY <2>1, <2>2, <2>3, <2>4, <2>6 DEF OwnSound, DeleteSound
  <1> QED BY <1>1, <1>2

LEMMA OwnStep ==
  ASSUME IInv, Admin = {}, NEW c \in Call, Act(c)
  PROVE  OwnSound(c)'
  <1>1. CASE Succeed(c) \/ Undo(c) \/ DeleteRow(c) \/ DeleteUnanswered(c) \/ Crash(c)
    BY <1>1, Ends, EndSound
       DEF Succeed, Undo, DeleteRow, DeleteUnanswered, Crash
  <1> QED BY <1>1, CreateSound, InsertSound, PostedSound, RefusedSound,
             UnansweredSound,
             ArrivesSound, ReadSound, DecideSound, RegisterSound, FailsSound, DeletesSound,
             DeleteAtCdnSound DEF Act, GoOn

-----------------------------------------------------------------------------
(* The tables.                                                             *)
LEMMA RowStepTyped ==
  ASSUME IInv, NEW c \in Call, Act(c), NEW r \in Row
  PROVE  row'[r] \in RowRec
  <1>1. RowStep(c, r) /\ row[r] \in RowRec /\ call[c] \in CallRec
    BY RowSteps DEF IInv, Typed
  <1>2. CASE row'[r] = NoRow
    BY <1>2 DEF NoRow, RowRec
  <1>3. CASE row'[r] = [row[r] EXCEPT !.site = call[c].site]
    BY <1>1, <1>3 DEF RowRec, CallRec
  <1>4. CASE row'[r] = [there |-> TRUE, owner |-> call[c].user, domain |-> call[c].domain,
                        site |-> IF At(c, "insert") THEN None ELSE call[c].site,
                        enabled |-> TRUE]
    BY <1>1, <1>4 DEF RowRec, CallRec
  <1> QED BY <1>1, <1>2, <1>3, <1>4 DEF RowStep

LEMMA SiteStepTyped ==
  ASSUME IInv, NEW c \in Call, Act(c), NEW s \in Site
  PROVE  cdn'[s] \in SiteRec
  <1>1. SiteStep(c, s) /\ cdn[s] \in SiteRec /\ call[c] \in CallRec
    BY SiteSteps DEF IInv, Typed
  <1>2. CASE cdn'[s] = [cdn[s] EXCEPT !.there = FALSE]
    BY <1>1, <1>2 DEF SiteRec
  <1>3. CASE cdn'[s] = Fresh(c)
    BY <1>1, <1>3 DEF Fresh, SiteRec, CallRec
  <1> QED BY <1>1, <1>2, <1>3 DEF SiteStep

(* A table stays a table of the same keys.                                 *)
LEMMA TablesTyped ==
  ASSUME Typed, NEW c \in Call, Act(c)
  PROVE  /\ DOMAIN cdn' = Site /\ cdn' = [s \in Site |-> cdn'[s]]
         /\ DOMAIN row' = Row /\ row' = [r \in Row |-> row'[r]]
         /\ DOMAIN lock' = User /\ lock' = [u \in User |-> lock'[u]]
         /\ DOMAIN call' = Call /\ call' = [k \in Call |-> call'[k]]
  <1>1. CASE Insert(c) \/ Posted(c) \/ Refused(c) \/ Read(c) \/
             Decide(c)
    BY <1>1
       DEF Typed, To, End, Made, NewRow, Enter, Insert, Posted, Refused, Read,
           Decide
  <1>2. CASE Register(c) \/ Succeed(c) \/ Undo(c) \/ DeleteAtCdn(c) \/
             DeleteRow(c)
    BY <1>2
       DEF Typed, To, End, Made, NewRow, Enter, Register, Succeed, Undo,
           DeleteAtCdn, DeleteRow
  <1>3. CASE Creates(c) \/ Deletes(c) \/ Unanswered(c) \/ Arrives(c)
    BY <1>3
       DEF Typed, To, End, Made, NewRow, Enter, Creates, Create, Deletes,
           Delete, Unanswered, Arrives
  <1>4. CASE ReadFails(c) \/ DeleteUnanswered(c) \/ StatementFails(c) \/
             Crash(c)
    BY <1>4
       DEF Typed, To, End, Made, NewRow, Enter, ReadFails, DeleteUnanswered,
           StatementFails, Crash
  <1> QED
    BY <1>1, <1>2, <1>3, <1>4 DEF Act, GoOn

LEMMA IdleTyped == Idle \in CallRec
  BY Constants DEF Idle, CallRec

LEMMA CallTyped ==
  ASSUME IInv, NEW c \in Call, Act(c)
  PROVE  call'[c] \in CallRec
  <1>1. CASE Succeed(c) \/ Undo(c) \/ DeleteRow(c) \/
             DeleteUnanswered(c) \/ Crash(c)
    BY <1>1, Ends, IdleTyped
       DEF Succeed, Undo, DeleteRow, DeleteUnanswered, Crash
  <1>2. CASE Insert(c) \/ Posted(c)
    <2>1. CASE Insert(c)
      <3>1. call'[c] = [call[c] EXCEPT !.pc = "post"]
        BY <2>1 DEF IInv, Typed, To, Insert
      <3> QED BY <3>1 DEF IInv, Typed, CallRec, CreatePc
    <2>2. CASE Posted(c)
      <3>1. PICK s : s = First(Unused)
        OBVIOUS
      <3>2. s \in Site
        BY <2>2, <3>1, MadeSound DEF At, Creating, CreatePc, Posted
      <3>3. call'[c] = [call[c] EXCEPT !.pc = "register", !.site = s]
        BY <2>2, <3>1 DEF IInv, Typed, Posted
      <3> QED BY <3>2, <3>3, ZenonT(40) DEF IInv, Typed, CallRec, CreatePc
    <2> QED BY <1>2, <2>1, <2>2
  <1>3. CASE Arrives(c)
    BY <1>3, ZenonT(40) DEF IInv, Typed, CallRec, Arrives
  <1>4. CASE ReadFails(c)
    <2>1. call'[c] = [call[c] EXCEPT !.reads = call[c].reads + 1] /\ call[c].reads < 3
      BY <1>4 DEF IInv, Typed, ReadFails
    <2>2. call[c].reads + 1 \in 0..3
      BY <2>1 DEF IInv, Typed, CallRec
    <2> QED BY <2>1, <2>2 DEF IInv, Typed, CallRec
  <1>5. CASE Read(c)
    <2>1. CASE Match(c) # {}
      <3>1. PICK s \in Match(c) : call' = [call EXCEPT ![c].pc = "register", ![c].site = s]
        BY <1>5, <2>1 DEF Read
      <3>2. s \in Site
        BY DEF Match
      <3>3. call'[c] = [call[c] EXCEPT !.pc = "register", !.site = s]
        BY <3>1 DEF IInv, Typed
      <3> QED BY <3>2, <3>3 DEF IInv, Typed, CallRec, CreatePc
    <2>2. CASE Match(c) = {}
      <3>1. call[c].good + 1 \in 0..3 /\ call[c].reads + 1 \in 0..3
        BY <1>5 DEF IInv, Typed, CallRec, SiteSound, Read, At
      <3> QED BY <1>5, <2>2, <3>1 DEF IInv, Typed, CallRec, Read
    <2> QED BY <2>1, <2>2
  <1>6. CASE Decide(c) \/ Register(c)
    BY <1>6 DEF IInv, Typed, CallRec, CreatePc, To, Decide, Register
  <1>7. CASE Refused(c)
    <2>1. \/ call'[c] = Idle \/ call'[c] = [call[c] EXCEPT !.pc = "undo"]
          \/ call'[c] = Recovering(c, FALSE)
      BY <1>7 DEF IInv, Typed, End, Refused
    <2>2. CASE call'[c] = Recovering(c, FALSE)
      BY <2>2, Recovers DEF IInv
    <2> QED BY <2>1, <2>2, IdleTyped DEF IInv, Typed, CallRec, CreatePc
  <1>8. CASE Unanswered(c)
    <2>1. call'[c] = Idle \/ \E late \in BOOLEAN : call'[c] = Recovering(c, late)
      BY <1>8 DEF IInv, Typed, End, Unanswered
    <2> QED BY <2>1, Recovers, IdleTyped DEF IInv
  <1>9. CASE StatementFails(c)
    <2>1. call'[c] = Idle \/ call'[c] = [call[c] EXCEPT !.pc = "undo"]
      BY <1>9 DEF IInv, Typed, End, To, StatementFails
    <2> QED BY <2>1, IdleTyped DEF IInv, Typed, CallRec, CreatePc
  <1>10. CASE DeleteAtCdn(c)
    <2>1. call'[c] = Idle \/ call'[c] = [call[c] EXCEPT !.pc = "del_row"]
      BY <1>10 DEF IInv, Typed, End, To, DeleteAtCdn
    <2> QED BY <2>1, IdleTyped DEF IInv, Typed, CallRec, DeletePc
  <1>11. CASE Creates(c)
    <2>1. PICK op \in {"create", "compat"}, u \in User, d \in Domain : Create(c, op, u, d)
      BY <1>11 DEF Creates
    <2>2. call'[c] = [Idle EXCEPT !.pc = IF op = "create" THEN "insert" ELSE "post",
                        !.op = op, !.user = u, !.domain = d, !.row = begun + 1]
      BY <2>1 DEF IInv, Typed, Create
    <2>3. begun + 1 \in 0..MaxCalls
      BY <2>1, Constants DEF IInv, Typed, Create
    <2>4. PICK pc, i : pc = (IF op = "create" THEN "insert" ELSE "post") /\ i = begun + 1
      OBVIOUS
    <2>5. pc \in CreatePc /\ i \in 0..MaxCalls /\ op \in Op
      BY <2>3, <2>4 DEF CreatePc, Op
    <2> QED BY <2>2, <2>4, <2>5, IdleTyped, ZenonT(40) DEF CallRec
  <1>12. CASE Deletes(c)
    <2>1. PICK op \in {"delete", "compat_delete"}, r \in Row : Delete(c, op, r)
      BY <1>12 DEF Deletes
    <2>2. call'[c] = [Idle EXCEPT !.pc = "del_cdn", !.op = op, !.user = row[r].owner,
                                  !.row = r, !.site = row[r].site]
      BY <2>1 DEF IInv, Typed, Delete
    <2>3. row[r].owner \in User \cup {None} /\ row[r].site \in Site \cup {None} /\ r \in 0..MaxCalls
      BY Constants DEF IInv, Typed, RowRec, Row
    <2> QED BY <2>2, <2>3, IdleTyped DEF CallRec, DeletePc, Op
  <1> QED
    BY <1>1, <1>2, <1>3, <1>4, <1>5, <1>6, <1>7, <1>8, <1>9, <1>10, <1>11,
       <1>12 DEF Act, GoOn

LEMMA FaultsTyped ==
  ASSUME IInv, NEW c \in Call, Act(c)
  PROVE  faults' \in 0..MaxFaults
  <1>1. faults' = faults \/ Fault
    BY
       DEF Act, GoOn, Insert, Posted, Refused, Read, Decide, Register,
           Succeed, Undo, DeleteAtCdn, DeleteRow, Creates, Create, Deletes,
           Delete,
       Unanswered, Arrives, ReadFails, DeleteUnanswered, StatementFails, Crash
  <1> QED BY <1>1, Constants DEF IInv, Typed, Fault

LEMMA TypedStep ==
  ASSUME IInv, NEW c \in Call, Act(c)
  PROVE  Typed'
  <1>1. \A u \in User : lock'[u] \in Call \cup {None}
    BY LocksStay DEF IInv, Typed
  <1>2. \A k \in Call : call'[k] \in CallRec
    BY OthersStay, CallTyped DEF IInv, Typed
  <1>3. cdn' \in [Site -> SiteRec] /\ row' \in [Row -> RowRec]
    BY TablesTyped, SiteStepTyped, RowStepTyped DEF IInv
  <1>4. lock' \in [User -> Call \cup {None}] /\ call' \in [Call -> CallRec]
    BY <1>1, <1>2, TablesTyped DEF IInv
  <1> QED BY <1>3, <1>4, BegunGrows, FaultsTyped DEF Typed

-----------------------------------------------------------------------------
(* What holds of all sites, rows and locks.                                *)
LEMMA SiteFields ==
  ASSUME IInv, NEW c \in Call, Act(c), NEW s \in Site
  PROVE  \/ /\ cdn'[s].by = cdn[s].by /\ cdn'[s].group = cdn[s].group
            /\ cdn'[s].domain = cdn[s].domain
            /\ cdn'[s].there => cdn[s].there
         \/ Creating(c) /\ cdn[s].by = 0 /\ cdn'[s] = Fresh(c)
  <1>1. SiteStep(c, s) /\ cdn[s] \in SiteRec
    BY SiteSteps DEF IInv, Typed
  <1>2. CASE cdn'[s] = [cdn[s] EXCEPT !.there = FALSE]
    BY <1>1, <1>2 DEF SiteRec
  <1> QED BY <1>1, <1>2 DEF SiteStep

(* A site is made by a creation that has made none yet.                    *)
LEMMA MakesOne ==
  ASSUME IInv, NEW c \in Call, Act(c), NEW s \in Site, cdn[s].by = 0, cdn'[s].by # 0
  PROVE  /\ Made(c) /\ Creating(c)
         /\ \A t \in Site : cdn[t].by # call[c].row
  <1>1. CASE Insert(c) \/ Refused(c) \/ Read(c) \/ Decide(c) \/
             Register(c) \/ Succeed(c) \/ Undo(c) \/ DeleteRow(c) \/
             Creates(c) \/ Deletes(c) \/ ReadFails(c) \/
             StatementFails(c)
    BY <1>1
       DEF Insert, Refused, Read, Decide, Register, Succeed, Undo, DeleteRow,
           Creates, Create, Deletes, Delete, ReadFails, StatementFails
  <1>2. CASE DeleteAtCdn(c) \/ DeleteUnanswered(c)
    <2>1. cdn'[s] = cdn[s] \/ cdn'[s] = [cdn[s] EXCEPT !.there = FALSE]
      BY <1>2 DEF IInv, Typed, DeleteAtCdn, DeleteUnanswered
    <2> QED BY <2>1 DEF IInv, Typed, SiteRec
  <1>3. CASE Arrives(c)
    BY <1>3 DEF IInv, HoldSound, SiteSound, Arrives
  <1>4. CASE Posted(c) \/ Unanswered(c) \/ Crash(c)
    BY <1>4
       DEF IInv, SiteSound, At, Creating, CreatePc, Posted, Unanswered, Crash
  <1> QED
    BY <1>1, <1>2, <1>3, <1>4 DEF Act, GoOn

LEMMA SitesStep ==
  ASSUME IInv, NEW c \in Call, Act(c)
  PROVE  SitesSound'
  <1>1. \A s \in Site : cdn[s] \in SiteRec /\ cdn[s].by \in Nat
    BY Constants DEF IInv, Typed, SiteRec
  <1>2. begun' \in Nat /\ begun <= begun' /\ begun \in Nat
    BY BegunGrows, Constants DEF IInv, Typed
  <1>3. ASSUME NEW s \in Site
        PROVE  IF cdn'[s].by = 0 THEN ~cdn'[s].there
               ELSE cdn'[s].by <= begun' /\ cdn'[s].group \in User
    <2>1. IF cdn[s].by = 0 THEN ~cdn[s].there ELSE cdn[s].by <= begun /\ cdn[s].group \in User
      BY DEF IInv, SitesSound
    <2>2. CASE Creating(c) /\ cdn'[s] = Fresh(c)
      <3>1. call[c].row \in 1..begun /\ call[c].user \in User
        BY <2>2 DEF IInv, HoldSound
      <3> QED BY <1>2, <2>2, <3>1 DEF Fresh
    <2>3. CASE /\ cdn'[s].by = cdn[s].by /\ cdn'[s].group = cdn[s].group
               /\ cdn'[s].there => cdn[s].there
      BY <1>1, <1>2, <2>1, <2>3
    <2> QED BY <2>2, <2>3, SiteFields
  <1>4. ASSUME NEW s \in Site, cdn[s].by = 0, cdn'[s].by # 0
        PROVE  \A t \in Site : t # s => cdn'[t].by # cdn'[s].by
    <2>1. Made(c) /\ Creating(c) /\ \A t \in Site : cdn[t].by # call[c].row
      BY <1>4, MakesOne
    <2>2. PICK new \in Site : cdn'[new] = Fresh(c) /\ \A t \in Site \ {new} : cdn'[t] = cdn[t]
      BY <2>1, MadeSound
    <2>3. s = new
      BY <1>4, <2>2
    <2> QED BY <2>1, <2>2, <2>3 DEF Fresh
  <1>5. \A s \in Site : cdn'[s].by = cdn[s].by \/ cdn[s].by = 0
    BY SiteFields
  <1>6. CreatesOnce'
    <2> SUFFICES ASSUME NEW s \in Site, NEW t \in Site, cdn'[s].by # 0, cdn'[s].by = cdn'[t].by, s # t
                 PROVE  FALSE
      BY DEF CreatesOnce
    <2>1. cdn[s].by # 0 /\ cdn[t].by # 0
      BY <1>4
    <2> QED BY <1>5, <2>1 DEF IInv, SitesSound, CreatesOnce
  <1> QED BY <1>3, <1>6 DEF SitesSound

LEMMA RowsStep ==
  ASSUME IInv, NEW c \in Call, Act(c)
  PROVE  RowsSound'
  <1> SUFFICES ASSUME NEW r \in Row, row'[r].there
               PROVE  /\ row'[r].owner \in User /\ row'[r].domain \in Domain /\ r <= begun'
                      /\ row'[r].site # None =>
                           LET s == row'[r].site
                           IN /\ cdn'[s].by # 0 /\ cdn'[s].group = row'[r].owner
                              /\ cdn'[s].domain = row'[r].domain
    BY DEF RowsSound
  <1>1. RowStep(c, r) /\ row[r] \in RowRec /\ row'[r] \in RowRec /\ r \in Nat
    BY RowSteps, RowStepTyped, Constants DEF IInv, Typed, Row
  <1>2. begun' \in Nat /\ begun <= begun' /\ begun \in Nat
    BY BegunGrows, Constants DEF IInv, Typed
  <1>3. ASSUME NEW s \in Site, cdn[s].by # 0
        PROVE  cdn'[s].by # 0 /\ cdn'[s].group = cdn[s].group /\ cdn'[s].domain = cdn[s].domain
    BY <1>3, SiteFields
  <1>4. ASSUME row[r].there
        PROVE  /\ row[r].owner \in User /\ row[r].domain \in Domain /\ r <= begun'
               /\ row[r].site # None =>
                    LET s == row[r].site
                    IN s \in Site /\ cdn[s].by # 0 /\ cdn[s].group = row[r].owner /\ cdn[s].domain = row[r].domain
    BY <1>1, <1>2, <1>4 DEF IInv, RowsSound, RowRec
  <1>5. CASE row'[r] = row[r]
    BY <1>3, <1>4, <1>5
  <1>6. At(c, "register") =>
          /\ call[c].site \in Site /\ cdn[call[c].site].by # 0
          /\ cdn[call[c].site].group = call[c].user /\ cdn[call[c].site].domain = call[c].domain
    BY DEF IInv, SiteSound, SitesSound, At
  <1>7. CASE /\ r = call[c].row /\ Creating(c) /\ (At(c, "insert") \/ At(c, "register"))
             /\ row'[r] = [there |-> TRUE, owner |-> call[c].user, domain |-> call[c].domain,
                           site |-> IF At(c, "insert") THEN None ELSE call[c].site,
                           enabled |-> TRUE]
    <2>1. call[c].user \in User /\ call[c].domain \in Domain /\ r <= begun'
      BY <1>1, <1>2, <1>7 DEF IInv, HoldSound
    <2>2. CASE At(c, "insert")
      BY <1>7, <2>1, <2>2
    <2>3. CASE ~At(c, "insert") /\ At(c, "register")
      BY <1>3, <1>6, <1>7, <2>1, <2>3
    <2> QED BY <1>7, <2>2, <2>3
  <1>8. CASE /\ r = call[c].row /\ At(c, "register") /\ Inserted(c)
             /\ row'[r] = [row[r] EXCEPT !.site = call[c].site]
    <2>1. row[r].there /\ row[r].owner = call[c].user /\ row[r].domain = call[c].domain
      BY <1>8 DEF IInv, RowSound, Inserted, At, Creating, CreatePc
    <2>2. /\ row'[r].owner = row[r].owner /\ row'[r].domain = row[r].domain
          /\ row'[r].site = call[c].site
      BY <1>1, <1>8 DEF RowRec
    <2> QED BY <1>3, <1>4, <1>6, <1>8, <2>1, <2>2
  <1>9. CASE row'[r] = NoRow
    BY <1>9 DEF NoRow
  <1> QED BY <1>1, <1>5, <1>7, <1>8, <1>9 DEF RowStep

LEMMA LimitStep ==
  ASSUME IInv, NEW c \in Call, Act(c)
  PROVE  WithinLimit'
  <1> SUFFICES ASSUME NEW u \in User PROVE Cardinality(Owned(u)') <= Limit
    BY DEF WithinLimit
  <1> DEFINE S == {r \in Row : row[r].there /\ row[r].owner = u}
             T == {r \in Row : row'[r].there /\ row'[r].owner = u}
  <1>1. S = Owned(u) /\ T = Owned(u)' /\ S \in SUBSET Row /\ T \in SUBSET Row
    BY DEF Owned
  <1>2. Cardinality(S) <= Limit
    BY <1>1 DEF IInv, WithinLimit
  <1>3. CASE T \subseteq S
    <2> HIDE DEF S, T
    <2> QED BY <1>1, <1>2, <1>3, FewerOwned, OwnedFinite, Constants
  <1>4. CASE \E r \in T : r \notin S
    <2>1. PICK r \in T : r \notin S
      BY <1>4
    <2>2. /\ RowStep(c, r) /\ row[r] \in RowRec /\ row'[r].there /\ row'[r].owner = u
          /\ ~(row[r].there /\ row[r].owner = u)
      BY <2>1, RowSteps DEF IInv, Typed
    <2>3. Creating(c) /\ ~Inserted(c) /\ r = call[c].row /\ u = call[c].user
      <3>1. CASE At(c, "register") /\ row'[r] = [row[r] EXCEPT !.site = call[c].site]
        BY <2>2, <3>1 DEF RowRec
      <3> QED BY <2>2, <3>1 DEF RowStep, NoRow
    <2>4. Cardinality(S) < Limit
      BY <1>1, <2>3 DEF IInv, RowSound, Inserted
    <2>5. T \subseteq S \cup {r}
      <3> SUFFICES ASSUME NEW q \in T, q # r PROVE q \in S
        OBVIOUS
      <3>1. RowStep(c, q) /\ q # call[c].row
        BY <2>3, RowSteps
      <3> QED BY <3>1 DEF RowStep
    <2>6. r \in Row
      OBVIOUS
    <2> HIDE DEF S, T
    <2> QED BY <1>1, <2>4, <2>5, <2>6, OneMoreOwned
  <1> QED BY <1>3, <1>4

(* Who takes a lock is no longer idle, and keeps it until it is again.     *)
LEMMA OwnLock ==
  ASSUME IInv, NEW c \in Call, Act(c), NEW u \in User, lock'[u] = c
  PROVE  call'[c].pc # "idle" /\ call'[c].user = u
  <1>1. CASE Succeed(c) \/ Undo(c) \/ DeleteRow(c) \/
             DeleteUnanswered(c) \/ Crash(c)
    BY <1>1, Constants
       DEF IInv, Typed, End, Succeed, Undo, DeleteRow, DeleteUnanswered, Crash
  <1>2. CASE Insert(c) \/ Posted(c) \/ Decide(c)
    BY <1>2, Constants
       DEF IInv, Typed, CallRec, LockSound, To, At, Insert, Posted, Decide
  <1>3. CASE Read(c)
    <2>1. lock[u] = c /\ call[c].pc # "idle" /\ call[c].user = u /\ At(c, "recover")
      BY <1>3, Constants DEF IInv, LockSound, Read, At
    <2>2. CASE Match(c) # {}
      BY <1>3, <2>1, <2>2 DEF IInv, Typed, CallRec, Read
    <2>3. CASE Match(c) = {}
      BY <1>3, <2>1, <2>3 DEF IInv, Typed, CallRec, Read, At
    <2> QED BY <2>2, <2>3
  <1>4. CASE Register(c)
    BY <1>4, Constants DEF IInv, Typed, CallRec, LockSound, To, Register
  <1>5. CASE ReadFails(c) \/ Arrives(c)
    BY <1>5, Constants DEF IInv, Typed, CallRec, LockSound, ReadFails, Arrives
  <1>6. CASE Refused(c)
    <2>1. CASE call[c].op = "compat"
      BY <1>6, <2>1, Constants DEF IInv, Typed, End, Refused
    <2>2. CASE call[c].op # "compat"
      <3>1. lock[u] = c /\ call[c].user = u
        BY <1>6, <2>2, Constants DEF IInv, LockSound, Refused
      <3>2. call'[c] = [call[c] EXCEPT !.pc = "undo"] \/ call'[c] = Recovering(c, FALSE)
        BY <1>6, <2>2 DEF IInv, Typed, Refused
      <3>3. CASE call'[c] = Recovering(c, FALSE)
        BY <3>1, <3>3, Recovers DEF IInv
      <3> QED BY <3>1, <3>2, <3>3 DEF IInv, Typed, CallRec
    <2> QED BY <2>1, <2>2
  <1>7. CASE Unanswered(c)
    <2>1. CASE call[c].op = "compat"
      BY <1>7, <2>1, Constants DEF IInv, Typed, End, Unanswered
    <2>2. CASE call[c].op # "compat"
      <3>1. lock[u] = c /\ call[c].user = u
        BY <1>7, <2>2, Constants DEF IInv, LockSound, Unanswered
      <3>2. \E late \in BOOLEAN : call'[c] = Recovering(c, late)
        BY <1>7, <2>2 DEF IInv, Typed, Unanswered
      <3> QED BY <3>1, <3>2, Recovers DEF IInv
    <2> QED BY <2>1, <2>2
  <1>8. CASE StatementFails(c)
    <2>1. CASE call[c].op = "create" /\ call[c].pc \in {"register", "answer"}
      BY <1>8, <2>1, Constants
         DEF IInv, Typed, CallRec, LockSound, To, StatementFails
    <2>2. CASE ~(call[c].op = "create" /\ call[c].pc \in {"register", "answer"})
      BY <1>8, <2>2, Constants DEF IInv, Typed, End, StatementFails
    <2> QED BY <2>1, <2>2
  <1>9. CASE DeleteAtCdn(c)
    <2>1. CASE cdn[call[c].site].there
      BY <1>9, <2>1, Constants
         DEF IInv, Typed, CallRec, LockSound, To, DeleteAtCdn
    <2>2. CASE ~cdn[call[c].site].there
      BY <1>9, <2>2, Constants DEF IInv, Typed, End, DeleteAtCdn
    <2> QED BY <2>1, <2>2
  <1>10. CASE Creates(c)
    <2>1. PICK op \in {"create", "compat"}, v \in User, d \in Domain : Create(c, op, v, d)
      BY <1>10 DEF Creates
    <2>2. lock[u] # c
      BY <2>1, Constants DEF IInv, LockSound, Create, At
    <2>3. u = v
      BY <2>1, <2>2 DEF IInv, Typed, Create, Enter
    <2> QED BY <2>1, <2>3 DEF IInv, Typed, Create, Idle
  <1>11. CASE Deletes(c)
    <2>1. PICK op \in {"delete", "compat_delete"}, r \in Row : Delete(c, op, r)
      BY <1>11 DEF Deletes
    <2>2. lock[u] # c
      BY <2>1, Constants DEF IInv, LockSound, Delete, At
    <2>3. u = row[r].owner
      BY <2>1, <2>2 DEF IInv, Typed, Delete, Enter
    <2> QED BY <2>1, <2>3 DEF IInv, Typed, Delete, Idle
  <1> QED
    BY <1>1, <1>2, <1>3, <1>4, <1>5, <1>6, <1>7, <1>8, <1>9, <1>10, <1>11
       DEF Act, GoOn

LEMMA LocksStep ==
  ASSUME IInv, NEW c \in Call, Act(c)
  PROVE  LockSound'
  <1> SUFFICES ASSUME NEW u \in User, lock'[u] # None
               PROVE  call'[lock'[u]].pc # "idle" /\ call'[lock'[u]].user = u
    BY DEF LockSound
  <1>1. CASE lock'[u] = c
    BY <1>1, OwnLock
  <1>2. CASE lock'[u] # c
    <2>1. lock'[u] = lock[u] /\ lock[u] \in Call
      BY <1>2, LocksStay DEF IInv, Typed
    <2>2. call'[lock[u]] = call[lock[u]]
      BY <1>2, <2>1, OthersStay DEF IInv
    <2> QED BY <2>1, <2>2 DEF IInv, LockSound
  <1> QED BY <1>1, <1>2

-----------------------------------------------------------------------------
(* Turning a site on or off changes nothing but that, and not for a row    *)
(* whose customer's lock is held.                                          *)
LEMMA ToggleFields ==
  ASSUME Typed, NEW r \in Row, Toggle(r), NEW q \in Row
  PROVE  /\ row'[q].there = row[q].there /\ row'[q].owner = row[q].owner
         /\ row'[q].domain = row[q].domain /\ row'[q].site = row[q].site
         /\ q # r => row'[q] = row[q]
  BY DEF Typed, RowRec, Toggle

LEMMA ToggleSound ==
  ASSUME IInv, NEW r \in Row, Toggle(r)
  PROVE  IInv'
  <1>1. UNCHANGED <<cdn, lock, call, begun, faults>>
    BY DEF Toggle
  <1>2. \A q \in Row :
          /\ row'[q].there = row[q].there /\ row'[q].owner = row[q].owner
          /\ row'[q].domain = row[q].domain /\ row'[q].site = row[q].site
    BY ToggleFields DEF IInv
  <1>3. Typed'
    <2>1. row' \in [Row -> RowRec]
      <3> DEFINE on == ~row[r].enabled
      <3>1. on \in BOOLEAN
        OBVIOUS
      <3>2. row' = [row EXCEPT ![r].enabled = on]
        BY DEF Toggle
      <3> HIDE DEF on
      <3> QED BY <3>1, <3>2 DEF IInv, Typed, RowRec
    <2> QED BY <1>1, <2>1 DEF IInv, Typed
  <1>4. SitesSound' /\ LockSound'
    BY <1>1 DEF IInv, SitesSound, CreatesOnce, LockSound
  <1>5. RowsSound'
    BY <1>1, <1>2 DEF IInv, RowsSound
  <1>6. WithinLimit'
    <2>1. \A u \in User : Owned(u)' = Owned(u)
      BY <1>2 DEF Owned
    <2> QED BY <2>1 DEF IInv, WithinLimit
  <1>7. ASSUME NEW k \in Call PROVE HoldSound(k)' /\ SiteSound(k)' /\ DeleteSound(k)'
    <2>1. HoldSound(k)'
      BY <1>1 DEF IInv, HoldSound, Creating, Deleting
    <2>2. DeleteSound(k)'
      <3>1. Deleting(k) => call[k].row \in Row
        BY Constants DEF IInv, Typed, DeleteSound, Row
      <3> QED BY <1>1, <1>2, <3>1 DEF IInv, DeleteSound, Deleting
    <2>3. SiteSound(k)'
      <3>1. call[k].pc = "answer" => call[k].row \in Row
        BY Constants DEF IInv, Typed, HoldSound, Row, Creating, CreatePc
      <3>2. \A s : Taken(s)' <=> Taken(s)
        BY <1>2 DEF Taken
      <3> QED BY <1>1, <1>2, <3>1, <3>2 DEF IInv, SiteSound, Taken
    <2> QED BY <2>1, <2>2, <2>3
  <1>8. ASSUME NEW k \in Call PROVE RowSound(k)'
    <2>1. ASSUME Creating(k) PROVE call[k].row # r
      <3>1. /\ call[k].user \in User /\ lock[call[k].user] = k
            /\ row[r].there /\ lock[row[r].owner] = None
        BY <2>1 DEF IInv, HoldSound, Toggle
      <3>2. row[call[k].row].there => row[call[k].row].owner = call[k].user
        BY <2>1 DEF IInv, RowSound
      <3> QED BY <3>1, <3>2, Constants
    <2>2. Creating(k) => \A q \in Row :
            /\ q = call[k].row => row'[q] = row[q]
            /\ row'[q].there /\ row'[q].owner = call[k].user =>
                 row[q].there /\ row[q].owner = call[k].user /\ row'[q].domain = row[q].domain
      BY <1>2, <2>1, ToggleFields DEF IInv
    <2> QED BY <1>1, <2>2, RowKept DEF IInv
  <1> QED BY <1>3, <1>4, <1>5, <1>6, <1>7, <1>8 DEF IInv

LEMMA IdleSound ==
  ASSUME IInv, UNCHANGED vars
  PROVE  IInv'
  <1>1. UNCHANGED <<cdn, row, lock, call, begun, faults>>
    BY DEF vars
  <1>2. Typed' /\ SitesSound' /\ RowsSound' /\ LockSound'
    BY <1>1 DEF IInv, Typed, SitesSound, CreatesOnce, RowsSound, LockSound
  <1>3. \A u : Owned(u)' = Owned(u)
    BY <1>1 DEF Owned
  <1>4. WithinLimit'
    BY <1>3 DEF IInv, WithinLimit
  <1>5. ASSUME NEW k \in Call
        PROVE  HoldSound(k)' /\ RowSound(k)' /\ SiteSound(k)' /\ DeleteSound(k)'
    <2>1. HoldSound(k)' /\ SiteSound(k)' /\ DeleteSound(k)'
      BY <1>1, <1>5
         DEF IInv, HoldSound, SiteSound, DeleteSound, Creating, Deleting,
             Taken
    <2>2. RowSound(k)'
      BY <1>1, RowKept DEF IInv
    <2> QED BY <2>1, <2>2
  <1> QED BY <1>2, <1>4, <1>5 DEF IInv

LEMMA InductiveStep ==
  ASSUME IInv, Admin = {}, [Next]_vars
  PROVE  IInv'
  <1>1. ASSUME NEW c \in Call, Act(c) PROVE IInv'
    <2>1. \A k \in Call : HoldSound(k)' /\ RowSound(k)' /\ SiteSound(k)' /\ DeleteSound(k)'
      BY <1>1, OwnStep, OthersHold, OthersRow, OthersSite, OthersDelete
         DEF OwnSound
    <2> QED BY <1>1, <2>1, TypedStep, SitesStep, RowsStep, LimitStep,
               LocksStep DEF IInv
  <1>2. ASSUME NEW r \in Row, Toggle(r) PROVE IInv'
    BY <1>2, ToggleSound
  <1>3. CASE UNCHANGED vars
    BY <1>3, IdleSound
  <1> QED BY <1>1, <1>2, <1>3 DEF Next, Act, Creates, Deletes

LEMMA Initially ==
  ASSUME Init
  PROVE  IInv
  <1>1. Typed
    BY Constants, IdleTyped DEF Init, Typed, NoSite, NoRow, SiteRec, RowRec
  <1>2. SitesSound /\ RowsSound /\ LockSound
    BY DEF Init, SitesSound, CreatesOnce, RowsSound, LockSound, NoSite, NoRow
  <1>3. WithinLimit
    <2>1. \A u \in User : Owned(u) = {}
      BY DEF Init, Owned, NoRow
    <2> QED BY <2>1, FS_EmptySet, Constants DEF WithinLimit
  <1>4. \A c \in Call : HoldSound(c) /\ RowSound(c) /\ SiteSound(c) /\ DeleteSound(c)
    BY
       DEF Init, HoldSound, RowSound, SiteSound, DeleteSound, Creating,
           Deleting, CreatePc,
           DeletePc, Idle
  <1> QED BY <1>1, <1>2, <1>3, <1>4 DEF IInv

-----------------------------------------------------------------------------
(* The invariant holds as long as all who create take the customer's lock. *)
THEOREM Invariance ==
  ASSUME Admin = {}
  PROVE  Spec => []IInv
  <1>1. Init => IInv
    BY Initially
  <1>2. IInv /\ [Next]_vars => IInv'
    BY InductiveStep
  <1> QED BY <1>1, <1>2, PTL DEF Spec

(* No row ever stands for another customer's site: what a creation finds   *)
(* by its domain has the customer's own group.                             *)
THEOREM OwnersStay ==
  ASSUME Admin = {}
  PROVE  Spec => []OwnerSound
  <1>1. IInv => OwnerSound
    BY DEF IInv, RowsSound, OwnerSound
  <1> QED BY <1>1, Invariance, PTL

(* A creation makes one site at the most, whether or not its POST is       *)
(* answered, lost or late, and is made again; and the rows of a customer   *)
(* never exceed its subscription.                                          *)
THEOREM CreatesStaySound ==
  ASSUME Admin = {}
  PROVE  Spec => []CreatesSound
  <1>1. IInv => CreatesSound
    <2> SUFFICES ASSUME IInv PROVE TypeOK /\ CreatesOnce /\ WithinLimit
      BY DEF CreatesSound
    <2>1. \A s \in Site : cdn[s].there => cdn[s].group \in User /\ cdn[s].by \in 1..begun
      <3> SUFFICES ASSUME NEW s \in Site, cdn[s].there
                   PROVE  cdn[s].group \in User /\ cdn[s].by \in 1..begun
        OBVIOUS
      <3>1. cdn[s].by # 0 /\ cdn[s].by <= begun /\ cdn[s].group \in User
        BY DEF IInv, SitesSound
      <3> QED BY <3>1, Constants DEF IInv, Typed, SiteRec
    <2>2. \A r \in Row : row[r].there =>
             /\ row[r].owner \in User /\ row[r].domain \in Domain
             /\ row[r].site \in Site \cup {None} /\ r <= begun
      BY DEF IInv, RowsSound, Typed, RowRec
    <2>3. \A c \in Call : call[c].op \in Op \cup {None} /\ call[c].reads \in 0..3 /\ call[c].tries \in 0..1
      BY DEF IInv, Typed, CallRec
    <2>4. TypeOK
      BY <2>1, <2>2, <2>3 DEF IInv, Typed, LockSound, TypeOK
    <2> QED BY <2>4 DEF IInv, SitesSound
  <1> QED BY <1>1, Invariance, PTL

(* A creation that is reported as a success has a row, and a site of the   *)
(* domain at the CDN: that nobody deletes the site before it is reported   *)
(* follows from the locks.                                                 *)
THEOREM SuccessHasSite ==
  ASSUME Admin = {}
  PROVE  Spec => SuccessMeansSite
  <1>1. ASSUME IInv, NEW c \in Call, At(c, "answer")
        PROVE  \E r \in Row : /\ r = call[c].row /\ row[r].there /\ row[r].site # None
                              /\ cdn[row[r].site].there /\ cdn[row[r].site].domain = call[c].domain
    <2>1. Creating(c) /\ call[c].pc = "answer"
      BY <1>1 DEF At, Creating, CreatePc
    <2>2. call[c].row \in Row /\ row[call[c].row].there
      BY <1>1, <2>1, Apart, Constants
         DEF IInv, HoldSound, RowSound, Typed, Row
    <2>3. /\ call[c].site \in Site /\ row[call[c].row].site = call[c].site
          /\ cdn[call[c].site].there /\ cdn[call[c].site].domain = call[c].domain
      BY <1>1, <2>1 DEF IInv, SiteSound
    <2> QED BY <2>2, <2>3, Constants
  <1>2. IInv /\ [Next]_vars =>
          [\A c \in Call : At(c, "answer") /\ call'[c].pc = "idle" /\ faults' = faults =>
             \E r \in Row : /\ r = call[c].row /\ row[r].there /\ row[r].site # None
                            /\ cdn[row[r].site].there /\ cdn[row[r].site].domain = call[c].domain]_vars
    BY <1>1
  <1> QED BY <1>2, Invariance, PTL DEF Spec, SuccessMeansSite

-----------------------------------------------------------------------------
(* Leftovers.  Each creation that has left something, or still may, has a  *)
(* failure of its own: a site that no row has and none is about to have, a *)
(* row without a site that nobody is working on, and a creation under way  *)
(* that has gone without an answer.                                        *)
Linking(s) == \E c \in Call : At(c, "register") /\ call[c].site = s
Undone(r) == \E c \in Call : At(c, "undo") /\ call[c].row = r

SiteOwed(s) ==
  /\ cdn[s].there
  /\ IF Taken(s) THEN \E r \in Row : row[r].there /\ row[r].site = s /\ Undone(r) ELSE ~Linking(s)

WorkPc == {"post", "recover", "register", "undo", "del_row"}
RowOwed(r) ==
  /\ row[r].there /\ (row[r].site # None => ~cdn[row[r].site].there)
  /\ \A c \in Call : call[c].row = r => call[c].pc \notin WorkPc

Doubtful(c) ==
  /\ Creating(c)
  /\ \/ At(c, "recover") \/ call[c].tries = 1 \/ call[c].late
     \/ call[c].pc \in {"register", "answer"} /\ cdn[call[c].site].by # call[c].row

Owes(n) ==
  \/ \E s \in Site : SiteOwed(s) /\ cdn[s].by = n
  \/ RowOwed(n)
  \/ \E c \in Call : Doubtful(c) /\ call[c].row = n

Owed == {n \in Row : Owes(n)}

(* The index of the table: no two rows have one site.                      *)
RowsApart ==
  \A r, q \in Row : row[r].there /\ row[q].there /\ row[r].site = row[q].site /\ row[r].site # None => r = q

OwedInv == RowsApart /\ Cardinality(Owed) <= faults

LEMMA OtherDoubts ==
  ASSUME IInv, NEW c \in Call, Act(c), NEW k \in Call, k # c, Doubtful(k)'
  PROVE  Doubtful(k) /\ call'[k].row = call[k].row
  <1>1. call'[k] = call[k]
    BY OthersStay DEF IInv
  <1>2. Creating(k)
    BY <1>1 DEF Doubtful, Creating
  <1>3. CASE call[k].pc \in {"register", "answer"}
    <2>1. call[k].site \in Site /\ cdn[call[k].site].there
      BY <1>3 DEF IInv, SiteSound
    <2>2. PICK s \in Site : s = call[k].site
      BY <2>1
    <2>3. cdn[s].by # 0
      BY <2>1, <2>2 DEF IInv, SitesSound
    <2>4. cdn'[s].by = cdn[s].by
      BY <2>3, SiteFields
    <2> QED BY <1>1, <1>2, <2>2, <2>4 DEF Doubtful, At
  <1> QED BY <1>1, <1>2, <1>3 DEF Doubtful, At

(* How a creation can come to owe something in a step that leaves the rows *)
(* alone.                                                                  *)
MadeOwed(c) ==
  \E s \in Site : Creating(c) /\ cdn[s].by = 0 /\ cdn'[s] = Fresh(c) /\ cdn'[s] # cdn[s] /\ SiteOwed(s)'
Unlinked(c) ==
  At(c, "register") /\ call[c].site \in Site /\ ~(call'[c].pc = "register" /\ call'[c].site = call[c].site)
Undoing(c, n) ==
  /\ call'[c].pc = "undo" /\ call'[c].row \in Row
  /\ \E s \in Site : /\ row[call'[c].row].there /\ row[call'[c].row].site = s
                     /\ cdn[s].there /\ cdn[s].by = n /\ ~SiteOwed(s)
LeftAlone(c, n) ==
  /\ call[c].row = n /\ call[c].pc \in WorkPc /\ ~(call'[c].row = n /\ call'[c].pc \in WorkPc)
  /\ row[n].there
SiteGone(c, n) ==
  /\ At(c, "del_cdn") /\ row[n].there /\ row[n].site = call[c].site
  /\ cdn[call[c].site].there /\ ~cdn'[call[c].site].there
  /\ ~(call'[c].row = n /\ call'[c].pc \in WorkPc)

LEMMA SitesOwed ==
  ASSUME IInv, NEW c \in Call, Act(c), UNCHANGED row, NEW s \in Site, SiteOwed(s)', ~SiteOwed(s), NEW n, cdn'[s].by = n
  PROVE  \/ MadeOwed(c) /\ n = call[c].row
         \/ Unlinked(c) /\ n = cdn[call[c].site].by
         \/ Undoing(c, n)
  <1>1. CASE cdn'[s] = cdn[s]
    <2>1. cdn[s].there /\ cdn[s].by = n
      BY <1>1 DEF SiteOwed
    <2>2. CASE Taken(s)
      <3>1. Taken(s)'
        BY <2>2 DEF Taken
      <3>2. PICK r \in Row, k \in Call : row[r].there /\ row[r].site = s /\ At(k, "undo")' /\ call'[k].row = r
        BY <3>1 DEF SiteOwed, Undone
      <3>3. ~Undone(r)
        BY <2>1, <2>2, <3>2 DEF SiteOwed
      <3>4. k = c
        BY <3>2, <3>3, OthersStay DEF IInv, Undone, At
      <3> QED BY <2>1, <3>2, <3>4 DEF Undoing, At
    <2>3. CASE ~Taken(s)
      <3>1. ~Taken(s)'
        BY <2>3 DEF Taken
      <3>2. PICK k \in Call : At(k, "register") /\ call[k].site = s
        BY <2>1, <2>3 DEF SiteOwed, Linking
      <3>3. ~Linking(s)'
        BY <3>1 DEF SiteOwed
      <3>4. k = c
        BY <3>2, <3>3, OthersStay DEF IInv, Linking, At
      <3>5. ~(call'[c].pc = "register" /\ call'[c].site = s)
        BY <3>3 DEF Linking, At
      <3> QED BY <2>1, <3>2, <3>4, <3>5 DEF Unlinked
    <2> QED BY <2>2, <2>3
  <1>2. CASE cdn'[s] # cdn[s] /\ Creating(c) /\ cdn[s].by = 0 /\ cdn'[s] = Fresh(c)
    BY <1>2 DEF MadeOwed, Fresh
  <1>3. CASE cdn'[s] = [cdn[s] EXCEPT !.there = FALSE]
    <2>1. ~cdn'[s].there
      BY <1>3 DEF IInv, Typed, SiteRec
    <2> QED BY <2>1 DEF SiteOwed
  <1> QED BY <1>1, <1>2, <1>3, SiteSteps DEF SiteStep

LEMMA RowsOwed ==
  ASSUME IInv, NEW c \in Call, Act(c), UNCHANGED row, NEW n \in Row, RowOwed(n)', ~RowOwed(n)
  PROVE  LeftAlone(c, n) \/ SiteGone(c, n)
  <1>1. /\ row[n].there /\ (row[n].site # None => ~cdn'[row[n].site].there)
        /\ \A k \in Call : call'[k].row = n => call'[k].pc \notin WorkPc
    BY DEF RowOwed
  <1>2. CASE row[n].site # None /\ cdn[row[n].site].there
    <2>1. row[n].site \in Site /\ cdn[row[n].site].by # 0
      BY <1>1, <1>2 DEF IInv, RowsSound, Typed, RowRec
    <2>2. PICK s \in Site : s = row[n].site
      BY <2>1
    <2>3. At(c, "del_cdn") /\ s = call[c].site
      BY <1>1, <1>2, <2>1, <2>2, SiteSteps DEF SiteStep
    <2> QED BY <1>1, <1>2, <2>2, <2>3 DEF SiteGone
  <1>3. CASE row[n].site # None => ~cdn[row[n].site].there
    <2>1. PICK k \in Call : call[k].row = n /\ call[k].pc \in WorkPc
      BY <1>1, <1>3 DEF RowOwed
    <2>2. k = c
      BY <1>1, <2>1, OthersStay DEF IInv
    <2> QED BY <1>1, <2>1, <2>2 DEF LeftAlone
  <1> QED BY <1>2, <1>3

LEMMA NewlyOwed ==
  ASSUME IInv, NEW c \in Call, Act(c), UNCHANGED row, NEW n \in Row, Owes(n)', ~Owes(n)
  PROVE  \/ MadeOwed(c) /\ n = call[c].row
         \/ Unlinked(c) /\ n = cdn[call[c].site].by
         \/ Undoing(c, n) \/ LeftAlone(c, n) \/ SiteGone(c, n)
         \/ Doubtful(c)' /\ call'[c].row = n
  <1>1. CASE RowOwed(n)'
    BY <1>1, RowsOwed DEF Owes
  <1>2. CASE \E s \in Site : SiteOwed(s)' /\ cdn'[s].by = n
    <2>1. PICK s \in Site : SiteOwed(s)' /\ cdn'[s].by = n
      BY <1>2
    <2>2. CASE SiteOwed(s)
      <3>1. cdn[s].by # 0
        BY <2>2 DEF SiteOwed, IInv, SitesSound
      <3>2. cdn'[s].by = cdn[s].by
        BY <3>1, SiteFields
      <3> QED BY <2>1, <2>2, <3>2 DEF Owes
    <2>3. CASE ~SiteOwed(s)
      BY <2>1, <2>3, SitesOwed
    <2> QED BY <2>2, <2>3
  <1>3. CASE \E k \in Call : Doubtful(k)' /\ call'[k].row = n
    <2>1. PICK k \in Call : Doubtful(k)' /\ call'[k].row = n
      BY <1>3
    <2>2. CASE k # c
      BY <2>1, <2>2, OtherDoubts DEF Owes
    <2> QED BY <2>1, <2>2
  <1> QED BY <1>1, <1>2, <1>3 DEF Owes

-----------------------------------------------------------------------------
(* The steps that leave the rows alone.                                    *)
NoneOwed == \A n \in Row : Owes(n)' => Owes(n)
OneOwed == \E m \in 0..MaxCalls : \A n \in Row : Owes(n)' => Owes(n) \/ n = m

LEMMA OwnDoubts ==
  ASSUME NEW c \in Call, Doubtful(c)
  PROVE  Owes(call[c].row)
  BY DEF Owes

LEMMA OwnRow ==
  ASSUME IInv, NEW c \in Call, Creating(c) \/ Deleting(c)
  PROVE  call[c].row \in Row /\ call[c].row \in 0..MaxCalls
  <1>1. call[c].row \in 1..begun
    BY DEF IInv, HoldSound, DeleteSound
  <1>2. begun \in 0..MaxCalls
    BY DEF IInv, Typed
  <1> QED BY <1>1, <1>2, Constants DEF Row

(* A creation that goes on with its row, and is no more doubtful than it   *)
(* was, owes nothing new.                                                  *)
LEMMA GoesOnOwing ==
  ASSUME IInv, NEW c \in Call, Act(c), UNCHANGED <<cdn, row>>,
         call'[c].row = call[c].row, call[c].pc \in WorkPc => call'[c].pc \in WorkPc,
         call[c].pc # "register" \/ (call'[c].pc = "register" /\ call'[c].site = call[c].site),
         call'[c].pc = "undo" => call[c].pc = "undo" \/ (call[c].row \in Row /\ row[call[c].row].site = None),
         Doubtful(c)' => Doubtful(c)
  PROVE  NoneOwed
  <1> SUFFICES ASSUME NEW n \in Row, Owes(n)', ~Owes(n) PROVE FALSE
    BY DEF NoneOwed
  <1>1. ~MadeOwed(c) /\ ~SiteGone(c, n) /\ ~Unlinked(c) /\ ~LeftAlone(c, n)
    BY DEF MadeOwed, SiteGone, Unlinked, LeftAlone, At
  <1>2. ~Undoing(c, n)
    <2> SUFFICES ASSUME Undoing(c, n) PROVE FALSE
      OBVIOUS
    <2>1. PICK s \in Site : row[call[c].row].there /\ row[call[c].row].site = s /\ cdn[s].there /\ ~SiteOwed(s)
      BY DEF Undoing
    <2>2. call[c].pc = "undo" /\ call[c].row \in Row
      BY <2>1, Constants DEF Undoing
    <2>3. Taken(s) /\ Undone(call[c].row)
      BY <2>1, <2>2 DEF Taken, Undone, At
    <2> QED BY <2>1, <2>2, <2>3 DEF SiteOwed
  <1>3. ~(Doubtful(c)' /\ call'[c].row = n)
    BY OwnDoubts
  <1> QED BY <1>1, <1>2, <1>3, NewlyOwed

LEMMA PostedOwes ==
  ASSUME IInv, NEW c \in Call, Posted(c)
  PROVE  NoneOwed
  <1> SUFFICES ASSUME NEW n \in Row, Owes(n)', ~Owes(n) PROVE FALSE
    BY DEF NoneOwed
  <1>1. call[c].pc = "post" /\ Made(c) /\ Act(c) /\ Creating(c) /\ UNCHANGED row
    BY DEF Posted, At, Act, GoOn, Creating, CreatePc
  <1>2. PICK new \in Site : /\ new = First(Unused) /\ cdn'[new] = Fresh(c) /\ ~Taken(new)
                            /\ \A s \in Site \ {new} : cdn'[s] = cdn[s]
    BY <1>1, MadeSound
  <1>3. /\ call'[c].pc = "register" /\ call'[c].site = new /\ call'[c].row = call[c].row
        /\ call'[c].late = call[c].late /\ call'[c].tries = call[c].tries
    BY <1>2 DEF IInv, Typed, CallRec, Posted
  <1>4. ~SiteOwed(new)'
    <2>1. Linking(new)' /\ ~Taken(new)'
      BY <1>1, <1>2, <1>3 DEF Linking, At, Taken
    <2> QED BY <2>1 DEF SiteOwed
  <1>5. ~MadeOwed(c)
    BY <1>2, <1>4 DEF MadeOwed
  <1>6. ~Unlinked(c) /\ ~Undoing(c, n) /\ ~LeftAlone(c, n) /\ ~SiteGone(c, n)
    BY <1>1, <1>3 DEF Unlinked, Undoing, LeftAlone, SiteGone, At, WorkPc
  <1>7. cdn'[call'[c].site].by = call'[c].row
    BY <1>2, <1>3 DEF Fresh
  <1>8. Doubtful(c)' => Doubtful(c)
    BY <1>1, <1>3, <1>7 DEF Doubtful, At
  <1> QED BY <1>1, <1>3, <1>5, <1>6, <1>8, NewlyOwed, OwnDoubts

LEMMA RefusedOwes ==
  ASSUME IInv, NEW c \in Call, Refused(c)
  PROVE  NoneOwed
  <1>1. call[c].pc = "post" /\ Act(c) /\ Creating(c) /\ UNCHANGED <<cdn, row>> /\ call[c].row \in Row
    BY OwnRow DEF Refused, At, Act, GoOn, Creating, CreatePc
  <1>2. CASE call[c].op = "compat"
    <2>1. call'[c] = Idle
      BY <1>2, Ends DEF Refused
    <2>2. ~row[call[c].row].there
      BY <1>1, <1>2 DEF IInv, RowSound, Inserted
    <2> SUFFICES ASSUME NEW n \in Row, Owes(n)', ~Owes(n) PROVE FALSE
      BY DEF NoneOwed
    <2>3. ~MadeOwed(c) /\ ~Unlinked(c) /\ ~SiteGone(c, n) /\ ~LeftAlone(c, n)
      BY <1>1, <2>2 DEF MadeOwed, Unlinked, SiteGone, LeftAlone, At
    <2>4. ~Undoing(c, n) /\ ~Doubtful(c)'
      BY <2>1 DEF Undoing, Doubtful, Creating, CreatePc, Idle
    <2> QED BY <1>1, <2>3, <2>4, NewlyOwed
  <1>3. CASE call[c].op # "compat"
    <2>1. row[call[c].row].site = None
      BY <1>1, <1>3 DEF IInv, HoldSound, RowSound, Inserted
    <2>2. CASE call[c].tries = 0
      <3>1. /\ call'[c].pc = "undo" /\ call'[c].row = call[c].row
            /\ call'[c].tries = call[c].tries /\ call'[c].late = call[c].late
        BY <1>3, <2>2 DEF Refused, IInv, Typed, CallRec
      <3>2. Doubtful(c)' => Doubtful(c)
        BY <1>1, <3>1 DEF Doubtful, At
      <3> QED BY <1>1, <2>1, <3>1, <3>2, GoesOnOwing DEF WorkPc
    <2>3. CASE call[c].tries # 0
      <3>1. call'[c] = Recovering(c, FALSE)
        BY <1>3, <2>3 DEF Refused, IInv, Typed
      <3>2. call'[c].pc = "recover" /\ call'[c].row = call[c].row
        BY <3>1, Recovers DEF IInv
      <3>3. Doubtful(c)
        BY <1>1, <2>3 DEF Doubtful, IInv, Typed, CallRec
      <3> QED BY <1>1, <3>2, <3>3, GoesOnOwing DEF WorkPc
    <2> QED BY <2>2, <2>3
  <1> QED BY <1>2, <1>3

LEMMA ArrivesOwes ==
  ASSUME IInv, NEW c \in Call, Arrives(c)
  PROVE  NoneOwed
  <1> SUFFICES ASSUME NEW n \in Row, Owes(n)', ~Owes(n) PROVE FALSE
    BY DEF NoneOwed
  <1>1. Act(c) /\ call[c].late /\ Creating(c) /\ UNCHANGED row /\ call[c].row \in Row
    BY OwnRow DEF Arrives, Act, IInv, HoldSound
  <1>2. call'[c].pc = call[c].pc /\ call'[c].row = call[c].row /\ call'[c].site = call[c].site
    BY DEF Arrives, IInv, Typed, CallRec
  <1>3. Doubtful(c)
    BY <1>1 DEF Doubtful
  <1>4. n # call[c].row
    BY <1>3, OwnDoubts
  <1>5. ~Unlinked(c) /\ ~LeftAlone(c, n) /\ ~SiteGone(c, n)
    BY <1>1, <1>2 DEF Unlinked, LeftAlone, SiteGone, At, Creating, CreatePc
  <1>6. ~Undoing(c, n)
    <2> SUFFICES ASSUME Undoing(c, n) PROVE FALSE
      OBVIOUS
    <2>1. PICK s \in Site : row[call[c].row].there /\ row[call[c].row].site = s /\ cdn[s].there /\ ~SiteOwed(s)
      BY <1>2 DEF Undoing
    <2>2. Taken(s) /\ Undone(call[c].row)
      BY <1>1, <1>2, <2>1 DEF Taken, Undone, Undoing, At
    <2> QED BY <1>1, <2>1, <2>2 DEF SiteOwed
  <1> QED BY <1>1, <1>2, <1>4, <1>5, <1>6, NewlyOwed

(* While the site is looked for the creation is doubtful.                  *)
LEMMA LooksOwes ==
  ASSUME IInv, NEW c \in Call, Read(c) \/ ReadFails(c) \/ Decide(c)
  PROVE  NoneOwed
  <1>1. call[c].pc = "recover" /\ Act(c) /\ Creating(c) /\ UNCHANGED <<cdn, row>> /\ call[c].row \in Row
    BY OwnRow DEF Read, ReadFails, Decide, At, Act, GoOn, Creating, CreatePc
  <1>2. call[c].op = "create"
    BY <1>1 DEF IInv, HoldSound
  <1>3. row[call[c].row].site = None
    BY <1>1, <1>2 DEF IInv, RowSound, Inserted
  <1>4. call'[c].row = call[c].row /\ call'[c].pc \in {"register", "recover", "post", "undo"}
    BY <1>1 DEF Read, ReadFails, Decide, IInv, Typed, CallRec
  <1>5. Doubtful(c)
    BY <1>1 DEF Doubtful, At
  <1> QED BY <1>1, <1>3, <1>4, <1>5, GoesOnOwing DEF WorkPc

LEMMA BeginsOwes ==
  ASSUME IInv, NEW c \in Call, Creates(c) \/ Deletes(c) \/ Succeed(c)
  PROVE  NoneOwed
  <1> SUFFICES ASSUME NEW n \in Row, Owes(n)', ~Owes(n) PROVE FALSE
    BY DEF NoneOwed
  <1>1. call[c].pc \in {"idle", "answer"} /\ UNCHANGED <<cdn, row>> /\ Act(c)
    BY DEF Creates, Create, Deletes, Delete, Succeed, At, Act, GoOn
  <1>2. /\ call'[c].pc \in {"idle", "insert", "post", "del_cdn"}
        /\ call'[c].tries = 0 /\ ~call'[c].late
    <2>1. CASE Creates(c)
      <3>1. PICK op \in {"create", "compat"}, u \in User, d \in Domain : Create(c, op, u, d)
        BY <2>1 DEF Creates
      <3>2. call'[c] = [Idle EXCEPT !.pc = IF op = "create" THEN "insert" ELSE "post",
                          !.op = op, !.user = u, !.domain = d, !.row = begun + 1]
        BY <3>1 DEF Create, IInv, Typed
      <3> QED BY <3>2 DEF Idle
    <2>2. CASE Deletes(c)
      <3>1. PICK op \in {"delete", "compat_delete"}, q \in Row : Delete(c, op, q)
        BY <2>2 DEF Deletes
      <3>2. call'[c] = [Idle EXCEPT !.pc = "del_cdn", !.op = op, !.user = row[q].owner,
                          !.row = q, !.site = row[q].site]
        BY <3>1 DEF Delete, IInv, Typed
      <3> QED BY <3>2 DEF Idle
    <2>3. CASE Succeed(c)
      BY <2>3, Ends DEF Succeed, Idle
    <2> QED BY <2>1, <2>2, <2>3
  <1>3. ~MadeOwed(c) /\ ~Unlinked(c) /\ ~SiteGone(c, n) /\ ~LeftAlone(c, n)
    BY <1>1 DEF MadeOwed, Unlinked, SiteGone, LeftAlone, At, WorkPc
  <1>4. ~Undoing(c, n) /\ ~Doubtful(c)'
    BY <1>2 DEF Undoing, Doubtful, At
  <1> QED BY <1>1, <1>3, <1>4, NewlyOwed

LEMMA DeleteAtCdnOwes ==
  ASSUME IInv, RowsApart, NEW c \in Call, DeleteAtCdn(c) \/ DeleteUnanswered(c)
  PROVE  OneOwed /\ (DeleteAtCdn(c) => NoneOwed)
  <1>1. /\ call[c].pc = "del_cdn" /\ UNCHANGED row /\ Act(c)
        /\ call[c].row \in Row /\ call[c].row \in 0..MaxCalls
    BY OwnRow DEF DeleteAtCdn, DeleteUnanswered, At, Act, GoOn, Deleting, DeletePc
  <1>2. /\ call'[c].pc \in {"idle", "del_row"}
        /\ call'[c].pc = "del_row" => call'[c].row = call[c].row
        /\ DeleteAtCdn(c) /\ cdn[call[c].site].there => call'[c].pc = "del_row"
        /\ DeleteAtCdn(c) /\ ~cdn[call[c].site].there => UNCHANGED cdn
    BY Ends, Goes DEF DeleteAtCdn, DeleteUnanswered, Idle, IInv
  <1>3. ASSUME NEW n \in Row, Owes(n)', ~Owes(n)
        PROVE  n = call[c].row /\ ~DeleteAtCdn(c)
    <2>1. ~MadeOwed(c) /\ ~Unlinked(c) /\ ~LeftAlone(c, n)
      BY <1>1 DEF MadeOwed, Unlinked, LeftAlone, At, Creating, CreatePc, WorkPc
    <2>2. ~Undoing(c, n) /\ ~Doubtful(c)'
      BY <1>2 DEF Undoing, Doubtful, Creating, CreatePc
    <2>3. SiteGone(c, n)
      BY <1>1, <1>3, <2>1, <2>2, NewlyOwed
    <2>4. row[call[c].row].there /\ row[call[c].row].site = call[c].site /\ call[c].site # None
      BY <1>1, <2>3, Constants DEF SiteGone, IInv, DeleteSound, Deleting, DeletePc
    <2>5. n = call[c].row
      BY <1>1, <2>3, <2>4 DEF RowsApart, SiteGone
    <2>6. ~DeleteAtCdn(c)
      BY <1>2, <2>3, <2>5 DEF SiteGone, WorkPc
    <2> QED BY <2>5, <2>6
  <1> QED BY <1>1, <1>3 DEF OneOwed, NoneOwed

LEMMA UnansweredOwes ==
  ASSUME IInv, NEW c \in Call, Unanswered(c)
  PROVE  OneOwed
  <1>1. /\ call[c].pc = "post" /\ Act(c) /\ Creating(c) /\ UNCHANGED row
        /\ call[c].row \in 0..MaxCalls
    BY OwnRow DEF Unanswered, At, Act, Creating, CreatePc
  <1>2. call'[c].pc \in {"idle", "recover"} /\ (call'[c].pc = "recover" => call'[c].row = call[c].row)
    <2>1. CASE End(c)
      BY <2>1, Ends DEF Idle
    <2>2. CASE \E late \in BOOLEAN : call' = [call EXCEPT ![c] = Recovering(c, late)]
      BY <2>2, Recovers DEF IInv, Typed
    <2> QED BY <2>1, <2>2 DEF Unanswered
  <1>3. ASSUME NEW n \in Row, Owes(n)', ~Owes(n)
        PROVE  n = call[c].row
    <2>1. ~Unlinked(c) /\ ~Undoing(c, n) /\ ~SiteGone(c, n)
      BY <1>1, <1>2 DEF Unlinked, Undoing, SiteGone, At
    <2>2. LeftAlone(c, n) => n = call[c].row
      BY DEF LeftAlone
    <2>3. Doubtful(c)' => call'[c].row = call[c].row
      BY <1>2 DEF Doubtful, Creating, CreatePc
    <2> QED BY <1>1, <1>3, <2>1, <2>2, <2>3, NewlyOwed
  <1> QED BY <1>1, <1>3 DEF OneOwed

LEMMA StatementFailsOwes ==
  ASSUME IInv, NEW c \in Call, StatementFails(c)
  PROVE  OneOwed
  <1>1. /\ call[c].pc \in {"insert", "register", "answer", "undo", "del_row"} /\ Act(c)
        /\ UNCHANGED <<cdn, row>>
    BY DEF StatementFails, Act
  <1>2. /\ call[c].row \in Row /\ call[c].row \in 0..MaxCalls
        /\ call[c].pc # "del_row" => Creating(c)
    BY <1>1, OwnRow DEF Creating, Deleting, CreatePc, DeletePc
  <1>3. CASE call[c].op = "create" /\ call[c].pc \in {"register", "answer"}
    <2>1. /\ call'[c].pc = "undo" /\ call'[c].row = call[c].row
          /\ call'[c].tries = call[c].tries /\ call'[c].late = call[c].late
      BY <1>3, Goes DEF StatementFails, IInv
    <2>2. call[c].site \in Site /\ cdn[call[c].site].by \in 0..MaxCalls
      BY <1>3 DEF IInv, SiteSound, Typed, SiteRec
    <2>3. ASSUME NEW n \in Row, Owes(n)', ~Owes(n)
          PROVE  n = cdn[call[c].site].by
      <3>1. ~MadeOwed(c) /\ ~SiteGone(c, n) /\ ~LeftAlone(c, n)
        BY <1>1, <1>3, <2>1 DEF MadeOwed, SiteGone, LeftAlone, At, WorkPc
      <3>2. ASSUME Undoing(c, n) PROVE n = cdn[call[c].site].by
        <4>1. row[call[c].row].site \in Site /\ cdn[row[call[c].row].site].by = n
          BY <2>1, <3>2 DEF Undoing
        <4>2. CASE call[c].pc = "register"
          BY <1>2, <1>3, <4>1, <4>2, Constants DEF IInv, RowSound, Inserted
        <4>3. CASE call[c].pc = "answer"
          BY <4>1, <4>3 DEF IInv, SiteSound
        <4> QED BY <1>3, <4>2, <4>3
      <3>3. Doubtful(c)' => Doubtful(c)
        BY <1>2, <1>3, <2>1 DEF Doubtful, At
      <3> QED BY <1>1, <2>1, <2>3, <3>1, <3>2, <3>3, OwnDoubts, NewlyOwed
    <2> QED BY <2>2, <2>3 DEF OneOwed
  <1>4. CASE ~(call[c].op = "create" /\ call[c].pc \in {"register", "answer"})
    <2>1. call'[c] = Idle
      BY <1>4, Ends DEF StatementFails
    <2>2. ASSUME NEW n \in Row PROVE ~MadeOwed(c) /\ ~SiteGone(c, n) /\ ~Undoing(c, n) /\ ~Doubtful(c)'
      BY <1>1, <2>1 DEF MadeOwed, SiteGone, Undoing, Doubtful, Creating, CreatePc, At, Idle
    <2>3. CASE call[c].pc = "register"
      <3>1. call[c].op = "compat" /\ ~row[call[c].row].there
        BY <1>2, <1>4, <2>3 DEF IInv, HoldSound, RowSound, Inserted
      <3>2. call[c].site \in Site /\ cdn[call[c].site].by \in 0..MaxCalls
        BY <2>3 DEF IInv, SiteSound, Typed, SiteRec
      <3>3. ASSUME NEW n \in Row, Owes(n)', ~Owes(n)
            PROVE  n = cdn[call[c].site].by
        <4>1. ~LeftAlone(c, n)
          BY <3>1 DEF LeftAlone
        <4> QED BY <1>1, <2>2, <3>3, <4>1, NewlyOwed
      <3> QED BY <3>2, <3>3 DEF OneOwed
    <2>4. CASE call[c].pc # "register"
      <3>1. ASSUME NEW n \in Row, Owes(n)', ~Owes(n)
            PROVE  n = call[c].row
        <4>1. ~Unlinked(c)
          BY <2>4 DEF Unlinked, At
        <4>2. LeftAlone(c, n) => n = call[c].row
          BY DEF LeftAlone
        <4> QED BY <1>1, <2>2, <3>1, <4>1, <4>2, NewlyOwed
      <3> QED BY <1>2, <3>1 DEF OneOwed
    <2> QED BY <2>3, <2>4
  <1> QED BY <1>3, <1>4

LEMMA CrashOwes ==
  ASSUME IInv, NEW c \in Call, Crash(c)
  PROVE  OneOwed
  <1>1. /\ call[c].pc # "idle" /\ Act(c) /\ UNCHANGED row /\ call'[c] = Idle
        /\ UNCHANGED cdn \/ call[c].pc = "post"
    BY Ends DEF Crash, Act, At
  <1>2. Creating(c) \/ Deleting(c)
    BY <1>1 DEF IInv, Typed, CallRec, Creating, Deleting
  <1>3. call[c].row \in Row /\ call[c].row \in 0..MaxCalls
    BY <1>2, OwnRow
  <1>4. ASSUME NEW n \in Row PROVE ~SiteGone(c, n) /\ ~Undoing(c, n) /\ ~Doubtful(c)'
    BY <1>1 DEF SiteGone, Undoing, Doubtful, Creating, CreatePc, At, Idle
  <1>5. CASE call[c].pc = "register"
    <2>1. call[c].site \in Site /\ cdn[call[c].site].by \in 0..MaxCalls
      BY <1>5 DEF IInv, SiteSound, Typed, SiteRec
    <2>2. ASSUME NEW n \in Row, Owes(n)', ~Owes(n)
          PROVE  n = cdn[call[c].site].by
      <3>1. ~MadeOwed(c)
        BY <1>1, <1>5 DEF MadeOwed
      <3>2. ASSUME LeftAlone(c, n), n # cdn[call[c].site].by PROVE FALSE
        <4>1. Doubtful(c)
          BY <1>5, <3>2 DEF Doubtful, LeftAlone, Creating, CreatePc
        <4> QED BY <2>2, <3>2, <4>1, OwnDoubts DEF LeftAlone
      <3> QED BY <1>1, <1>4, <2>2, <3>1, <3>2, NewlyOwed
    <2> QED BY <2>1, <2>2 DEF OneOwed
  <1>6. CASE call[c].pc # "register"
    <2>1. ASSUME NEW n \in Row, Owes(n)', ~Owes(n)
          PROVE  n = call[c].row
      <3>1. ~Unlinked(c) /\ (LeftAlone(c, n) => n = call[c].row)
        BY <1>6 DEF Unlinked, LeftAlone, At
      <3> QED BY <1>1, <1>4, <2>1, <3>1, NewlyOwed
    <2> QED BY <1>3, <2>1 DEF OneOwed
  <1> QED BY <1>5, <1>6

(* The steps that change the row of a request, and leave the CDN alone.    *)
LEMMA RowChanged ==
  ASSUME IInv, NEW c \in Call, Act(c), UNCHANGED cdn, NEW own \in Row, own = call[c].row,
         \A r \in Row \ {own} : row'[r] = row[r],
         ~RowOwed(own)', Doubtful(c)' => Doubtful(c) /\ call'[c].row = own,
         \A s \in Site : SiteOwed(s)' => SiteOwed(s)
  PROVE  NoneOwed
  <1> SUFFICES ASSUME NEW n \in Row, Owes(n)' PROVE Owes(n)
    BY DEF NoneOwed
  <1>1. ASSUME RowOwed(n)' PROVE RowOwed(n)
    <2>1. n # own
      BY <1>1
    <2>2. row'[n] = row[n]
      BY <2>1
    <2>3. \A k \in Call : call[k].row = n => k # c /\ call'[k] = call[k]
      BY <2>1, OthersStay DEF IInv
    <2> QED BY <1>1, <2>2, <2>3 DEF RowOwed
  <1>2. ASSUME NEW k \in Call, Doubtful(k)', call'[k].row = n PROVE Owes(n)
    <2>1. CASE k = c
      BY <1>2, <2>1, OwnDoubts
    <2>2. CASE k # c
      BY <1>2, <2>2, OtherDoubts, OwnDoubts
    <2> QED BY <2>1, <2>2
  <1> QED BY <1>1, <1>2 DEF Owes

(* A site keeps what it has when neither its row nor the request that is   *)
(* about to give it one changes.                                           *)
LEMMA SiteStays ==
  ASSUME IInv, NEW c \in Call, Act(c), UNCHANGED cdn, call[c].row \in Row,
         \A r \in Row \ {call[c].row} : row'[r] = row[r], NEW s \in Site, SiteOwed(s)',
         ~(row'[call[c].row].there /\ row'[call[c].row].site = s),
         row[call[c].row].there /\ row[call[c].row].site = s => At(c, "undo"),
         At(c, "register") => call[c].site # s, call'[c].pc # "undo"
  PROVE  SiteOwed(s)
  <1>1. cdn[s].there
    BY DEF SiteOwed
  <1>2. CASE row[call[c].row].there /\ row[call[c].row].site = s
    BY <1>1, <1>2 DEF SiteOwed, Taken, Undone
  <1>3. CASE ~(row[call[c].row].there /\ row[call[c].row].site = s)
    <2>1. \A r \in Row : row'[r].there /\ row'[r].site = s <=> row[r].there /\ row[r].site = s
      BY <1>3
    <2>2. Taken(s)' <=> Taken(s)
      BY <2>1 DEF Taken
    <2>3. CASE Taken(s)
      <3>1. PICK r \in Row, k \in Call : row'[r].there /\ row'[r].site = s /\ At(k, "undo")' /\ call'[k].row = r
        BY <2>2, <2>3 DEF SiteOwed, Undone
      <3>2. k # c /\ call'[k] = call[k]
        BY <3>1, OthersStay DEF IInv, At
      <3> QED BY <1>1, <2>1, <2>3, <3>1, <3>2 DEF SiteOwed, Undone, At
    <2>4. CASE ~Taken(s)
      <3>1. ~Linking(s)'
        BY <2>2, <2>4 DEF SiteOwed
      <3>2. ~Linking(s)
        <4> SUFFICES ASSUME NEW k \in Call, At(k, "register"), call[k].site = s PROVE FALSE
          BY DEF Linking
        <4>1. k # c
          OBVIOUS
        <4>2. call'[k] = call[k]
          BY <4>1, OthersStay DEF IInv
        <4> QED BY <3>1, <4>2 DEF Linking, At
      <3> QED BY <1>1, <2>4, <3>2 DEF SiteOwed
    <2> QED BY <2>3, <2>4
  <1> QED BY <1>2, <1>3

LEMMA InsertOwes ==
  ASSUME IInv, NEW c \in Call, Insert(c)
  PROVE  NoneOwed
  <1>1. /\ call[c].pc = "insert" /\ Act(c) /\ UNCHANGED cdn /\ Creating(c)
        /\ NewRow(c, None) /\ To(c, "post")
    BY DEF Insert, At, Act, GoOn, Creating, CreatePc
  <1>2. call[c].row \in Row /\ ~row[call[c].row].there
    BY <1>1, OwnRow DEF IInv, RowSound, Inserted
  <1>3. /\ \A r \in Row \ {call[c].row} : row'[r] = row[r]
        /\ row'[call[c].row].site = None
    BY <1>1, <1>2 DEF NewRow, IInv, Typed
  <1>4. /\ call'[c].pc = "post" /\ call'[c].row = call[c].row
        /\ call'[c].tries = call[c].tries /\ call'[c].late = call[c].late
    BY <1>1, Goes DEF IInv
  <1>0. PICK own \in Row : own = call[c].row
    BY <1>2
  <1>5. ~RowOwed(own)'
    BY <1>0, <1>4 DEF RowOwed, WorkPc
  <1>6. Doubtful(c)' => Doubtful(c)
    BY <1>1, <1>4 DEF Doubtful, At
  <1>7. \A s \in Site : SiteOwed(s)' => SiteOwed(s)
    BY <1>1, <1>2, <1>3, <1>4, SiteStays, Constants DEF At
  <1> QED BY <1>0, <1>1, <1>3, <1>4, <1>5, <1>6, <1>7, RowChanged

LEMMA RegisterFields ==
  ASSUME IInv, NEW c \in Call, Register(c)
  PROVE  /\ call[c].pc = "register" /\ Act(c) /\ UNCHANGED cdn /\ Creating(c)
         /\ call[c].row \in Row /\ call[c].site \in Site
         /\ ~Taken(call[c].site) /\ cdn[call[c].site].there
         /\ \A r \in Row \ {call[c].row} : row'[r] = row[r]
         /\ row'[call[c].row].there /\ row'[call[c].row].site = call[c].site
         /\ row[call[c].row].there => row[call[c].row].site = None
         /\ call'[c].pc = "answer" /\ call'[c].row = call[c].row /\ call'[c].site = call[c].site
         /\ call'[c].tries = call[c].tries /\ call'[c].late = call[c].late
  <1>1. call[c].pc = "register" /\ Act(c) /\ UNCHANGED cdn /\ Creating(c)
    BY DEF Register, At, Act, GoOn, Creating, CreatePc
  <1>2. call[c].row \in Row
    BY <1>1, OwnRow
  <1>3. call[c].site \in Site /\ ~Taken(call[c].site) /\ cdn[call[c].site].there
    BY <1>1 DEF IInv, SiteSound
  <1>4. To(c, "answer")
    BY <1>3 DEF Register
  <1>5. /\ \A r \in Row \ {call[c].row} : row'[r] = row[r]
        /\ row'[call[c].row].there /\ row'[call[c].row].site = call[c].site
    <2>1. CASE call[c].op = "compat"
      BY <1>2, <1>3, <2>1 DEF Register, NewRow, IInv, Typed
    <2>2. CASE call[c].op # "compat"
      <3>1. row[call[c].row].there
        BY <1>1, <2>2 DEF IInv, HoldSound, RowSound, Inserted
      <3> QED BY <1>2, <1>3, <2>2, <3>1 DEF Register, IInv, Typed, RowRec
    <2> QED BY <2>1, <2>2
  <1>6. row[call[c].row].there => row[call[c].row].site = None
    BY <1>1 DEF IInv, RowSound, Inserted
  <1> QED BY <1>1, <1>2, <1>3, <1>4, <1>5, <1>6, Goes DEF IInv

LEMMA RegisterOwes ==
  ASSUME IInv, NEW c \in Call, Register(c)
  PROVE  NoneOwed
  <1>0. PICK n \in Row : n = call[c].row
    BY RegisterFields
  <1>1. ~RowOwed(n)'
    BY <1>0, RegisterFields, Constants DEF RowOwed
  <1>2. Doubtful(c)' => Doubtful(c)
    BY RegisterFields DEF Doubtful, At
  <1>3. ASSUME NEW s \in Site, s = call[c].site PROVE ~SiteOwed(s)'
    <2> SUFFICES ASSUME SiteOwed(s)' PROVE FALSE
      OBVIOUS
    <2>1. \A r \in Row : row'[r].there /\ row'[r].site = s => r = n
      BY <1>0, <1>3, RegisterFields DEF Taken
    <2>2. ~Undone(n)'
      <3> SUFFICES ASSUME NEW k \in Call, At(k, "undo")', call'[k].row = n PROVE FALSE
        BY DEF Undone, At
      <3>1. k # c
        BY RegisterFields DEF At
      <3>2. call'[k] = call[k]
        BY <3>1, RegisterFields, OthersStay DEF IInv
      <3>3. Creating(k)
        BY <3>2 DEF At, Creating, CreatePc
      <3> QED BY <3>1, <3>2, <3>3, <1>0, RegisterFields, Apart
    <2>3. Taken(s)'
      BY <1>3, RegisterFields DEF Taken
    <2> QED BY <2>1, <2>2, <2>3 DEF SiteOwed
  <1>4. \A s \in Site : SiteOwed(s)' => SiteOwed(s)
    <2> SUFFICES ASSUME NEW s \in Site, SiteOwed(s)' PROVE SiteOwed(s)
      OBVIOUS
    <2>1. s # call[c].site
      BY <1>3
    <2> QED BY <2>1, RegisterFields, SiteStays, Constants DEF At
  <1> QED BY <1>0, <1>1, <1>2, <1>4, RegisterFields, RowChanged

LEMMA UndoOwes ==
  ASSUME IInv, NEW c \in Call, Undo(c)
  PROVE  NoneOwed
  <1>1. call[c].pc = "undo" /\ Act(c) /\ UNCHANGED cdn /\ Creating(c) /\ call'[c] = Idle
    BY Ends DEF Undo, At, Act, GoOn, Creating, CreatePc
  <1>2. PICK own \in Row : own = call[c].row
    BY <1>1, OwnRow
  <1>3. row' = [row EXCEPT ![own] = NoRow]
    BY <1>1, <1>2 DEF Undo, IInv, HoldSound
  <1>4. ~row'[own].there /\ \A r \in Row \ {own} : row'[r] = row[r]
    BY <1>3 DEF IInv, Typed, NoRow
  <1>5. ~RowOwed(own)' /\ ~Doubtful(c)'
    BY <1>1, <1>4 DEF RowOwed, Doubtful, Creating, CreatePc, Idle
  <1>6. \A s \in Site : SiteOwed(s)' => SiteOwed(s)
    BY <1>1, <1>2, <1>4, SiteStays DEF At, Idle
  <1> QED BY <1>1, <1>2, <1>4, <1>5, <1>6, RowChanged

LEMMA DeleteRowOwes ==
  ASSUME IInv, NEW c \in Call, DeleteRow(c)
  PROVE  NoneOwed
  <1>1. call[c].pc = "del_row" /\ Act(c) /\ UNCHANGED cdn /\ Deleting(c) /\ call'[c] = Idle
    BY Ends DEF DeleteRow, At, Act, GoOn, Deleting, DeletePc
  <1>2. PICK own \in Row : own = call[c].row
    BY <1>1, OwnRow
  <1>3. ~row'[own].there /\ \A r \in Row \ {own} : row'[r] = row[r]
    BY <1>2 DEF DeleteRow, IInv, Typed, NoRow
  <1>4. ~RowOwed(own)' /\ ~Doubtful(c)'
    BY <1>1, <1>3 DEF RowOwed, Doubtful, Creating, CreatePc, Idle
  <1>5. row[own].there => ~cdn[row[own].site].there
    BY <1>1, <1>2 DEF IInv, DeleteSound
  <1>6. ASSUME NEW s \in Site, SiteOwed(s)' PROVE SiteOwed(s)
    <2>1. cdn[s].there
      BY <1>1, <1>6 DEF SiteOwed
    <2> QED BY <1>1, <1>2, <1>3, <1>5, <1>6, <2>1, SiteStays DEF At, Idle
  <1> QED BY <1>1, <1>2, <1>3, <1>4, <1>6, RowChanged

-----------------------------------------------------------------------------
(* The steps together.                                                     *)
LEMMA FaultStep ==
  ASSUME IInv, NEW c \in Call, Act(c)
  PROVE  \/ faults' = faults + 1
         \/ faults' = faults /\ ~(Unanswered(c) \/ StatementFails(c) \/ Crash(c) \/ DeleteUnanswered(c))
  <1>1. faults + 1 # faults
    BY Constants DEF IInv, Typed
  <1>2. CASE Unanswered(c) \/ StatementFails(c) \/ Crash(c) \/ DeleteUnanswered(c) \/ ReadFails(c)
    BY <1>2 DEF Unanswered, StatementFails, Crash, DeleteUnanswered, ReadFails, Fault
  <1>3. CASE ~(Unanswered(c) \/ StatementFails(c) \/ Crash(c) \/ DeleteUnanswered(c) \/ ReadFails(c))
    <2>1. faults' = faults
      BY <1>3
         DEF Act, GoOn, Insert, Posted, Refused, Read, Decide, Register, Succeed, Undo, DeleteAtCdn, DeleteRow,
             Creates, Create, Deletes, Delete, Arrives
    <2> QED BY <1>3, <2>1
  <1> QED BY <1>2, <1>3

LEMMA StepOwes ==
  ASSUME IInv, RowsApart, NEW c \in Call, Act(c)
  PROVE  (NoneOwed /\ faults' \in {faults, faults + 1}) \/ (OneOwed /\ faults' = faults + 1)
  <1>1. CASE Unanswered(c) \/ StatementFails(c) \/ Crash(c) \/ DeleteUnanswered(c)
    BY <1>1, FaultStep, UnansweredOwes, StatementFailsOwes, CrashOwes, DeleteAtCdnOwes
  <1>2. CASE ~(Unanswered(c) \/ StatementFails(c) \/ Crash(c) \/ DeleteUnanswered(c))
    <2>1. NoneOwed
      BY <1>2, PostedOwes, RefusedOwes, ArrivesOwes, LooksOwes, BeginsOwes, DeleteAtCdnOwes, InsertOwes,
         RegisterOwes, UndoOwes, DeleteRowOwes
         DEF Act, GoOn
    <2> QED BY <2>1, FaultStep
  <1> QED BY <1>1, <1>2

LEMMA ApartStep ==
  ASSUME IInv, RowsApart, NEW c \in Call, Act(c)
  PROVE  RowsApart'
  <1> SUFFICES ASSUME NEW r \in Row, NEW q \in Row, row'[r].there, row'[q].there,
                      row'[r].site = row'[q].site, row'[r].site # None, r # q
               PROVE  FALSE
    BY DEF RowsApart
  <1>1. CASE Register(c)
    BY <1>1, RegisterFields DEF RowsApart, Taken
  <1>2. CASE ~Register(c)
    <2>1. ASSUME NEW x \in Row, row'[x].there, row'[x].site # None PROVE row'[x] = row[x]
      <3>1. CASE Insert(c)
        <4>1. call[c].row \in Row
          BY <3>1, OwnRow DEF Insert, At, Creating, CreatePc
        <4> QED BY <2>1, <3>1, <4>1 DEF Insert, NewRow, IInv, Typed
      <3>2. CASE Undo(c) \/ DeleteRow(c)
        BY <2>1, <3>2 DEF Undo, DeleteRow, NoRow, IInv, Typed
      <3>3. CASE ~(Insert(c) \/ Undo(c) \/ DeleteRow(c))
        BY <1>2, <3>3
           DEF Act, GoOn, Posted, Refused, Read, Decide, Succeed, DeleteAtCdn, Creates, Create, Deletes, Delete,
               Unanswered, Arrives, ReadFails, DeleteUnanswered, StatementFails, Crash
      <3> QED BY <3>1, <3>2, <3>3
    <2> QED BY <2>1 DEF RowsApart
  <1> QED BY <1>1, <1>2

LEMMA OwedCount ==
  ASSUME IInv, IInv', OwedInv, (NoneOwed /\ faults' \in {faults, faults + 1}) \/ (OneOwed /\ faults' = faults + 1)
  PROVE  (Cardinality(Owed) <= faults)'
  <1>1. PICK S \in SUBSET Row, T \in SUBSET Row : S = Owed /\ T = Owed'
    BY DEF Owed
  <1>2. faults \in Nat /\ Cardinality(S) \in Nat /\ Cardinality(T) \in Nat /\ Cardinality(S) <= faults
    BY <1>1, OwnedFinite, Constants DEF IInv, Typed, OwedInv
  <1>3. CASE NoneOwed /\ faults' \in {faults, faults + 1}
    <2>1. T \subseteq S
      BY <1>1, <1>3 DEF NoneOwed, Owed
    <2>2. Cardinality(T) <= Cardinality(S)
      BY <2>1, FewerOwned
    <2> QED BY <1>1, <1>2, <1>3, <2>2
  <1>4. CASE OneOwed /\ faults' = faults + 1
    <2>1. PICK m \in 0..MaxCalls : \A n \in Row : Owes(n)' => Owes(n) \/ n = m
      BY <1>4 DEF OneOwed
    <2>2. T \subseteq S \cup {m}
      BY <1>1, <2>1 DEF Owed
    <2>3. IsFiniteSet(S)
      BY OwnedFinite
    <2>4. IsFiniteSet(S \cup {m}) /\ Cardinality(S \cup {m}) = IF m \in S THEN Cardinality(S) ELSE Cardinality(S) + 1
      BY <2>3, FS_AddElement, Zenon
    <2>5. Cardinality(T) <= Cardinality(S \cup {m})
      BY <2>2, <2>4, FS_Subset
    <2>6. Cardinality(T) <= faults + 1
      BY <1>2, <2>4, <2>5
    <2> QED BY <1>1, <1>4, <2>6
  <1> QED BY <1>3, <1>4

LEMMA OwedStep ==
  ASSUME IInv, IInv', OwedInv, [Next]_vars
  PROVE  OwedInv'
  <1>1. ASSUME NEW c \in Call, Act(c) PROVE OwedInv'
    BY <1>1, StepOwes, ApartStep, OwedCount DEF OwedInv
  <1>2. CASE UNCHANGED vars \/ \E r \in Row : Toggle(r)
    <2>1. UNCHANGED <<cdn, call, faults>>
      BY <1>2 DEF vars, Toggle
    <2>2. \A q \in Row : row'[q].there = row[q].there /\ row'[q].site = row[q].site
      BY <1>2, ToggleFields DEF vars, IInv
    <2>3. RowsApart'
      BY <2>2 DEF OwedInv, RowsApart
    <2>4. \A s : Taken(s)' <=> Taken(s)
      BY <2>2 DEF Taken
    <2>5. ASSUME NEW s \in Site PROVE SiteOwed(s)' => SiteOwed(s)
      BY <2>1, <2>2, <2>4 DEF SiteOwed, Undone, Linking, At
    <2>6. NoneOwed
      BY <2>1, <2>2, <2>5 DEF NoneOwed, Owes, RowOwed, Doubtful, Creating, At
    <2> QED BY <2>1, <2>3, <2>6, OwedCount DEF OwedInv
  <1> QED BY <1>1, <1>2 DEF Next, Act, Creates, Deletes

(* LeftoversFew: when nothing is under way, no more creations have left    *)
(* their site without a row, or their row without a site, than calls,      *)
(* statements and processes have failed.                                   *)
THEOREM LeftoversStayFew ==
  ASSUME Admin = {}
  PROVE  Spec => []LeftoversFew
  <1>1. Init => OwedInv
    <2> SUFFICES ASSUME Init PROVE OwedInv
      OBVIOUS
    <2>1. RowsApart /\ Owed = {}
      BY DEF Init, RowsApart, Owed, Owes, SiteOwed, RowOwed, Doubtful, Creating, CreatePc, NoSite, NoRow, Idle
    <2> QED BY <2>1, FS_EmptySet, Constants DEF Init, OwedInv
  <1>2. IInv /\ OwedInv => LeftoversFew
    <2> SUFFICES ASSUME IInv, OwedInv, \A c \in Call : At(c, "idle")
                 PROVE  Cardinality(Leftovers) <= faults
      BY DEF LeftoversFew
    <2>1. ASSUME NEW s \in Site, cdn[s].there, ~Taken(s) PROVE cdn[s].by \in Row /\ Owes(cdn[s].by)
      <3>1. SiteOwed(s)
        BY <2>1 DEF SiteOwed, Linking, At
      <3>2. cdn[s].by # 0 /\ cdn[s].by \in 0..MaxCalls
        BY <2>1 DEF IInv, SitesSound, Typed, SiteRec
      <3> QED BY <3>1, <3>2, Constants DEF Owes, Row
    <2>2. ASSUME NEW r \in Row, row[r].there, row[r].site # None => ~cdn[row[r].site].there PROVE Owes(r)
      BY <2>2 DEF Owes, RowOwed, WorkPc, At
    <2>3. Leftovers \subseteq Owed
      BY <2>1, <2>2 DEF Leftovers, Owed
    <2>4. Owed \in SUBSET Row
      BY DEF Owed
    <2>5. Cardinality(Leftovers) <= Cardinality(Owed) /\ Cardinality(Leftovers) \in Nat /\ Cardinality(Owed) \in Nat
      <3>1. Leftovers \in SUBSET Row
        BY <2>3, <2>4
      <3> QED BY <2>3, <2>4, <3>1, FewerOwned, OwnedFinite
    <2> QED BY <2>5, Constants DEF OwedInv, IInv, Typed
  <1>3. IInv /\ IInv' /\ OwedInv /\ [Next]_vars => OwedInv'
    BY OwedStep
  <1> QED BY <1>1, <1>2, <1>3, Invariance, PTL DEF Spec

-----------------------------------------------------------------------------
(***************************************************************************)
(* Part two: the settings of sites, module MCConfig.                       *)
(***************************************************************************)

Kept == [setting : Setting, scope : 0..MaxGroup, on : BOOLEAN]
DRows == [group : 0..MaxGroup, val : D!Values]
DWork == [pc : {"idle", "checked", "insert", "post", "regroup", "put", "save"},
          way : {Nil, "single", "batch", "stream"}, group : 0..MaxGroup, input : SUBSET Setting,
          val : D!Values \cup {Nil}, before : D!Values \cup {Nil}]
DReq == [pc : {"idle", "post", "put", "delete"}, config : Default \cup {Nil}, group : 0..MaxGroup, to : {Nil} \cup Kept]
Ready == {"insert", "post", "regroup"}

DefaultsType ==
  /\ dkind \in {"site", "stream"} /\ legacy \in {0} \cup Upgraded /\ group \in [1..MaxGroup -> Name \cup {Nil}] /\ last \in 0..MaxGroup
  /\ config \in [Default -> {Nil} \cup Kept] /\ drow \in {Nil} \cup DRows /\ dcdn \in D!Values \cup {Nil}
  /\ work \in DWork /\ touched \in BOOLEAN /\ cut \in BOOLEAN /\ dreq \in [Changer -> DReq]
  /\ work.pc \in {"checked"} \cup Ready => work.before \in D!Values
  /\ work.pc \in Ready => work.val \in D!Values
  /\ work.pc \in {"regroup", "put", "save"} => drow # Nil /\ dcdn # Nil
  /\ work.pc = "insert" /\ work.way # "single" => dcdn # Nil
  /\ \A r \in Changer :
       /\ dreq[r].pc \in {"post", "put"} => dreq[r].config \in Default /\ dreq[r].to \in Kept
       /\ dreq[r].pc = "delete" => dreq[r].group \in 1..MaxGroup

(* No two defaults are for the same setting in the same scope.             *)
Unique ==
  \A c, d \in Default : config[c] # Nil /\ config[d] # Nil /\ config[c].setting = config[d].setting
                          /\ config[c].scope = config[d].scope => c = d

(* What a request is about is in a group that there is, unless it was      *)
(* deleted under it.                                                       *)
InGroup ==
  /\ drow # Nil => D!Stands(drow.group)
  /\ ~cut /\ work.pc # "idle" => D!Stands(work.group)

(* What was arranged when the request began still is what it will find.    *)
StillDue ==
  ~touched =>
    /\ work.pc = "checked" => work.before = D!Due(work.group)
    /\ work.pc \in Ready => \A s \in Setting : work.val[s] = IF s \in work.input THEN "own" ELSE work.before[s]

(* What row and CDN have at each step of the request.                      *)
Follows ==
  ~cut =>
    /\ work.pc = "idle" => IF drow = Nil THEN dcdn = Nil ELSE drow.val = dcdn
    /\ work.pc = "checked" => drow = Nil /\ dcdn = Nil
    /\ work.pc = "insert" => drow = Nil /\ dcdn = IF work.way = "single" THEN Nil ELSE work.val
    /\ work.pc = "post" => dcdn = Nil /\ IF work.way = "single" THEN drow # Nil /\ drow.val = work.val ELSE drow = Nil
    /\ work.pc \in {"regroup", "put"} => drow.val = dcdn
    /\ work.pc = "save" => dcdn = D!Over(D!Given(work.input), drow.val)

DefaultsInv == DefaultsType /\ Unique /\ InGroup /\ StillDue /\ Follows

LEMMA NilIsNothing == Nil \notin DRows /\ Nil \notin D!Values /\ Nil \notin Kept /\ MaxGroup \in Nat /\ Nil \notin Name
  BY ConfigAssumption DEF DRows, Kept

LEMMA DefaultsInvSound == DefaultsInv => DefaultsSound
  <1> SUFFICES ASSUME DefaultsInv PROVE DefaultsSound
    OBVIOUS
  <1>1. D!TypeOK
    BY DEF DefaultsInv, DefaultsType, D!TypeOK, D!Number, D!Scope, DRows, DWork, DReq, Kept
  <1>2. D!AsArranged
    BY DEF DefaultsInv, StillDue, D!AsArranged, Ready
  <1>3. D!RowFollows
    BY DEF DefaultsInv, Follows, D!RowFollows
  <1> QED BY <1>1, <1>2, <1>3 DEF DefaultsSound

LEMMA DefaultsBegin == D!Init => DefaultsInv
  <1> SUFFICES ASSUME D!Init PROVE DefaultsInv
    OBVIOUS
  <1>1. DefaultsType
    <2>1. group \in [1..MaxGroup -> Name \cup {Nil}] /\ last \in 0..MaxGroup
      BY ConfigAssumption DEF D!Init, D!Number
    <2>2. work \in DWork /\ work.pc = "idle" /\ \A r \in Changer : dreq[r] = D!Idle
      BY NilIsNothing DEF D!Init, D!Free, DWork
    <2>3. dreq \in [Changer -> DReq] /\ \A r \in Changer : dreq[r].pc = "idle"
      BY NilIsNothing, <2>2 DEF D!Init, D!Idle, DReq
    <2> QED BY <2>1, <2>2, <2>3 DEF DefaultsType, D!Init, Ready
  <1>2. Unique /\ InGroup /\ StillDue /\ Follows
    BY DEF D!Init, D!Free, Unique, InGroup, StillDue, Follows, Ready
  <1> QED BY <1>1, <1>2 DEF DefaultsInv

-----------------------------------------------------------------------------
(* What is due depends on the defaults only.                               *)
LEMMA DueSame == ASSUME config' = config, NEW g PROVE D!Due(g)' = D!Due(g)
  BY DEF D!Due, D!On

LEMMA DueIsValues == ASSUME NEW g PROVE D!Due(g) \in D!Values
  <1>1. ASSUME NEW s \in Setting, NEW its \in SUBSET Default, its # {} PROVE (CHOOSE c \in its : TRUE) \in Default
    BY <1>1
  <1>2. \A s \in Setting : D!On(s, g) \in SUBSET Default /\ D!On(s, 0) \in SUBSET Default
    BY DEF D!On
  <1>3. \A s \in Setting : D!Due(g)[s] \in Default \cup {"own", Nil}
    BY <1>1, <1>2 DEF D!Due
  <1>4. D!Due(g) = [s \in Setting |-> D!Due(g)[s]]
    BY DEF D!Due
  <1> QED BY <1>3, <1>4 DEF D!Values

(* The layers that applyUserDefaults puts over one another are what is due.*)
LEMMA MergedIsDue ==
  ASSUME NEW g, NEW input \in SUBSET Setting
  PROVE  /\ D!Merged(g, input) \in D!Values
         /\ \A s \in Setting : D!Merged(g, input)[s] = IF s \in input THEN "own" ELSE D!Due(g)[s]
  <1> DEFINE m == D!Merged(g, input)
  <1>1. \A scope : DOMAIN D!Layer(scope) = {s \in Setting : D!On(s, scope) # {}} /\ \A s \in DOMAIN D!Layer(scope) : D!Layer(scope)[s] = CHOOSE c \in D!On(s, scope) : TRUE
    BY DEF D!Layer
  <1>2. DOMAIN D!Given(input) = input /\ \A s \in input : D!Given(input)[s] = "own"
    BY DEF D!Given
  <1>3. DOMAIN D!Nothing = Setting /\ \A s \in Setting : D!Nothing[s] = Nil
    BY DEF D!Nothing
  <1>4. DOMAIN m = Setting /\ m = [s \in Setting |-> m[s]]
    BY <1>1, <1>2, <1>3 DEF D!Merged, D!Over
  <1>5. ASSUME NEW s \in Setting PROVE m[s] = IF s \in input THEN "own" ELSE D!Due(g)[s]
    <2> DEFINE below == IF g = 0 THEN D!Layer(0) ELSE D!Over(D!Layer(g), D!Layer(0))
               rest == D!Over(below, D!Nothing)
    <2>1. s \in DOMAIN below <=> D!On(s, g) # {} \/ D!On(s, 0) # {}
      BY <1>1 DEF D!Over
    <2>2. s \in DOMAIN below => below[s] = CHOOSE c \in (IF D!On(s, g) # {} THEN D!On(s, g) ELSE D!On(s, 0)) : TRUE
      BY <1>1 DEF D!Over
    <2>3. rest[s] = IF s \in DOMAIN below THEN below[s] ELSE Nil
      BY <1>3 DEF D!Over
    <2>4. D!Due(g)[s] = IF D!On(s, g) # {} \/ D!On(s, 0) # {} THEN CHOOSE c \in (IF D!On(s, g) # {} THEN D!On(s, g) ELSE D!On(s, 0)) : TRUE ELSE Nil
      BY DEF D!Due
    <2>5. rest[s] = D!Due(g)[s]
      BY <2>1, <2>2, <2>3, <2>4
    <2>6. m[s] = IF s \in input THEN D!Given(input)[s] ELSE rest[s]
      <3>1. m = D!Over(D!Given(input), rest)
        BY DEF D!Merged
      <3>2. DOMAIN rest = Setting
        BY <1>1, <1>3 DEF D!Over
      <3> HIDE DEF rest, m
      <3> QED BY <1>2, <3>1, <3>2 DEF D!Over
    <2> QED BY <1>2, <2>5, <2>6
  <1>6. \A s \in Setting : m[s] \in Default \cup {"own", Nil}
    BY <1>5, DueIsValues DEF D!Values
  <1>7. m \in D!Values
    BY <1>4, <1>6 DEF D!Values
  <1> QED BY <1>5, <1>7

(* Groups and defaults change, and the request under way stays.            *)
LEMMA ListsKept ==
  ASSUME DefaultsInv, UNCHANGED <<dkind, legacy, drow, dcdn, work, cut>>,
         group' \in [1..MaxGroup -> Name \cup {Nil}], last' \in 0..MaxGroup,
         config' \in [Default -> {Nil} \cup Kept], dreq' \in [Changer -> DReq], touched' \in BOOLEAN,
         \A r \in Changer :
           /\ dreq'[r].pc \in {"post", "put"} => dreq'[r].config \in Default /\ dreq'[r].to \in Kept
           /\ dreq'[r].pc = "delete" => dreq'[r].group \in 1..MaxGroup,
         Unique', \A g \in 1..MaxGroup : group[g] # Nil => group'[g] # Nil,
         touched => touched', config' = config \/ work.pc = "idle" \/ touched'
  PROVE  DefaultsInv'
  <1>1. DefaultsType'
    BY DEF DefaultsInv, DefaultsType
  <1>2. InGroup'
    BY DEF DefaultsInv, InGroup, D!Stands, D!Standing, D!Number
  <1>3. StillDue'
    <2>1. SUFFICES ASSUME ~touched' PROVE StillDue'
      BY DEF StillDue
    <2>2. CASE work.pc = "idle"
      BY <2>2 DEF StillDue, Ready
    <2>3. CASE config' = config
      <3>1. PICK g \in 0..MaxGroup : g = work.group
        BY DEF DefaultsInv, DefaultsType, DWork
      <3>2. D!Due(g)' = D!Due(g)
        BY <2>3, DueSame
      <3> QED BY <2>1, <3>1, <3>2 DEF DefaultsInv, StillDue
    <2> QED BY <2>1, <2>2, <2>3
  <1>4. Follows'
    BY DEF DefaultsInv, Follows, D!Given, D!Over
  <1> QED BY <1>1, <1>2, <1>3, <1>4 DEF DefaultsInv

LEMMA MakeGroupKept == ASSUME DefaultsInv, NEW name \in Name, D!MakeGroup(name) PROVE DefaultsInv'
  <1>1. UNCHANGED <<dkind, legacy, drow, dcdn, work, cut, config, touched, dreq>> /\ last < MaxGroup
        /\ group' = [group EXCEPT ![last + 1] = name] /\ last' = last + 1
    BY DEF D!MakeGroup, D!things
  <1>2. group' \in [1..MaxGroup -> Name \cup {Nil}] /\ last' \in 0..MaxGroup /\ \A g \in 1..MaxGroup : group[g] # Nil => group'[g] # Nil
    BY <1>1, NilIsNothing DEF DefaultsInv, DefaultsType
  <1>3. Unique'
    BY <1>1 DEF DefaultsInv, Unique
  <1> QED BY <1>1, <1>2, <1>3, ListsKept DEF DefaultsInv, DefaultsType

(* A request takes up what it is to write.                                 *)
LEMMA AsksKept ==
  ASSUME DefaultsInv, NEW r \in Changer, NEW new \in DReq, dreq' = [dreq EXCEPT ![r] = new],
         new.pc \in {"post", "put"} => new.config \in Default /\ new.to \in Kept, new.pc = "delete" => new.group \in 1..MaxGroup,
         UNCHANGED <<dkind, legacy, group, last, config, drow, dcdn, work, touched, cut>>
  PROVE  DefaultsInv'
  <1>1. Unique'
    BY DEF DefaultsInv, Unique
  <1>2. dreq' \in [Changer -> DReq] /\ \A q \in Changer : dreq'[q] = IF q = r THEN new ELSE dreq[q]
    BY DEF DefaultsInv, DefaultsType
  <1> QED BY <1>1, <1>2, ListsKept DEF DefaultsInv, DefaultsType

LEMMA BeginDeleteKept == ASSUME DefaultsInv, NEW r \in Changer, D!BeginDelete(r) PROVE DefaultsInv'
  <1>1. PICK g \in 1..MaxGroup : dreq' = [dreq EXCEPT ![r] = [pc |-> "delete", config |-> Nil, to |-> Nil, group |-> g]]
    BY DEF D!BeginDelete, D!Number
  <1> DEFINE new == [pc |-> "delete", config |-> Nil, to |-> Nil, group |-> g]
  <1>2. new \in DReq /\ new.pc = "delete" /\ new.group = g
    BY NilIsNothing DEF DReq
  <1> HIDE DEF new
  <1>3. UNCHANGED <<dkind, legacy, group, last, config, drow, dcdn, work, touched, cut>>
    BY DEF D!BeginDelete, D!things
  <1> QED BY <1>1, <1>2, <1>3, AsksKept DEF new

LEMMA AskKept ==
  ASSUME DefaultsInv, NEW r \in Changer, NEW pc \in {"post", "put"}, NEW c \in Default, NEW to \in Kept, D!Ask(r, pc, c, to)
  PROVE  DefaultsInv'
  <1> DEFINE new == [pc |-> pc, config |-> c, to |-> to, group |-> 0]
  <1>1. new \in DReq /\ new.pc = pc /\ new.config = c /\ new.to = to
    BY NilIsNothing DEF DReq
  <1>2. dreq' = [dreq EXCEPT ![r] = new]
    BY DEF D!Ask
  <1> HIDE DEF new
  <1>3. UNCHANGED <<dkind, legacy, group, last, config, drow, dcdn, work, touched, cut>>
    BY DEF D!Ask, D!things
  <1> QED BY <1>1, <1>2, <1>3, AsksKept

LEMMA BeginPostKept == ASSUME DefaultsInv, NEW r \in Changer, D!BeginPost(r) PROVE DefaultsInv'
  <1>1. PICK c \in Default, s \in Setting, scope \in 0..MaxGroup : D!Ask(r, "post", c, [setting |-> s, scope |-> scope, on |-> TRUE])
    BY DEF D!BeginPost, D!Scope
  <1>2. [setting |-> s, scope |-> scope, on |-> TRUE] \in Kept
    BY DEF Kept
  <1> QED BY <1>1, <1>2, AskKept

LEMMA BeginPutKept == ASSUME DefaultsInv, NEW r \in Changer, D!BeginPut(r) PROVE DefaultsInv'
  <1>1. PICK c \in Default : /\ config[c] # Nil
                             /\ \/ \E scope \in 0..MaxGroup : D!Ask(r, "put", c, [config[c] EXCEPT !.scope = scope])
                                \/ D!Ask(r, "put", c, [config[c] EXCEPT !.on = ~@])
    BY DEF D!BeginPut, D!Scope
  <1>2. config[c] \in Kept
    BY <1>1 DEF DefaultsInv, DefaultsType
  <1>3. [config[c] EXCEPT !.on = ~@] \in Kept /\ \A scope \in 0..MaxGroup : [config[c] EXCEPT !.scope = scope] \in Kept
    BY <1>2 DEF Kept
  <1> QED BY <1>1, <1>3, AskKept

LEMMA WriteKept ==
  ASSUME DefaultsInv, NEW r \in Changer, NEW there \in BOOLEAN, dreq[r].pc \in {"post", "put"}, D!Write(r, there)
  PROVE  DefaultsInv'
  <1>1. PICK c \in Default, to \in Kept : c = dreq[r].config /\ to = dreq[r].to
    BY DEF DefaultsInv, DefaultsType
  <1>2. /\ dreq' = [dreq EXCEPT ![r] = D!Idle] /\ UNCHANGED <<dkind, legacy, drow, dcdn, work, cut, group, last>>
        /\ \/ /\ ~D!Taken(c, to) /\ config' = [config EXCEPT ![c] = to] /\ touched' = (touched \/ work.pc # "idle")
           \/ UNCHANGED <<config, touched>>
    BY <1>1 DEF D!Write, D!things, D!Touch
  <1>3. D!Idle \in DReq /\ D!Idle.pc = "idle"
    BY NilIsNothing DEF D!Idle, DReq
  <1>4. dreq' \in [Changer -> DReq] /\ \A q \in Changer : dreq'[q] = IF q = r THEN D!Idle ELSE dreq[q]
    BY <1>2, <1>3 DEF DefaultsInv, DefaultsType
  <1>5. CASE UNCHANGED <<config, touched>>
    <2>1. Unique'
      BY <1>5 DEF DefaultsInv, Unique
    <2> QED BY <1>2, <1>3, <1>4, <1>5, <2>1, ListsKept DEF DefaultsInv, DefaultsType
  <1>6. CASE ~D!Taken(c, to) /\ config' = [config EXCEPT ![c] = to] /\ touched' = (touched \/ work.pc # "idle")
    <2>1. config' \in [Default -> {Nil} \cup Kept] /\ \A d \in Default : config'[d] = IF d = c THEN to ELSE config[d]
      BY <1>6 DEF DefaultsInv, DefaultsType
    <2>2. \A d \in Default \ {c} : config[d] # Nil => ~(config[d].setting = to.setting /\ config[d].scope = to.scope)
      BY <1>6 DEF D!Taken
    <2>3. Unique'
      BY <2>1, <2>2 DEF DefaultsInv, Unique
    <2> QED BY <1>2, <1>3, <1>4, <1>6, <2>1, <2>3, ListsKept DEF DefaultsInv, DefaultsType
  <1> QED BY <1>2, <1>5, <1>6

LEMMA DeleteConfigKept == ASSUME DefaultsInv, D!DeleteConfig PROVE DefaultsInv'
  <1>1. PICK c \in Default : config' = [config EXCEPT ![c] = Nil]
    BY DEF D!DeleteConfig
  <1>2. UNCHANGED <<dkind, legacy, drow, dcdn, work, cut, group, last, dreq>> /\ touched' = (touched \/ work.pc # "idle")
    BY DEF D!DeleteConfig, D!things, D!Touch
  <1>3. config' \in [Default -> {Nil} \cup Kept] /\ \A d \in Default : config'[d] = IF d = c THEN Nil ELSE config[d]
    BY <1>1 DEF DefaultsInv, DefaultsType
  <1>4. Unique'
    BY <1>3 DEF DefaultsInv, Unique
  <1> QED BY <1>2, <1>3, <1>4, ListsKept DEF DefaultsInv, DefaultsType

(* Of a group that goes, the defaults that are moved to everything do not  *)
(* meet others there, so that what is due for it stays due.                *)
LEMMA OutlivedDue ==
  ASSUME DefaultsInv, NEW g \in 1..MaxGroup, config' = [c \in Default |-> D!Outlived(g, c)],
         \A c \in Default : config[c] # Nil /\ config[c].scope = g => ~D!Taken(c, [config[c] EXCEPT !.scope = 0])
  PROVE  config' \in [Default -> {Nil} \cup Kept] /\ Unique' /\ D!Due(g)' = D!Due(g)
  <1>1. 0 \in 0..MaxGroup /\ g \in 0..MaxGroup /\ g # 0 /\ Nil \notin Kept
    BY NilIsNothing
  <1>2. \A c \in Default : config[c] \in {Nil} \cup Kept
    BY DEF DefaultsInv, DefaultsType
  <1>3. ASSUME NEW c \in Default, config[c] # Nil, config[c].scope = g
        PROVE  /\ config'[c] \in Kept /\ config'[c] # Nil /\ config'[c].scope = 0
               /\ config'[c].setting = config[c].setting /\ config'[c].on = config[c].on
    BY <1>1, <1>2, <1>3 DEF D!Outlived, Kept
  <1>4. ASSUME NEW c \in Default, ~(config[c] # Nil /\ config[c].scope = g) PROVE config'[c] = config[c]
    BY <1>4 DEF D!Outlived
  <1>5. config' \in [Default -> {Nil} \cup Kept]
    BY <1>2, <1>3, <1>4
  <1>6. ASSUME NEW c \in Default, NEW d \in Default \ {c}, config[c] # Nil, config[c].scope = g, config[d] # Nil, config[d].scope = 0
        PROVE  config[d].setting # config[c].setting
    <2>1. ~D!Taken(c, [config[c] EXCEPT !.scope = 0]) /\ config[c] \in Kept
      BY <1>2, <1>6
    <2> QED BY <1>6, <2>1 DEF D!Taken, Kept
  <1>7. Unique'
    <2>1. SUFFICES ASSUME NEW c \in Default, NEW d \in Default, config'[c] # Nil, config'[d] # Nil,
                          config'[c].setting = config'[d].setting, config'[c].scope = config'[d].scope
                   PROVE  c = d
      BY DEF Unique
    <2>2. config[c] # Nil /\ config[d] # Nil
      BY <1>4, <2>1
    <2>3. config[c].setting = config[d].setting
      BY <1>3, <1>4, <2>1, <2>2
    <2>4. CASE config[c].scope = config[d].scope
      BY <2>2, <2>3, <2>4 DEF DefaultsInv, Unique
    <2>5. CASE config[c].scope # config[d].scope
      BY <1>3, <1>4, <1>6, <2>1, <2>2, <2>3, <2>5
    <2> QED BY <2>4, <2>5
  <1>8. ASSUME NEW s \in Setting PROVE D!On(s, g)' = {} /\ D!On(s, 0)' = D!On(s, g) \cup D!On(s, 0)
    <2>1. ASSUME NEW c \in Default
          PROVE  /\ ~(config'[c] # Nil /\ config'[c] = [setting |-> s, scope |-> g, on |-> TRUE])
                 /\ (config'[c] # Nil /\ config'[c] = [setting |-> s, scope |-> 0, on |-> TRUE]) <=>
                      \/ config[c] # Nil /\ config[c] = [setting |-> s, scope |-> g, on |-> TRUE]
                      \/ config[c] # Nil /\ config[c] = [setting |-> s, scope |-> 0, on |-> TRUE]
      <3>1. config[c] \in {Nil} \cup Kept /\ config'[c] \in {Nil} \cup Kept
        BY <1>2, <1>5
      <3>2. ASSUME NEW x \in {Nil} \cup Kept, NEW k
            PROVE  x # Nil /\ x = [setting |-> s, scope |-> k, on |-> TRUE] <=> x # Nil /\ x.setting = s /\ x.scope = k /\ x.on = TRUE
        BY DEF Kept
      <3>3. /\ ~(config'[c] # Nil /\ config'[c].setting = s /\ config'[c].scope = g /\ config'[c].on = TRUE)
            /\ (config'[c] # Nil /\ config'[c].setting = s /\ config'[c].scope = 0 /\ config'[c].on = TRUE) <=>
                 \/ config[c] # Nil /\ config[c].setting = s /\ config[c].scope = g /\ config[c].on = TRUE
                 \/ config[c] # Nil /\ config[c].setting = s /\ config[c].scope = 0 /\ config[c].on = TRUE
        BY <1>1, <1>3, <1>4
      <3> QED BY <3>1, <3>2, <3>3
    <2> QED BY <2>1 DEF D!On
  <1>9. ASSUME NEW s \in Setting, D!On(s, g) # {} PROVE D!On(s, 0) = {}
    <2>1. PICK c \in Default : config[c] # Nil /\ config[c] = [setting |-> s, scope |-> g, on |-> TRUE]
      BY <1>9 DEF D!On
    <2>2. ASSUME NEW d \in D!On(s, 0) PROVE FALSE
      <3>1. d \in Default /\ config[d] # Nil /\ config[d] = [setting |-> s, scope |-> 0, on |-> TRUE]
        BY DEF D!On
      <3>2. config[c].scope = g /\ config[c].setting = s /\ config[d].scope = 0 /\ config[d].setting = s
        BY <2>1, <3>1
      <3>3. c # d
        BY <1>1, <3>2
      <3> QED BY <1>6, <2>1, <3>1, <3>2, <3>3
    <2> QED BY <2>2
  <1>10. D!Due(g)' = D!Due(g)
    <2>1. ASSUME NEW s \in Setting, NEW its, NEW was, its = (IF D!On(s, g)' # {} THEN D!On(s, g)' ELSE D!On(s, 0)'),
                 was = (IF D!On(s, g) # {} THEN D!On(s, g) ELSE D!On(s, 0))
          PROVE  (IF its = {} THEN Nil ELSE CHOOSE c \in its : TRUE) = (IF was = {} THEN Nil ELSE CHOOSE c \in was : TRUE)
      <3>1. its = was
        BY <1>8, <1>9, <2>1
      <3> QED BY <3>1
    <2> QED BY <2>1 DEF D!Due
  <1> QED BY <1>5, <1>7, <1>10

LEMMA DeleteKept == ASSUME DefaultsInv, NEW r \in Changer, dreq[r].pc = "delete", D!Delete(r) PROVE DefaultsInv'
  <1>1. PICK g \in 1..MaxGroup : g = dreq[r].group
    BY DEF DefaultsInv, DefaultsType
  <1>2. UNCHANGED <<dkind, legacy, last, dcdn, work>> /\ dreq' = [dreq EXCEPT ![r] = D!Idle]
    BY DEF D!Delete
  <1>3. D!Idle \in DReq /\ D!Idle.pc = "idle"
    BY NilIsNothing DEF D!Idle, DReq
  <1>4. dreq' \in [Changer -> DReq] /\ \A q \in Changer : dreq'[q] = IF q = r THEN D!Idle ELSE dreq[q]
    BY <1>2, <1>3 DEF DefaultsInv, DefaultsType
  <1>5. CASE UNCHANGED <<group, config, drow, cut, touched>>
    <2>1. Unique'
      BY <1>5 DEF DefaultsInv, Unique
    <2> QED BY <1>2, <1>3, <1>4, <1>5, <2>1, ListsKept DEF DefaultsInv, DefaultsType
  <1>6. CASE /\ \A c \in Default : config[c] # Nil /\ config[c].scope = g => ~D!Taken(c, [config[c] EXCEPT !.scope = 0])
             /\ group' = [group EXCEPT ![g] = Nil] /\ config' = [c \in Default |-> D!Outlived(g, c)]
             /\ drow' = IF drow # Nil /\ drow.group = g THEN [drow EXCEPT !.group = 0] ELSE drow
             /\ cut' = (cut \/ work.pc # "idle") /\ touched' = (touched \/ (g # work.group /\ work.pc # "idle"))
    <2>1. config' \in [Default -> {Nil} \cup Kept] /\ Unique' /\ D!Due(g)' = D!Due(g)
      BY <1>6, OutlivedDue
    <2>2. drow \in {Nil} \cup DRows /\ 0 \in 0..MaxGroup /\ g # 0 /\ Nil \notin DRows
      BY NilIsNothing DEF DefaultsInv, DefaultsType
    <2>3. /\ drow' \in {Nil} \cup DRows /\ (drow' = Nil <=> drow = Nil)
          /\ drow # Nil => drow'.val = drow.val /\ drow'.group = IF drow.group = g THEN 0 ELSE drow.group
      <3>1. CASE drow = Nil \/ drow.group # g
        BY <1>6, <2>2, <3>1
      <3>2. CASE drow # Nil /\ drow.group = g
        <4>1. drow \in DRows /\ drow' = [drow EXCEPT !.group = 0]
          BY <1>6, <2>2, <3>2
        <4>2. drow' \in DRows /\ drow'.group = 0 /\ drow'.val = drow.val
          BY <2>2, <4>1 DEF DRows
        <4> QED BY <2>2, <3>2, <4>2
      <3> QED BY <3>1, <3>2
    <2>4. group' \in [1..MaxGroup -> Name \cup {Nil}] /\ \A h \in 1..MaxGroup : h # g => group'[h] = group[h]
      BY <1>6 DEF DefaultsInv, DefaultsType
    <2>a. cut' \in BOOLEAN /\ touched' \in BOOLEAN
      BY <1>6
    <2>5. DefaultsType'
      BY <1>2, <1>3, <1>4, <2>a, <2>1, <2>3, <2>4 DEF DefaultsInv, DefaultsType
    <2>6. InGroup'
      <3>1. \A h : h # g => (D!Stands(h) => D!Stands(h)')
        BY <2>4 DEF D!Stands, D!Standing, D!Number
      <3>2. (drow # Nil => D!Stands(drow.group))'
        <4>1. SUFFICES ASSUME drow # Nil PROVE D!Stands(drow.group)'
          BY <2>3
        <4>2. PICK h : h = drow.group
          OBVIOUS
        <4>3. D!Stands(h)
          BY <4>1, <4>2 DEF DefaultsInv, InGroup
        <4>4. CASE h = g
          <5>1. drow'.group = 0
            BY <2>3, <4>1, <4>2, <4>4
          <5> QED BY <5>1 DEF D!Stands, D!Standing
        <4>5. CASE h # g
          <5>1. drow'.group = h /\ D!Stands(h)'
            BY <2>3, <3>1, <4>1, <4>2, <4>3, <4>5
          <5> QED BY <5>1 DEF D!Stands
        <4> QED BY <4>4, <4>5
      <3>3. ~cut' => work'.pc = "idle"
        BY <1>2, <1>6
      <3> QED BY <3>2, <3>3 DEF InGroup
    <2>7. StillDue'
      <3>1. SUFFICES ASSUME ~touched' PROVE StillDue'
        BY DEF StillDue
      <3>2. ~touched /\ (work.pc = "idle" \/ g = work.group)
        BY <1>6, <3>1
      <3>3. (work.pc = "checked" => work.before = D!Due(work.group))'
        <4>1. SUFFICES ASSUME work.pc = "checked" PROVE (work.before = D!Due(work.group))'
          BY <1>2
        <4>2. g = work.group /\ work.before = D!Due(g)
          BY <3>2, <4>1 DEF DefaultsInv, StillDue
        <4>3. work'.before = D!Due(g)' /\ work'.group = g
          BY <1>2, <2>1, <4>2
        <4> QED BY <4>3 DEF D!Due, D!On
      <3>4. (work.pc \in Ready => \A s \in Setting : work.val[s] = IF s \in work.input THEN "own" ELSE work.before[s])'
        BY <1>2, <3>2 DEF DefaultsInv, StillDue
      <3> QED BY <3>3, <3>4 DEF StillDue
    <2>8. Follows'
      BY <1>2, <1>6, <2>3 DEF DefaultsInv, Follows
    <2> QED BY <2>1, <2>5, <2>6, <2>7, <2>8 DEF DefaultsInv
  <1> QED BY <1>1, <1>5, <1>6 DEF D!Delete, D!Touch

LEMMA RestartKept == ASSUME DefaultsInv, D!Restart PROVE DefaultsInv'
  <1>1. /\ UNCHANGED <<dkind, legacy, drow, dcdn>> /\ dreq' = [r \in Changer |-> D!Idle] /\ work' = D!Free
        /\ cut' = (cut \/ work.pc # "idle") /\ touched' = FALSE
    BY DEF D!Restart
  <1>2. dreq' \in [Changer -> DReq] /\ \A r \in Changer : dreq'[r].pc = "idle"
    BY <1>1, NilIsNothing DEF D!Idle, DReq
  <1>3. work' \in DWork /\ work'.pc = "idle"
    BY <1>1, NilIsNothing DEF D!Free, DWork
  <1>4. /\ group' \in [1..MaxGroup -> Name \cup {Nil}] /\ last' \in 0..MaxGroup /\ config' \in [Default -> {Nil} \cup Kept] /\ Unique'
        /\ \A g \in 1..MaxGroup : group[g] # Nil => group'[g] # Nil
    <2>1. CASE UNCHANGED <<group, last, config>>
      BY <2>1 DEF DefaultsInv, DefaultsType, Unique
    <2>2. CASE ~(legacy = 0 \/ D!Home > MaxGroup)
      <3>1. PICK h : h = D!Home
        OBVIOUS
      <3>2. h \in 1..MaxGroup
        <4>1. CASE \E g \in 1..MaxGroup : group[g] = "old"
          BY <3>1, <4>1 DEF D!Home, D!Number
        <4>2. CASE ~\E g \in 1..MaxGroup : group[g] = "old"
          <5>1. h = last + 1 /\ last \in 0..MaxGroup
            BY <3>1, <4>2 DEF D!Home, D!Number, DefaultsInv, DefaultsType
          <5> QED BY <2>2, <3>1, <5>1, NilIsNothing
        <4> QED BY <4>1, <4>2
      <3>3. "old" \in Name /\ "old" # Nil
        BY <2>2, ConfigAssumption DEF DefaultsInv, DefaultsType
      <3>4. /\ group' = [group EXCEPT ![h] = "old"] /\ last' = IF h > last THEN h ELSE last
            /\ config' = [c \in Default |-> IF c \in D!Moving THEN [config[c] EXCEPT !.scope = h] ELSE config[c]]
        BY <2>2, <3>1 DEF D!Restart
      <3>5. group' \in [1..MaxGroup -> Name \cup {Nil}] /\ last' \in 0..MaxGroup /\ \A g \in 1..MaxGroup : group[g] # Nil => group'[g] # Nil
        BY <3>2, <3>3, <3>4 DEF DefaultsInv, DefaultsType
      <3>6. \A c \in Default : config[c] \in {Nil} \cup Kept
        BY DEF DefaultsInv, DefaultsType
      <3>7. ASSUME NEW c \in Default, c \in D!Moving
            PROVE  config[c] # Nil /\ config[c].scope = legacy /\ config'[c] \in Kept /\ config'[c] # Nil
                   /\ config'[c].scope = h /\ config'[c].setting = config[c].setting
        <4>1. config[c] # Nil /\ config[c].scope = legacy /\ config[c] \in Kept /\ h \in 0..MaxGroup
          BY <3>2, <3>6, <3>7 DEF D!Moving
        <4>2. config'[c] = [config[c] EXCEPT !.scope = h]
          BY <3>4, <3>7
        <4> QED BY <4>1, <4>2, NilIsNothing DEF Kept
      <3>8. ASSUME NEW c \in Default, c \notin D!Moving
            PROVE  config'[c] = config[c] /\ (config[c] # Nil => config[c].scope # legacy)
        BY <3>4, <3>8 DEF D!Moving
      <3>9. config' \in [Default -> {Nil} \cup Kept]
        BY <3>4, <3>6, <3>7, <3>8
      <3>10. ASSUME NEW c \in Default, NEW d \in Default, c \in D!Moving, d \notin D!Moving, config[d] # Nil, config[d].scope = h
             PROVE  config[d].setting # config[c].setting
        <4>1. legacy # h /\ c # d
          BY <3>8, <3>10
        <4>2. ~D!Taken(c, [config[c] EXCEPT !.scope = h])
          BY <2>2, <3>1, <3>10, <4>1 DEF D!Restart, D!StartFails
        <4>3. config[c] \in Kept
          BY <3>6, <3>7, <3>10
        <4> QED BY <3>10, <4>1, <4>2, <4>3 DEF D!Taken, Kept
      <3>11. Unique'
        <4>1. SUFFICES ASSUME NEW c \in Default, NEW d \in Default, config'[c] # Nil, config'[d] # Nil,
                              config'[c].setting = config'[d].setting, config'[c].scope = config'[d].scope
                       PROVE  c = d
          BY DEF Unique
        <4>2. config[c] # Nil /\ config[d] # Nil /\ config[c].setting = config[d].setting
          BY <3>7, <3>8, <4>1
        <4>3. CASE config[c].scope = config[d].scope
          BY <4>2, <4>3 DEF DefaultsInv, Unique
        <4>4. CASE config[c].scope # config[d].scope
          BY <3>7, <3>8, <3>10, <4>1, <4>2, <4>4
        <4> QED BY <4>3, <4>4
      <3> QED BY <3>5, <3>9, <3>11
    <2> QED BY <2>1, <2>2 DEF D!Restart
  <1>5. DefaultsType'
    BY <1>1, <1>2, <1>3, <1>4 DEF DefaultsInv, DefaultsType, Ready
  <1>6. InGroup'
    BY <1>1, <1>3, <1>4 DEF DefaultsInv, InGroup, D!Stands, D!Standing, D!Number
  <1>7. StillDue' /\ Follows'
    BY <1>1, <1>3 DEF DefaultsInv, StillDue, Follows, Ready
  <1> QED BY <1>4, <1>5, <1>6, <1>7 DEF DefaultsInv

(* The request that holds the lock goes on.                                *)
LEMMA WorkKept ==
  ASSUME DefaultsInv, UNCHANGED <<dkind, legacy, group, last, config, dreq>>,
         work' \in DWork, drow' \in {Nil} \cup DRows, dcdn' \in D!Values \cup {Nil}, touched' \in BOOLEAN, cut' \in BOOLEAN,
         work'.pc \in {"checked"} \cup Ready => work'.before \in D!Values,
         work'.pc \in Ready => work'.val \in D!Values,
         work'.pc \in {"regroup", "put", "save"} => drow' # Nil /\ dcdn' # Nil,
         work'.pc = "insert" /\ work'.way # "single" => dcdn' # Nil,
         (drow # Nil => D!Stands(drow.group))', (~cut /\ work.pc # "idle" => D!Stands(work.group))',
         StillDue', Follows'
  PROVE  DefaultsInv'
  <1>1. DefaultsType'
    BY DEF DefaultsInv, DefaultsType
  <1>2. Unique'
    BY DEF DefaultsInv, Unique
  <1> QED BY <1>1, <1>2 DEF DefaultsInv, InGroup

LEMMA StandsSame == ASSUME group' = group, NEW g PROVE D!Stands(g)' <=> D!Stands(g)
  BY DEF D!Stands, D!Standing

LEMMA BeginCreateKept == ASSUME DefaultsInv, D!BeginCreate PROVE DefaultsInv'
  <1>1. /\ UNCHANGED <<dkind, legacy, group, last, config, dreq, drow, dcdn>> /\ drow = Nil /\ dcdn = Nil
        /\ touched' = FALSE /\ cut' = FALSE
    BY DEF D!BeginCreate, D!lists
  <1>2. PICK way \in {"single", "batch", "stream"}, g \in D!Standing, input \in SUBSET Setting :
          work' = [pc |-> "checked", way |-> way, group |-> g, input |-> input, val |-> Nil, before |-> D!Due(g)]
    BY DEF D!BeginCreate
  <1>3. g \in 0..MaxGroup /\ D!Due(g) \in D!Values /\ D!Stands(g)
    BY NilIsNothing, DueIsValues DEF D!Standing, D!Number, D!Stands
  <1>4. work' \in DWork /\ work'.pc = "checked" /\ work'.group = g /\ work'.before = D!Due(g)
    BY <1>2, <1>3 DEF DWork
  <1>5. (drow # Nil => D!Stands(drow.group))' /\ (~cut /\ work.pc # "idle" => D!Stands(work.group))'
    <2>1. D!Stands(g)'
      BY <1>1, <1>3, StandsSame
    <2> QED BY <1>1, <1>4, <2>1 DEF D!Stands
  <1>6. StillDue'
    <2>1. D!Due(g)' = D!Due(g)
      BY <1>1, DueSame
    <2>2. work'.before = D!Due(g)' /\ work'.group = g
      BY <1>4, <2>1
    <2>3. (work.before = D!Due(work.group))'
      BY <2>2 DEF D!Due, D!On
    <2> QED BY <1>4, <2>3 DEF StillDue, Ready
  <1>7. Follows'
    BY <1>1, <1>4 DEF Follows
  <1> QED BY <1>1, <1>3, <1>4, <1>5, <1>6, <1>7, WorkKept DEF Ready

(* A step that keeps the group and the history.                            *)
LEMMA StepKept ==
  ASSUME DefaultsInv, UNCHANGED <<dkind, legacy, group, last, config, dreq, touched, cut>>,
         NEW w \in DWork, work' = w, w.group = work.group \/ w.pc = "idle", work.pc # "idle",
         w.pc # "checked",
         drow' \in {Nil} \cup DRows, dcdn' \in D!Values \cup {Nil},
         w.pc \in Ready => w.before \in D!Values /\ w.val \in D!Values,
         w.pc \in {"regroup", "put", "save"} => drow' # Nil /\ dcdn' # Nil,
         w.pc = "insert" /\ w.way # "single" => dcdn' # Nil,
         drow' # Nil => (drow # Nil /\ drow'.group = drow.group) \/ drow'.group = 0 \/ (drow'.group = work.group /\ D!Stands(work.group)),
         ~touched => (w.pc \in Ready => \A s \in Setting : w.val[s] = IF s \in w.input THEN "own" ELSE w.before[s]),
         Follows'
  PROVE  DefaultsInv'
  <1>1. (drow # Nil => D!Stands(drow.group))'
    <2>1. SUFFICES ASSUME drow' # Nil PROVE D!Stands(drow.group)'
      OBVIOUS
    <2>2. PICK h : h = drow'.group
      OBVIOUS
    <2>3. D!Stands(h)
      BY <2>1, <2>2 DEF DefaultsInv, InGroup, D!Stands, D!Standing
    <2>4. D!Stands(h)'
      BY <2>3, StandsSame
    <2> QED BY <2>2, <2>4 DEF D!Stands
  <1>2. (~cut /\ work.pc # "idle" => D!Stands(work.group))'
    <2>1. SUFFICES ASSUME ~cut, w.pc # "idle" PROVE D!Stands(work.group)'
      OBVIOUS
    <2>2. PICK h : h = work.group
      OBVIOUS
    <2>3. D!Stands(h)'
      BY <2>1, <2>2, StandsSame DEF DefaultsInv, InGroup
    <2> QED BY <2>1, <2>2, <2>3 DEF D!Stands
  <1>3. StillDue'
    BY DEF StillDue
  <1>4. touched' \in BOOLEAN /\ cut' \in BOOLEAN
    BY DEF DefaultsInv, DefaultsType
  <1> QED BY <1>1, <1>2, <1>3, <1>4, WorkKept DEF Ready

LEMMA ApplyKept == ASSUME DefaultsInv, D!ApplyDefaults PROVE DefaultsInv'
  <1> DEFINE val == D!Merged(work.group, work.input)
             pc == IF work.way = "single" THEN "insert" ELSE "post"
             w == [work EXCEPT !.pc = pc, !.val = val]
  <1>1. UNCHANGED <<dkind, legacy, group, last, config, dreq, drow, dcdn, touched, cut>> /\ work.pc = "checked" /\ work' = w
    BY DEF D!ApplyDefaults, D!lists, D!history
  <1>2. work \in DWork /\ work.input \in SUBSET Setting /\ work.before \in D!Values
    BY <1>1 DEF DefaultsInv, DefaultsType, DWork
  <1>3. val \in D!Values /\ \A s \in Setting : val[s] = IF s \in work.input THEN "own" ELSE D!Due(work.group)[s]
    BY <1>2, MergedIsDue
  <1> HIDE DEF val
  <1>4. w \in DWork /\ w.pc = pc /\ w.val = val /\ w.group = work.group /\ w.before = work.before /\ w.input = work.input /\ w.way = work.way
    BY <1>2, <1>3 DEF DWork
  <1> HIDE DEF w
  <1>5. ~touched => \A s \in Setting : w.val[s] = IF s \in w.input THEN "own" ELSE w.before[s]
    BY <1>1, <1>3, <1>4 DEF DefaultsInv, StillDue
  <1>6. Follows'
    BY <1>1, <1>4 DEF DefaultsInv, Follows
  <1>7. drow \in {Nil} \cup DRows /\ dcdn \in D!Values \cup {Nil}
    BY DEF DefaultsInv, DefaultsType
  <1> QED BY <1>1, <1>2, <1>3, <1>4, <1>5, <1>6, <1>7, StepKept DEF Ready

LEMMA WorkIs ==
  ASSUME DefaultsInv
  PROVE  /\ drow \in {Nil} \cup DRows /\ dcdn \in D!Values \cup {Nil} /\ work \in DWork /\ D!Free \in DWork /\ D!Free.pc = "idle"
         /\ work.pc \in Ready => work.before \in D!Values /\ work.val \in D!Values
         /\ work.pc \in {"regroup", "put", "save"} => drow \in DRows /\ dcdn \in D!Values
         /\ \A pc \in {"post", "insert", "regroup", "put", "save"} : \A w : w = [work EXCEPT !.pc = pc] =>
              /\ w \in DWork /\ w.pc = pc /\ w.group = work.group /\ w.val = work.val /\ w.before = work.before
              /\ w.input = work.input /\ w.way = work.way
         /\ \A g \in 0..MaxGroup, v \in D!Values : /\ [group |-> g, val |-> v] \in DRows /\ [group |-> g, val |-> v] # Nil
                                                   /\ [group |-> g, val |-> v].group = g /\ [group |-> g, val |-> v].val = v
         /\ \A g \in 0..MaxGroup, d \in DRows : [d EXCEPT !.group = g] \in DRows /\ [d EXCEPT !.group = g] # Nil
                                                /\ [d EXCEPT !.group = g].group = g /\ [d EXCEPT !.group = g].val = d.val
         /\ \A v \in D!Values, d \in DRows : [d EXCEPT !.val = v] \in DRows /\ [d EXCEPT !.val = v] # Nil
                                             /\ [d EXCEPT !.val = v].val = v /\ [d EXCEPT !.val = v].group = d.group
  <1>1. drow \in {Nil} \cup DRows /\ dcdn \in D!Values \cup {Nil} /\ work \in DWork
    BY DEF DefaultsInv, DefaultsType
  <1>2. D!Free \in DWork /\ D!Free.pc = "idle"
    BY NilIsNothing DEF D!Free, DWork
  <1>3. /\ work.pc \in Ready => work.before \in D!Values /\ work.val \in D!Values
        /\ work.pc \in {"regroup", "put", "save"} => drow \in DRows /\ dcdn \in D!Values
    BY DEF DefaultsInv, DefaultsType
  <1>4. ASSUME NEW pc \in {"post", "insert", "regroup", "put", "save"}, NEW w, w = [work EXCEPT !.pc = pc]
        PROVE  /\ w \in DWork /\ w.pc = pc /\ w.group = work.group /\ w.val = work.val /\ w.before = work.before
               /\ w.input = work.input /\ w.way = work.way
    BY <1>1, <1>4 DEF DWork
  <1>5. \A g \in 0..MaxGroup, v \in D!Values : /\ [group |-> g, val |-> v] \in DRows
                                               /\ [group |-> g, val |-> v].group = g /\ [group |-> g, val |-> v].val = v
    BY DEF DRows
  <1>6. ASSUME NEW g \in 0..MaxGroup, NEW d \in DRows
        PROVE  [d EXCEPT !.group = g] \in DRows /\ [d EXCEPT !.group = g].group = g /\ [d EXCEPT !.group = g].val = d.val
    BY DEF DRows
  <1>7. ASSUME NEW v \in D!Values, NEW d \in DRows
        PROVE  [d EXCEPT !.val = v] \in DRows /\ [d EXCEPT !.val = v].val = v /\ [d EXCEPT !.val = v].group = d.group
    BY DEF DRows
  <1>8. Nil \notin DRows
    BY NilIsNothing
  <1>9. \A g \in 0..MaxGroup, v \in D!Values : [group |-> g, val |-> v] # Nil
    BY <1>5, <1>8, Zenon
  <1>10. \A g \in 0..MaxGroup, d \in DRows : [d EXCEPT !.group = g] # Nil
    BY <1>6, <1>8, Zenon
  <1>11. \A v \in D!Values, d \in DRows : [d EXCEPT !.val = v] # Nil
    BY <1>7, <1>8, Zenon
  <1> QED BY <1>1, <1>2, <1>3, <1>4, <1>5, <1>6, <1>7, <1>9, <1>10, <1>11

LEMMA InsertFirstKept == ASSUME DefaultsInv, D!InsertFirst PROVE DefaultsInv'
  <1>1. UNCHANGED <<dkind, legacy, group, last, config, dreq, dcdn, touched, cut>> /\ work.pc = "insert" /\ work.way = "single"
    BY DEF D!InsertFirst, D!lists, D!history
  <1>2. work.group \in 0..MaxGroup /\ work.val \in D!Values
    BY <1>1, WorkIs DEF DWork, Ready
  <1>3. CASE D!Stands(work.group)
    <2>1. PICK w : w = [work EXCEPT !.pc = "post"]
      OBVIOUS
    <2>2. PICK d : d = [group |-> work.group, val |-> work.val]
      OBVIOUS
    <2>3. work' = w /\ drow' = d
      BY <1>3, <2>1, <2>2 DEF D!InsertFirst, D!To, D!Recorded
    <2>4. d \in DRows /\ d # Nil /\ d.group = work.group /\ d.val = work.val
      BY <1>2, <2>2, WorkIs
    <2>5. w \in DWork /\ w.pc = "post" /\ w.group = work.group /\ w.val = work.val /\ w.before = work.before /\ w.input = work.input /\ w.way = work.way
      BY <2>1, WorkIs
    <2>6. Follows'
      BY <1>1, <2>3, <2>4, <2>5 DEF DefaultsInv, Follows
    <2>7. ~touched => \A s \in Setting : w.val[s] = IF s \in w.input THEN "own" ELSE w.before[s]
      BY <1>1, <2>5 DEF DefaultsInv, StillDue, Ready
    <2> QED BY <1>1, <1>3, <2>3, <2>4, <2>5, <2>6, <2>7, StepKept, WorkIs DEF Ready
  <1>4. CASE ~D!Stands(work.group)
    <2>1. work' = D!Free /\ drow' = drow
      BY <1>4 DEF D!InsertFirst
    <2>2. Follows'
      BY <1>1, <2>1, WorkIs DEF DefaultsInv, Follows
    <2> QED BY <1>1, <2>1, <2>2, StepKept, WorkIs DEF Ready
  <1> QED BY <1>3, <1>4

LEMMA SendFirstKept == ASSUME DefaultsInv, D!SendFirst PROVE DefaultsInv'
  <1>1. UNCHANGED <<dkind, legacy, group, last, config, dreq, touched, cut>> /\ work.pc = "post" /\ work.way = "single" /\ work' = D!Free
    BY DEF D!SendFirst, D!lists, D!history
  <1>2. work.val \in D!Values
    BY <1>1, WorkIs DEF Ready
  <1>3. (dcdn' = work.val /\ drow' = drow) \/ (drow' = Nil /\ dcdn' = dcdn)
    BY DEF D!SendFirst
  <1>4. Follows'
    BY <1>1, <1>3, WorkIs DEF DefaultsInv, Follows
  <1> QED BY <1>1, <1>2, <1>3, <1>4, StepKept, WorkIs DEF Ready

LEMMA SendKept == ASSUME DefaultsInv, D!Send PROVE DefaultsInv'
  <1>1. /\ UNCHANGED <<dkind, legacy, group, last, config, dreq, touched, cut, drow>>
        /\ work.pc = "post" /\ work.way \in {"batch", "stream"}
    BY DEF D!Send, D!lists, D!history
  <1>2. work.val \in D!Values
    BY <1>1, WorkIs DEF Ready
  <1>3. CASE dcdn' = work.val /\ D!To("insert")
    <2>1. PICK w : w = [work EXCEPT !.pc = "insert"]
      OBVIOUS
    <2>2. work' = w
      BY <1>3, <2>1 DEF D!To
    <2>3. w \in DWork /\ w.pc = "insert" /\ w.group = work.group /\ w.val = work.val /\ w.before = work.before /\ w.input = work.input /\ w.way = work.way
      BY <2>1, WorkIs
    <2>4. Follows'
      BY <1>1, <1>3, <2>2, <2>3 DEF DefaultsInv, Follows
    <2>5. ~touched => \A s \in Setting : w.val[s] = IF s \in w.input THEN "own" ELSE w.before[s]
      BY <1>1, <2>3 DEF DefaultsInv, StillDue, Ready
    <2>6. dcdn' # Nil
      BY <1>2, <1>3, NilIsNothing
    <2> QED BY <1>1, <1>2, <1>3, <2>2, <2>3, <2>4, <2>5, <2>6, StepKept, WorkIs DEF Ready
  <1>4. CASE work' = D!Free /\ dcdn' = dcdn
    <2>1. Follows'
      BY <1>1, <1>4, WorkIs DEF DefaultsInv, Follows
    <2> QED BY <1>1, <1>4, <2>1, StepKept, WorkIs DEF Ready
  <1> QED BY <1>3, <1>4 DEF D!Send

LEMMA InsertKept == ASSUME DefaultsInv, D!Insert PROVE DefaultsInv'
  <1>1. /\ UNCHANGED <<dkind, legacy, group, last, config, dreq, touched, cut, dcdn>>
        /\ work.pc = "insert" /\ work.way = "batch" /\ work' = D!Free
    BY DEF D!Insert, D!lists, D!history
  <1>2. work.group \in 0..MaxGroup /\ work.val \in D!Values
    BY <1>1, WorkIs DEF DWork, Ready
  <1>3. CASE D!Stands(work.group)
    <2>1. PICK d : d = [group |-> work.group, val |-> work.val]
      OBVIOUS
    <2>2. drow' = d /\ d \in DRows /\ d # Nil /\ d.group = work.group /\ d.val = work.val
      BY <1>2, <1>3, <2>1, WorkIs DEF D!Insert, D!Recorded
    <2>3. Follows'
      BY <1>1, <2>2, WorkIs DEF DefaultsInv, Follows
    <2> QED BY <1>1, <1>3, <2>2, <2>3, StepKept, WorkIs DEF Ready
  <1>4. CASE ~D!Stands(work.group)
    <2>1. drow' = Nil
      BY <1>4 DEF D!Insert
    <2>2. Follows'
      BY <1>1, <1>4, <2>1, WorkIs DEF DefaultsInv, Follows, InGroup
    <2> QED BY <1>1, <2>1, <2>2, StepKept, WorkIs DEF Ready
  <1> QED BY <1>3, <1>4

LEMMA InsertStreamKept == ASSUME DefaultsInv, D!InsertStream PROVE DefaultsInv'
  <1>1. /\ UNCHANGED <<dkind, legacy, group, last, config, dreq, touched, cut, dcdn>>
        /\ work.pc = "insert" /\ work.way = "stream"
    BY DEF D!InsertStream, D!lists, D!history
  <1>2. 0 \in 0..MaxGroup /\ work.val \in D!Values
    BY <1>1, WorkIs, NilIsNothing DEF Ready
  <1>a. dcdn # Nil
    BY <1>1 DEF DefaultsInv, DefaultsType
  <1>3. PICK w : w = [work EXCEPT !.pc = "regroup"]
    OBVIOUS
  <1>4. PICK d : d = [group |-> 0, val |-> work.val]
    OBVIOUS
  <1>5. work' = w /\ drow' = d
    BY <1>3, <1>4 DEF D!InsertStream, D!To, D!Recorded
  <1>6. d \in DRows /\ d # Nil /\ d.group = 0 /\ d.val = work.val
    BY <1>2, <1>4, WorkIs
  <1>7. w \in DWork /\ w.pc = "regroup" /\ w.group = work.group /\ w.val = work.val /\ w.before = work.before /\ w.input = work.input /\ w.way = work.way
    BY <1>3, WorkIs
  <1>8. Follows'
    BY <1>1, <1>5, <1>6, <1>7 DEF DefaultsInv, Follows
  <1>9. ~touched => \A s \in Setting : w.val[s] = IF s \in w.input THEN "own" ELSE w.before[s]
    BY <1>1, <1>7 DEF DefaultsInv, StillDue, Ready
  <1> QED BY <1>1, <1>a, <1>5, <1>6, <1>7, <1>8, <1>9, StepKept, WorkIs DEF Ready

LEMMA RegroupKept == ASSUME DefaultsInv, D!Regroup PROVE DefaultsInv'
  <1>1. /\ UNCHANGED <<dkind, legacy, group, last, config, dreq, touched, cut, dcdn>> /\ work.pc = "regroup" /\ work' = D!Free
    BY DEF D!Regroup, D!lists, D!history
  <1>2. work.group \in 0..MaxGroup /\ drow \in DRows
    BY <1>1, WorkIs DEF DWork
  <1>3. CASE D!Stands(work.group)
    <2>1. PICK d : d = [drow EXCEPT !.group = work.group]
      OBVIOUS
    <2>2. drow' = d /\ d \in DRows /\ d # Nil /\ d.group = work.group /\ d.val = drow.val
      BY <1>2, <1>3, <2>1, WorkIs DEF D!Regroup
    <2>3. Follows'
      BY <1>1, <2>2, WorkIs DEF DefaultsInv, Follows
    <2> QED BY <1>1, <1>3, <2>2, <2>3, StepKept, WorkIs DEF Ready
  <1>4. CASE ~D!Stands(work.group)
    <2>1. drow' = drow /\ drow # Nil
      BY <1>2, <1>4, NilIsNothing DEF D!Regroup
    <2>2. Follows'
      BY <1>1, <2>1, WorkIs DEF DefaultsInv, Follows
    <2> QED BY <1>1, <2>1, <2>2, StepKept, WorkIs DEF Ready
  <1> QED BY <1>3, <1>4

LEMMA GivenOver == ASSUME NEW input \in SUBSET Setting, NEW v \in D!Values PROVE D!Over(D!Given(input), v) \in D!Values
  BY DEF D!Over, D!Given, D!Values

LEMMA BeginUpdateKept == ASSUME DefaultsInv, D!BeginUpdate PROVE DefaultsInv'
  <1>1. /\ UNCHANGED <<dkind, legacy, group, last, config, dreq, touched, cut, drow, dcdn>>
        /\ work.pc = "idle" /\ drow # Nil /\ dcdn # Nil
    BY DEF D!BeginUpdate, D!lists, D!history
  <1>2. PICK g \in D!Standing \cup {drow.group}, input \in SUBSET Setting : work' = [D!Free EXCEPT !.pc = "put", !.group = g, !.input = input]
    BY DEF D!BeginUpdate
  <1>3. D!Stands(g) /\ g \in 0..MaxGroup
    <2>1. D!Stands(g)
      BY <1>1 DEF DefaultsInv, InGroup, D!Stands
    <2> QED BY <2>1, NilIsNothing DEF D!Stands, D!Standing, D!Number
  <1>4. work' \in DWork /\ work'.pc = "put" /\ work'.group = g
    <2>1. work' = [pc |-> "put", way |-> Nil, group |-> g, input |-> input, val |-> Nil, before |-> Nil]
      BY <1>2 DEF D!Free
    <2> QED BY <1>3, <2>1 DEF DWork
  <1>5. (drow # Nil => D!Stands(drow.group))' /\ (~cut /\ work.pc # "idle" => D!Stands(work.group))'
    <2>1. D!Stands(g)'
      BY <1>1, <1>3, StandsSame
    <2>2. PICK h : h = drow.group
      OBVIOUS
    <2>3. D!Stands(h)'
      BY <1>1, <2>2, StandsSame DEF DefaultsInv, InGroup
    <2> QED BY <1>1, <1>4, <2>1, <2>2, <2>3 DEF D!Stands
  <1>6. StillDue' /\ Follows'
    BY <1>1, <1>4 DEF DefaultsInv, StillDue, Follows, Ready
  <1>7. touched' \in BOOLEAN /\ cut' \in BOOLEAN /\ drow' \in {Nil} \cup DRows /\ dcdn' \in D!Values \cup {Nil}
    BY <1>1 DEF DefaultsInv, DefaultsType
  <1> QED BY <1>1, <1>4, <1>5, <1>6, <1>7, WorkKept DEF Ready

LEMMA PutFirstKept == ASSUME DefaultsInv, D!PutFirst PROVE DefaultsInv'
  <1>1. UNCHANGED <<dkind, legacy, group, last, config, dreq, touched, cut, drow>> /\ work.pc = "put"
    BY DEF D!PutFirst, D!lists, D!history
  <1>2. drow \in DRows /\ drow # Nil /\ dcdn \in D!Values /\ dcdn # Nil
    BY <1>1, WorkIs, NilIsNothing
  <1>3. CASE dcdn' = D!Over(D!Given(work.input), dcdn) /\ D!To("save")
    <2>1. PICK w : w = [work EXCEPT !.pc = "save"]
      OBVIOUS
    <2>2. work' = w
      BY <1>3, <2>1 DEF D!To
    <2>3. w \in DWork /\ w.pc = "save" /\ w.group = work.group /\ w.input = work.input
      BY <2>1, WorkIs
    <2>4. PICK i \in SUBSET Setting : i = work.input
      BY WorkIs DEF DWork
    <2>5. dcdn' \in D!Values /\ dcdn' # Nil
      BY <1>2, <1>3, GivenOver, <2>4, NilIsNothing
    <2>6. Follows'
      <3>1. SUFFICES ASSUME ~cut PROVE (dcdn = D!Over(D!Given(work.input), drow.val))'
        BY <1>1, <2>2, <2>3 DEF Follows
      <3>2. dcdn' = D!Over(D!Given(i), drow.val)
        BY <1>1, <1>3, <2>4, <3>1 DEF DefaultsInv, Follows
      <3> QED BY <1>1, <2>2, <2>3, <2>4, <3>2 DEF D!Over, D!Given
    <2> QED BY <1>1, <1>2, <2>2, <2>3, <2>5, <2>6, StepKept DEF Ready
  <1>4. CASE work' = D!Free /\ dcdn' = dcdn
    <2>1. Follows'
      BY <1>1, <1>2, <1>4, WorkIs DEF DefaultsInv, Follows
    <2> QED BY <1>1, <1>2, <1>4, <2>1, StepKept, WorkIs DEF Ready
  <1> QED BY <1>3, <1>4 DEF D!PutFirst

LEMMA SaveKept == ASSUME DefaultsInv, D!Save PROVE DefaultsInv'
  <1>1. UNCHANGED <<dkind, legacy, group, last, config, dreq, touched, cut, dcdn>> /\ work.pc = "save" /\ work' = D!Free
    BY DEF D!Save, D!lists, D!history
  <1>2. drow \in DRows /\ drow # Nil /\ work.group \in 0..MaxGroup /\ work.input \in SUBSET Setting
    BY <1>1, WorkIs, NilIsNothing DEF DWork
  <1>3. PICK val : val = D!Over(D!Given(work.input), drow.val)
    OBVIOUS
  <1>4. val \in D!Values
    <2>1. drow.val \in D!Values
      BY <1>2 DEF DRows
    <2> QED BY <1>2, <1>3, <2>1, GivenOver
  <1>5. ~cut => dcdn = val /\ D!Stands(work.group)
    BY <1>1, <1>3 DEF DefaultsInv, Follows, InGroup
  <1>6. CASE D!Stands(work.group)
    <2>1. PICK d : d = [group |-> work.group, val |-> val]
      OBVIOUS
    <2>2. drow' = d /\ d \in DRows /\ d # Nil /\ d.group = work.group /\ d.val = val
      BY <1>2, <1>3, <1>4, <1>6, <2>1, WorkIs DEF D!Save
    <2>3. Follows'
      BY <1>1, <1>5, <2>2, WorkIs DEF Follows
    <2> QED BY <1>1, <1>6, <2>2, <2>3, StepKept, WorkIs DEF Ready
  <1>7. CASE ~D!Stands(work.group)
    <2>1. PICK d : d = [drow EXCEPT !.val = val]
      OBVIOUS
    <2>2. d \in DRows /\ d # Nil /\ d.group = drow.group
      BY <1>2, <1>4, <2>1, WorkIs
    <2>3. drow' = d \/ drow' = drow
      BY <1>3, <1>7, <2>1 DEF D!Save
    <2>4. Follows'
      BY <1>1, <1>5, <1>7, WorkIs DEF Follows
    <2> QED BY <1>1, <1>2, <2>2, <2>3, <2>4, StepKept, WorkIs DEF Ready
  <1> QED BY <1>6, <1>7

LEMMA DefaultsStep == ASSUME DefaultsInv, D!Next PROVE DefaultsInv'
  <1>1. ASSUME NEW r \in Changer, D!BeginDelete(r) \/ D!Delete(r) \/ D!BeginPost(r) \/ D!Post(r) \/ D!BeginPut(r) \/ D!Put(r)
        PROVE  DefaultsInv'
    <2>1. CASE D!BeginDelete(r)
      BY <2>1, BeginDeleteKept
    <2>2. CASE D!Delete(r)
      BY <2>2, DeleteKept DEF D!Delete
    <2>3. CASE D!BeginPost(r)
      BY <2>3, BeginPostKept
    <2>4. CASE D!Post(r)
      BY <2>4, WriteKept DEF D!Post
    <2>5. CASE D!BeginPut(r)
      BY <2>5, BeginPutKept
    <2>6. CASE D!Put(r)
      BY <2>6, WriteKept DEF D!Put
    <2> QED BY <1>1, <2>1, <2>2, <2>3, <2>4, <2>5, <2>6
  <1> QED BY <1>1, MakeGroupKept, DeleteConfigKept, BeginCreateKept, ApplyKept, InsertFirstKept, SendFirstKept, SendKept, InsertKept,
             InsertStreamKept, RegroupKept, BeginUpdateKept, PutFirstKept, SaveKept, RestartKept DEF D!Next

LEMMA DefaultsStay == ASSUME DefaultsInv, UNCHANGED defaults PROVE DefaultsInv'
  <1>1. Unique' /\ DefaultsType'
    BY DEF DefaultsInv, DefaultsType, Unique, defaults
  <1>2. InGroup'
    BY DEF DefaultsInv, InGroup, defaults, D!Stands, D!Standing
  <1>3. StillDue'
    <2>1. (work.pc = "checked" => work.before = D!Due(work.group)) => (work.pc = "checked" => work.before = D!Due(work.group))'
      BY DEF D!Due, D!On, defaults
    <2> QED BY <2>1 DEF DefaultsInv, StillDue, defaults
  <1>4. Follows'
    BY DEF DefaultsInv, Follows, defaults, D!Over, D!Given
  <1> QED BY <1>1, <1>2, <1>3, <1>4 DEF DefaultsInv

(* Whatever groups and defaults are made, changed, moved and deleted while *)
(* a site or a stream is made or changed, and whenever the program starts  *)
(* again: what is sent is what was arranged when the request began, and    *)
(* the row says what the CDN serves, unless a group was deleted under the  *)
(* request (user-defaults.js; tenant-proxy.js:1579).                       *)
THEOREM DefaultsStaySound == MCSpec => []DefaultsSound
  <1>1. MCInit => DefaultsInv
    BY DefaultsBegin DEF MCInit
  <1>2. DefaultsInv /\ [MCNext]_<<part, defaults, fieldsVars, cnames>> => DefaultsInv'
    <2>1. ASSUME DefaultsInv, MCNext PROVE DefaultsInv'
      BY <2>1, DefaultsStep, DefaultsStay DEF MCNext
    <2> QED BY <2>1, DefaultsStay
  <1>3. DefaultsInv => DefaultsSound
    BY DefaultsInvSound
  <1> QED BY <1>1, <1>2, <1>3, PTL DEF MCSpec

(* The parts of a resource fit, and it has those that they are judged by.  *)
Parts(k, g) ==
  /\ k = "certs" => /\ Given(g, "type")
                    /\ g.type = "custom" => Given(g, "key") /\ Given(g, "cert") /\ g.key = g.cert
                    /\ g.type = "lets" => Given(g, "domain") /\ (g.domain = "wild" => Given(g, "dnsapi"))
  /\ k = "dnsapis" => Given(g, "type") /\ Given(g, "auth") /\ g.auth = g.type
  /\ k = "acls" => /\ Given(g, "action") /\ Given(g, "code") /\ Given(g, "url")
                   /\ ((g.action = "reject" /\ g.code = "302") <=> g.url # "")
  /\ k = "sites" => (Known(g, "https") = "on" => Given(g, "pem"))
Fits(k, g) == Parts(k, g) /\ (k # "sites" => Given(g, "des"))

(* There is a row only of what the CDN has, and an update only of a row.   *)
FirstCreated ==
  /\ snap # Nil => served # Nil
  /\ \A r \in Req :
       /\ req[r].pc \in {"create", "created"} => snap = Nil /\ \A s \in Req \ {r} : req[s].pc = "idle"
       /\ req[r].pc = "create" => served = Nil /\ req[r].body # Nil
       /\ req[r].pc = "created" => served # Nil
       /\ req[r].pc \in {"put", "saved", "list"} => snap # Nil

Work(r) ==
  /\ \A s \in Req : req[r].pc # "idle" /\ req[s].pc # "idle" => r = s
  /\ req[r].pc = "create" => Fits(kind, req[r].body)
  /\ req[r].pc = "created" => req[r].body = served
  /\ req[r].pc = "put" => /\ Fits(kind, Over(req[r].body, served)) /\ req[r].known = snap
                          /\ kind # "sites" => Given(req[r].body, "des") /\ req[r].body.des = remark
  /\ req[r].pc = "saved" => Redacted(Over(req[r].body, req[r].known)) = Redacted(served)
  /\ req[r].pc = "list" => req[r].body = served

ServedFits == served # Nil => Fits(kind, served)
RemarkServed == served # Nil /\ kind # "sites" /\ (\A r \in Req : req[r].pc # "put") => served.des = remark
RowFits == snap # Nil /\ (\A r \in Req : req[r].pc # "saved") => snap = Redacted(served)
Agreed == ServedFits /\ RemarkServed /\ RowFits /\ \A r \in Req : Work(r)

Shaped == req = [r \in Req |-> [pc |-> req[r].pc, known |-> req[r].known, body |-> req[r].body]]
FieldsInv == FieldsTypeOK /\ Shaped /\ SecretsGone /\ FirstCreated /\ (apart => Agreed)

LEMMA FieldsAre ==
  /\ FieldsOf("certs") = {"des", "type", "key", "cert", "domain", "dnsapi"}
  /\ FieldsOf("dnsapis") = {"des", "type", "auth"}
  /\ FieldsOf("acls") = {"des", "action", "code", "url"}
  /\ FieldsOf("sites") = {"https", "pem"}
BY DEF FieldsOf

LEMMA ValuesAre ==
  ASSUME NEW k
  PROVE /\ Values(k, "des") = {"", "r"} /\ Values("certs", "type") = {"custom", "lets"}
        /\ Values(k, "domain") = {"plain", "wild"}
        /\ Values(k, "action") = {"allow", "reject"} /\ Values(k, "code") = {"403", "302"} /\ Values(k, "url") = {"", "u"}
        /\ Values(k, "https") = {"on", "off"}
BY DEF Values

LEMMA OneField ==
  ASSUME NEW k, NEW v
  PROVE /\ "domain" \in FieldsOf(k) /\ v \in Values(k, "domain") => IsBody(k, [domain |-> v])
        /\ "https" \in FieldsOf(k) /\ v \in Values(k, "https") => IsBody(k, [https |-> v])
        /\ "url" \in FieldsOf(k) /\ v \in Values(k, "url") => IsBody(k, [url |-> v])
        /\ "des" \in FieldsOf(k) /\ v \in Values(k, "des") => IsBody(k, [des |-> v])
        /\ \A a \in Values(k, "action"), c \in Values(k, "code") :
             {"action", "code", "des"} \subseteq FieldsOf(k) /\ v \in Values(k, "des") => IsBody(k, [action |-> a, code |-> c, des |-> v])
BY DEF IsBody

LEMMA InputIsBody ==
  ASSUME NEW k \in Kind, NEW g \in Inputs[k]
  PROVE IsBody(k, g) /\ g \in Bodies[k] /\ g = [x \in DOMAIN g |-> g[x]] /\ (Given(g, "key") /\ Given(g, "cert") => g.key = g.cert)
<1>1. g \in Bodies[k] /\ ({"key", "cert"} \subseteq DOMAIN g => g.key = g.cert) BY DEF Inputs
<1>2. PICK S \in SUBSET FieldsOf(k) : g \in {h \in [S -> AllValues(k, S)] : \A f \in S : h[f] \in Values(k, f)}
  BY <1>1 DEF Bodies
<1> QED BY <1>1, <1>2 DEF IsBody, Given

LEMMA NotNil ==
  ASSUME NEW k \in Kind, NEW g, IsBody(k, g), g = [x \in DOMAIN g |-> g[x]]
  PROVE g # Nil
<1> DEFINE S == DOMAIN g
<1>1. S \in SUBSET FieldsOf(k) BY DEF IsBody
<1>2. \A f \in S : g[f] \in Values(k, f) BY DEF IsBody
<1>3. g \in [S -> AllValues(k, S)] BY <1>1, <1>2 DEF AllValues
<1>4. g \in Bodies[k] BY <1>1, <1>2, <1>3 DEF Bodies
<1> QED BY <1>4, FieldsAssumption

LEMMA OverIsBody ==
  ASSUME NEW k, NEW f, NEW g, IsBody(k, f), IsBody(k, g)
  PROVE IsBody(k, Over(f, g))
BY DEF IsBody, Over

LEMMA OnlyIsBody ==
  ASSUME NEW k, NEW g, IsBody(k, g), NEW S
  PROVE IsBody(k, Only(g, S)) /\ IsBody(k, Without(g, S))
BY DEF IsBody, Only, Without

LEMMA CertIsBody ==
  ASSUME NEW input, IsBody("certs", input), NEW known, IsBody("certs", known), NEW partial, NEW body \in CleanCert(input, known, partial)
  PROVE IsBody("certs", body) /\ body = [x \in DOMAIN body |-> body[x]]
<1>1. CASE body = Only(input, {"des", "type", "key", "cert"}) BY <1>1, OnlyIsBody DEF Only
<1>2. CASE body = Only(input, {"des", "dnsapi"}) BY <1>2, OnlyIsBody DEF Only
<1>3. ASSUME NEW d \in {"plain", "wild"}, body = Over([domain |-> d], Only(input, {"des", "type", "dnsapi"}))
      PROVE IsBody("certs", body) /\ body = [x \in DOMAIN body |-> body[x]]
  <2>1. IsBody("certs", [domain |-> d]) BY OneField, FieldsAre, ValuesAre
  <2> QED BY <1>3, <2>1, OnlyIsBody, OverIsBody DEF Over
<1>4. \A d : d = input.domain /\ Given(input, "domain") => d \in {"plain", "wild"} BY DEF IsBody, Given, Values
<1>5. \A d : d = Known(known, "domain") /\ d # Nil => d \in {"plain", "wild"} BY DEF IsBody, Known, Values
<1> QED BY <1>1, <1>2, <1>3, <1>4, <1>5 DEF CleanCert

LEMMA DnsIsBody ==
  ASSUME NEW input, IsBody("dnsapis", input), input = [x \in DOMAIN input |-> input[x]], NEW known, NEW partial,
         NEW body \in CleanDns(input, known, partial)
  PROVE IsBody("dnsapis", body) /\ body = [x \in DOMAIN body |-> body[x]]
BY DEF CleanDns

LEMMA AclIsBody ==
  ASSUME NEW input, IsBody("acls", input), NEW known, IsBody("acls", known), NEW partial, NEW body \in CleanAcl(input, known, partial)
  PROVE IsBody("acls", body) /\ body = [x \in DOMAIN body |-> body[x]]
<1> DEFINE action == IF Given(input, "action") THEN input.action ELSE IF Given(known, "action") THEN known.action ELSE "allow"
           code == IF Given(input, "code") THEN input.code ELSE IF Given(known, "code") THEN known.code ELSE "403"
           url == IF Given(input, "url") THEN input.url ELSE Known(known, "url")
           redirects == action = "reject" /\ code = "302"
           base == IF partial THEN Only(input, {"des", "action", "code"})
                   ELSE Over(Only(input, {"des"}), [action |-> action, code |-> code, des |-> ""])
           to == IF redirects THEN url ELSE ""
<1>1. body = base \/ (~(redirects /\ url \in {Nil, ""}) /\ body = Over([url |-> to], base)) BY DEF CleanAcl
<1>2. action \in {"allow", "reject"} /\ code \in {"403", "302"} /\ url \in {"", "u", Nil}
  BY DEF IsBody, Given, Known, Values
<1>3. IsBody("acls", [action |-> action, code |-> code, des |-> ""])
  <2> HIDE DEF action, code
  <2>1. action \in Values("acls", "action") /\ code \in Values("acls", "code") /\ "" \in Values("acls", "des") BY <1>2, ValuesAre
  <2>2. {"action", "code", "des"} \subseteq FieldsOf("acls") BY FieldsAre
  <2> QED BY <2>1, <2>2, OneField
<1>4. IsBody("acls", base) /\ base = [x \in DOMAIN base |-> base[x]]
  <2> HIDE DEF action, code
  <2>1. CASE partial BY <2>1, OnlyIsBody DEF Only
  <2>2. CASE ~partial
    <3>1. base = Over(Only(input, {"des"}), [action |-> action, code |-> code, des |-> ""]) BY <2>2
    <3>2. IsBody("acls", base) BY <3>1, <1>3, OnlyIsBody, OverIsBody
    <3> QED BY <3>1, <3>2 DEF Over
  <2> QED BY <2>1, <2>2
<1>5. ASSUME ~(redirects /\ url \in {Nil, ""}) PROVE IsBody("acls", [url |-> to])
  <2>1. to \in {"", "u"} BY <1>2, <1>5
  <2> HIDE DEF to
  <2> QED BY <2>1, OneField, FieldsAre, ValuesAre
<1> HIDE DEF base, to, url, redirects
<1>6. CASE body = base BY <1>6, <1>4
<1>7. CASE ~(redirects /\ url \in {Nil, ""}) /\ body = Over([url |-> to], base)
  <2>1. IsBody("acls", [url |-> to]) BY <1>5, <1>7
  <2>2. IsBody("acls", body) BY <1>4, <1>7, <2>1, OverIsBody
  <2> QED BY <1>7, <2>2 DEF Over
<1> QED BY <1>1, <1>6, <1>7

LEMMA SiteIsBody ==
  ASSUME NEW input, IsBody("sites", input), NEW known, NEW partial, NEW body \in CleanSite(input, known, partial)
  PROVE IsBody("sites", body) /\ (body = << >> \/ body = [x \in DOMAIN body |-> body[x]])
<1>1. CASE body = << >> BY <1>1 DEF IsBody
<1>2. ASSUME NEW h \in {"on", "off"}, body = Over([https |-> h], input) PROVE IsBody("sites", body) /\ body = [x \in DOMAIN body |-> body[x]]
  <2>1. IsBody("sites", [https |-> h]) BY OneField, FieldsAre, ValuesAre
  <2> QED BY <1>2, <2>1, OverIsBody DEF Over
<1>3. Given(input, "https") => input.https \in {"on", "off"} BY DEF IsBody, Given, Values
<1> QED BY <1>1, <1>2, <1>3 DEF CleanSite

LEMMA NothingIsFunction == << >> = [x \in {} |-> Nil]
OBVIOUS

LEMMA CleanIsBody ==
  ASSUME kind \in Kind, NEW input, IsBody(kind, input), input = [x \in DOMAIN input |-> input[x]],
         NEW known, IsBody(kind, known), NEW partial, NEW body \in Clean(input, known, partial)
  PROVE IsBody(kind, body) /\ body = [x \in DOMAIN body |-> body[x]]
<1>1. CASE kind = "certs" BY <1>1, CertIsBody DEF Clean
<1>2. CASE kind = "dnsapis" BY <1>2, DnsIsBody DEF Clean
<1>3. CASE kind = "acls" BY <1>3, AclIsBody DEF Clean
<1>4. CASE kind = "sites" BY <1>4, SiteIsBody, NothingIsFunction DEF Clean
<1> QED BY <1>1, <1>2, <1>3, <1>4, FieldsAssumption

LEMMA RemarkedIsBody ==
  ASSUME kind \in Kind, NEW body, IsBody(kind, body), body = [x \in DOMAIN body |-> body[x]], NEW known, IsBody(kind, known)
  PROVE /\ IsBody(kind, Remarked(body, known))
        /\ Remarked(body, known) = [x \in DOMAIN Remarked(body, known) |-> Remarked(body, known)[x]]
<1> DEFINE d == IF Given(body, "des") THEN body.des ELSE IF Given(known, "des") THEN known.des ELSE ""
<1>1. CASE kind = "sites" BY <1>1 DEF Remarked
<1>2. CASE kind # "sites"
  <2>1. Remarked(body, known) = Over([des |-> d], body) BY <1>2 DEF Remarked
  <2>2. d \in {"", "r"}
    <3>1. Values(kind, "des") = {"", "r"} BY ValuesAre
    <3> QED BY <3>1 DEF IsBody, Given
  <2>3. "des" \in FieldsOf(kind) BY <1>2, FieldsAre, FieldsAssumption
  <2> HIDE DEF d
  <2>4. IsBody(kind, [des |-> d]) BY <2>2, <2>3, OneField, ValuesAre
  <2>5. IsBody(kind, Over([des |-> d], body)) BY <2>4, OverIsBody
  <2> QED BY <2>1, <2>5 DEF Over
<1> QED BY <1>1, <1>2

(* What Remarked adds: nothing to a site, and the remark to the others.    *)
LEMMA RemarkedAdds ==
  ASSUME kind # "sites", NEW body, NEW known
  PROVE /\ Given(Remarked(body, known), "des")
        /\ Remarked(body, known).des = IF Given(body, "des") THEN body.des ELSE IF Given(known, "des") THEN known.des ELSE ""
<1> DEFINE d == IF Given(body, "des") THEN body.des ELSE IF Given(known, "des") THEN known.des ELSE ""
<1>1. Remarked(body, known) = Over([des |-> d], body) BY DEF Remarked
<1> HIDE DEF d
<1>2. Given(Over([des |-> d], body), "des") /\ Over([des |-> d], body).des = d BY DEF Over, Given
<1> QED BY <1>1, <1>2 DEF d

LEMMA RemarkedKeeps ==
  ASSUME NEW body, NEW known, NEW f, f # "des"
  PROVE Given(Remarked(body, known), f) = Given(body, f) /\ (Given(body, f) => Remarked(body, known)[f] = body[f])
<1> DEFINE d == IF Given(body, "des") THEN body.des ELSE IF Given(known, "des") THEN known.des ELSE ""
<1>1. CASE kind = "sites" BY <1>1 DEF Remarked
<1>2. CASE kind # "sites"
  <2>1. Remarked(body, known) = Over([des |-> d], body) BY <1>2 DEF Remarked
  <2> HIDE DEF d
  <2> QED BY <2>1 DEF Over, Given
<1> QED BY <1>1, <1>2

(* Whether the parts fit does not depend on the remark.                    *)
LEMMA PartsAlike ==
  ASSUME NEW k, NEW g, NEW h, Parts(k, g),
         \A f : f # "des" => Given(h, f) = Given(g, f) /\ (Given(g, f) => h[f] = g[f])
  PROVE Parts(k, h)
<1>1. \A f \in {"type", "key", "cert", "domain", "dnsapi", "auth", "action", "code", "url", "https", "pem"} :
        Given(h, f) = Given(g, f) /\ (Given(g, f) => h[f] = g[f])
  OBVIOUS
<1>2. CASE k = "certs" BY <1>1, <1>2 DEF Parts
<1>3. CASE k = "dnsapis" BY <1>1, <1>3 DEF Parts
<1>4. CASE k = "acls" BY <1>1, <1>4 DEF Parts
<1>5. CASE k = "sites" BY <1>1, <1>5 DEF Parts, Known, Given
<1> QED BY <1>2, <1>3, <1>4, <1>5 DEF Parts

LEMMA RemarkedFits ==
  ASSUME kind \in Kind, NEW body, NEW known, NEW g, Parts(kind, Over(body, g))
  PROVE Fits(kind, Over(Remarked(body, known), g))
<1>1. \A f : f # "des" => /\ Given(Over(Remarked(body, known), g), f) = Given(Over(body, g), f)
                          /\ Given(Over(body, g), f) => Over(Remarked(body, known), g)[f] = Over(body, g)[f]
  BY RemarkedKeeps DEF Over, Given
<1>2. Parts(kind, Over(Remarked(body, known), g)) BY <1>1, PartsAlike
<1>3. kind # "sites" => Given(Over(Remarked(body, known), g), "des") BY RemarkedAdds DEF Over, Given
<1> QED BY <1>2, <1>3 DEF Fits

(* The address of an access list is decided by the action and the code     *)
(* that result.                                                            *)
LEMMA AclCreateParts ==
  ASSUME NEW input, NEW body \in CleanAcl(input, << >>, FALSE)
  PROVE Parts("acls", body)
<1> DEFINE action == IF Given(input, "action") THEN input.action ELSE "allow"
           code == IF Given(input, "code") THEN input.code ELSE "403"
           url == IF Given(input, "url") THEN input.url ELSE Nil
           redirects == action = "reject" /\ code = "302"
           base == Over(Only(input, {"des"}), [action |-> action, code |-> code, des |-> ""])
           to == IF redirects THEN url ELSE ""
<1>0. Known(<< >>, "url") = Nil /\ ~Given(<< >>, "action") /\ ~Given(<< >>, "code") BY DEF Known, Given
<1>1. ~(redirects /\ url \in {Nil, ""}) /\ body = Over([url |-> to], base) BY <1>0 DEF CleanAcl
<1> HIDE DEF to, action, code
<1>2. {"url", "action", "code"} \subseteq DOMAIN body /\ body.url = to /\ body.action = action /\ body.code = code
  BY <1>1 DEF Over, Only
<1> HIDE DEF base, url
<1> QED BY <1>1, <1>2 DEF Parts, to, Given

LEMMA AclUpdateParts ==
  ASSUME NEW input, NEW known, NEW body \in CleanAcl(input, known, TRUE), NEW g, Parts("acls", g),
         \A f \in {"action", "code", "url"} : Given(known, f) /\ known[f] = g[f]
  PROVE Parts("acls", Over(body, g))
<1> DEFINE action == IF Given(input, "action") THEN input.action ELSE known.action
           code == IF Given(input, "code") THEN input.code ELSE known.code
           url == IF Given(input, "url") THEN input.url ELSE known.url
           redirects == action = "reject" /\ code = "302"
           changed == Given(input, "action") \/ Given(input, "code") \/ Given(input, "url")
           base == Only(input, {"des", "action", "code"})
           to == IF redirects THEN url ELSE ""
<1> SUFFICES ASSUME NEW all, all = Over(body, g) PROVE Parts("acls", all) OBVIOUS
<1>0. Given(known, "action") /\ Given(known, "code") /\ Given(known, "url") /\ {"action", "code", "url"} \subseteq DOMAIN g
  BY DEF Parts, Given
<1>1. CASE ~changed
  <2>1. body = base BY <1>1 DEF CleanAcl
  <2>2. \A f \in {"action", "code", "url"} : f \notin DOMAIN body BY <1>1, <2>1 DEF Only, Given
  <2>3. {"action", "code", "url"} \subseteq DOMAIN all /\ \A f \in {"action", "code", "url"} : all[f] = g[f]
    BY <1>0, <2>2 DEF Over
  <2> QED BY <2>3 DEF Parts, Given
<1>2. CASE changed
  <2>1. ~(redirects /\ url \in {Nil, ""}) /\ body = Over([url |-> to], base)
    BY <1>0, <1>2 DEF CleanAcl, Known, Given
  <2> HIDE DEF to
  <2>2. DOMAIN body = {"url"} \cup (DOMAIN input \cap {"des", "action", "code"}) /\ body.url = to
    BY <2>1 DEF Over, Only
  <2>3. (Given(input, "action") => body.action = input.action) /\ (Given(input, "code") => body.code = input.code)
    BY <2>1 DEF Over, Only, Given
  <2>4. Given(all, "action") /\ all.action = action BY <1>0, <2>2, <2>3 DEF Over, Given
  <2>5. Given(all, "code") /\ all.code = code BY <1>0, <2>2, <2>3 DEF Over, Given
  <2>6. Given(all, "url") /\ all.url = to BY <2>2 DEF Over, Given
  <2> HIDE DEF action, code, url
  <2> QED BY <2>1, <2>4, <2>5, <2>6 DEF Parts, to
<1> QED BY <1>1, <1>2

LEMMA CreateParts ==
  ASSUME kind \in Kind, NEW input \in Inputs[kind], NEW body \in Clean(input, << >>, FALSE)
  PROVE Parts(kind, body)
<1>1. Given(input, "key") /\ Given(input, "cert") => input.key = input.cert BY InputIsBody
<1>2. CASE kind = "certs"
  <2>1. body \in CleanCert(input, << >>, FALSE) BY <1>2 DEF Clean
  <2>2. Given(input, "type") BY <2>1 DEF CleanCert
  <2>3. CASE input.type = "custom"
    <3>1. body = Only(input, {"des", "type", "key", "cert"}) /\ Given(input, "key") /\ Given(input, "cert")
      BY <2>1, <2>2, <2>3 DEF CleanCert, Given, Known
    <3> QED BY <1>1, <1>2, <2>2, <2>3, <3>1 DEF Parts, Given, Only
  <2>4. CASE input.type # "custom"
    <3>1. /\ body = Over([domain |-> input.domain], Only(input, {"des", "type", "dnsapi"}))
          /\ input.domain = "wild" => Given(input, "dnsapi")
      BY <2>1, <2>2, <2>4 DEF CleanCert, Given, Known
    <3>2. /\ DOMAIN body = {"domain"} \cup (DOMAIN input \cap {"des", "type", "dnsapi"})
          /\ body.domain = input.domain /\ body.type = input.type
      BY <2>2, <3>1 DEF Over, Only, Given
    <3> QED BY <1>2, <2>2, <2>4, <3>1, <3>2 DEF Parts, Given
  <2> QED BY <2>3, <2>4
<1>3. CASE kind = "dnsapis"
  <2>1. body = input /\ Given(input, "type") /\ Given(input, "auth") /\ input.auth = input.type
    BY <1>3 DEF Clean, CleanDns, Given, Known
  <2> QED BY <1>3, <2>1 DEF Parts, Given
<1>4. CASE kind = "acls" BY <1>4, AclCreateParts DEF Clean
<1>5. CASE kind = "sites"
  <2>1. body = << >> \/ Given(body, "pem") BY <1>5 DEF Clean, CleanSite, Over, Given
  <2>2. Nil \notin AllValues("sites", FieldsOf("sites")) /\ "https" \in FieldsOf("sites") /\ "on" \in Values("sites", "https")
    BY <1>5, FieldsAssumption, FieldsAre, ValuesAre
  <2>3. Nil # "on" BY <2>2 DEF AllValues
  <2> QED BY <1>5, <2>1, <2>3 DEF Parts, Known, Given
<1> QED BY <1>2, <1>3, <1>4, <1>5, FieldsAssumption

LEMMA CreateFits ==
  ASSUME kind \in Kind, NEW input \in Inputs[kind], NEW body \in Clean(input, << >>, FALSE)
  PROVE Fits(kind, Remarked(body, << >>))
<1>1. Parts(kind, body) BY CreateParts
<1>2. Parts(kind, Remarked(body, << >>)) BY <1>1, RemarkedKeeps, PartsAlike
<1> QED BY <1>2, RemarkedAdds DEF Fits

(* A partial update of a row that knows what the CDN has but the secrets.  *)
LEMMA UpdateParts ==
  ASSUME kind \in Kind, NEW g, Fits(kind, g), NEW known, known = Redacted(g),
         NEW input \in Inputs[kind], NEW body \in Clean(input, known, TRUE)
  PROVE Parts(kind, Over(body, g))
<1>1. Given(input, "key") /\ Given(input, "cert") => input.key = input.cert BY InputIsBody
<1>2. kind # "sites" => \A f : f \notin Secrets => Given(known, f) = Given(g, f) /\ (Given(g, f) => known[f] = g[f])
  BY DEF Redacted, Without, Given
<1>3. Parts(kind, g) BY DEF Fits
<1> SUFFICES ASSUME NEW all, all = Over(body, g) PROVE Parts(kind, all) OBVIOUS
<1>4. CASE kind = "certs"
  <2> DEFINE type == IF Given(input, "type") THEN input.type ELSE g.type
  <2>1. body \in CleanCert(input, known, TRUE) BY <1>4 DEF Clean
  <2>2. Given(g, "type") /\ Given(known, "type") /\ known.type = g.type BY <1>2, <1>3, <1>4 DEF Parts, Secrets
  <2>3. CASE type = "custom"
    <3>1. /\ body = Only(input, {"des", "type", "key", "cert"}) /\ (Given(input, "key") <=> Given(input, "cert"))
          /\ Given(input, "key") \/ g.type = "custom"
      BY <2>1, <2>2, <2>3 DEF CleanCert, Given, Known
    <3>2. Given(all, "type") /\ all.type = "custom" BY <2>2, <2>3, <3>1 DEF Over, Only, Given
    <3>3. Given(all, "key") /\ Given(all, "cert") /\ all.key = all.cert
      BY <1>1, <1>3, <1>4, <2>2, <3>1 DEF Over, Only, Given, Parts
    <3> QED BY <1>4, <3>2, <3>3 DEF Parts
  <2>4. CASE type # "custom"
    <3> DEFINE domain == IF Given(input, "domain") THEN input.domain ELSE Known(known, "domain")
               dnsapi == IF Given(input, "dnsapi") THEN input.dnsapi ELSE Known(known, "dnsapi")
    <3>1. CASE Given(input, "domain") \/ Given(input, "type")
      <4>1. /\ body = Over([domain |-> domain], Only(input, {"des", "type", "dnsapi"})) /\ domain # Nil
            /\ ~(domain = "wild" /\ dnsapi = Nil)
        BY <2>1, <2>2, <2>4, <3>1 DEF CleanCert, Given, Known
      <4>2. dnsapi # Nil => Given(input, "dnsapi") \/ Given(g, "dnsapi") BY <1>2, <1>4 DEF Known, Given, Secrets
      <4> HIDE DEF domain, dnsapi
      <4>3. DOMAIN body = {"domain"} \cup (DOMAIN input \cap {"des", "type", "dnsapi"}) /\ body.domain = domain
            /\ (Given(input, "type") => body.type = input.type)
        BY <4>1 DEF Over, Only, Given
      <4>4. Given(all, "type") /\ all.type = type /\ Given(all, "domain") /\ all.domain = domain
        BY <2>2, <4>3 DEF Over, Given
      <4>5. domain = "wild" => Given(all, "dnsapi") BY <4>1, <4>2, <4>3 DEF Over, Given
      <4> QED BY <1>4, <2>4, <4>4, <4>5 DEF Parts
    <3>2. CASE ~Given(input, "domain") /\ ~Given(input, "type")
      <4>1. body = Only(input, {"des", "dnsapi"})
        BY <2>1, <2>2, <2>4, <3>2 DEF CleanCert, Given, Known
      <4>2. \A f \in {"type", "domain"} : Given(all, f) = Given(g, f) /\ (Given(g, f) => all[f] = g[f])
        BY <4>1 DEF Over, Only, Given
      <4>3. Given(g, "dnsapi") => Given(all, "dnsapi") BY <4>1 DEF Over, Only, Given
      <4> QED BY <1>3, <1>4, <2>2, <2>4, <3>2, <4>2, <4>3 DEF Parts
    <3> QED BY <3>1, <3>2
  <2> QED BY <2>3, <2>4
<1>5. CASE kind = "dnsapis"
  <2>1. Given(g, "type") /\ Given(known, "type") /\ known.type = g.type /\ Given(g, "auth") /\ g.auth = g.type
    BY <1>2, <1>3, <1>5 DEF Parts, Secrets
  <2>2. body = input BY <1>5 DEF Clean, CleanDns
  <2>3. CASE Given(input, "auth")
    <3>1. input.auth = IF Given(input, "type") THEN input.type ELSE g.type
      BY <1>5, <2>1, <2>3 DEF Clean, CleanDns, Given, Known
    <3> QED BY <1>5, <2>1, <2>2, <2>3, <3>1 DEF Parts, Over, Given
  <2>4. CASE ~Given(input, "auth")
    <3>1. Given(input, "type") => input.type = g.type
      BY <1>5, <2>1, <2>4 DEF Clean, CleanDns, Given, Known
    <3> QED BY <1>5, <2>1, <2>2, <2>4, <3>1 DEF Parts, Over, Given
  <2> QED BY <2>3, <2>4
<1>6. CASE kind = "acls"
  <2>1. \A f \in {"action", "code", "url"} : Given(known, f) /\ known[f] = g[f]
    BY <1>2, <1>3, <1>6 DEF Parts, Secrets
  <2>2. body \in CleanAcl(input, known, TRUE) BY <1>6 DEF Clean
  <2> QED BY <1>3, <1>6, <2>1, <2>2, AclUpdateParts
<1>7. CASE kind = "sites"
  <2>1. body = << >> \/ Given(body, "pem") BY <1>7 DEF Clean, CleanSite, Over, Given
  <2>2. CASE Given(body, "pem") BY <1>7, <2>2 DEF Parts, Over, Given
  <2>3. CASE body = << >> BY <1>3, <1>7, <2>3, PartsAlike DEF Over, Given
  <2> QED BY <2>1, <2>2, <2>3
<1> QED BY <1>4, <1>5, <1>6, <1>7, FieldsAssumption

LEMMA UpdateFits ==
  ASSUME kind \in Kind, NEW g, Fits(kind, g), NEW known, known = Redacted(g),
         NEW input \in Inputs[kind], NEW body \in Clean(input, known, TRUE)
  PROVE Fits(kind, Over(Remarked(body, known), g))
BY UpdateParts, RemarkedFits

(* A partial update has the remark that is given, else the known one.      *)
LEMMA RemarkStays ==
  ASSUME kind \in Kind, kind # "sites", NEW input, NEW known, NEW body \in Clean(input, known, TRUE), Given(known, "des")
  PROVE Remarked(body, known).des = IF Given(input, "des") THEN input.des ELSE known.des
<1>1. (Given(body, "des") <=> Given(input, "des")) /\ (Given(body, "des") => body.des = input.des)
  <2>1. \A S : "des" \in S => /\ Given(Only(input, S), "des") = Given(input, "des")
                                 /\ (Given(input, "des") => Only(input, S).des = input.des)
    BY DEF Only, Given
  <2>2. \A d, h : Given(Over([domain |-> d], h), "des") = Given(h, "des") /\ (Given(h, "des") => Over([domain |-> d], h).des = h.des)
    BY DEF Over, Given
  <2>4. CASE kind = "certs" BY <2>1, <2>2, <2>4 DEF Clean, CleanCert
  <2>5. CASE kind = "dnsapis" BY <2>5 DEF Clean, CleanDns
  <2>6. CASE kind = "acls"
    <3> DEFINE base == Only(input, {"des", "action", "code"})
    <3>1. body = base \/ \E d : body = Over([url |-> d], base) BY <2>6 DEF Clean, CleanAcl
    <3>2. (Given(base, "des") <=> Given(input, "des")) /\ (Given(input, "des") => base.des = input.des) BY DEF Only, Given
    <3> HIDE DEF base
    <3>3. CASE body = base BY <3>2, <3>3
    <3>4. ASSUME NEW d, body = Over([url |-> d], base)
          PROVE (Given(body, "des") <=> Given(input, "des")) /\ (Given(body, "des") => body.des = input.des)
      BY <3>2, <3>4 DEF Over, Given
    <3> QED BY <3>1, <3>3, <3>4
  <2> QED BY <2>4, <2>5, <2>6, FieldsAssumption
<1> QED BY <1>1, RemarkedAdds

(* What is kept of a resource and shown of it.                             *)
LEMMA RedactedIs ==
  ASSUME kind \in Kind, NEW g, IsBody(kind, g)
  PROVE IsBody(kind, Redacted(g)) /\ Redacted(g) # Nil /\ DOMAIN Redacted(g) \cap Secrets = {}
<1>1. IsBody(kind, Redacted(g)) BY OnlyIsBody DEF Redacted, IsBody
<1>2. Redacted(g) = [x \in DOMAIN Redacted(g) |-> Redacted(g)[x]]
  <2>1. CASE kind = "sites" BY <2>1, NothingIsFunction DEF Redacted
  <2>2. CASE kind # "sites" BY <2>2 DEF Redacted, Without
  <2> QED BY <2>1, <2>2
<1>3. DOMAIN Redacted(g) \cap Secrets = {} BY DEF Redacted, Without
<1> QED BY <1>1, <1>2, <1>3, NotNil

LEMMA BeginCreateKeeps ==
  ASSUME FieldsInv, NEW r \in Req, NEW input \in Inputs[kind], BeginCreate(r, input)
  PROVE FieldsInv'
<1>1. PICK raw \in Clean(input, << >>, FALSE) : req' = [req EXCEPT ![r] = [pc |-> "create", known |-> << >>, body |-> Remarked(raw, << >>)]]
  BY DEF BeginCreate, Set
<1>2. PICK body : body = Remarked(raw, << >>) OBVIOUS
<1>3. kind \in Kind /\ served = Nil /\ (\A s \in Req : req[s].pc = "idle") /\ UNCHANGED <<kind, served, snap, shown, remark, apart>>
  BY DEF BeginCreate, FieldsInv, FieldsTypeOK
<1>4. IsBody(kind, << >>) BY DEF IsBody
<1>5. IsBody(kind, body) /\ body # Nil /\ Fits(kind, body)
  <2>1. IsBody(kind, raw) /\ raw = [x \in DOMAIN raw |-> raw[x]] BY <1>3, <1>4, InputIsBody, CleanIsBody
  <2> QED BY <1>2, <1>3, <1>4, <2>1, RemarkedIsBody, NotNil, CreateFits
<1>6. req' = [req EXCEPT ![r] = [pc |-> "create", known |-> << >>, body |-> body]] BY <1>1, <1>2
<1>7. FieldsTypeOK' BY <1>3, <1>4, <1>5, <1>6 DEF FieldsInv, FieldsTypeOK, Shaped
<1>8. Shaped' BY <1>6 DEF FieldsInv, Shaped
<1>9. SecretsGone' BY <1>3 DEF FieldsInv, SecretsGone
<1>10. FirstCreated' BY <1>3, <1>5, <1>6 DEF FieldsInv, FirstCreated, Shaped
<1>11. ASSUME apart' PROVE Agreed'
  <2>1. \A s \in Req : Work(s)' BY <1>3, <1>5, <1>6 DEF Work, FieldsInv, Shaped
  <2>2. ServedFits' /\ RemarkServed' BY <1>3 DEF ServedFits, RemarkServed
  <2>3. RowFits' BY <1>3 DEF RowFits, FieldsInv, FirstCreated
  <2> QED BY <2>1, <2>2, <2>3 DEF Agreed
<1> QED BY <1>7, <1>8, <1>9, <1>10, <1>11 DEF FieldsInv

LEMMA SendCreateKeeps ==
  ASSUME FieldsInv, NEW r \in Req, SendCreate(r)
  PROVE FieldsInv'
<1>1. PICK w : w = req[r] OBVIOUS
<1>2. /\ w.pc = "create" /\ IsBody(kind, w.known) /\ IsBody(kind, w.body) /\ w.body # Nil /\ kind \in Kind
      /\ w = [pc |-> "create", known |-> w.known, body |-> w.body] /\ snap = Nil
      /\ \A s \in Req \ {r} : req[s].pc = "idle"
  BY <1>1 DEF SendCreate, FieldsInv, FieldsTypeOK, FirstCreated, Shaped
<1>3. req' = [req EXCEPT ![r] = [pc |-> "created", known |-> w.known, body |-> w.body]]
  <2>1. [w EXCEPT !.pc = "created"] = [pc |-> "created", known |-> w.known, body |-> w.body] BY <1>2
  <2>2. req' = [req EXCEPT ![r] = [w EXCEPT !.pc = "created"]] BY <1>1 DEF SendCreate, Set
  <2> QED BY <2>1, <2>2
<1>4. served' = w.body /\ UNCHANGED <<kind, snap, shown, apart>> BY <1>1 DEF SendCreate
<1>5. remark' \in {"", "r"} /\ (Given(w.body, "des") => remark' = w.body.des)
  <2>1. remark' = Known(Over(w.body, [des |-> ""]), "des") BY <1>1 DEF SendCreate
  <2>2. remark' = IF Given(w.body, "des") THEN w.body.des ELSE "" BY <2>1 DEF Known, Over, Given
  <2> QED BY <1>2, <2>2, ValuesAre DEF IsBody, Given
<1>6. FieldsTypeOK' BY <1>2, <1>3, <1>4, <1>5 DEF FieldsInv, FieldsTypeOK, Shaped
<1>7. Shaped' BY <1>3 DEF FieldsInv, Shaped
<1>8. SecretsGone' BY <1>4 DEF FieldsInv, SecretsGone
<1>9. FirstCreated' BY <1>2, <1>3, <1>4 DEF FieldsInv, FirstCreated, Shaped
<1>10. ASSUME apart' PROVE Agreed'
  <2>1. Fits(kind, w.body) BY <1>1, <1>2, <1>4, <1>10 DEF FieldsInv, Agreed, Work
  <2>2. \A s \in Req : Work(s)' BY <1>2, <1>3, <1>4 DEF Work, FieldsInv, Shaped
  <2>3. ServedFits' BY <1>4, <2>1 DEF ServedFits
  <2>4. RemarkServed' BY <1>4, <1>5, <2>1 DEF RemarkServed, Fits
  <2>5. RowFits' BY <1>2, <1>4 DEF RowFits
  <2> QED BY <2>2, <2>3, <2>4, <2>5 DEF Agreed
<1> QED BY <1>6, <1>7, <1>8, <1>9, <1>10 DEF FieldsInv

LEMMA SaveCreateKeeps ==
  ASSUME FieldsInv, NEW r \in Req, SaveCreate(r)
  PROVE FieldsInv'
<1>1. PICK body : body = req[r].body OBVIOUS
<1>2. /\ req[r].pc = "created" /\ IsBody(kind, body) /\ kind \in Kind /\ served # Nil
      /\ \A s \in Req \ {r} : req[s].pc = "idle"
  BY <1>1 DEF SaveCreate, FieldsInv, FieldsTypeOK, FirstCreated
<1>3. req' = [req EXCEPT ![r] = NoWork] /\ UNCHANGED <<kind, served, remark, apart>> BY DEF SaveCreate, Set
<1>4. PICK kept : kept = Redacted(body) OBVIOUS
<1>5. snap' = kept /\ shown' = kept BY <1>1, <1>4 DEF SaveCreate
<1>6. IsBody(kind, kept) /\ kept # Nil /\ DOMAIN kept \cap Secrets = {} BY <1>2, <1>4, RedactedIs
<1>7. IsBody(kind, << >>) BY DEF IsBody
<1>8. FieldsTypeOK' BY <1>3, <1>5, <1>6, <1>7 DEF FieldsInv, FieldsTypeOK, Shaped, NoWork
<1>9. Shaped' BY <1>3 DEF FieldsInv, Shaped, NoWork
<1>10. SecretsGone' BY <1>5, <1>6 DEF SecretsGone
<1>11. FirstCreated' BY <1>2, <1>3, <1>5 DEF FieldsInv, FirstCreated, Shaped, NoWork
<1>12. ASSUME apart' PROVE Agreed'
  <2>1. Agreed /\ body = served BY <1>1, <1>2, <1>3, <1>12 DEF FieldsInv, Agreed, Work
  <2>2. \A s \in Req : Work(s)' BY <1>2, <1>3 DEF Work, FieldsInv, Shaped, NoWork
  <2>3. ServedFits' BY <1>3, <2>1 DEF Agreed, ServedFits
  <2>4. RemarkServed' BY <1>2, <1>3, <2>1 DEF Agreed, RemarkServed
  <2>5. RowFits' BY <1>3, <1>4, <1>5, <2>1 DEF RowFits, Redacted
  <2> QED BY <2>2, <2>3, <2>4, <2>5 DEF Agreed
<1> QED BY <1>8, <1>9, <1>10, <1>11, <1>12 DEF FieldsInv

LEMMA BeginUpdateKeeps ==
  ASSUME FieldsInv, NEW r \in Req, NEW input \in Inputs[kind], BeginUpdate(r, input)
  PROVE FieldsInv'
<1>1. PICK known : known = snap OBVIOUS
<1>2. PICK raw \in Clean(input, known, TRUE) : req' = [req EXCEPT ![r] = [pc |-> "put", known |-> known, body |-> Remarked(raw, known)]]
  BY <1>1 DEF BeginUpdate, Set
<1>3. PICK body : body = Remarked(raw, known) OBVIOUS
<1>4. /\ kind \in Kind /\ known # Nil /\ IsBody(kind, known) /\ req[r].pc = "idle" /\ served # Nil
      /\ UNCHANGED <<kind, served, snap, shown>>
      /\ remark' = IF Given(input, "des") THEN input.des ELSE remark
  BY <1>1 DEF BeginUpdate, FieldsInv, FieldsTypeOK, FirstCreated
<1>5. apart' = (apart /\ \A s \in Req \ {r} : req[s].pc = "idle") BY DEF BeginUpdate, Begun
<1>6. IsBody(kind, input) /\ input = [x \in DOMAIN input |-> input[x]] BY <1>4, InputIsBody
<1>7. IsBody(kind, body)
  <2>1. IsBody(kind, raw) /\ raw = [x \in DOMAIN raw |-> raw[x]] BY <1>4, <1>6, CleanIsBody
  <2> QED BY <1>3, <1>4, <2>1, RemarkedIsBody
<1>8. req' = [req EXCEPT ![r] = [pc |-> "put", known |-> known, body |-> body]] BY <1>2, <1>3
<1>9. remark' \in {"", "r"}
  <2>1. Given(input, "des") => input.des \in {"", "r"} BY <1>6, ValuesAre DEF IsBody, Given
  <2>2. remark \in {"", "r"} BY DEF FieldsInv, FieldsTypeOK
  <2> QED BY <1>4, <2>1, <2>2
<1>10. apart' \in BOOLEAN BY <1>5 DEF FieldsInv, FieldsTypeOK
<1>11. FieldsTypeOK' BY <1>4, <1>7, <1>8, <1>9, <1>10 DEF FieldsInv, FieldsTypeOK, Shaped
<1>12. Shaped' BY <1>8 DEF FieldsInv, Shaped
<1>13. SecretsGone' BY <1>4 DEF FieldsInv, SecretsGone
<1>14. FirstCreated' BY <1>1, <1>4, <1>8 DEF FieldsInv, FirstCreated, Shaped
<1>15. ASSUME apart' PROVE Agreed'
  <2>1. Agreed /\ \A s \in Req : req[s].pc = "idle" BY <1>4, <1>5, <1>15 DEF FieldsInv
  <2>2. known = Redacted(served) BY <1>1, <1>4, <2>1 DEF Agreed, RowFits
  <2>3. Fits(kind, served) BY <1>4, <2>1 DEF Agreed, ServedFits
  <2>4. PICK g : g = served OBVIOUS
  <2>5. Fits(kind, Over(body, g)) BY <1>3, <1>4, <2>2, <2>3, <2>4, UpdateFits
  <2>6. kind # "sites" => Given(body, "des") /\ body.des = remark'
    <3>1. SUFFICES ASSUME kind # "sites" PROVE Given(body, "des") /\ body.des = remark' OBVIOUS
    <3>2. Given(known, "des") /\ known.des = served.des BY <2>2, <2>3, <3>1 DEF Fits, Redacted, Without, Given, Secrets
    <3>3. served.des = remark BY <1>4, <2>1, <3>1 DEF Agreed, RemarkServed
    <3>4. Remarked(raw, known).des = IF Given(input, "des") THEN input.des ELSE known.des BY <1>4, <3>1, <3>2, RemarkStays
    <3>5. Given(Remarked(raw, known), "des") BY <3>1, RemarkedAdds
    <3> QED BY <1>3, <1>4, <3>2, <3>3, <3>4, <3>5
  <2>7. \A s \in Req : Work(s)' BY <1>1, <1>4, <1>8, <2>1, <2>4, <2>5, <2>6 DEF Work, FieldsInv, Shaped
  <2>8. ServedFits' BY <1>4, <2>3 DEF ServedFits
  <2>9. RemarkServed' BY <1>8 DEF RemarkServed, FieldsInv, Shaped
  <2>10. RowFits' BY <1>1, <1>4, <2>2 DEF RowFits, Redacted
  <2> QED BY <2>7, <2>8, <2>9, <2>10 DEF Agreed
<1> QED BY <1>11, <1>12, <1>13, <1>14, <1>15 DEF FieldsInv

LEMMA SendUpdateKeeps ==
  ASSUME FieldsInv, NEW r \in Req, NEW answered \in BOOLEAN, SendUpdate(r, answered)
  PROVE FieldsInv'
<1>1. PICK w : w = req[r] OBVIOUS
<1>2. PICK g : g = served OBVIOUS
<1>3. /\ w.pc = "put" /\ IsBody(kind, w.known) /\ IsBody(kind, w.body) /\ kind \in Kind
      /\ w = [pc |-> "put", known |-> w.known, body |-> w.body] /\ snap # Nil /\ g # Nil /\ IsBody(kind, g)
  BY <1>1, <1>2 DEF SendUpdate, FieldsInv, FieldsTypeOK, FirstCreated, Shaped
<1>4. PICK all : all = Over(w.body, g) OBVIOUS
<1>5. served' = all /\ UNCHANGED <<kind, snap, shown, remark>> BY <1>1, <1>2, <1>4 DEF SendUpdate
<1>6. \/ req' = [req EXCEPT ![r] = [pc |-> "saved", known |-> w.known, body |-> w.body]] /\ apart' = apart
      \/ req' = [req EXCEPT ![r] = NoWork] /\ apart' = FALSE
  <2>1. [w EXCEPT !.pc = "saved"] = [pc |-> "saved", known |-> w.known, body |-> w.body] BY <1>3
  <2>2. \/ req' = [req EXCEPT ![r] = [w EXCEPT !.pc = "saved"]] /\ apart' = apart
        \/ req' = [req EXCEPT ![r] = NoWork] /\ apart' = FALSE
    BY <1>1 DEF SendUpdate, Set
  <2> QED BY <2>1, <2>2
<1>7. IsBody(kind, all) /\ all # Nil
  <2>1. IsBody(kind, all) BY <1>3, <1>4, OverIsBody
  <2> QED BY <1>3, <1>4, <2>1, NotNil DEF Over
<1>8. IsBody(kind, << >>) BY DEF IsBody
<1>9. FieldsTypeOK'
  <2>1. apart' \in BOOLEAN BY <1>6 DEF FieldsInv, FieldsTypeOK
  <2>2. \A s \in Req : /\ req'[s].pc \in {"idle", "create", "created", "put", "saved", "list"}
                       /\ IsBody(kind, req'[s].known) /\ IsBody(kind, req'[s].body)
    <3> SUFFICES ASSUME NEW s \in Req
                 PROVE /\ req'[s].pc \in {"idle", "create", "created", "put", "saved", "list"}
                       /\ IsBody(kind, req'[s].known) /\ IsBody(kind, req'[s].body)
      OBVIOUS
    <3>1. DOMAIN req = Req BY DEF FieldsInv, Shaped
    <3>2. CASE s = r
      <4>1. req'[s] = [pc |-> "saved", known |-> w.known, body |-> w.body] \/ req'[s] = NoWork BY <1>6, <3>1, <3>2
      <4> QED BY <1>3, <1>8, <4>1 DEF NoWork
    <3>3. CASE s # r
      <4>1. req'[s] = req[s] BY <1>6, <3>1, <3>3
      <4> QED BY <4>1 DEF FieldsInv, FieldsTypeOK
    <3> QED BY <3>2, <3>3
  <2> QED BY <1>5, <1>7, <2>1, <2>2 DEF FieldsInv, FieldsTypeOK
<1>10. Shaped' BY <1>6 DEF FieldsInv, Shaped, NoWork
<1>11. SecretsGone' BY <1>5 DEF FieldsInv, SecretsGone
<1>12. FirstCreated' BY <1>1, <1>3, <1>5, <1>6, <1>7 DEF FieldsInv, FirstCreated, Shaped, NoWork
<1>13. ASSUME apart' PROVE Agreed'
  <2>1. Agreed /\ req' = [req EXCEPT ![r] = [pc |-> "saved", known |-> w.known, body |-> w.body]]
    BY <1>6, <1>13 DEF FieldsInv
  <2>2. \A s \in Req \ {r} : req[s].pc = "idle" BY <1>1, <1>3, <2>1 DEF Agreed, Work
  <2>3. /\ Fits(kind, all) /\ w.known = snap
        /\ kind # "sites" => Given(w.body, "des") /\ w.body.des = remark
    BY <1>1, <1>2, <1>3, <1>4, <2>1 DEF Agreed, Work
  <2>4. snap = Redacted(g) BY <1>1, <1>2, <1>3, <2>1, <2>2 DEF Agreed, RowFits
  <2>5. Redacted(Over(w.body, w.known)) = Redacted(all)
    BY <1>4, <2>3, <2>4 DEF Redacted, Without, Over
  <2>6. \A s \in Req : Work(s)' BY <1>3, <1>5, <2>1, <2>2, <2>5 DEF Work, FieldsInv, Shaped, Redacted
  <2>7. ServedFits' BY <1>5, <2>3 DEF ServedFits
  <2>8. RemarkServed' BY <1>4, <1>5, <2>3 DEF RemarkServed, Over, Given
  <2>9. RowFits' BY <2>1 DEF RowFits, FieldsInv, Shaped
  <2> QED BY <2>6, <2>7, <2>8, <2>9 DEF Agreed
<1> QED BY <1>9, <1>10, <1>11, <1>12, <1>13 DEF FieldsInv

LEMMA SaveUpdateKeeps ==
  ASSUME FieldsInv, NEW r \in Req, SaveUpdate(r)
  PROVE FieldsInv'
<1>1. PICK w : w = req[r] OBVIOUS
<1>2. PICK g : g = served OBVIOUS
<1>3. /\ w.pc = "saved" /\ IsBody(kind, w.known) /\ IsBody(kind, w.body) /\ kind \in Kind
      /\ g # Nil /\ IsBody(kind, g)
  BY <1>1, <1>2 DEF SaveUpdate, FieldsInv, FieldsTypeOK, FirstCreated
<1>4. PICK kept : kept = Redacted(Over(w.body, w.known)) OBVIOUS
<1>5. PICK seen : seen = Redacted(g) OBVIOUS
<1>6. req' = [req EXCEPT ![r] = NoWork] /\ snap' = kept /\ shown' = seen /\ UNCHANGED <<kind, served, remark, apart>>
  BY <1>1, <1>2, <1>4, <1>5 DEF SaveUpdate, Set
<1>7. /\ IsBody(kind, kept) /\ kept # Nil /\ DOMAIN kept \cap Secrets = {}
      /\ IsBody(kind, seen) /\ DOMAIN seen \cap Secrets = {}
  BY <1>3, <1>4, <1>5, OverIsBody, RedactedIs
<1>8. IsBody(kind, << >>) BY DEF IsBody
<1>9. FieldsTypeOK' BY <1>2, <1>3, <1>6, <1>7, <1>8 DEF FieldsInv, FieldsTypeOK, Shaped, NoWork
<1>10. Shaped' BY <1>6 DEF FieldsInv, Shaped, NoWork
<1>11. SecretsGone' BY <1>6, <1>7 DEF SecretsGone
<1>12. FirstCreated' BY <1>2, <1>1, <1>3, <1>6, <1>7 DEF FieldsInv, FirstCreated, Shaped, NoWork
<1>13. ASSUME apart' PROVE Agreed'
  <2>1. Agreed /\ kept = Redacted(served) /\ \A s \in Req \ {r} : req[s].pc = "idle"
    BY <1>1, <1>3, <1>4, <1>6, <1>13 DEF FieldsInv, Agreed, Work
  <2>2. \A s \in Req : Work(s)' BY <1>6, <2>1 DEF Work, FieldsInv, Shaped, NoWork
  <2>3. ServedFits' BY <1>6, <2>1 DEF Agreed, ServedFits
  <2>4. RemarkServed' BY <1>1, <1>3, <1>6, <2>1 DEF Agreed, RemarkServed
  <2>5. RowFits' BY <1>6, <2>1 DEF RowFits, Redacted
  <2> QED BY <2>2, <2>3, <2>4, <2>5 DEF Agreed
<1> QED BY <1>9, <1>10, <1>11, <1>12, <1>13 DEF FieldsInv

LEMMA BeginListKeeps ==
  ASSUME FieldsInv, NEW r \in Req, BeginList(r)
  PROVE FieldsInv'
<1>1. PICK g : g = served OBVIOUS
<1>2. /\ kind \in Kind /\ req[r].pc = "idle" /\ snap # Nil /\ g # Nil /\ IsBody(kind, g)
  BY <1>1 DEF BeginList, FieldsInv, FieldsTypeOK, FirstCreated
<1>3. /\ req' = [req EXCEPT ![r] = [pc |-> "list", known |-> << >>, body |-> g]] /\ UNCHANGED <<kind, served, snap, shown, remark>>
      /\ apart' = (apart /\ \A s \in Req \ {r} : req[s].pc = "idle")
  BY <1>1 DEF BeginList, Set, Begun
<1>4. IsBody(kind, << >>) BY DEF IsBody
<1>5. apart' \in BOOLEAN BY <1>3 DEF FieldsInv, FieldsTypeOK
<1>6. FieldsTypeOK' BY <1>2, <1>3, <1>4, <1>5 DEF FieldsInv, FieldsTypeOK, Shaped
<1>7. Shaped' BY <1>3 DEF FieldsInv, Shaped
<1>8. SecretsGone' BY <1>3 DEF FieldsInv, SecretsGone
<1>9. FirstCreated' BY <1>1, <1>2, <1>3 DEF FieldsInv, FirstCreated, Shaped
<1>10. ASSUME apart' PROVE Agreed'
  <2>1. Agreed /\ \A s \in Req : req[s].pc = "idle" BY <1>2, <1>3, <1>10 DEF FieldsInv
  <2>2. \A s \in Req : Work(s)' BY <1>1, <1>3, <2>1 DEF Work, FieldsInv, Shaped
  <2>3. ServedFits' BY <1>3, <2>1 DEF Agreed, ServedFits
  <2>4. RemarkServed' BY <1>2, <1>3, <2>1 DEF Agreed, RemarkServed
  <2>5. RowFits' BY <1>3, <2>1 DEF Agreed, RowFits, Redacted
  <2> QED BY <2>2, <2>3, <2>4, <2>5 DEF Agreed
<1> QED BY <1>6, <1>7, <1>8, <1>9, <1>10 DEF FieldsInv

LEMMA SaveListKeeps ==
  ASSUME FieldsInv, NEW r \in Req, SaveList(r)
  PROVE FieldsInv'
<1>1. PICK w : w = req[r] OBVIOUS
<1>2. PICK old : old = snap OBVIOUS
<1>3. w.pc = "list" /\ IsBody(kind, w.body) /\ kind \in Kind /\ served # Nil /\ old # Nil /\ IsBody(kind, old)
  BY <1>1, <1>2 DEF SaveList, FieldsInv, FieldsTypeOK, FirstCreated
<1>4. PICK all : all = IF kind = "acls" THEN Over(w.body, old) ELSE w.body OBVIOUS
<1>5. PICK kept : kept = Redacted(all) OBVIOUS
<1>6. PICK seen : seen = Redacted(w.body) OBVIOUS
<1>7. req' = [req EXCEPT ![r] = NoWork] /\ snap' = kept /\ shown' = seen /\ UNCHANGED <<kind, served, remark, apart>>
  BY <1>1, <1>2, <1>4, <1>5, <1>6 DEF SaveList, Set
<1>8. /\ IsBody(kind, kept) /\ kept # Nil /\ DOMAIN kept \cap Secrets = {}
      /\ IsBody(kind, seen) /\ DOMAIN seen \cap Secrets = {}
  <2>1. IsBody(kind, all) BY <1>3, <1>4, OverIsBody
  <2> QED BY <1>3, <1>5, <1>6, <2>1, RedactedIs
<1>9. IsBody(kind, << >>) BY DEF IsBody
<1>10. FieldsTypeOK' BY <1>3, <1>7, <1>8, <1>9 DEF FieldsInv, FieldsTypeOK, Shaped, NoWork
<1>11. Shaped' BY <1>7 DEF FieldsInv, Shaped, NoWork
<1>12. SecretsGone' BY <1>7, <1>8 DEF SecretsGone
<1>13. FirstCreated' BY <1>1, <1>3, <1>7, <1>8 DEF FieldsInv, FirstCreated, Shaped, NoWork
<1>14. ASSUME apart' PROVE Agreed'
  <2>1. Agreed /\ w.body = served /\ \A s \in Req \ {r} : req[s].pc = "idle"
    BY <1>1, <1>3, <1>7, <1>14 DEF FieldsInv, Agreed, Work
  <2>2. old = Redacted(served) BY <1>1, <1>2, <1>3, <2>1 DEF Agreed, RowFits
  <2>3. kept = Redacted(served) BY <1>4, <1>5, <2>1, <2>2 DEF Redacted, Without, Over
  <2>4. \A s \in Req : Work(s)' BY <1>7, <2>1 DEF Work, FieldsInv, Shaped, NoWork
  <2>5. ServedFits' BY <1>7, <2>1 DEF Agreed, ServedFits
  <2>6. RemarkServed' BY <1>1, <1>3, <1>7, <2>1 DEF Agreed, RemarkServed
  <2>7. RowFits' BY <1>7, <2>3 DEF RowFits, Redacted
  <2> QED BY <2>4, <2>5, <2>6, <2>7 DEF Agreed
<1> QED BY <1>10, <1>11, <1>12, <1>13, <1>14 DEF FieldsInv

LEMMA FieldsInitKeeps == FieldsInit => FieldsInv
<1> SUFFICES ASSUME FieldsInit PROVE FieldsInv OBVIOUS
<1>1. \A k : IsBody(k, << >>) BY DEF IsBody
<1>2. FieldsTypeOK BY <1>1 DEF FieldsInit, FieldsTypeOK, NoWork
<1>3. Shaped BY DEF FieldsInit, Shaped, NoWork
<1>4. SecretsGone
  <2>1. shown = << >> /\ snap = Nil BY DEF FieldsInit
  <2> QED BY <2>1 DEF SecretsGone
<1>5. FirstCreated BY DEF FieldsInit, FirstCreated, NoWork
<1>6. Agreed BY DEF FieldsInit, Agreed, ServedFits, RemarkServed, RowFits, Work, NoWork
<1> QED BY <1>2, <1>3, <1>4, <1>5, <1>6 DEF FieldsInv

LEMMA FieldsStepKeeps == FieldsInv /\ [FieldsNext]_fieldsVars => FieldsInv'
<1> SUFFICES ASSUME FieldsInv, [FieldsNext]_fieldsVars PROVE FieldsInv' OBVIOUS
<1>1. ASSUME NEW r \in Req, NEW input \in Inputs[kind], BeginCreate(r, input) PROVE FieldsInv' BY <1>1, BeginCreateKeeps
<1>2. ASSUME NEW r \in Req, NEW input \in Inputs[kind], BeginUpdate(r, input) PROVE FieldsInv' BY <1>2, BeginUpdateKeeps
<1>3. ASSUME NEW r \in Req, SendCreate(r) PROVE FieldsInv' BY <1>3, SendCreateKeeps
<1>4. ASSUME NEW r \in Req, SaveCreate(r) PROVE FieldsInv' BY <1>4, SaveCreateKeeps
<1>5. ASSUME NEW r \in Req, SaveUpdate(r) PROVE FieldsInv' BY <1>5, SaveUpdateKeeps
<1>6. ASSUME NEW r \in Req, BeginList(r) PROVE FieldsInv' BY <1>6, BeginListKeeps
<1>7. ASSUME NEW r \in Req, SaveList(r) PROVE FieldsInv' BY <1>7, SaveListKeeps
<1>8. ASSUME NEW r \in Req, NEW answered \in BOOLEAN, SendUpdate(r, answered) PROVE FieldsInv' BY <1>8, SendUpdateKeeps
<1>9. CASE UNCHANGED fieldsVars
  BY <1>9 DEF fieldsVars, FieldsInv, FieldsTypeOK, Shaped, SecretsGone, FirstCreated, Agreed, ServedFits, RemarkServed, RowFits, Work, Redacted
<1> QED BY <1>1, <1>2, <1>3, <1>4, <1>5, <1>6, <1>7, <1>8, <1>9 DEF FieldsNext

LEMMA FieldsSaySo == FieldsInv => FieldsTypeOK /\ FitsAtCdn /\ RemarkKept /\ SecretsGone
<1> SUFFICES ASSUME FieldsInv PROVE FitsAtCdn /\ RemarkKept BY DEF FieldsInv
<1>1. kind \in {"certs", "dnsapis", "acls", "sites"} BY FieldsAssumption DEF FieldsInv, FieldsTypeOK
<1>2. FitsAtCdn
  <2>1. SUFFICES ASSUME apart, served # Nil
        PROVE /\ kind = "certs" => /\ served.type = "custom" => Given(served, "key") /\ Given(served, "cert") /\ Known(served, "key") = Known(served, "cert")
                                   /\ served.type = "lets" => Given(served, "domain") /\ (served.domain = "wild" => Given(served, "dnsapi"))
              /\ kind = "dnsapis" => Known(served, "auth") = served.type
              /\ kind = "acls" => ((served.action = "reject" /\ served.code = "302") <=> served.url # "")
              /\ kind = "sites" => (Known(served, "https") = "on" => Given(served, "pem"))
    BY <1>1 DEF FitsAtCdn
  <2>2. Parts(kind, served) BY <2>1 DEF FieldsInv, Agreed, ServedFits, Fits
  <2> QED BY <2>2 DEF Parts, Known, Given
<1>3. RemarkKept BY DEF RemarkKept, FieldsInv, Agreed, RemarkServed
<1> QED BY <1>2, <1>3

(* The names that a row of s may have, and the suffixes that are known.    *)
Names(s) == {C!Empty, C!Suffix, C!Own(s)}
Suffixes == {C!Empty, C!Suffix}
(* The texts of one level of a record.                                     *)
Says(v, full, name, host, domain) == v.full = full /\ v.cname = name /\ v.host = host /\ v.domain = domain

(* A host completed with the suffix is the whole name, and lengths tell the*)
(* parts of a name from each other.                                        *)
LEMMA Lengths ==
  ASSUME NEW s
  PROVE Len(C!Empty) = 0 /\ Len(C!Suffix) = 2 /\ Len(C!Own(s)) = 3 /\ Len(C!Id) = 1 /\ Len(<<s>>) = 1
<1>1. Len(C!Empty) = 0 BY DEF C!Empty
<1>2. Len(C!Suffix) = 2 BY DEF C!Suffix
<1>3. Len(C!Own(s)) = 3 BY DEF C!Own, C!Suffix
<1>4. Len(C!Id) = 1 /\ Len(<<s>>) = 1 BY DEF C!Id
<1> QED BY <1>1, <1>2, <1>3, <1>4

LEMMA Completes ==
  ASSUME NEW s
  PROVE /\ ~C!Complete(C!Empty) /\ C!Complete(C!Suffix) /\ C!Complete(C!Own(s)) /\ ~C!Complete(C!Id) /\ ~C!Complete(<<s>>)
        /\ C!Empty # C!Suffix /\ C!Empty # C!Own(s) /\ C!Empty # C!Id /\ C!Empty # <<s>>
        /\ C!Suffix # C!Own(s) /\ C!Suffix # C!Id /\ C!Suffix # <<s>> /\ C!Own(s) # C!Id /\ C!Own(s) # <<s>>
<1>1. PICK e, x, o, i, h : e = C!Empty /\ x = C!Suffix /\ o = C!Own(s) /\ i = C!Id /\ h = <<s>> OBVIOUS
<1>2. Len(e) = 0 /\ Len(x) = 2 /\ Len(o) = 3 /\ Len(i) = 1 /\ Len(h) = 1 BY <1>1, Lengths
<1>3. ~C!Complete(e) /\ C!Complete(x) /\ C!Complete(o) /\ ~C!Complete(i) /\ ~C!Complete(h) BY <1>2 DEF C!Complete
<1>4. e # x /\ e # o /\ e # i /\ e # h /\ x # o /\ x # i /\ x # h /\ o # i /\ o # h BY <1>2
<1> QED BY <1>1, <1>3, <1>4

LEMMA Prefixes ==
  ASSUME NEW s
  PROVE /\ C!IsPrefix(<<s>>, C!Own(s))
        /\ s # "cdn" => ~C!IsPrefix(<<s>>, C!Suffix)
<1>1. PICK h : h = <<s>> OBVIOUS
<1>2. PICK o : o = C!Own(s) OBVIOUS
<1>3. PICK x : x = C!Suffix OBVIOUS
<1>4. Len(h) = 1 /\ Len(o) = 3 /\ Len(x) = 2 BY <1>1, <1>2, <1>3, Lengths
<1>5. h[1] = s BY <1>1
<1>6. o[1] = s BY <1>2 DEF C!Own, C!Suffix
<1>7. x[1] = "cdn" BY <1>3 DEF C!Suffix
<1>8. SubSeq(h, 1, 1) = [i \in 1..1 |-> h[1]] /\ SubSeq(o, 1, 1) = [i \in 1..1 |-> o[1]] /\ SubSeq(x, 1, 1) = [i \in 1..1 |-> x[1]]
  OBVIOUS
<1>9. C!IsPrefix(h, o) BY <1>4, <1>5, <1>6, <1>8 DEF C!IsPrefix
<1>10. s # "cdn" => ~C!IsPrefix(h, x) BY <1>4, <1>5, <1>7, <1>8 DEF C!IsPrefix
<1> QED BY <1>1, <1>2, <1>3, <1>9, <1>10

LEMMA Longest ==
  ASSUME NEW s, NEW p \in {C!Empty, C!Suffix, C!Own(s)}
  PROVE C!PreferFull(C!Own(s), p) = C!Own(s)
<1>1. CASE p = C!Own(s) BY <1>1 DEF C!PreferFull, C!IsStrictSuffix
<1>2. CASE p # C!Own(s)
  <2>1. PICK o : o = C!Own(s) OBVIOUS
  <2>2. Len(p) = 0 \/ Len(p) = 2
    <3>1. Len(C!Empty) = 0 /\ Len(C!Suffix) = 2 BY Lengths
    <3> QED BY <1>2, <3>1
  <2>3. Len(o) = 3 BY <2>1, Lengths
  <2>4. Len(C!Reverse(p)) = Len(p) BY <2>2 DEF C!Reverse
  <2>5. Len(C!Reverse(o)) = 3 BY <2>3 DEF C!Reverse
  <2>6. ~C!IsPrefix(C!Reverse(o), C!Reverse(p)) BY <2>2, <2>4, <2>5 DEF C!IsPrefix
  <2> QED BY <2>1, <2>6 DEF C!PreferFull, C!IsStrictSuffix, C!IsSuffix
<1> QED BY <1>1, <1>2

LEMMA Texts ==
  ASSUME NEW s
  PROVE /\ C!Text("no", s) = C!Empty /\ C!Text("own", s) = C!Own(s) /\ C!Text("host", s) = <<s>>
        /\ C!Text("suffix", s) = C!Suffix /\ C!Text("id", s) = C!Id
BY DEF C!Text

LEMMA ViewSays ==
  ASSUME NEW s, NEW a, NEW b, NEW c, NEW d
  PROVE Says(C!View(C!F(a, b, c, d), s), C!Text(a, s), C!Text(b, s), C!Text(c, s), C!Text(d, s))
BY DEF Says, C!View, C!F

(* What one level of a record may say.                                     *)
LEMMA FlatSays ==
  ASSUME Odd = FALSE, NEW s, NEW f \in C!Flat, NEW v, v = C!View(f, s)
  PROVE \/ v.domain \in {C!Empty, C!Suffix, C!Id} /\ Says(v, C!Empty, C!Empty, C!Empty, v.domain)
        \/ Says(v, C!Own(s), C!Empty, C!Empty, C!Empty)
        \/ Says(v, C!Empty, C!Own(s), C!Empty, C!Empty)
        \/ Says(v, C!Empty, C!Own(s), C!Empty, C!Suffix)
        \/ Says(v, C!Empty, C!Empty, <<s>>, C!Suffix)
        \/ Says(v, C!Empty, C!Empty, C!Own(s), C!Suffix)
        \/ Says(v, C!Empty, <<s>>, C!Empty, C!Suffix)
        \/ Says(v, C!Empty, C!Suffix, <<s>>, C!Suffix)
        \/ Says(v, C!Empty, C!Empty, <<s>>, C!Id)
<1>1. \/ \E d \in {"no", "suffix", "id"} : f = C!F("no", "no", "no", d)
      \/ f = C!F("own", "no", "no", "no") \/ f = C!F("no", "own", "no", "no") \/ f = C!F("no", "own", "no", "suffix")
      \/ f = C!F("no", "no", "host", "suffix") \/ f = C!F("no", "no", "own", "suffix")
      \/ f = C!F("no", "host", "no", "suffix") \/ f = C!F("no", "suffix", "host", "suffix") \/ f = C!F("no", "no", "host", "id")
  BY DEF C!Flat
<1>2. CASE \E d \in {"no", "suffix", "id"} : f = C!F("no", "no", "no", d)
  <2>1. PICK d \in {"no", "suffix", "id"} : f = C!F("no", "no", "no", d) BY <1>2
  <2>2. Says(v, C!Empty, C!Empty, C!Empty, C!Text(d, s)) BY <2>1, ViewSays, Texts
  <2>3. C!Text(d, s) \in {C!Empty, C!Suffix, C!Id} BY Texts
  <2> QED BY <2>2, <2>3 DEF Says
<1>3. CASE f = C!F("own", "no", "no", "no") BY <1>3, ViewSays, Texts
<1>4. CASE f = C!F("no", "own", "no", "no") BY <1>4, ViewSays, Texts
<1>5. CASE f = C!F("no", "own", "no", "suffix") BY <1>5, ViewSays, Texts
<1>6. CASE f = C!F("no", "no", "host", "suffix") BY <1>6, ViewSays, Texts
<1>7. CASE f = C!F("no", "no", "own", "suffix") BY <1>7, ViewSays, Texts
<1>8. CASE f = C!F("no", "host", "no", "suffix") BY <1>8, ViewSays, Texts
<1>9. CASE f = C!F("no", "suffix", "host", "suffix") BY <1>9, ViewSays, Texts
<1>10. CASE f = C!F("no", "no", "host", "id") BY <1>10, ViewSays, Texts
<1> QED BY <1>1, <1>2, <1>3, <1>4, <1>5, <1>6, <1>7, <1>8, <1>9, <1>10

Told(s, v, previous, suffix) ==
  IF C!NamesTarget(v, suffix)
  THEN C!AtTop(v, previous, suffix) = C!Own(s) \/ (suffix = C!Empty /\ C!AtTop(v, previous, suffix) = previous)
  ELSE C!AtTop(v, previous, suffix) = C!Empty

(* A level that names no target says nothing; one that does says the whole *)
(* name, or, if no suffix is known, what was known before.                 *)
LEMMA TopSays ==
  ASSUME Odd = FALSE, NEW s, s # "cdn", NEW f \in C!Flat, NEW v, v = C!View(f, s),
         NEW previous \in Names(s), NEW resolved \in Suffixes, NEW suffix, suffix = C!SuffixOf(v, resolved)
  PROVE suffix \in Suffixes /\ (resolved = C!Suffix => suffix = C!Suffix) /\ Told(s, v, previous, suffix)
<1>1. PICK e, x, o, i, h : e = C!Empty /\ x = C!Suffix /\ o = C!Own(s) /\ i = C!Id /\ h = <<s>> OBVIOUS
<1>2. ~C!Complete(e) /\ C!Complete(x) /\ C!Complete(o) /\ ~C!Complete(i) /\ ~C!Complete(h) BY <1>1, Completes
<1>3. e # x /\ e # o /\ e # i /\ e # h /\ x # o /\ x # i /\ x # h /\ o # i /\ o # h BY <1>1, Completes
<1>4. ~C!IsPrefix(h, x) /\ C!IsPrefix(h, o) BY <1>1, Prefixes
<1>5. C!PreferFull(o, previous) = o BY <1>1, Longest DEF Names
<1>6. h \o x = o BY <1>1 DEF C!Own
<1> DEFINE Fixed == suffix \in {e, x} /\ (resolved = x => suffix = x)
           Said == C!AtTop(v, previous, suffix) = o \/ (suffix = e /\ C!AtTop(v, previous, suffix) = previous)
<1>0. resolved \in {e, x} BY <1>1 DEF Suffixes
<1>7. CASE v.domain \in {e, x, i} /\ Says(v, e, e, e, v.domain)
  BY <1>1, <1>2, <1>3, <1>7 DEF Says, C!SuffixOf, C!NamesTarget, C!AtTop, Suffixes, Told
<1>8. ASSUME Says(v, o, e, e, e) PROVE Fixed /\ C!NamesTarget(v, suffix) /\ Said
  <2>1. suffix = resolved BY <1>2, <1>8 DEF Says, C!SuffixOf
  <2>2. C!AtTop(v, previous, suffix) = o BY <1>2, <1>5, <1>8 DEF Says, C!AtTop
  <2>3. C!NamesTarget(v, suffix) BY <1>2, <1>8 DEF Says, C!NamesTarget
  <2> QED BY <1>0, <2>1, <2>2, <2>3
<1>9. ASSUME Says(v, e, o, e, e) \/ Says(v, e, o, e, x) PROVE Fixed /\ C!NamesTarget(v, suffix) /\ Said
  <2>1. Fixed BY <1>0, <1>2, <1>9 DEF Says, C!SuffixOf
  <2>2. C!AtTop(v, previous, suffix) = o BY <1>1, <1>2, <1>5, <1>9 DEF Says, C!AtTop
  <2>3. C!NamesTarget(v, suffix) BY <1>1, <1>2, <1>3, <1>9 DEF Says, C!NamesTarget
  <2> QED BY <1>0, <2>1, <2>2, <2>3
<1>10. ASSUME Says(v, e, e, h, x) PROVE Fixed /\ C!NamesTarget(v, suffix) /\ Said
  <2>1. suffix = x BY <1>2, <1>10 DEF Says, C!SuffixOf
  <2>2. C!Combine(h, x, previous) = o BY <1>1, <1>2, <1>3, <1>6 DEF C!Combine
  <2>3. C!AtTop(v, previous, suffix) = o BY <1>1, <1>2, <1>3, <1>10, <2>1, <2>2 DEF Says, C!AtTop
  <2>4. C!NamesTarget(v, suffix) BY <1>1, <1>3, <1>10 DEF Says, C!NamesTarget
  <2> QED BY <1>0, <2>1, <2>3, <2>4
<1>11. ASSUME Says(v, e, h, e, x) PROVE Fixed /\ C!NamesTarget(v, suffix) /\ Said
  <2>1. suffix = x BY <1>2, <1>11 DEF Says, C!SuffixOf
  <2>2. C!Combine(h, x, previous) = o BY <1>1, <1>2, <1>3, <1>6 DEF C!Combine
  <2>3. C!AtTop(v, previous, suffix) = o BY <1>1, <1>2, <1>3, <1>11, <2>1, <2>2 DEF Says, C!AtTop
  <2>4. C!NamesTarget(v, suffix) BY <1>1, <1>3, <1>11, <2>1 DEF Says, C!NamesTarget
  <2> QED BY <1>0, <2>1, <2>3, <2>4
<1>12. ASSUME Says(v, e, x, h, x) PROVE Fixed /\ C!NamesTarget(v, suffix) /\ Said
  <2>1. suffix = x BY <1>2, <1>12 DEF Says, C!SuffixOf
  <2>2. C!Combine(h, x, previous) = o BY <1>1, <1>2, <1>3, <1>6 DEF C!Combine
  <2>3. C!AtTop(v, previous, suffix) = o BY <1>1, <1>2, <1>3, <1>4, <1>12, <2>1, <2>2 DEF Says, C!AtTop
  <2>4. C!NamesTarget(v, suffix) BY <1>1, <1>3, <1>12, <2>1 DEF Says, C!NamesTarget
  <2> QED BY <1>0, <2>1, <2>3, <2>4
<1>13. ASSUME Says(v, e, e, o, x) PROVE Fixed /\ C!NamesTarget(v, suffix) /\ Said
  <2>1. suffix = x BY <1>2, <1>13 DEF Says, C!SuffixOf
  <2>2. C!Combine(o, x, previous) = o BY <1>2, <1>5 DEF C!Combine
  <2>3. C!AtTop(v, previous, suffix) = o BY <1>1, <1>2, <1>3, <1>13, <2>1, <2>2 DEF Says, C!AtTop
  <2>4. C!NamesTarget(v, suffix) BY <1>1, <1>3, <1>13 DEF Says, C!NamesTarget
  <2> QED BY <1>0, <2>1, <2>3, <2>4
<1>14. ASSUME Says(v, e, e, h, i) PROVE Fixed /\ C!NamesTarget(v, suffix) /\ Said
  <2>1. suffix = resolved BY <1>2, <1>14 DEF Says, C!SuffixOf
  <2>2. C!Combine(h, suffix, previous) = IF suffix = e THEN previous ELSE o
    BY <1>0, <1>1, <1>2, <1>3, <1>6, <2>1 DEF C!Combine
  <2>3. C!AtTop(v, previous, suffix) = C!Combine(h, suffix, previous) BY <1>1, <1>2, <1>3, <1>14 DEF Says, C!AtTop
  <2>4. C!NamesTarget(v, suffix) BY <1>1, <1>3, <1>14 DEF Says, C!NamesTarget
  <2> QED BY <1>0, <2>1, <2>2, <2>3, <2>4
<1>15. \/ v.domain \in {e, x, i} /\ Says(v, e, e, e, v.domain)
       \/ Fixed /\ C!NamesTarget(v, suffix) /\ Said
  BY <1>1, <1>8, <1>9, <1>10, <1>11, <1>12, <1>13, <1>14, FlatSays
<1>16. CASE Fixed /\ C!NamesTarget(v, suffix) /\ Said
  <2>1. suffix \in Suffixes /\ (resolved = C!Suffix => suffix = C!Suffix) BY <1>1, <1>16 DEF Suffixes
  <2>2. C!AtTop(v, previous, suffix) = C!Own(s) \/ (suffix = C!Empty /\ C!AtTop(v, previous, suffix) = previous) BY <1>1, <1>16
  <2>3. C!NamesTarget(v, suffix) BY <1>16
  <2> QED BY <2>1, <2>2, <2>3 DEF Told
<1> QED BY <1>7, <1>15, <1>16

(* What the row gets from a record is what it had or the whole name.       *)
LEMMA Complements ==
  ASSUME Odd = FALSE, NEW s, s # "cdn", NEW form \in C!Form, NEW record, record = C!Record(form, s),
         NEW known \in Names(s), NEW resolved \in Suffixes
  PROVE C!Complement(record, known, resolved) \in {known, C!Own(s)}
<1> PICK suffix : suffix = C!SuffixOf(record.outer, resolved) OBVIOUS
<1> PICK within : within = C!SuffixOf(record.inner, suffix) OBVIOUS
<1> PICK previous : previous = IF C!Complete(known) THEN known ELSE C!Empty OBVIOUS
<1> PICK found : found = C!Extract(record, previous, resolved) OBVIOUS
<1>1. PICK e, x, o : e = C!Empty /\ x = C!Suffix /\ o = C!Own(s) OBVIOUS
<1>2. ~C!Complete(e) /\ C!Complete(x) /\ C!Complete(o) /\ e # x /\ e # o /\ x # o BY <1>1, Completes
<1>3. previous = known BY <1>1, <1>2 DEF Names
<1>4. /\ record.outer = C!View(form.outer, s)
      /\ record.inner = IF form.inner = Nil THEN Nil ELSE C!View(form.inner, s)
  BY DEF C!Record
<1>5. form.outer \in C!Flat
  <2>1. CASE form \in [outer : C!Flat, inner : {Nil}] BY <2>1
  <2>2. CASE form.outer \in {C!F("no", "no", "no", d) : d \in {"no", "suffix", "id"}} BY <2>2 DEF C!Flat
  <2> QED BY <2>1, <2>2 DEF C!Form
<1>6. form.inner = Nil \/ (form.inner \in C!Flat /\ \E d : form.outer = C!F("no", "no", "no", d))
  BY DEF C!Form
<1>7. /\ suffix \in Suffixes
      /\ ~C!NamesTarget(record.outer, suffix) => C!AtTop(record.outer, previous, suffix) = e
      /\ C!NamesTarget(record.outer, suffix) => (C!AtTop(record.outer, previous, suffix) = o \/ (suffix = e /\ C!AtTop(record.outer, previous, suffix) = previous))
  <2>1. previous \in Names(s) BY <1>3
  <2>2. PICK f \in C!Flat : f = form.outer BY <1>5
  <2>3. PICK v : v = record.outer OBVIOUS
  <2>4. v = C!View(f, s) /\ suffix = C!SuffixOf(v, resolved) BY <1>4, <2>2, <2>3
  <2>5. suffix \in Suffixes /\ Told(s, v, previous, suffix) BY <2>1, <2>4, TopSays
  <2> QED BY <1>1, <2>3, <2>5 DEF Told
<1>8. CASE record.inner = Nil
  <2>1. CASE ~C!NamesTarget(record.outer, suffix)
    <3>1. ~C!HasTarget(record, resolved) BY <1>8, <2>1 DEF C!HasTarget
    <3> QED BY <1>3, <3>1 DEF C!Complement
  <2>2. CASE C!NamesTarget(record.outer, suffix)
    <3>1. C!HasTarget(record, resolved) BY <2>2 DEF C!HasTarget
    <3>2. found \in {o, previous}
      <4>1. found = C!Or(C!AtTop(record.outer, previous, suffix), C!Or(C!Empty, C!Or(previous, suffix))) BY <1>8 DEF C!Extract
      <4> QED BY <1>1, <1>2, <1>7, <2>2, <4>1 DEF C!Or
    <3> QED BY <1>1, <1>2, <1>3, <3>1, <3>2 DEF C!Complement, Names
  <2> QED BY <2>1, <2>2
<1>9. CASE record.inner # Nil
  <2>1. form.inner \in C!Flat /\ record.inner = C!View(form.inner, s) /\ \E d : form.outer = C!F("no", "no", "no", d)
    BY <1>4, <1>6, <1>9
  <2>2. /\ within \in Suffixes /\ (suffix = x => within = x)
        /\ ~C!NamesTarget(record.inner, within) => C!AtTop(record.inner, previous, within) = e
        /\ C!NamesTarget(record.inner, within) => (C!AtTop(record.inner, previous, within) = o \/ (within = e /\ C!AtTop(record.inner, previous, within) = previous))
    <3>1. previous \in Names(s) BY <1>3
    <3>2. PICK f \in C!Flat : f = form.inner BY <2>1
    <3>3. PICK v : v = record.inner OBVIOUS
    <3>4. v = C!View(f, s) /\ within = C!SuffixOf(v, suffix) /\ suffix \in Suffixes BY <1>7, <2>1, <3>2, <3>3
    <3>5. within \in Suffixes /\ (suffix = C!Suffix => within = C!Suffix) /\ Told(s, v, previous, within)
      <4>1. PICK r \in Suffixes : r = suffix BY <3>4
      <4>2. within = C!SuffixOf(v, r) BY <3>4, <4>1
      <4>3. PICK w : w = within OBVIOUS
      <4>4. w = C!SuffixOf(v, r) BY <4>2, <4>3
      <4>5. w \in Suffixes /\ (r = C!Suffix => w = C!Suffix) /\ Told(s, v, previous, w)
        BY <3>1, <3>2, <3>4, <4>4, TopSays, ZenonT(40)
      <4> QED BY <4>1, <4>3, <4>5
    <3> QED BY <1>1, <3>3, <3>5 DEF Told
  <2>3. ~C!NamesTarget(record.outer, suffix)
    <3>1. PICK d : form.outer = C!F("no", "no", "no", d) BY <2>1
    <3>2. Says(record.outer, e, e, e, C!Text(d, s)) BY <1>1, <1>4, <3>1, ViewSays, Texts
    <3> QED BY <1>1, <1>2, <3>2 DEF Says, C!NamesTarget
  <2>4. C!HasTarget(record, resolved) <=> C!NamesTarget(record.inner, within) BY <1>9, <2>3 DEF C!HasTarget
  <2>5. CASE ~C!NamesTarget(record.inner, within) BY <1>3, <2>4, <2>5 DEF C!Complement
  <2>6. CASE C!NamesTarget(record.inner, within)
    <3>1. C!HasTarget(record, resolved) BY <2>4, <2>6
    <3>2. found = C!Or(C!AtTop(record.outer, previous, suffix),
                       C!Or(C!Or(C!AtTop(record.inner, previous, within), C!Or(previous, within)), C!Or(previous, suffix)))
      BY <1>9 DEF C!Extract
    <3>3. C!AtTop(record.outer, previous, suffix) = e BY <1>7, <2>3
    <3>4. found \in {o, previous}
      <4> QED BY <1>1, <1>2, <1>7, <2>2, <2>6, <3>2, <3>3 DEF C!Or, Suffixes
    <3> QED BY <1>1, <1>2, <1>3, <3>1, <3>4 DEF C!Complement, Names
  <2> QED BY <2>5, <2>6
<1> QED BY <1>8, <1>9

(* What a text says, and where it may stand.                               *)
LEMMA TextIs ==
  ASSUME NEW s, NEW a \in {"no", "own", "host", "suffix", "id"}
  PROVE /\ a # "own" /\ C!Complete(C!Text(a, s)) => C!Text(a, s) = C!Suffix
        /\ a \in {"no", "suffix", "id"} /\ C!Text(a, s) = C!Id => a = "id"
BY Texts, Completes

LEMMA FlatIs ==
  ASSUME Odd = FALSE, NEW f \in C!Flat
  PROVE /\ DOMAIN f = {"full", "cname", "host", "domain"}
        /\ \A a \in DOMAIN f : f[a] \in {"no", "own", "host", "suffix", "id"}
        /\ f.domain \in {"no", "suffix", "id"}
        /\ f.host = "host" \/ f.domain = "id" => \A a \in DOMAIN f : f[a] # "own"
<1>1. PICK g \in {"no", "own", "host", "suffix", "id"}, b \in {"no", "own", "host", "suffix", "id"},
           c \in {"no", "own", "host", "suffix", "id"}, d \in {"no", "suffix", "id"} :
        f = C!F(g, b, c, d) /\ (c = "host" \/ d = "id" => g # "own" /\ b # "own" /\ c # "own")
  BY DEF C!Flat
<1>2. /\ DOMAIN f = {"full", "cname", "host", "domain"}
      /\ f["full"] = g /\ f["cname"] = b /\ f["host"] = c /\ f["domain"] = d
  BY <1>1 DEF C!F
<1> QED BY <1>1, <1>2

LEMMA ViewIs ==
  ASSUME NEW f, NEW s
  PROVE DOMAIN C!View(f, s) = DOMAIN f /\ \A a \in DOMAIN f : C!View(f, s)[a] = C!Text(f[a], s)
BY DEF C!View

LEMMA FormIs ==
  ASSUME Odd = FALSE, NEW form \in C!Form
  PROVE /\ form.outer \in C!Flat
        /\ form.inner = Nil \/ (form.inner \in C!Flat /\ form.inner.host = "host" /\ \E d : form.outer = C!F("no", "no", "no", d))
<1>1. CASE form \in [outer : C!Flat, inner : {Nil}] BY <1>1
<1>2. CASE form.outer \in {C!F("no", "no", "no", d) : d \in {"no", "suffix", "id"}} /\ form.inner \in {f \in C!Flat : f.host = "host"}
  <2>1. form.outer \in C!Flat BY <1>2 DEF C!Flat
  <2> QED BY <1>2, <2>1
<1> QED BY <1>1, <1>2 DEF C!Form

(* A record that has the whole name of no site mentions the suffix only.   *)
LEMMA MentionsSuffix ==
  ASSUME Odd = FALSE, NEW s, NEW form \in C!Form, ~C!Whole(form), NEW record, record = C!Record(form, s)
  PROVE C!Mentioned(record) \subseteq {C!Suffix}
<1>1. /\ record.outer = C!View(form.outer, s)
      /\ record.inner = IF form.inner = Nil THEN Nil ELSE C!View(form.inner, s)
  BY DEF C!Record
<1>2. ASSUME NEW f \in C!Flat, \A a \in DOMAIN f : f[a] # "own", NEW v, v = C!View(f, s), NEW a \in DOMAIN v, C!Complete(v[a])
      PROVE v[a] = C!Suffix
  <2>1. DOMAIN v = DOMAIN f /\ v[a] = C!Text(f[a], s) BY <1>2, ViewIs
  <2>2. PICK b \in {"no", "own", "host", "suffix", "id"} : b = f[a] BY <2>1, FlatIs
  <2> QED BY <1>2, <2>1, <2>2, TextIs
<1>3. form.outer \in C!Flat /\ \A a \in DOMAIN form.outer : form.outer[a] # "own" BY FormIs DEF C!Whole
<1>4. \A a \in DOMAIN record.outer : C!Complete(record.outer[a]) => record.outer[a] = C!Suffix BY <1>1, <1>2, <1>3
<1>5. ASSUME record.inner # Nil PROVE \A a \in DOMAIN record.inner : C!Complete(record.inner[a]) => record.inner[a] = C!Suffix
  <2>1. form.inner \in C!Flat /\ form.inner.host = "host" /\ record.inner = C!View(form.inner, s) BY <1>1, <1>5, FormIs
  <2>2. \A a \in DOMAIN form.inner : form.inner[a] # "own" BY <2>1, FlatIs
  <2> QED BY <1>2, <2>1, <2>2
<1> QED BY <1>4, <1>5 DEF C!Mentioned

(* A record with the number of a suffix has the whole name of no site.     *)
LEMMA NumberedIsNotWhole ==
  ASSUME Odd = FALSE, NEW s, NEW form \in C!Form, NEW record, record = C!Record(form, s), C!HasId(record)
  PROVE C!Numbers(form) /\ ~C!Whole(form)
<1>1. /\ record.outer = C!View(form.outer, s)
      /\ record.inner = IF form.inner = Nil THEN Nil ELSE C!View(form.inner, s)
  BY DEF C!Record
<1>2. ASSUME NEW f \in C!Flat, C!View(f, s).domain = C!Id PROVE f.domain = "id"
  <2>1. PICK d \in {"no", "suffix", "id"} : d = f.domain BY FlatIs
  <2>2. C!View(f, s).domain = C!Text(d, s) BY <2>1, FlatIs, ViewIs
  <2>3. d \in {"no", "own", "host", "suffix", "id"} BY <2>1
  <2> QED BY <1>2, <2>1, <2>2, <2>3, TextIs
<1>3. CASE record.outer.domain = C!Id
  <2>1. form.outer \in C!Flat /\ form.outer.domain = "id" BY <1>1, <1>2, <1>3, FormIs
  <2>2. \A a \in DOMAIN form.outer : form.outer[a] # "own" BY <2>1, FlatIs
  <2> QED BY <2>1, <2>2 DEF C!Numbers, C!Whole
<1>4. CASE record.inner # Nil /\ record.inner.domain = C!Id
  <2>1. form.inner # Nil /\ form.inner \in C!Flat /\ record.inner = C!View(form.inner, s) /\ \E d : form.outer = C!F("no", "no", "no", d)
    BY <1>1, <1>4, FormIs
  <2>2. form.inner.domain = "id" BY <1>2, <1>4, <2>1
  <2>3. ~C!Whole(form)
    <3>1. PICK d : form.outer = C!F("no", "no", "no", d) BY <2>1
    <3>2. form.outer \in C!Flat BY FormIs
    <3>3. form.outer.domain # "own" BY <3>2, FlatIs
    <3>4. form.outer.full = "no" /\ form.outer.cname = "no" /\ form.outer.host = "no" BY <3>1 DEF C!F
    <3>5. DOMAIN form.outer = {"full", "cname", "host", "domain"} BY <3>2, FlatIs
    <3> QED BY <3>3, <3>4, <3>5 DEF C!Whole
  <2> QED BY <2>1, <2>2, <2>3 DEF C!Numbers
<1> QED BY <1>3, <1>4 DEF C!HasId

(* So a suffix that is looked up is one.                                   *)
LEMMA LooksUpSuffix ==
  ASSUME configured \in Suffixes, NEW first \in SUBSET {C!Suffix}, NEW then \in SUBSET {C!Suffix}
  PROVE C!Lookup(first, then) \subseteq Suffixes
BY DEF C!Lookup, Suffixes

LEMMA ListsSuffix ==
  ASSUME Odd = FALSE, forms \in C!Forms, ~C!Whole(forms.list), NEW absent
  PROVE C!Listed(absent) \subseteq {C!Suffix}
<1>1. forms.list \in C!Form BY DEF C!Forms, C!Form
<1>2. ASSUME NEW s \in Web PROVE C!Mentioned(C!Record(forms.list, s)) \subseteq {C!Suffix} BY <1>1, MentionsSuffix
<1>3. PICK named : named = {C!Mentioned(C!Record(forms.list, s)) : s \in Web \ absent} OBVIOUS
<1>4. \A m \in named : m \subseteq {C!Suffix} BY <1>2, <1>3
<1>5. UNION named \subseteq {C!Suffix} BY <1>4
<1>6. C!Listed(absent) = (UNION named) \cup (IF forms.table THEN {C!Suffix} ELSE {}) BY <1>3 DEF C!Listed
<1>7. PICK extra : extra = IF forms.table THEN {C!Suffix} ELSE {} OBVIOUS
<1>8. extra \subseteq {C!Suffix} BY <1>7
<1>9. C!Listed(absent) = (UNION named) \cup extra BY <1>6, <1>7
<1> SUFFICES ASSUME NEW n \in C!Listed(absent) PROVE n = C!Suffix OBVIOUS
<1>10. n \in UNION named \/ n \in extra BY <1>9
<1> QED BY <1>5, <1>8, <1>10

LEMMA FormsAre ==
  ASSUME Odd = FALSE, forms \in C!Forms
  PROVE /\ forms.list \in C!Form /\ forms.detail \in C!Form
        /\ (C!Numbers(forms.detail) => ~C!Whole(forms.list)) /\ (C!Numbers(forms.list) => ~C!Whole(forms.detail))
BY DEF C!Forms, C!Form

JobIs(w) ==
  /\ w = [pc |-> w.pc, site |-> w.site, known |-> w.known, rest |-> w.rest, absent |-> w.absent, cache |-> w.cache]
  /\ w.pc \in {"idle", "detail", "sync"} /\ w.site \in Web \cup {Nil}
  /\ DOMAIN w.known \subseteq Web /\ w.rest \subseteq Web /\ w.absent \subseteq Web /\ w.cache \in Suffixes
  /\ w.pc = "detail" => w.site \in Web /\ w.known[w.site] \in Names(w.site)
  /\ w.pc = "sync" => \A s \in w.rest : w.known[s] \in Names(s)

CnamesInv ==
  /\ cname = [s \in Web |-> cname[s]] /\ \A s \in Web : cname[s] \in Names(s)
  /\ configured \in Suffixes /\ forms \in C!Forms
  /\ listing = [j \in Lister |-> listing[j]] /\ \A j \in Lister : JobIs(listing[j])

(* What a step writes on the rows: nothing, or the whole name of a site.   *)
Completed == cname' = cname \/ \E s \in Web : cname' = [cname EXCEPT ![s] = C!Own(s)]

LEMMA SaveCompletes ==
  ASSUME NEW s \in Web, NEW known, NEW found \in {known, C!Own(s)}, C!Save(s, known, found)
  PROVE Completed
BY DEF C!Save, Completed

LEMMA StepIs ==
  ASSUME CnamesInv, Completed, NEW j \in Lister, NEW new, JobIs(new), C!Set(j, new), UNCHANGED <<configured, forms>>
  PROVE CnamesInv'
<1>1. listing' = [listing EXCEPT ![j] = new] BY DEF C!Set
<1>2. \A s \in Web : cname'[s] \in Names(s) BY DEF CnamesInv, Completed, Names
<1>3. cname' = [s \in Web |-> cname'[s]] BY DEF CnamesInv, Completed
<1>4. \A i \in Lister : JobIs(listing'[i]) BY <1>1 DEF CnamesInv
<1>5. listing' = [i \in Lister |-> listing'[i]] BY <1>1 DEF CnamesInv
<1> QED BY <1>2, <1>3, <1>4, <1>5 DEF CnamesInv

LEMMA IdleIs == JobIs(C!Idle)
BY DEF JobIs, C!Idle, Suffixes

LEMMA BeginDetailKeepsNames ==
  ASSUME CnamesInv, NEW j \in Lister, NEW s \in Web, C!BeginDetail(j, s)
  PROVE CnamesInv' /\ Completed
<1>1. PICK known : known = [z \in {s} |-> cname[z]] OBVIOUS
<1>2. PICK new : new = [pc |-> "detail", site |-> s, known |-> known, rest |-> {}, absent |-> {}, cache |-> C!Empty] OBVIOUS
<1>3. C!Set(j, new) /\ UNCHANGED <<cname, configured, forms>> BY <1>1, <1>2 DEF C!BeginDetail
<1>4. DOMAIN known = {s} /\ known[s] \in Names(s) BY <1>1 DEF CnamesInv
<1>5. JobIs(new) BY <1>2, <1>4 DEF JobIs, Suffixes
<1>6. Completed BY <1>3 DEF Completed
<1> QED BY <1>3, <1>5, <1>6, StepIs

LEMMA DetailKeepsNames ==
  ASSUME Odd = FALSE, "cdn" \notin Web, CnamesInv, NEW j \in Lister, C!Detail(j)
  PROVE CnamesInv' /\ Completed
<1>1. PICK w : w = listing[j] OBVIOUS
<1>2. JobIs(w) /\ w.pc = "detail" BY <1>1 DEF C!Detail, CnamesInv
<1>3. PICK s \in Web : s = w.site BY <1>2 DEF JobIs
<1>4. PICK record : record = C!Record(forms.detail, s) OBVIOUS
<1>5. PICK known \in Names(s) : known = w.known[s] BY <1>2, <1>3 DEF JobIs
<1>6. PICK resolved \in IF C!HasId(record) THEN C!Lookup(C!Mentioned(record), {}) ELSE {configured} :
        C!Save(s, known, C!Complement(record, known, resolved))
  BY <1>1, <1>3, <1>4, <1>5 DEF C!Detail
<1>7. configured \in Suffixes /\ forms \in C!Forms BY DEF CnamesInv
<1>8. PICK form \in C!Form : form = forms.detail BY <1>7, FormsAre
<1>9. record = C!Record(form, s) BY <1>4, <1>8
<1>10. resolved \in Suffixes
  <2>1. CASE C!HasId(record)
    <3>1. ~C!Whole(form) BY <1>9, <2>1, NumberedIsNotWhole
    <3>2. C!Mentioned(record) \in SUBSET {C!Suffix} BY <1>9, <3>1, MentionsSuffix
    <3> QED BY <1>6, <1>7, <2>1, <3>2, LooksUpSuffix
  <2>2. CASE ~C!HasId(record) BY <1>6, <1>7, <2>2
  <2> QED BY <2>1, <2>2
<1>11. C!Complement(record, known, resolved) \in {known, C!Own(s)} BY <1>9, <1>10, Complements
<1>12. Completed BY <1>6, <1>11, SaveCompletes
<1>13. C!Set(j, C!Idle) /\ UNCHANGED <<configured, forms>> BY DEF C!Detail
<1> QED BY <1>12, <1>13, IdleIs, StepIs

LEMMA BeginListKeepsNames ==
  ASSUME CnamesInv, NEW j \in Lister, NEW absent \in SUBSET Web, C!BeginList(j, absent)
  PROVE CnamesInv' /\ Completed
<1>1. PICK new : new = [pc |-> "sync", site |-> Nil, known |-> cname, rest |-> Web, absent |-> absent, cache |-> C!Empty] OBVIOUS
<1>2. C!Set(j, new) /\ UNCHANGED <<cname, configured, forms>> BY <1>1 DEF C!BeginList
<1>3. DOMAIN cname = Web /\ \A s \in Web : cname[s] \in Names(s) BY DEF CnamesInv
<1>4. JobIs(new) BY <1>1, <1>3 DEF JobIs, Suffixes
<1>5. Completed BY <1>2 DEF Completed
<1> QED BY <1>2, <1>4, <1>5, StepIs

(* The sites that follow are gone through as the first.                    *)
LEMMA OnwardIs ==
  ASSUME CnamesInv, NEW j \in Lister, NEW s \in Web, NEW cache \in Suffixes, listing[j].pc = "sync", C!Onward(j, s, cache)
  PROVE \E new : JobIs(new) /\ C!Set(j, new)
<1>1. PICK w : w = listing[j] OBVIOUS
<1>2. JobIs(w) /\ w.pc = "sync" BY <1>1 DEF CnamesInv
<1>3. CASE w.rest = {s}
  <2>1. C!Set(j, C!Idle) BY <1>1, <1>3 DEF C!Onward
  <2> QED BY <2>1, IdleIs
<1>4. CASE w.rest # {s}
  <2>1. PICK known : known = [r \in w.rest \ {s} |-> w.known[r]] OBVIOUS
  <2>2. PICK new : new = [pc |-> "sync", site |-> Nil, known |-> known, rest |-> w.rest \ {s}, absent |-> w.absent, cache |-> cache]
    OBVIOUS
  <2>4. C!Set(j, new) BY <1>1, <1>4, <2>1, <2>2 DEF C!Onward
  <2>5. JobIs(new) BY <1>2, <2>1, <2>2 DEF JobIs
  <2> QED BY <2>4, <2>5
<1> QED BY <1>3, <1>4

LEMMA CachedIs ==
  ASSUME NEW cache \in Suffixes, NEW found \in SUBSET Suffixes
  PROVE C!Cached(cache, found) \subseteq Suffixes
BY DEF C!Cached

LEMMA OrIs ==
  ASSUME NEW n, NEW m
  PROVE C!Or(n, m) \in {n, m} /\ C!Or(C!Empty, m) = m
BY DEF C!Or

LEMMA SyncKeepsNames ==
  ASSUME Odd = FALSE, "cdn" \notin Web, CnamesInv, NEW j \in Lister, NEW s \in Web, NEW answered \in BOOLEAN, C!Sync(j, s, answered)
  PROVE CnamesInv' /\ Completed
<1>1. PICK w : w = listing[j] OBVIOUS
<1>2. JobIs(w) /\ w.pc = "sync" /\ s \in w.rest BY <1>1 DEF C!Sync, CnamesInv
<1>3. PICK seen \in BOOLEAN : seen = (s \notin w.absent) OBVIOUS
<1>4. PICK record : record = C!Record(forms.list, s) OBVIOUS
<1>5. PICK detail : detail = C!Record(forms.detail, s) OBVIOUS
<1>6. PICK known \in Names(s) : known = w.known[s] BY <1>2 DEF JobIs
<1>7. configured \in Suffixes /\ forms \in C!Forms BY DEF CnamesInv
<1>8. /\ forms.list \in C!Form /\ forms.detail \in C!Form
      /\ (C!Numbers(forms.detail) => ~C!Whole(forms.list)) /\ (C!Numbers(forms.list) => ~C!Whole(forms.detail))
  BY <1>7, FormsAre
<1> DEFINE tried == IF seen /\ C!HasId(record) THEN C!Cached(w.cache, C!Lookup(C!Listed(w.absent), {})) ELSE {C!Empty}
           first == IF seen THEN C!Mentioned(record) ELSE {}
           byId == C!HasId(detail) \/ (seen /\ C!HasId(record))
           fresh(resolved) == IF seen THEN C!Fresh(record, known, resolved) ELSE C!Empty
           looked(resolved) == IF ~byId THEN {resolved}
                               ELSE C!Cached(C!Or(resolved, w.cache), C!Lookup(C!Listed(w.absent), C!Mentioned(detail)))
<1>9. UNCHANGED <<configured, forms>> BY DEF C!Sync
<1>10. PICK resolved \in tried :
         IF fresh(resolved) # C!Empty \/ ~answered
         THEN /\ C!Save(s, known, C!Or(fresh(resolved), known))
              /\ C!Onward(j, s, IF resolved # C!Empty THEN resolved ELSE w.cache)
         ELSE \E found \in looked(resolved) :
              /\ C!Save(s, known, C!Or(C!Complement(detail, known, found), known))
              /\ C!Onward(j, s, IF byId /\ found # C!Empty THEN found ELSE w.cache)
  BY <1>1, <1>3, <1>4, <1>5, <1>6 DEF C!Sync
<1>11. w.cache \in Suffixes /\ C!Empty \in Suffixes BY <1>2 DEF JobIs, Suffixes
<1>12. ASSUME seen /\ C!HasId(record) PROVE ~C!Whole(forms.list) /\ ~C!Whole(forms.detail)
  BY <1>4, <1>8, <1>12, NumberedIsNotWhole
<1>13. ASSUME C!HasId(detail) PROVE ~C!Whole(forms.list) /\ ~C!Whole(forms.detail)
  BY <1>5, <1>8, <1>13, NumberedIsNotWhole
<1>14. resolved \in Suffixes
  <2>1. CASE seen /\ C!HasId(record)
    <3>1. C!Listed(w.absent) \in SUBSET {C!Suffix} BY <1>7, <1>12, <2>1, ListsSuffix
    <3>2. C!Lookup(C!Listed(w.absent), {}) \in SUBSET Suffixes BY <1>7, <3>1, LooksUpSuffix
    <3>3. C!Cached(w.cache, C!Lookup(C!Listed(w.absent), {})) \subseteq Suffixes BY <1>11, <3>2, CachedIs
    <3> QED BY <2>1, <3>3
  <2>2. CASE ~(seen /\ C!HasId(record)) BY <1>11, <2>2
  <2> QED BY <2>1, <2>2
<1>15. looked(resolved) \subseteq Suffixes
  <2>1. CASE byId
    <3>1. ~C!Whole(forms.list) /\ ~C!Whole(forms.detail) BY <1>12, <1>13, <2>1
    <3>2. C!Listed(w.absent) \in SUBSET {C!Suffix} BY <1>7, <3>1, ListsSuffix
    <3>3. C!Mentioned(detail) \in SUBSET {C!Suffix} BY <1>5, <1>8, <3>1, MentionsSuffix
    <3>4. C!Lookup(C!Listed(w.absent), C!Mentioned(detail)) \in SUBSET Suffixes BY <1>7, <3>2, <3>3, LooksUpSuffix
    <3>5. C!Or(resolved, w.cache) \in Suffixes BY <1>11, <1>14, OrIs
    <3>6. C!Cached(C!Or(resolved, w.cache), C!Lookup(C!Listed(w.absent), C!Mentioned(detail))) \subseteq Suffixes BY <3>4, <3>5, CachedIs
    <3> QED BY <2>1, <3>6
  <2>2. CASE ~byId BY <1>14, <2>2
  <2> QED BY <2>1, <2>2
<1>16. fresh(resolved) \in {C!Empty, C!Own(s)}
  <2>1. C!Empty \in Names(s) BY DEF Names
  <2>2. C!Complement(record, C!Empty, resolved) \in {C!Empty, C!Own(s)} BY <1>4, <1>8, <1>14, <2>1, Complements
  <2> QED BY <2>2 DEF C!Fresh
<1> HIDE DEF tried, first, byId, fresh, looked
<1>17. CASE fresh(resolved) # C!Empty \/ ~answered
  <2>1. C!Or(fresh(resolved), known) \in {known, C!Own(s)} BY <1>16, OrIs
  <2>2. Completed BY <1>10, <1>17, <2>1, SaveCompletes
  <2>3. PICK cache \in Suffixes : C!Onward(j, s, cache) BY <1>10, <1>11, <1>14, <1>17
  <2>4. PICK new : JobIs(new) /\ C!Set(j, new) BY <1>1, <1>2, <2>3, OnwardIs
  <2> QED BY <1>9, <2>2, <2>4, StepIs
<1>18. CASE ~(fresh(resolved) # C!Empty \/ ~answered)
  <2>1. PICK found \in looked(resolved) :
              /\ C!Save(s, known, C!Or(C!Complement(detail, known, found), known))
              /\ C!Onward(j, s, IF byId /\ found # C!Empty THEN found ELSE w.cache)
    BY <1>10, <1>18
  <2>2. found \in Suffixes BY <1>15, <2>1
  <2>3. C!Complement(detail, known, found) \in {known, C!Own(s)} BY <1>5, <1>8, <2>2, Complements
  <2>4. C!Or(C!Complement(detail, known, found), known) \in {known, C!Own(s)} BY <2>3, OrIs
  <2>5. Completed BY <2>1, <2>4, SaveCompletes
  <2>6. PICK cache \in Suffixes : C!Onward(j, s, cache) BY <1>11, <2>1, <2>2
  <2>7. PICK new : JobIs(new) /\ C!Set(j, new) BY <1>1, <1>2, <2>6, OnwardIs
  <2> QED BY <1>9, <2>5, <2>7, StepIs
<1> QED BY <1>17, <1>18

LEMMA CnamesStart == C!Init => CnamesInv
<1> SUFFICES ASSUME C!Init PROVE CnamesInv OBVIOUS
<1>1. cname = [s \in Web |-> cname[s]] /\ \A s \in Web : cname[s] \in Names(s)
  <2>1. CASE cname = [s \in Web |-> C!Empty] BY <2>1 DEF Names
  <2>2. CASE cname = [s \in Web |-> C!Suffix] BY <2>2 DEF Names
  <2>3. CASE cname = [s \in Web |-> C!Own(s)] BY <2>3 DEF Names
  <2> QED BY <2>1, <2>2, <2>3 DEF C!Init
<1>2. listing = [j \in Lister |-> C!Idle] BY DEF C!Init
<1>3. configured \in Suffixes /\ forms \in C!Forms BY DEF C!Init, Suffixes
<1> QED BY <1>1, <1>2, <1>3, IdleIs DEF CnamesInv

LEMMA CnamesStep ==
  ASSUME Odd = FALSE, "cdn" \notin Web, CnamesInv, C!Next PROVE CnamesInv' /\ Completed
<1>1. PICK j \in Lister :
        \/ \E s \in Web : C!BeginDetail(j, s) \/ \E answered \in BOOLEAN : C!Sync(j, s, answered)
        \/ C!Detail(j)
        \/ \E absent \in SUBSET Web : C!BeginList(j, absent)
  BY DEF C!Next
<1>2. ASSUME NEW s \in Web, C!BeginDetail(j, s) PROVE CnamesInv' /\ Completed BY <1>2, BeginDetailKeepsNames
<1>3. ASSUME NEW s \in Web, NEW answered \in BOOLEAN, C!Sync(j, s, answered) PROVE CnamesInv' /\ Completed BY <1>3, SyncKeepsNames
<1>4. CASE C!Detail(j) BY <1>4, DetailKeepsNames
<1>5. ASSUME NEW absent \in SUBSET Web, C!BeginList(j, absent) PROVE CnamesInv' /\ Completed BY <1>5, BeginListKeepsNames
<1> QED BY <1>1, <1>2, <1>3, <1>4, <1>5

LEMMA CnamesStays ==
  ASSUME CnamesInv, UNCHANGED cnames PROVE CnamesInv' /\ Completed
BY DEF CnamesInv, Completed, cnames

LEMMA CnamesSaySo ==
  ASSUME CnamesInv
  PROVE /\ C!TypeOK
        /\ Completed => \A s \in Web : cname'[s] \in {C!Own(s)} \cup (IF cname[s] = C!Own(s) THEN {} ELSE {C!Empty, C!Suffix})
<1>1. \A s \in Web : C!Empty \in Seq(Web \cup {"cdn", "net"}) /\ C!Suffix \in Seq(Web \cup {"cdn", "net"})
                     /\ C!Own(s) \in Seq(Web \cup {"cdn", "net"})
  BY DEF C!Empty, C!Suffix, C!Own
<1>2. C!TypeOK
  <2>1. \A s \in Web : cname[s] \in Seq(Web \cup {"cdn", "net"}) BY <1>1 DEF CnamesInv, Names
  <2>2. \A j \in Lister : /\ listing[j].pc \in {"idle", "detail", "sync"} /\ listing[j].site \in Web \cup {Nil}
                          /\ DOMAIN listing[j].known \subseteq Web /\ listing[j].rest \subseteq Web /\ listing[j].absent \subseteq Web
    BY DEF CnamesInv, JobIs
  <2> QED BY <2>1, <2>2 DEF C!TypeOK, CnamesInv, Suffixes
<1>3. ASSUME Completed, NEW s \in Web
      PROVE cname'[s] \in {C!Own(s)} \cup (IF cname[s] = C!Own(s) THEN {} ELSE {C!Empty, C!Suffix})
  <2>1. cname'[s] = cname[s] \/ cname'[s] = C!Own(s) BY <1>3 DEF Completed, CnamesInv
  <2> QED BY <2>1 DEF CnamesInv, Names
<1> QED BY <1>2, <1>3

(* However a resource is changed piece by piece, one request after the     *)
(* other, its parts fit at the CDN, the remark stays and no secret is kept *)
(* or shown; and the target of a site, once on its row, stays there,       *)
(* whatever lists and detail views are answered, as long as the CDN's      *)
(* records name one domain (tenant-proxy.js:211, :420).                    *)
THEOREM FieldsStaySound ==
  ASSUME Odd = FALSE PROVE MCSpec => FieldsSound
<1> DEFINE Both == FieldsInv /\ CnamesInv
           Sound == FieldsTypeOK /\ C!TypeOK /\ FitsAtCdn /\ RemarkKept /\ SecretsGone
           Stays == \A s \in Web : cname'[s] \in {C!Own(s)} \cup (IF cname[s] = C!Own(s) THEN {} ELSE {C!Empty, C!Suffix})
<1>1. MCInit => Both BY FieldsInitKeeps, CnamesStart DEF MCInit
<1>2. ASSUME Both, [MCNext]_<<part, defaults, fieldsVars, cnames>> PROVE Both' /\ [Stays]_cname
  <2>1. FieldsInv'
    <3>1. [FieldsNext]_fieldsVars BY <1>2 DEF MCNext
    <3> QED BY <1>2, <3>1, FieldsStepKeeps
  <2>2. CnamesInv' /\ Completed
    <3>1. CASE C!Next BY <1>2, <3>1, CnamesStep, ConfigAssumption
    <3>2. CASE UNCHANGED cnames BY <1>2, <3>2, CnamesStays
    <3> QED BY <1>2, <3>1, <3>2 DEF MCNext
  <2>3. Stays BY <1>2, <2>2, CnamesSaySo
  <2> QED BY <2>1, <2>2, <2>3
<1>3. Both => Sound BY FieldsSaySo, CnamesSaySo
<1> HIDE DEF Both, Sound, Stays
<1>4. MCSpec => []Sound /\ [][Stays]_cname BY <1>1, <1>2, <1>3, PTL DEF MCSpec
<1> QED BY <1>4 DEF Sound, Stays, FieldsSound, C!TargetKept
=============================================================================
