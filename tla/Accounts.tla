------------------------------ MODULE Accounts ------------------------------
(***************************************************************************)
(* Registration, password reset, change of address and second factor:      *)
(* auth-service.js, registration-security.js, mfa.js, and the routes of    *)
(* app.js that call them.  Everything a customer proves, it proves with a  *)
(* code: a row says which code is good, until when and after how many      *)
(* wrong tries it is not.  Requests are interleaved at their awaits; the   *)
(* transactions hold the row they read until they commit.                  *)
(***************************************************************************)
EXTENDS Integers, Sequences, FiniteSets

CONSTANTS User,         \* names; a customer is its name
          Email, Req,   \* addresses, requests under way
          None,
          MaxTries,     \* wrong tries of a code (5 in the code)
          MaxUses,      \* customers an invitation is good for
          MaxCodes,     \* codes made in a behaviour
          MailInTime    \* a mail is sent, or has failed, before the cooldown of its address ends

ASSUME NoneAssumption == None \notin User \cup Email \cup Req
ASSUME BoundsAssumption == MaxTries \in Nat \ {0} /\ MaxUses \in Nat \ {0} /\ MaxCodes \in Nat

VARIABLES user,     \* users
          token,    \* the rows that hold codes: see Slot
          proc,     \* what each request is doing
          cool,     \* the claim on the cooldown of an address
          invite,   \* the invitation, and who has registered with it
          log       \* history of the codes, in the order they were made

vars == <<user, token, proc, cool, invite, log>>

Code == 1..MaxCodes
(* One row for each address that registers or resets, one for each         *)
(* customer that changes its address, one for each challenge of a login.   *)
Slot == ({"register", "reset"} \X Email) \cup ({"change"} \X User) \cup ({"mfa"} \X Code)
Row == [code : Code, user : User, email : Email \cup {None}, tries : 0..MaxTries, invited : BOOLEAN]
Idle == [pc |-> "idle", slot |-> None, row |-> None, user |-> None, email |-> None, invited |-> FALSE, code |-> 0]

(* The code was mailed to an address, used, tried wrongly, or taken back:  *)
(* replaced, expired, or deleted with what it was for.                     *)
Record == [kind : {"register", "reset", "change", "mfa"}, to : Email \cup {None}, mailed : BOOLEAN, uses : 0..2, wrong : 0..MaxTries + 1, over : BOOLEAN]
NewRecord(k, e) == [kind |-> k, to |-> e, mailed |-> FALSE, uses |-> 0, wrong |-> 0, over |-> FALSE]

TypeOK ==
  /\ user \in [User -> [there : BOOLEAN, email : Email \cup {None}, verified : BOOLEAN, active : BOOLEAN]]
  /\ token \in [Slot -> Row \cup {None}]
  /\ \A r \in Req :
       /\ proc[r].pc \in {"idle", "asked", "stored", "read", "invited", "done"}
       /\ proc[r].slot \in Slot \cup {None} /\ proc[r].row \in Row \cup {None}
  /\ cool \in [Email -> Req \cup {None}]
  /\ invite \in [used : 0..MaxUses, disabled : BOOLEAN, members : SUBSET User]
  /\ \A c \in DOMAIN log : c \in Code /\ log[c] \in Record

(* Customers made by an administrator may have no address, and those that  *)
(* registered without a code have none that is verified.                   *)
Init ==
  /\ \E made \in SUBSET User, email \in [User -> Email \cup {None}] :
       /\ \A u, v \in User : email[u] # None => u \in made /\ (email[u] = email[v] => u = v)
       /\ user = [u \in User |-> [there |-> u \in made, email |-> email[u], verified |-> FALSE, active |-> u \in made]]
  /\ token = [s \in Slot |-> None]
  /\ proc = [r \in Req |-> Idle]
  /\ cool = [e \in Email |-> None]
  /\ invite = [used |-> 0, disabled |-> FALSE, members |-> {}]
  /\ log = <<>>

-----------------------------------------------------------------------------
Taken(e) == \E u \in User : user[u].email = e
Usable == ~invite.disabled /\ invite.used < MaxUses
At(r, pc) == proc[r].pc = pc
End(r) == proc' = [proc EXCEPT ![r] = [Idle EXCEPT !.pc = "done"]]
NextCode == Len(log) + 1

(* SELECT ... FOR UPDATE keeps the row, and the invitation, until the      *)
(* transaction ends; any other statement on it waits.                      *)
RowNotLockedBug(s) == TRUE
Free(s) == \A r \in Req : At(r, "read") \/ At(r, "invited") => proc[r].slot # s
InviteNotLockedBug == TRUE
InviteFree == \A r \in Req : ~At(r, "invited")

(* What a request's code is for: a registration may have none.             *)
For(r) == IF proc[r].slot = None THEN "register" ELSE proc[r].slot[1]

Over(codes, l) == [c \in DOMAIN l |-> IF c \in codes THEN [l[c] EXCEPT !.over = TRUE] ELSE l[c]]
CodesIn(slots) == {token[s].code : s \in {t \in slots : token[t] # None}}
Cleared(slots) == [s \in Slot |-> IF s \in slots THEN None ELSE token[s]]

CodeKeptBug(s, u, e, inv) ==
  [code |-> IF token[s] = None THEN NextCode ELSE token[s].code, user |-> u, email |-> e, tries |-> 0, invited |-> inv]
NewRow(s, u, e, inv) == [code |-> NextCode, user |-> u, email |-> e, tries |-> 0, invited |-> inv]

(* INSERT ... ON CONFLICT DO UPDATE: the row has the new code alone.       *)
Upsert(s, u, e, inv) ==
  /\ NextCode \in Code /\ Free(s)
  /\ token' = [token EXCEPT ![s] = NewRow(s, u, e, inv)]
  /\ log' = Append(Over(CodesIn({s}), log), NewRecord(s[1], e))

-----------------------------------------------------------------------------
(* A request for a code claims the cooldown of its address first, and is   *)
(* refused while another has it.                                           *)
AlwaysFreshBug(e) == TRUE
Fresh(e) == cool[e] = None

Ask(r, s, u, e, inv) ==
  /\ At(r, "idle") /\ Fresh(e)
  /\ cool' = [cool EXCEPT ![e] = r]
  /\ proc' = [proc EXCEPT ![r] = [Idle EXCEPT !.pc = "asked", !.slot = s, !.user = u, !.email = e, !.invited = inv]]
  /\ UNCHANGED <<user, token, invite, log>>

AskRegistration(r, u, e, inv) == (inv => Usable) /\ Ask(r, <<"register", e>>, u, e, inv)
AskReset(r, e) == Ask(r, <<"reset", e>>, None, e, FALSE)
AskChange(r, u, e) == user[u].active /\ Ask(r, <<"change", u>>, u, e, FALSE)

(* releaseCooldown deletes the claim only while it is its own.             *)
Release(r) == cool' = [cool EXCEPT ![proc[r].email] = IF @ = r THEN None ELSE @]

Stored(r) == proc' = [proc EXCEPT ![r].pc = "stored", ![r].code = NextCode]

StoreRegistration(r) ==
  /\ At(r, "asked") /\ For(r) = "register"
  /\ IF user[proc[r].user].there \/ Taken(proc[r].email)
     THEN End(r) /\ Release(r) /\ UNCHANGED <<token, log>>
     ELSE /\ Upsert(proc[r].slot, proc[r].user, proc[r].email, proc[r].invited)
          /\ Stored(r) /\ UNCHANGED cool
  /\ UNCHANGED <<user, invite>>

(* An address nobody has is answered like any other.                       *)
StoreReset(r) ==
  /\ At(r, "asked") /\ For(r) = "reset"
  /\ IF \E u \in User : user[u].email = proc[r].email /\ user[u].active
     THEN /\ \E u \in User : /\ user[u].email = proc[r].email /\ user[u].active
                             /\ Upsert(proc[r].slot, u, proc[r].email, FALSE)
          /\ Stored(r)
     ELSE End(r) /\ UNCHANGED <<token, log>>
  /\ UNCHANGED <<user, cool, invite>>

StoreChange(r) ==
  /\ At(r, "asked") /\ For(r) = "change"
  /\ IF Taken(proc[r].email)
     THEN End(r) /\ Release(r) /\ UNCHANGED <<token, log>>
     ELSE Upsert(proc[r].slot, proc[r].user, proc[r].email, FALSE) /\ Stored(r) /\ UNCHANGED cool
  /\ UNCHANGED <<user, invite>>

Mailed(r) ==
  /\ At(r, "stored")
  /\ log' = [log EXCEPT ![proc[r].code].mailed = TRUE]
  /\ End(r)
  /\ UNCHANGED <<user, token, cool, invite>>

(* The row of a registration or a change is deleted by its key, whatever   *)
(* code it holds by now; the row of a reset stays.                         *)
MailFails(r) ==
  LET s == proc[r].slot IN
  /\ At(r, "stored") /\ (s[1] # "reset" => Free(s))
  /\ token' = IF s[1] = "reset" THEN token ELSE Cleared({s})
  /\ log' = Over({proc[r].code}, log)
  /\ Release(r) /\ End(r)
  /\ UNCHANGED <<user, invite>>

Sending(e) == \E r \in Req : proc[r].pc \in {"asked", "stored"} /\ proc[r].email = e
CoolEnds(e) ==
  /\ cool[e] # None /\ (MailInTime => ~Sending(e))
  /\ cool' = [cool EXCEPT ![e] = None]
  /\ UNCHANGED <<user, token, proc, invite, log>>

(* expires_at passes.  No transaction that read the row earlier minds.     *)
Expire(s) ==
  /\ token[s] # None /\ Free(s)
  /\ token' = Cleared({s}) /\ log' = Over(CodesIn({s}), log)
  /\ UNCHANGED <<user, proc, cool, invite>>

-----------------------------------------------------------------------------
(* A code is presented: the transaction reads its row FOR UPDATE.  Whoever *)
(* registers may show an invitation only now.                              *)
Present(r, s, inv) ==
  /\ At(r, "idle") /\ token[s] # None /\ Free(s)
  /\ token[s].tries < MaxTries
  /\ inv => s[1] = "register" /\ ~token[s].invited
  /\ s[1] = "change" => user[token[s].user].active
  /\ proc' = [proc EXCEPT ![r] = [Idle EXCEPT !.pc = "read", !.slot = s, !.row = token[s], !.user = token[s].user,
                                    !.email = token[s].email, !.invited = inv \/ token[s].invited]]
  /\ UNCHANGED <<user, token, cool, invite, log>>

Tried(w) == IF w = None \/ w.tries >= MaxTries THEN w ELSE [w EXCEPT !.tries = @ + 1]
Wrong(r) ==
  LET s == proc[r].slot IN
  /\ At(r, "read") /\ s # None
  /\ token' = [token EXCEPT ![s] = Tried(@)]
  /\ log' = [log EXCEPT ![proc[r].row.code].wrong = IF @ > MaxTries THEN @ ELSE @ + 1]
  /\ End(r)
  /\ UNCHANGED <<user, cool, invite>>

(* Registration without verification starts here, with no code.            *)
RegisterNow(r, u, e, inv) ==
  /\ At(r, "idle")
  /\ inv => Usable
  /\ proc' = [proc EXCEPT ![r] = [Idle EXCEPT !.pc = "read", !.user = u, !.email = e, !.invited = inv]]
  /\ UNCHANGED <<user, token, cool, invite, log>>

Right(r) == IF proc[r].row = None THEN TRUE ELSE log[proc[r].row.code].mailed

ConsumeInvite(r) ==
  /\ At(r, "read") /\ For(r) = "register" /\ Right(r) /\ proc[r].invited /\ InviteFree
  /\ IF Usable THEN proc' = [proc EXCEPT ![r].pc = "invited"] ELSE End(r)
  /\ UNCHANGED <<user, token, cool, invite, log>>

Used(c, l) == [l EXCEPT ![c].uses = IF @ = 2 THEN @ ELSE @ + 1]
Commit(r, slots) ==
  /\ token' = Cleared(slots)
  /\ log' = IF proc[r].row = None THEN log ELSE Used(proc[r].row.code, Over(CodesIn(slots), log))
  /\ End(r)

(* The unique indexes on name and address end the transaction of whoever   *)
(* comes second.                                                           *)
CreateUser(r) ==
  LET u == proc[r].user
      e == proc[r].email
  IN /\ At(r, IF proc[r].invited THEN "invited" ELSE "read") /\ For(r) = "register" /\ Right(r)
     /\ IF user[u].there \/ Taken(e)
        THEN End(r) /\ UNCHANGED <<user, token, invite, log>>
        ELSE /\ user' = [user EXCEPT ![u] = [there |-> TRUE, email |-> e, verified |-> proc[r].row # None, active |-> TRUE]]
             /\ invite' = IF proc[r].invited
                          THEN [invite EXCEPT !.used = @ + 1, !.members = @ \cup {u}] ELSE invite
             /\ Commit(r, IF proc[r].slot = None THEN {} ELSE {proc[r].slot})
     /\ UNCHANGED cool

ResetPassword(r) ==
  /\ At(r, "read") /\ Right(r) /\ For(r) = "reset"
  /\ Commit(r, {proc[r].slot})
  /\ UNCHANGED <<user, cool, invite>>

ConfirmChange(r) ==
  LET u == proc[r].user IN
  /\ At(r, "read") /\ Right(r) /\ For(r) = "change"
  /\ IF Taken(proc[r].email)
     THEN End(r) /\ UNCHANGED <<user, token, log>>
     ELSE /\ user' = [user EXCEPT ![u].email = proc[r].email, ![u].verified = TRUE]
          /\ Commit(r, {proc[r].slot})
  /\ UNCHANGED <<cool, invite>>

(* Completing a login ends every challenge of the customer.  A customer    *)
(* that was disabled meanwhile is refused.                                 *)
CompleteLogin(r) ==
  LET u == proc[r].user IN
  /\ At(r, "read") /\ Right(r) /\ For(r) = "mfa"
  /\ IF user[u].active
     THEN Commit(r, {s \in Slot : s[1] = "mfa" /\ token[s] # None /\ token[s].user = u})
     ELSE End(r) /\ UNCHANGED <<token, log>>
  /\ UNCHANGED <<user, cool, invite>>

(* The password was right and a second factor is on: the challenge is the  *)
(* code, and goes to the browser.                                          *)
BeginLogin(r, u) ==
  /\ At(r, "idle") /\ user[u].active /\ NextCode \in Code /\ End(r)
  /\ token' = [token EXCEPT ![<<"mfa", NextCode>>] =
                 [code |-> NextCode, user |-> u, email |-> None, tries |-> 0, invited |-> FALSE]]
  /\ log' = Append(log, [NewRecord("mfa", None) EXCEPT !.mailed = TRUE])
  /\ UNCHANGED <<user, cool, invite>>

-----------------------------------------------------------------------------
ChangeNow(r, u, e) ==
  /\ At(r, "idle") /\ user[u].active /\ ~Taken(e) /\ Free(<<"change", u>>) /\ End(r)
  /\ user' = [user EXCEPT ![u].email = e, ![u].verified = FALSE]
  /\ token' = Cleared({<<"change", u>>}) /\ log' = Over(CodesIn({<<"change", u>>}), log)
  /\ UNCHANGED <<cool, invite>>

CloseAccount(r, u) ==
  LET gone == {<<"change", u>>} \cup {s \in Slot : s[1] = "reset" /\ token[s] # None /\ token[s].user = u}
  IN /\ At(r, "idle") /\ user[u].active /\ (\A s \in gone : Free(s)) /\ End(r)
     /\ user' = [user EXCEPT ![u].email = None, ![u].verified = FALSE, ![u].active = FALSE]
     /\ token' = Cleared(gone) /\ log' = Over(CodesIn(gone), log)
     /\ UNCHANGED <<cool, invite>>

SetStatus(r, u) ==
  /\ At(r, "idle") /\ user[u].there /\ End(r)
  /\ user' = [user EXCEPT ![u].active = ~@]
  /\ UNCHANGED <<token, cool, invite, log>>

DisableInvite(r) ==
  /\ At(r, "idle") /\ ~invite.disabled /\ InviteFree /\ End(r)
  /\ invite' = [invite EXCEPT !.disabled = TRUE]
  /\ UNCHANGED <<user, token, cool, log>>

Fails(r) ==
  /\ At(r, "read") \/ At(r, "invited")
  /\ End(r)
  /\ UNCHANGED <<user, token, cool, invite, log>>

Next ==
  \/ \E r \in Req :
       \/ \E u \in User, e \in Email, inv \in BOOLEAN : AskRegistration(r, u, e, inv) \/ RegisterNow(r, u, e, inv)
       \/ \E e \in Email : AskReset(r, e) \/ \E u \in User : AskChange(r, u, e)
       \/ StoreRegistration(r) \/ StoreReset(r) \/ StoreChange(r) \/ Mailed(r) \/ MailFails(r)
       \/ \E s \in Slot, inv \in BOOLEAN : Present(r, s, inv)
       \/ Wrong(r) \/ ConsumeInvite(r) \/ CreateUser(r) \/ ResetPassword(r) \/ ConfirmChange(r) \/ CompleteLogin(r)
       \/ \E u \in User : BeginLogin(r, u) \/ CloseAccount(r, u) \/ SetStatus(r, u) \/ \E e \in Email : ChangeNow(r, u, e)
       \/ DisableInvite(r) \/ Fails(r)
  \/ \E e \in Email : CoolEnds(e)
  \/ \E s \in Slot : Expire(s)

Spec == Init /\ [][Next]_vars

-----------------------------------------------------------------------------
(* A code is good for one thing done, and for no more wrong tries than it  *)
(* may have, however many requests present it at the same time.            *)
CodesOnce == \A c \in DOMAIN log : log[c].uses <= 1 /\ log[c].wrong <= MaxTries

(* An invitation counts the customers that registered with it, and lets in *)
(* no more than it may, those included that were asked before the last use *)
(* and verified after it.                                                  *)
InvitesSound == invite.used = Cardinality(invite.members) /\ invite.used <= MaxUses

(* An address is marked verified only for a customer that used a code that *)
(* was mailed to that address.                                             *)
AddressProved ==
  \A u \in User : user[u].verified =>
    \E c \in DOMAIN log : log[c].to = user[u].email /\ log[c].mailed /\ log[c].uses > 0

(* A code that was mailed stays good until it is used, replaced, expired   *)
(* or has had its tries: the mail that fails for another request does not  *)
(* take it away, though its row is deleted by address.  (The row of a      *)
(* change of address is keyed by the customer, and is not protected by the *)
(* cooldown of the address: there it does.)                                *)
MailedCodesStand ==
  \A c \in DOMAIN log :
    log[c].mailed /\ log[c].uses = 0 /\ ~log[c].over /\ log[c].kind # "change"
      => \E s \in Slot : token[s] # None /\ token[s].code = c
=============================================================================
