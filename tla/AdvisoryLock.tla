---------------------------- MODULE AdvisoryLock ----------------------------
(***************************************************************************)
(* The keyed locks every mutation of a customer's resources, the billing   *)
(* scheduler and the operations worker run under: PostgreSQL advisory      *)
(* locks taken by withAdvisoryLock (src/src/db.js) and made reentrant per  *)
(* asynchronous context by withResourceMutation                            *)
(* (src/src/resource-mutation.js).                                         *)
(*                                                                         *)
(* A call of either function is an element of Call and is made once.  Its  *)
(* steps are the code's awaits: the synchronous admission, the answer of   *)
(* pg_try_advisory_lock, the end of the callback, the answer of            *)
(* pg_advisory_unlock, and the release of the connection.  A call made     *)
(* inside another call's callback inherits that call's context, a map from *)
(* keys to the token (here: the call) that last locked the key.            *)
(***************************************************************************)
EXTENDS Naturals, FiniteSets

CONSTANTS
  Call,       (* Calls of withAdvisoryLock or withResourceMutation.        *)
  Key,        (* Lock names.                                               *)
  Instance,   (* Server processes; each has its own counter of lock slots. *)
  Inst,       (* Inst[c] is the process that makes call c.                 *)
  SlotLimit,  (* Lock connections of a process (12 in the code).           *)
  None        (* No call.                                                  *)

ASSUME ConstantsAssumption ==
  /\ IsFiniteSet(Call)
  /\ None \notin Call
  /\ Inst \in [Call -> Instance]
  /\ SlotLimit \in Nat

VARIABLES
  pc,       (* Where each call stands.                                     *)
  key,      (* The name a started call asks for.                           *)
  reent,    (* Whether the call passes allowReentrant.                     *)
  locks,    (* The context's map: locks[c][k] is the token c sees for k.   *)
  extent,   (* The calls whose callbacks wait for this one to return.      *)
  before,   (* The calls that must have returned before a detached call    *)
            (* (a timer's callback) runs.                                  *)
  active,   (* advisory.active of each process.                            *)
  holder    (* PostgreSQL's table: the call whose session holds a name.    *)

vars == <<pc, key, reent, locks, extent, before, active, holder>>

Pc == {"new", "started", "trying", "inside", "bypass", "leaving", "releasing",
       "done"}

TypeOK ==
  /\ pc \in [Call -> Pc]
  /\ key \in [Call -> Key]
  /\ reent \in [Call -> BOOLEAN]
  /\ locks \in [Call -> [Key -> Call \cup {None}]]
  /\ extent \in [Call -> SUBSET Call]
  /\ before \in [Call -> SUBSET Call]
  /\ active \in [Instance -> Nat]
  /\ holder \in [Key -> Call \cup {None}]

Init ==
  /\ pc = [c \in Call |-> "new"]
  /\ key \in [Call -> Key]
  /\ reent \in [Call -> BOOLEAN]
  /\ locks = [c \in Call |-> [k \in Key |-> None]]
  /\ extent = [c \in Call |-> {}]
  /\ before = [c \in Call |-> {}]
  /\ active = [i \in Instance |-> 0]
  /\ holder = [k \in Key |-> None]

Goto(c, p) == pc' = [pc EXCEPT ![c] = p]

(* The callback of c is running: under its own lock, or under the lock of  *)
(* a call that waits for it.                                               *)
Running(c) == pc[c] \in {"inside", "bypass"}

(* The calls of process i that hold one of its lock slots.                 *)
Slots(i) == {c \in Call : Inst[c] = i
                          /\ pc[c] \in {"trying", "inside", "leaving", "releasing"}}

-----------------------------------------------------------------------------
(* A request handler or the scheduler makes the call: no lock is in the    *)
(* asynchronous context.                                                   *)
Start(c) ==
  /\ pc[c] = "new"
  /\ Goto(c, "started")
  /\ UNCHANGED <<key, reent, locks, extent, before, active, holder>>

(* The map a call made inside p's callback sees: p's own token replaces an *)
(* older one for the same name; a bypassing p runs in its caller's map.    *)
ContextIn(p) ==
  IF pc[p] = "inside" THEN [locks[p] EXCEPT ![key[p]] = p] ELSE locks[p]

(* The callback of p makes call c and awaits it.                           *)
Nest(p, c) ==
  /\ Running(p)
  /\ pc[c] = "new" /\ Inst[c] = Inst[p]
  /\ Goto(c, "started")
  /\ locks' = [locks EXCEPT ![c] = ContextIn(p)]
  /\ extent' = [extent EXCEPT ![c] = extent[p] \cup {p}]
  /\ UNCHANGED <<key, reent, before, active, holder>>

(* The callback of p leaves a timer behind that will make call c in the    *)
(* same context after p, and whoever awaited p, has returned.              *)
Detach(p, c) ==
  /\ Running(p)
  /\ pc[c] = "new" /\ Inst[c] = Inst[p]
  /\ Goto(c, "started")
  /\ locks' = [locks EXCEPT ![c] = ContextIn(p)]
  /\ before' = [before EXCEPT ![c] = extent[p] \cup {p}]
  /\ UNCHANGED <<key, reent, extent, active, holder>>

(* withResourceMutation looks at the context before it asks for the lock.  *)
Due(c) == pc[c] = "started" /\ \A p \in before[c] : pc[p] = "done"

TokenPresentBug(c) == locks[c][key[c]] # None

(* token.active of the token the context maps c's name to.                 *)
TokenActive(c) ==
  LET o == locks[c][key[c]] IN o # None /\ pc[o] = "inside"

Reenters(c) == reent[c] /\ TokenActive(c)

Bypass(c) ==
  /\ Due(c) /\ Reenters(c)
  /\ Goto(c, "bypass")
  /\ UNCHANGED <<key, reent, locks, extent, before, active, holder>>

RefuseFreesSlotBug(c) ==
  /\ Due(c) /\ ~Reenters(c)
  /\ active[Inst[c]] >= SlotLimit
  /\ active' = [active EXCEPT ![Inst[c]] = @ - 1]
  /\ Goto(c, "done")
  /\ UNCHANGED <<key, reent, locks, extent, before, holder>>

(* active >= 12: refused without waiting for a connection.                 *)
Refuse(c) ==
  /\ Due(c) /\ ~Reenters(c)
  /\ active[Inst[c]] >= SlotLimit
  /\ Goto(c, "done")
  /\ UNCHANGED <<key, reent, locks, extent, before, active, holder>>

Admit(c) ==
  /\ Due(c) /\ ~Reenters(c)
  /\ active[Inst[c]] < SlotLimit
  /\ active' = [active EXCEPT ![Inst[c]] = @ + 1]
  /\ Goto(c, "trying")
  /\ UNCHANGED <<key, reent, locks, extent, before, holder>>

(* active -= 1 in the outer finally.                                       *)
FreeSlot(c) == active' = [active EXCEPT ![Inst[c]] = @ - 1]

AcquireAlwaysBug(c) ==
  /\ pc[c] = "trying"
  /\ holder' = [holder EXCEPT ![key[c]] = c]
  /\ Goto(c, "inside")
  /\ UNCHANGED <<key, reent, locks, extent, before, active>>

(* pg_try_advisory_lock answers true.                                      *)
Acquire(c) ==
  /\ pc[c] = "trying"
  /\ holder[key[c]] = None
  /\ holder' = [holder EXCEPT ![key[c]] = c]
  /\ Goto(c, "inside")
  /\ UNCHANGED <<key, reent, locks, extent, before, active>>

FailTryKeepsSlotBug(c) ==
  /\ pc[c] = "trying"
  /\ holder[key[c]] # None
  /\ Goto(c, "done")
  /\ UNCHANGED <<key, reent, locks, extent, before, active, holder>>

FailTryWaitsBug(c) == pc[c] = "trying" /\ FALSE /\ UNCHANGED vars

(* pg_try_advisory_lock answers false: the caller gets { acquired: false }, *)
(* which withResourceMutation turns into a 409.                            *)
FailTry(c) ==
  /\ pc[c] = "trying"
  /\ holder[key[c]] # None
  /\ FreeSlot(c)
  /\ Goto(c, "done")
  /\ UNCHANGED <<key, reent, locks, extent, before, holder>>

(* No connection within 8 s: connect() throws, the slot is given back.     *)
FailConnect(c) ==
  /\ pc[c] = "trying"
  /\ FreeSlot(c)
  /\ Goto(c, "done")
  /\ UNCHANGED <<key, reent, locks, extent, before, holder>>

(* The callback of c returns or throws; what it awaits has returned.       *)
Finished(c) == \A d \in Call : c \in extent[d] => pc[d] = "done"

EndWithoutUnlockBug(c) ==
  /\ pc[c] = "inside" /\ Finished(c)
  /\ Goto(c, "releasing")
  /\ UNCHANGED <<key, reent, locks, extent, before, active, holder>>

EndCallback(c) ==
  /\ pc[c] = "inside" /\ Finished(c)
  /\ Goto(c, "leaving")
  /\ UNCHANGED <<key, reent, locks, extent, before, active, holder>>

EndBypass(c) ==
  /\ pc[c] = "bypass" /\ Finished(c)
  /\ Goto(c, "done")
  /\ UNCHANGED <<key, reent, locks, extent, before, active, holder>>

Unlock(c) ==
  /\ pc[c] = "leaving"
  /\ holder' = [holder EXCEPT ![key[c]] = None]
  /\ Goto(c, "releasing")
  /\ UNCHANGED <<key, reent, locks, extent, before, active>>

Release(c) ==
  /\ pc[c] = "releasing"
  /\ FreeSlot(c)
  /\ Goto(c, "done")
  /\ UNCHANGED <<key, reent, locks, extent, before, holder>>

(* The process dies (a crash, or a lost connection, whose unhandled error  *)
(* event ends it): PostgreSQL ends its sessions and frees their locks.     *)
Crash(i) ==
  /\ \E c \in Call : Inst[c] = i /\ pc[c] \notin {"new", "done"}
  /\ pc' = [c \in Call |-> IF Inst[c] = i /\ pc[c] # "new" THEN "done" ELSE pc[c]]
  /\ active' = [active EXCEPT ![i] = 0]
  /\ holder' = [k \in Key |-> IF holder[k] # None /\ Inst[holder[k]] = i
                              THEN None ELSE holder[k]]
  /\ UNCHANGED <<key, reent, locks, extent, before>>

-----------------------------------------------------------------------------
Step(c) ==
  \/ Bypass(c) \/ Refuse(c) \/ Admit(c) \/ Acquire(c) \/ FailTry(c)
  \/ EndCallback(c) \/ EndBypass(c) \/ Unlock(c) \/ Release(c)

Next ==
  \/ \E c \in Call : Start(c) \/ Step(c) \/ FailConnect(c)
  \/ \E p, c \in Call : Nest(p, c) \/ Detach(p, c)
  \/ \E i \in Instance : Crash(i)

Spec == Init /\ [][Next]_vars

(* A started call keeps running: the event loop, PostgreSQL and the        *)
(* callbacks (whose upstream requests have a timeout) all answer.          *)
FairSpec == Spec /\ \A c \in Call : WF_vars(Step(c))

-----------------------------------------------------------------------------
(* The call under whose lock the callback of c runs.                       *)
OwnerOf(c) == IF pc[c] = "bypass" THEN locks[c][key[c]] ELSE c

(* Two callbacks run under one name only when the same lock covers both:   *)
(* a reentrant call never slips in beside a new owner, whatever context it *)
(* inherited (resource-mutation.js:7, operations.test.js:230).             *)
MutualExclusion ==
  \A c, d \in Call : Running(c) /\ Running(d) /\ key[c] = key[d]
                     => OwnerOf(c) = OwnerOf(d)

(* The slot counter is exact and within the pool: a refused, failed or     *)
(* crashed call leaks no slot, so connect() never queues for a connection  *)
(* (db.js:102-114).                                                        *)
SlotsExact ==
  \A i \in Instance : /\ active[i] = Cardinality(Slots(i))
                      /\ active[i] <= SlotLimit

(* PostgreSQL's table and the callbacks agree: whoever runs under its own  *)
(* lock holds the name, and a held name belongs to a live call that will   *)
(* give it back (no lock outlives its call).                               *)
HolderLive ==
  /\ \A c \in Call : pc[c] \in {"inside", "leaving"} => holder[key[c]] = c
  /\ \A k \in Key : holder[k] # None =>
       /\ key[holder[k]] = k
       /\ pc[holder[k]] \in {"inside", "leaving"}

(* The part of the invariant about reentrant calls: a bypassing call is    *)
(* awaited by the owner of its token, and the owner is still inside.       *)
BypassCovered ==
  \A c \in Call : pc[c] = "bypass" =>
     LET o == locks[c][key[c]] IN o \in extent[c] /\ pc[o] = "inside" /\ key[o] = key[c]

(* A name that is held is held by a call that is there, and a reentrant    *)
(* call runs under the lock of a call that waits for it (db.js:107-124).   *)
HoldersSound == HolderLive /\ BypassCovered

(* What BypassCovered rests on: a token a call can see belongs to a call   *)
(* that awaits it, or one that has returned by the time it is looked up;   *)
(* and whoever awaits a call that has not returned is still running.       *)
FreshSound(c) ==
  pc[c] = "new" => /\ extent[c] = {} /\ before[c] = {}
                   /\ \A k \in Key : locks[c][k] = None

BeforeSound(c) ==
  \A p \in before[c] : /\ Inst[p] = Inst[c]
                       /\ pc[p] # "new"
                       /\ pc[c] \notin {"new", "started"} => pc[p] = "done"

TokenSound(c) ==
  \A k \in Key : LET o == locks[c][k] IN
    o # None => key[o] = k /\ (o \in extent[c] \cup before[c] \/ pc[o] = "done")

ExtentSound(c) ==
  \A p \in extent[c] : /\ Inst[p] = Inst[c]
                       /\ pc[p] # "new"
                       /\ pc[c] # "done" => Running(p)

ContextSound ==
  \A c \in Call : FreshSound(c) /\ BeforeSound(c) /\ TokenSound(c) /\ ExtentSound(c)

(* The inductive invariant.                                                *)
IInv == TypeOK /\ SlotsExact /\ HolderLive /\ ContextSound /\ BypassCovered

(* Every call that starts returns: a nested call for a name its own caller *)
(* holds is refused, it does not wait for itself; nor do calls that want   *)
(* each other's names wait in a ring (db.js:107 uses the non-blocking      *)
(* pg_try_advisory_lock).                                                  *)
EveryCallReturns == \A c \in Call : pc[c] = "started" ~> pc[c] = "done"

(* The locks implement the abstract mutex: the owner of a name is the call *)
(* whose callback runs under its own lock.                                 *)
OwnerMap == [k \in Key |-> IF holder[k] # None /\ pc[holder[k]] = "inside"
                           THEN holder[k] ELSE None]

M == INSTANCE Mutex WITH owner <- OwnerMap

MutexSpec == M!Spec
=============================================================================
