-------------------------------- MODULE Cache --------------------------------
(***************************************************************************)
(* Answers of the CDN, cached by generation (cache.js, cdnfly.js:144).     *)
(* Each process keeps a memory of its own, joins requests for what it is   *)
(* loading already, and shares a store and the number of the generation in *)
(* Redis.  A write that was answered ends the generation.  The number is   *)
(* asked for before every read, so that commands to Redis, answered in the *)
(* order in which they were sent, race with loads, with each other and     *)
(* with the loss of the connection.  One cached path and one cooldown      *)
(* stand for all of them.                                                  *)
(***************************************************************************)
EXTENDS Integers, FiniteSets, FiniteSetsExt, Sequences

CONSTANTS Proc, Req, None,
          MaxDrops  \* connections to Redis that are lost

VARIABLES ver,      \* the version the CDN shows; every write makes the next
          gen,      \* Redis: cdnfly:cache:generation
          store,    \* Redis: the version kept under each generation, or 0
          cool,     \* Redis: who holds the cooldown
          conn,     \* connected
          local,    \* generation
          pending,  \* pendingInvalidation
          memory,   \* memory: versions by generation, the cooldown
          inflight, \* inflight: who is loading, by generation
          queue,    \* commands sent to Redis and not yet answered
          req,      \* what each request is doing
          drops, away, returned, tangled, granted  \* history, see below

redis == <<gen, store, cool>>
process == <<conn, local, pending, memory, inflight, queue>>
(* Processes that have been without Redis; the newest write answered, by   *)
(* process; processes whose numbers may have been given before (with an    *)
(* invalidation unpublished another began or an older number arrived, or   *)
(* Redis came back to somebody); claims granted.                           *)
history == <<drops, away, returned, tangled, granted>>
vars == <<ver, redis, process, req, history>>

Gens == 1..(1 + Cardinality(Req))
Empty == [read |-> [g \in Gens |-> 0], cool |-> None]
Fresh(pc) == [pc |-> pc, at |-> None, key |-> 0, val |-> 0, on |-> None, own |-> 0, all |-> 0]

TypeOK ==
  /\ ver \in 1..(1 + Cardinality(Req)) /\ gen \in Gens /\ store \in [Gens -> 0..ver]
  /\ cool \in Req \cup {None}
  /\ conn \in [Proc -> BOOLEAN] /\ local \in [Proc -> Gens] /\ pending \in [Proc -> BOOLEAN]
  /\ \A p \in Proc : memory[p].read \in [Gens -> 0..ver] /\ memory[p].cool \in Req \cup {None}
  /\ inflight \in [Proc -> [Gens -> Req \cup {None}]]
  /\ \A p \in Proc : \A i \in DOMAIN queue[p] : queue[p][i].r \in Req
  /\ \A r \in Req : req[r].pc \in {"idle", "gen", "key", "fetch", "load", "save", "join", "write", "bump", "claim", "done"}
  /\ returned \in [Proc -> 0..ver] /\ drops \in 0..MaxDrops

Init ==
  /\ ver = 1 /\ gen = 1 /\ store = [g \in Gens |-> 0] /\ cool = None
  /\ conn \in [Proc -> BOOLEAN] /\ away = {p \in Proc : ~conn[p]} /\ local = [p \in Proc |-> 1] /\ pending = [p \in Proc |-> FALSE]
  /\ memory = [p \in Proc |-> Empty] /\ inflight = [p \in Proc |-> [g \in Gens |-> None]]
  /\ queue = [p \in Proc |-> <<>>] /\ req = [r \in Req |-> Fresh("idle")]
  /\ drops = 0 /\ returned = [p \in Proc |-> 0] /\ tangled = {} /\ granted = {}

-----------------------------------------------------------------------------
Now(r, pc) == req[r].pc = pc
Set(r, pc) == req' = [req EXCEPT ![r].pc = pc]
Sends(p, r, op) == queue' = [queue EXCEPT ![p] = Append(@, [r |-> r, op |-> op, res |-> -1])]

(* Redis carries out the next command of a connection; what it keeps for a *)
(* generation may have expired.                                            *)
Execute(p) ==
  \E i \in DOMAIN queue[p] :
    LET c == queue[p][i]  k == req[c.r].key
        Answer(v) == queue' = [queue EXCEPT ![p][i].res = v] IN
    /\ c.res = -1 /\ \A j \in 1..(i - 1) : queue[p][j].res # -1
    /\ \/ c.op = "get" /\ Answer(gen) /\ UNCHANGED <<gen, store>>
       \/ c.op = "incr" /\ gen' = gen + 1 /\ Answer(gen + 1) /\ UNCHANGED store
       \/ c.op = "fetch" /\ (Answer(store[k]) \/ Answer(0)) /\ UNCHANGED <<gen, store>>
       \/ c.op = "save" /\ store' = [store EXCEPT ![k] = req[c.r].val] /\ Answer(1) /\ UNCHANGED gen
    /\ UNCHANGED <<ver, cool, conn, local, pending, memory, inflight, req, history>>

(* The answer, or the failure (-2), of the oldest command of r's process.  *)
Answered(r, op) ==
  LET p == req[r].at IN
  /\ queue[p] # <<>> /\ Head(queue[p]).r = r /\ Head(queue[p]).op \in op /\ Head(queue[p]).res # -1
  /\ queue' = [queue EXCEPT ![p] = Tail(@)]
Res(r) == Head(queue[req[r].at]).res
Failed(r) == Res(r) = -2
(* catch: this.connected = false                                           *)
Connected(r) == conn' = IF Failed(r) THEN [conn EXCEPT ![req[r].at] = FALSE] ELSE conn

-----------------------------------------------------------------------------
(* A read: ask for the generation (publishing an invalidation that is      *)
(* pending), look into the memory and the loads under way, then into the   *)
(* store, then ask the CDN, and keep what it said under the generation the *)
(* read began with.                                                        *)
Read(r, p) ==
  /\ Now(r, "idle")
  /\ req' = [req EXCEPT ![r] = [Fresh(IF conn[p] THEN "gen" ELSE "key") EXCEPT !.at = p, !.key = local[p],
                                  !.own = returned[p], !.all = Max({returned[q] : q \in Proc})]]
  /\ IF conn[p] THEN Sends(p, r, IF pending[p] THEN "incr" ELSE "get") ELSE UNCHANGED queue
  /\ UNCHANGED <<ver, redis, conn, local, pending, memory, inflight, history>>

Generation(r) ==
  LET p == req[r].at IN
  /\ Now(r, "gen") /\ Answered(r, {"get", "incr"}) /\ Connected(r)
  /\ local' = IF Failed(r) THEN local ELSE [local EXCEPT ![p] = Res(r)]
  /\ pending' = IF Failed(r) \/ Head(queue[p]).op = "get" THEN pending ELSE [pending EXCEPT ![p] = FALSE]
  /\ req' = [req EXCEPT ![r].pc = "key", ![r].key = local'[p]]
  /\ tangled' = IF ~Failed(r) /\ Head(queue[p]).op = "get" /\ pending[p] THEN tangled \cup {p} ELSE tangled
  /\ UNCHANGED <<ver, redis, memory, inflight, drops, away, returned, granted>>

(* An entry of the memory may have expired.                                *)
AnyLoadBug(p, k) == {inflight[p][g] : g \in Gens} \ {None}
Loading(p, k) == {inflight[p][k]} \ {None}
Lookup(r) ==
  LET p == req[r].at  k == req[r].key IN
  /\ Now(r, "key")
  /\ \/ /\ memory[p].read[k] > 0
        /\ req' = [req EXCEPT ![r].pc = "done", ![r].val = memory[p].read[k]]
        /\ UNCHANGED <<queue, inflight>>
     \/ /\ \E q \in Loading(p, k) : req' = [req EXCEPT ![r].pc = "join", ![r].on = q]
        /\ UNCHANGED <<queue, inflight>>
     \/ /\ Loading(p, k) = {}
        /\ inflight' = [inflight EXCEPT ![p][k] = r]
        /\ IF conn[p] THEN Set(r, "fetch") /\ Sends(p, r, "fetch") ELSE Set(r, "load") /\ UNCHANGED queue
  /\ UNCHANGED <<ver, redis, conn, local, pending, memory, history>>

(* The load ends, also for the reads that joined it; finally() forgets it. *)
KeptBug(p, k) == inflight
Forgotten(p, k) == [inflight EXCEPT ![p][k] = None]
Ends(r, v) ==
  /\ req' = [q \in Req |-> IF q = r \/ (Now(q, "join") /\ req[q].on = r)
                           THEN [req[q] EXCEPT !.pc = "done", !.val = v, !.on = None] ELSE req[q]]
  /\ inflight' = Forgotten(req[r].at, req[r].key)

Fetched(r) ==
  /\ Now(r, "fetch") /\ Answered(r, {"fetch"}) /\ Connected(r)
  /\ IF Res(r) > 0 THEN Ends(r, Res(r)) ELSE Set(r, "load") /\ UNCHANGED inflight
  /\ UNCHANGED <<ver, redis, local, pending, memory, history>>

(* The CDN reads, then its answer arrives, or does not.                    *)
Seen(r) ==
  /\ Now(r, "load") /\ req[r].val = 0 /\ req' = [req EXCEPT ![r].val = ver]
  /\ UNCHANGED <<ver, redis, process, history>>

CurrentBug(r) == local[req[r].at]
Under(r) == req[r].key
Load(r) ==
  LET p == req[r].at IN
  /\ Now(r, "load") /\ req[r].val > 0
  /\ memory' = [memory EXCEPT ![p].read[Under(r)] = req[r].val]
  /\ IF conn[p] THEN Set(r, "save") /\ Sends(p, r, "save") /\ UNCHANGED inflight
     ELSE Ends(r, req[r].val) /\ UNCHANGED queue
  /\ UNCHANGED <<ver, redis, conn, local, pending, history>>
LoadFails(r) ==
  /\ Now(r, "load") /\ Ends(r, 0)
  /\ UNCHANGED <<ver, redis, conn, local, pending, memory, queue, history>>

Saved(r) ==
  /\ Now(r, "save") /\ Answered(r, {"save"}) /\ Connected(r) /\ Ends(r, req[r].val)
  /\ UNCHANGED <<ver, redis, local, pending, memory, history>>

-----------------------------------------------------------------------------
(* A write: what the CDN answers ends the generation, here and in Redis.   *)
Write(r, p) ==
  /\ Now(r, "idle") /\ req' = [req EXCEPT ![r] = [Fresh("write") EXCEPT !.at = p]]
  /\ UNCHANGED <<ver, redis, process, history>>
Done(r) ==
  /\ Now(r, "write") /\ req[r].val = 0
  /\ ver' = ver + 1 /\ req' = [req EXCEPT ![r].val = ver + 1]
  /\ UNCHANGED <<redis, process, history>>

(* A write without an answer is an error and invalidates nothing.          *)
Lost(r) == Now(r, "write") /\ Set(r, "done") /\ UNCHANGED <<ver, redis, process, history>>

Cleared(p) == [memory EXCEPT ![p] = Empty]
SameNumberBug(p) == local
TwiceBug(p) == [local EXCEPT ![p] = @ + 2]
Advanced(p) == [local EXCEPT ![p] = @ + 1]
Returns(r) == returned' = [returned EXCEPT ![req[r].at] = Max({@, req[r].val})]
Unpublished(p) == [pending EXCEPT ![p] = TRUE]
Invalidate(r) ==
  LET p == req[r].at IN
  /\ Now(r, "write") /\ req[r].val > 0
  /\ memory' = Cleared(p) /\ local' = Advanced(p) /\ pending' = Unpublished(p)
  /\ tangled' = IF pending[p] THEN tangled \cup {p} ELSE tangled
  /\ IF conn[p] THEN Set(r, "bump") /\ Sends(p, r, "incr") /\ UNCHANGED returned
     ELSE Set(r, "done") /\ Returns(r) /\ UNCHANGED queue
  /\ UNCHANGED <<ver, redis, conn, inflight, drops, away, granted>>

Bumped(r) ==
  LET p == req[r].at IN
  /\ Now(r, "bump") /\ Answered(r, {"incr"}) /\ Connected(r) /\ Set(r, "done") /\ Returns(r)
  /\ IF Failed(r) THEN UNCHANGED <<local, pending>>
     ELSE local' = [local EXCEPT ![p] = Res(r)] /\ pending' = [pending EXCEPT ![p] = FALSE]
  /\ UNCHANGED <<ver, redis, memory, inflight, drops, away, tangled, granted>>

-----------------------------------------------------------------------------
(* Redis goes away: what was sent fails, carried out or not.  The failures *)
(* are handled, and reads go on, before health() connects again.           *)
Drop(p) ==
  /\ conn[p] /\ drops < MaxDrops /\ drops' = drops + 1 /\ away' = away \cup {p}
  /\ conn' = [conn EXCEPT ![p] = FALSE]
  /\ queue' = [queue EXCEPT ![p] = [i \in DOMAIN @ |-> [@[i] EXCEPT !.res = -2]]]
  /\ UNCHANGED <<ver, redis, local, pending, memory, inflight, req, returned, tangled, granted>>
Health(p) ==
  /\ ~conn[p] /\ queue[p] = <<>> /\ (\A r \in Req : Now(r, "key") => req[r].at # p)
  /\ conn' = [conn EXCEPT ![p] = TRUE] /\ tangled' = Proc
  /\ UNCHANGED <<ver, redis, local, pending, memory, inflight, queue, req, drops, away, returned, granted>>

(* claimCooldown and releaseCooldown, at Redis or in the memory.           *)
Claim(r, p) ==
  LET free == IF conn[p] THEN cool = None ELSE memory[p].cool = None IN
  /\ Now(r, "idle") /\ req' = [req EXCEPT ![r] = [Fresh(IF free THEN "claim" ELSE "done") EXCEPT !.at = p]]
  /\ cool' = IF free /\ conn[p] THEN r ELSE cool
  /\ memory' = IF free /\ ~conn[p] THEN [memory EXCEPT ![p].cool = r] ELSE memory
  /\ granted' = IF free THEN granted \cup {r} ELSE granted
  /\ UNCHANGED <<ver, gen, store, conn, local, pending, inflight, queue, drops, away, returned, tangled>>

AnyTokenBug(held, r) == TRUE
MyToken(held, r) == held = r
Release(r) ==
  LET p == req[r].at IN
  /\ Now(r, "claim") /\ Set(r, "done")
  /\ cool' = IF conn[p] /\ MyToken(cool, r) THEN None ELSE cool
  /\ memory' = IF MyToken(memory[p].cool, r) THEN [memory EXCEPT ![p].cool = None] ELSE memory
  /\ granted' = granted \ {r}
  /\ UNCHANGED <<ver, gen, store, conn, local, pending, inflight, queue, drops, away, returned, tangled>>

CooldownEnds ==
  /\ granted # {} /\ granted' = {}
  /\ cool' = None /\ memory' = [p \in Proc |-> [memory[p] EXCEPT !.cool = None]]
  /\ UNCHANGED <<ver, gen, store, conn, local, pending, inflight, queue, req, drops, away, returned, tangled>>

Step(r) ==
  \/ Generation(r) \/ Lookup(r) \/ Fetched(r) \/ Seen(r) \/ Load(r) \/ LoadFails(r) \/ Saved(r)
  \/ Done(r) \/ Lost(r) \/ Invalidate(r) \/ Bumped(r)
Next ==
  \/ \E r \in Req : Step(r) \/ Release(r) \/ \E p \in Proc : Read(r, p) \/ Write(r, p) \/ Claim(r, p)
  \/ \E p \in Proc : Execute(p) \/ Drop(p) \/ Health(p)
  \/ CooldownEnds

Spec == Init /\ [][Next]_vars /\ (\A r \in Req : WF_vars(Step(r))) /\ (\A p \in Proc : WF_vars(Execute(p)))

-----------------------------------------------------------------------------
Reading(r) == Now(r, "done") /\ req[r].val > 0

(* While Redis is there, a read sees every write that was answered before  *)
(* it began, whichever process made it: no load that began before a write  *)
(* is left in a memory, in the store or among the loads under way where    *)
(* the read finds it.                                                      *)
SeesAll == \A r \in Req : Reading(r) /\ away = {} => req[r].val >= req[r].all

(* When Redis goes away a process still sees its own writes, as long as    *)
(* the numbers it gives to its generations are new.                        *)
SeesOwn == \A r \in Req : Reading(r) /\ req[r].at \notin tangled => req[r].val >= req[r].own

(* While Redis is there, one claim at a time is granted: who gives back a  *)
(* cooldown that has expired does not take it from the next.               *)
CooldownHeld == away = {} => Cardinality(granted) <= 1

(* No load is left behind for others to join for ever: what is under way   *)
(* is loading, and who waits is waiting for it.                            *)
LoadsUnderWay ==
  /\ \A p \in Proc : \A k \in Gens : \A r \in Loading(p, k) :
       req[r].pc \in {"fetch", "load", "save"} /\ req[r].at = p /\ req[r].key = k
  /\ \A r \in Req : Now(r, "join") => inflight[req[r].at][req[req[r].on].key] = req[r].on

(* A process that always had Redis sees its own writes, whatever happens   *)
(* to the others (doc/API_CAPABILITY_MATRIX.md:57: a write that succeeds   *)
(* invalidates the cache).                                                 *)
ConnectedSeesOwn == \A r \in Req : Reading(r) /\ req[r].at \notin away => req[r].val >= req[r].own
=============================================================================
