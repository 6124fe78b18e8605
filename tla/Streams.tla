------------------------------ MODULE Streams ------------------------------
(***************************************************************************)
(* Layer four forwarding (tenant-proxy.js, data-proxy.js) and the pass     *)
(* that puts every stream into the hidden group of its customer            *)
(* (customer-group-reconciliation.js).  One customer and account.  What    *)
(* the quota counts is in the table: enabled and stream_ports; what the    *)
(* customer is served is at the CDN.  A customer's request changes both    *)
(* under the resource lock; the console of the administrator and the pass  *)
(* do not take it.  A stream is its upstream id; a row also keeps a        *)
(* snapshot, of which only "enable" is modelled, and its listeners are one *)
(* configuration, so that a batch is a batch of one.                       *)
(***************************************************************************)
EXTENDS Groups

CONSTANTS Stream, Ports,
          AdminReq,  \* those requests that come from the administrator
          Pass,      \* the reconciliation, as a caller of Ensure
          MaxOps     \* requests

VARIABLES cdn,    \* the CDN: [group, on, ports] of each stream
          slist,  \* the list of streams in the cache
          rows,   \* tenant_resources: [snap, on, ports]
          lock,   \* who holds resource-mutation:<user>
          ops,    \* what each request is doing
          pass,   \* what the pass is doing
          begun,  \* history: requests begun
          torn    \* history: streams whose last write was cut short

vars == <<gvars, lost, cdn, slist, rows, lock, ops, pass, begun, torn>>
svars == <<cdn, slist, rows, lock, ops, pass, begun, torn>>

Config == [group : Gid \cup {None}, on : BOOLEAN, ports : Ports]
Lists == {None} \cup [Stream -> Config \cup {None}]
Rows == [snap : BOOLEAN, on : BOOLEAN, ports : Ports \cup {None}]
Inputs == [on : BOOLEAN \cup {None}, ports : Ports \cup {None}]
Caller == Req \ {Pass}

ASSUME StreamsAssumption ==
  /\ Pass \in Req /\ MaxOps \in Nat
  /\ None \notin Stream /\ None \notin Ports /\ None \notin BOOLEAN
  /\ None \notin Config /\ None \notin Rows /\ None \notin Inputs
  /\ None \notin [Stream -> Config \cup {None}] /\ None \notin [Stream -> Rows \cup {None}]

Idle == [kind |-> "none", pc |-> "idle", s |-> None, in |-> None, prev |-> None, list |-> None]

TypesOK ==
  /\ GroupsTypeOK
  /\ cdn \in [Stream -> Config \cup {None}] /\ slist \in Lists /\ rows \in [Stream -> Rows \cup {None}]
  /\ lock \in Caller \cup {None} /\ begun \in 0..MaxOps /\ torn \subseteq Stream
  /\ \A r \in Caller : /\ ops[r].kind \in {"none", "create", "update", "delete", "refresh"}
                       /\ ops[r].pc \in {"idle", "group", "send", "save", "ports", "gone", "list", "records"}
                       /\ ops[r].s \in Stream \cup {None} /\ ops[r].in \in Inputs \cup {None}
                       /\ ops[r].prev \in Rows \cup {None} /\ ops[r].list \in Lists
  /\ pass.pc \in {"start", "group", "rows", "put", "save", "gone", "refs", "clean", "end"} /\ pass.errors \in BOOLEAN
  /\ pass.read \in {None} \cup [Stream -> Rows \cup {None}] /\ pass.s \in Stream \cup {None} /\ pass.todo \subseteq Stream \cup Gid

(* A new customer, or one whose streams, with and without a row, are still *)
(* in a group with an old name.                                            *)
Init ==
  /\ GroupsInit
  /\ \E h \in SUBSET Stream, p \in Ports :
       /\ h # {} => mapping.id # None
       /\ cdn = [s \in Stream |-> IF s \in h THEN [group |-> mapping.id, on |-> TRUE, ports |-> p] ELSE None]
       /\ \E k \in SUBSET h :
            /\ rows = [s \in Stream |-> IF s \in k THEN [snap |-> TRUE, on |-> TRUE, ports |-> cdn[s].ports] ELSE None]
            /\ torn = h \ k
  /\ slist = None /\ lock = None /\ ops = [r \in Caller |-> Idle] /\ begun = 0
  /\ pass = [pc |-> "start", read |-> None, todo |-> {}, s |-> None, errors |-> FALSE]

-----------------------------------------------------------------------------
(* Plausible faults of the code.                                           *)
UnlockedRefresh(r) == UNCHANGED lock
NoMerge(new, old) == new
NotReferenced(l) == {}
Overlooked == [pass EXCEPT !.pc = "rows"]

(* A request of a customer takes the lock or is refused.                   *)
Locked(r) == IF r \in AdminReq THEN UNCHANGED lock ELSE lock = None /\ lock' = r
RefreshLocked(r) == Locked(r)
Unlocked(r) == lock' = IF lock = r THEN None ELSE lock
Doing(r, kind, pc) == ops[r].kind = kind /\ ops[r].pc = pc
Now(r, pc) == ops' = [ops EXCEPT ![r].pc = pc]
Finished(r) == ops' = [ops EXCEPT ![r] = Idle] /\ Unlocked(r)
Given(new, old) == IF new = None THEN old ELSE new

Begin(r, kind, s, in, pc) ==
  /\ ops[r] = Idle /\ begun < MaxOps /\ begun' = begun + 1
  /\ ops' = [ops EXCEPT ![r] = [kind |-> kind, pc |-> pc, s |-> s, in |-> in, prev |-> IF s = None THEN None ELSE rows[s], list |-> None]]
  /\ UNCHANGED <<lost, cdn, slist, rows, pass, torn>>

BeginCreate(r) ==
  /\ r \notin AdminReq /\ Locked(r)
  /\ \E s \in Stream, on \in BOOLEAN, p \in Ports :
       /\ cdn[s] = None /\ rows[s] = None /\ s \notin torn
       /\ Begin(r, "create", s, [on |-> on, ports |-> p], "group")
  /\ ens' = [ens EXCEPT ![r] = [pc |-> "idle", got |-> None]] /\ UNCHANGED <<groups, glist, table, holder>>
BeginUpdate(r) ==
  /\ Locked(r)
  /\ \E s \in Stream, in \in Inputs : rows[s] # None /\ Begin(r, "update", s, in, "group")
  /\ ens' = [ens EXCEPT ![r] = [pc |-> "idle", got |-> None]] /\ UNCHANGED <<groups, glist, table, holder>>

(* Only what the snapshot shows as stopped may be deleted.                 *)
BeginDelete(r) ==
  /\ Locked(r)
  /\ \E s \in Stream : rows[s] # None /\ ~rows[s].snap /\ Begin(r, "delete", s, None, "send")
  /\ UNCHANGED gvars

BeginRefresh(r) ==
  /\ r \notin AdminReq /\ RefreshLocked(r)
  /\ Begin(r, "refresh", None, None, "list")
  /\ UNCHANGED gvars

Grouped(r) ==
  /\ ops[r].pc = "group"
  /\ \/ At(r, "done") /\ Now(r, "send") /\ UNCHANGED lock
     \/ At(r, "failed") /\ Finished(r)
  /\ UNCHANGED <<gvars, lost, cdn, slist, rows, pass, begun, torn>>

(* A request to the CDN: answered, and then the cached lists are dropped;  *)
(* or carried out, or not, without an answer, and then it is an error.     *)
Answered(next) == cdn' = next /\ slist' = Invalidated(slist) /\ UNCHANGED lost
Unanswered(next) == lost < MaxLost /\ lost' = lost + 1 /\ cdn' \in {cdn, next} /\ UNCHANGED slist

(* The id of a new stream is the CDN's to choose, so a creation that fails *)
(* leaves its id to a stream without a row.                                *)
SendCreate(r) ==
  /\ Doing(r, "create", "send")
  /\ LET s == ops[r].s
         next == [cdn EXCEPT ![s] = [group |-> ens[r].got, on |-> ops[r].in.on, ports |-> ops[r].in.ports]] IN
       \/ Answered(next) /\ Now(r, "save") /\ UNCHANGED <<lock, torn>>
       \/ Unanswered(next) /\ Finished(r) /\ torn' = torn \cup {s}
  /\ UNCHANGED <<gvars, rows, pass, begun>>

SendUpdate(r) ==
  /\ Doing(r, "update", "send")
  /\ LET s == ops[r].s
         next == [cdn EXCEPT ![s] = IF @ = None THEN @ ELSE [group |-> ens[r].got, on |-> Given(ops[r].in.on, @.on), ports |-> Given(ops[r].in.ports, @.ports)]] IN
       \/ cdn[s] # None /\ Answered(next) /\ Now(r, "save") /\ UNCHANGED <<lock, torn>>
       \/ cdn[s] = None /\ Finished(r) /\ UNCHANGED <<cdn, slist, lost, torn>>
       \/ Unanswered(next) /\ Finished(r) /\ torn' = torn \cup {s}
  /\ UNCHANGED <<gvars, rows, pass, begun>>

(* deleteStreamResource: a running stream is refused, an id the CDN does   *)
(* not know is looked up in the list, and "processing" is tried again.     *)
SendDelete(r) ==
  /\ Doing(r, "delete", "send")
  /\ LET s == ops[r].s
         next == [cdn EXCEPT ![s] = None] IN
       \/ cdn[s] # None /\ ~cdn[s].on /\ Answered(next) /\ Now(r, "save") /\ UNCHANGED <<lock, torn>>
       \/ cdn[s] # None /\ Finished(r) /\ UNCHANGED <<cdn, slist, lost, torn>>
       \/ cdn[s] = None /\ Now(r, "gone") /\ UNCHANGED <<cdn, slist, lost, lock, torn>>
       \/ cdn[s] # None /\ ~cdn[s].on /\ Unanswered(next) /\ Finished(r) /\ torn' = torn \cup {s}
  /\ UNCHANGED <<gvars, rows, pass, begun>>

Absent(s, l) == l[s] = None
LookUp(r) ==
  /\ Doing(r, "delete", "gone")
  /\ \E l \in Cached(slist, cdn) :
       /\ slist' = l
       /\ IF Absent(ops[r].s, l) THEN Now(r, "save") /\ UNCHANGED lock ELSE Finished(r)
  /\ UNCHANGED <<gvars, lost, cdn, rows, pass, begun, torn>>

(* saveResource, then syncStreamPorts, then enforceUser (module Quota) and *)
(* the end of the lock.  A PUT saves the snapshot it read, with its body.  *)
Row(s, snap) == [rows EXCEPT ![s] = IF @ = None THEN [snap |-> snap, on |-> snap, ports |-> None]
                 ELSE [@ EXCEPT !.snap = snap, !.on = snap]]
Counted(s, p) == [rows EXCEPT ![s] = IF @ = None \/ p = None THEN @ ELSE [@ EXCEPT !.ports = p]]

Save(r) ==
  /\ ops[r].pc = "save" /\ ops[r].kind # "delete"
  /\ rows' = Row(ops[r].s, IF ops[r].kind = "create" THEN ops[r].in.on ELSE Given(ops[r].in.on, ops[r].prev.snap))
  /\ Now(r, "ports")
  /\ UNCHANGED <<gvars, lost, cdn, slist, lock, pass, begun, torn>>
SyncPorts(r) ==
  /\ ops[r].pc = "ports"
  /\ rows' = Counted(ops[r].s, ops[r].in.ports) /\ Finished(r)
  /\ UNCHANGED <<gvars, lost, cdn, slist, pass, begun, torn>>
Remove(r) ==
  /\ Doing(r, "delete", "save")
  /\ rows' = [rows EXCEPT ![ops[r].s] = None] /\ Finished(r)
  /\ UNCHANGED <<gvars, lost, cdn, slist, pass, begun, torn>>

(* The process, or a statement, fails after the CDN was written.           *)
CutShort(r) ==
  /\ ops[r].pc \in {"save", "ports"} /\ Finished(r) /\ torn' = torn \cup {ops[r].s}
  /\ UNCHANGED <<gvars, lost, cdn, slist, rows, pass, begun>>

(* GET of the list: every record with a row is saved and counted.          *)
ReadList(r) ==
  /\ Doing(r, "refresh", "list")
  /\ \E l \in Cached(slist, cdn) : slist' = l /\ ops' = [ops EXCEPT ![r].list = l, ![r].pc = "records"]
  /\ UNCHANGED <<gvars, lost, cdn, rows, lock, pass, begun, torn>>
SaveRecords(r) ==
  /\ Doing(r, "refresh", "records")
  /\ LET l == ops[r].list
         both == {s \in Stream : l[s] # None /\ rows[s] # None} IN
       /\ rows' = [s \in Stream |-> IF s \in both THEN [snap |-> l[s].on, on |-> l[s].on, ports |-> l[s].ports] ELSE rows[s]]
       /\ torn' = torn \ {s \in both : l[s] = cdn[s]}
  /\ Finished(r)
  /\ UNCHANGED <<gvars, lost, cdn, slist, pass, begun>>

-----------------------------------------------------------------------------
(* The pass, at every start of the server and, cleaning, from the command  *)
(* line.                                                                   *)
OnPass(pc) == pass.pc = pc
PassAt(pc) == pass' = [pass EXCEPT !.pc = pc]

PassBegin ==
  /\ OnPass("start") /\ PassAt("group") /\ UNCHANGED <<gvars, lost, cdn, slist, rows, lock, ops, begun, torn>>
PassRead ==
  /\ OnPass("group")
  /\ \/ /\ At(Pass, "done")
        /\ pass' = [pass EXCEPT !.pc = "rows", !.read = rows, !.todo = {s \in Stream : rows[s] # None}]
     \/ At(Pass, "failed") /\ pass' = [pass EXCEPT !.pc = "end", !.errors = TRUE]
  /\ UNCHANGED <<gvars, lost, cdn, slist, rows, lock, ops, begun, torn>>

PassPut ==
  /\ OnPass("rows")
  /\ \E s \in pass.todo :
       LET next == [cdn EXCEPT ![s] = IF @ = None THEN @ ELSE [@ EXCEPT !.group = ens[Pass].got]]
           at(pc) == pass' = [pass EXCEPT !.pc = pc, !.s = s, !.todo = @ \ {s}] IN
         \/ cdn[s] # None /\ Answered(next) /\ at("save")
         \/ cdn[s] = None /\ at("gone") /\ UNCHANGED <<cdn, slist, lost>>
         \/ Unanswered(next) /\ at("gone")
  /\ UNCHANGED <<gvars, rows, lock, ops, begun, torn>>

(* The snapshot is written back as it was read, over a newer one.          *)
PassSave ==
  /\ OnPass("save") /\ PassAt("rows")
  /\ IF rows[pass.s] = None THEN UNCHANGED <<rows, torn>>
     ELSE /\ rows' = [rows EXCEPT ![pass.s].snap = pass.read[pass.s].snap]
          /\ torn' = IF rows' = rows THEN torn ELSE torn \cup {pass.s}
  /\ UNCHANGED <<gvars, lost, cdn, slist, lock, ops, begun>>

(* removeStaleStreamIfAbsent                                               *)
StillThere == [pass EXCEPT !.pc = "rows", !.errors = TRUE]
PassGone ==
  /\ OnPass("gone")
  /\ \E l \in Cached(slist, cdn) :
       /\ slist' = l
       /\ IF Absent(pass.s, l) THEN rows' = [rows EXCEPT ![pass.s] = None] /\ PassAt("rows")
          ELSE pass' = StillThere /\ UNCHANGED rows
  /\ UNCHANGED <<gvars, lost, cdn, lock, ops, begun, torn>>

(* Only the command line cleans, and only after a pass without errors.     *)
PassDone ==
  /\ OnPass("rows") /\ pass.todo = {} /\ \E pc \in {"end", "refs"} : (pc = "refs" => ~pass.errors) /\ PassAt(pc)
  /\ UNCHANGED <<gvars, lost, cdn, slist, rows, lock, ops, begun, torn>>

Referenced(l) == {l[s].group : s \in {t \in Stream : l[t] # None}}
PassRefs ==
  /\ OnPass("refs")
  /\ \E l \in Cached(slist, cdn) :
       /\ slist' = l
       /\ pass' = [pass EXCEPT !.pc = "clean", !.todo = {g \in Gid : past[g] = "superseded"} \ (Referenced(l) \cup {ens[Pass].got})]
  /\ UNCHANGED <<gvars, lost, cdn, rows, lock, ops, begun, torn>>
PassClean ==
  /\ OnPass("clean")
  /\ IF pass.todo = {} THEN PassAt("end") /\ UNCHANGED <<groups, glist, past>>
     ELSE \E g \in pass.todo :
            /\ groups' = [groups EXCEPT ![g] = None] /\ glist' = Invalidated(glist)
            /\ past' = [past EXCEPT ![g] = "cleaned"] /\ pass' = [pass EXCEPT !.todo = @ \ {g}]
  /\ UNCHANGED <<mapping, holder, ens, lost, cdn, slist, rows, lock, ops, begun, torn>>

-----------------------------------------------------------------------------
Ensuring ==
  /\ UNCHANGED svars
  /\ \/ \E r \in Caller : ops[r].pc = "group" /\ EnsureStep(r)
     \/ OnPass("group") /\ EnsureStep(Pass)

Request(r) ==
  \/ BeginCreate(r) \/ BeginUpdate(r) \/ BeginDelete(r) \/ BeginRefresh(r) \/ Grouped(r)
  \/ SendCreate(r) \/ SendUpdate(r) \/ SendDelete(r) \/ LookUp(r)
  \/ Save(r) \/ SyncPorts(r) \/ Remove(r) \/ CutShort(r) \/ ReadList(r) \/ SaveRecords(r)
Passes == PassBegin \/ PassRead \/ PassPut \/ PassSave \/ PassGone \/ PassDone \/ PassRefs \/ PassClean

Next == (\E r \in Caller : Request(r)) \/ Passes \/ Ensuring
Spec == Init /\ [][Next]_vars

-----------------------------------------------------------------------------
(* README.md:109 and resource-mutation.js: the usage the quota counts is   *)
(* what the CDN serves, whenever nobody is changing it; a write that was   *)
(* cut short is made good by the next refresh that sees it.                *)
BilledFollows ==
  (\A r \in Caller : ops[r] = Idle) =>
    \A s \in Stream \ torn : cdn[s] # None =>
      rows[s] # None /\ rows[s].on = cdn[s].on /\ rows[s].ports = cdn[s].ports

(* Neither the pass nor a deletion forgets a stream the CDN still serves,  *)
(* however old the list is that shows it as gone.                          *)
NoLiveRowRemoved ==
  [][\A s \in Stream : rows[s] # None /\ rows'[s] = None => cdn[s] = None]_vars

(* A group is removed from the CDN only when no stream is in it, with or   *)
(* without a row, and never the one in use.                                *)
InUseKept ==
  [][\A g \in Gid : groups[g] # None /\ groups'[g] = None =>
       g # mapping.id /\ \A s \in Stream : cdn[s] # None => cdn[s].group # g]_vars

(* After a pass without errors every stream with a row is in the group of  *)
(* the mapping, those that were created or moved meanwhile too.            *)
PassGroups ==
  OnPass("end") /\ ~pass.errors =>
    \A s \in Stream : rows[s] # None /\ cdn[s] # None => cdn[s].group = mapping.id
=============================================================================
