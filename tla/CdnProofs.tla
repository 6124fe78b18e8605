----------------------------- MODULE CdnProofs -----------------------------
(* What the run of MCCdn checks, for every value of the constants.  The     *)
(* invariants below say what the code relies on between two steps: who      *)
(* makes the group and what the cached lists may show, what a request or    *)
(* the pass has still to do, and, for the cache, which versions may be      *)
(* found under which number.                                                *)
EXTENDS MCCdn, FiniteSetTheorems, SequenceTheorems, WellFoundedInduction, TLAPS

Calm == {"idle", "done", "failed"}
Holding == {"find", "post", "again", "save", "set"}

(* Who holds the lock makes the group, and only while there is none; what  *)
(* is remembered as replaced is never the new group; a list in the cache   *)
(* that does not show a new group is older than POSTs without an answer.   *)
GroupsInv ==
  /\ GroupsTypeOK
  /\ \A r \in Req :
       /\ (holder = r) <=> (ens[r].pc \in Holding)
       /\ ens[r].pc \in Holding => mapping.name # "new"
       /\ ens[r].pc \in {"save", "set"} => ens[r].got \in Gid /\ groups[ens[r].got] = "new"
       /\ ens[r].pc = "done" => mapping.name = "new" /\ ens[r].got = mapping.id
       /\ ens[r].pc = "post" => Cardinality(Named) <= lost
  /\ mapping.name = None => mapping.id = None
  /\ mapping.name # None => mapping.id \in Gid /\ groups[mapping.id] = mapping.name
  /\ \A g \in Gid : past[g] # "never" => groups[g] # "new"
  /\ glist # None =>
       /\ \A g \in Gid : glist[g] = "new" => groups[g] = "new"
       /\ (\A g \in Gid : glist[g] # "new") => Cardinality(Named) <= lost
  /\ GroupsFew

OpRecord ==
  [kind : {"none", "create", "update", "delete", "refresh"},
   pc : {"idle", "group", "send", "save", "ports", "gone", "list", "records"},
   s : Stream \cup {None}, in : Inputs \cup {None}, prev : Rows \cup {None}, list : Lists]
PassRecord ==
  [pc : {"start", "group", "rows", "put", "save", "gone", "refs", "clean", "end"},
   read : {None} \cup [Stream -> Rows \cup {None}], todo : SUBSET (Stream \cup Gid),
   s : Stream \cup {None}, errors : BOOLEAN]

StreamsType ==
  /\ cdn \in [Stream -> Config \cup {None}] /\ slist \in Lists /\ rows \in [Stream -> Rows \cup {None}]
  /\ lock \in Caller \cup {None} /\ begun \in 0..MaxOps /\ torn \in SUBSET Stream
  /\ ops \in [Caller -> OpRecord] /\ pass \in PassRecord

(* Each request is where its kind allows it to be, and has got the group   *)
(* of the mapping before it writes.                                        *)
OpForm(o) ==
  /\ o.kind = "none" <=> o.pc = "idle"
  /\ o.kind = "none" => o = Idle
  /\ o.kind \in {"create", "update"} => o.pc \in {"group", "send", "save", "ports"} /\ o.s \in Stream /\ o.in \in Inputs
  /\ o.kind = "create" => o.in.on # None /\ o.in.ports # None
  /\ o.kind \in {"update", "delete"} => o.prev \in Rows
  /\ o.kind = "delete" => o.pc \in {"send", "gone", "save"} /\ o.s \in Stream
  /\ o.kind = "refresh" => o.pc \in {"list", "records"} /\ o.s = None
  /\ o.pc = "records" => o.list # None
Grouping(o) == o.kind \in {"create", "update"} /\ o.pc \in {"send", "save", "ports"}
Writing(o) == o.kind \in {"create", "update"} /\ o.pc \in {"save", "ports"}
OpsInv == \A r \in Caller :
  /\ OpForm(ops[r])
  /\ ops[r].pc # "group" => ens[r].pc \in Calm
  /\ Grouping(ops[r]) => ens[r].pc = "done"
  /\ Writing(ops[r]) /\ cdn[ops[r].s] # None => cdn[ops[r].s].group = mapping.id

(* What the pass has read and has still to do.                             *)
PassInv ==
  /\ pass.pc # "group" => ens[Pass].pc \in Calm
  /\ pass.pc \notin {"start", "group"} /\ (pass.pc = "end" => ~pass.errors) => ens[Pass].pc = "done"
  /\ pass.pc \in {"rows", "save", "gone"} => pass.todo \subseteq Stream /\ pass.read # None /\ \A s \in pass.todo : pass.read[s] # None
  /\ pass.pc \in {"save", "gone"} => pass.s \in Stream /\ pass.read[pass.s] # None
  /\ pass.pc \notin {"start", "group"} /\ ~pass.errors =>
       \A s \in Stream : rows[s] # None /\ cdn[s] # None /\ cdn[s].group # mapping.id =>
         (pass.pc \in {"rows", "save", "gone"} /\ s \in pass.todo) \/ (pass.pc = "gone" /\ s = pass.s)

(* A list shows every stream that is in an earlier group, in its group; so *)
(* that what is cleaned has no stream.                                     *)
CleanInv ==
  /\ slist # None =>
       \A s \in Stream : cdn[s] # None /\ ~(mapping.name = "new" /\ cdn[s].group = mapping.id) =>
         slist[s] # None /\ slist[s].group = cdn[s].group
  /\ pass.pc = "clean" =>
       \A g \in pass.todo : g \in Gid /\ past[g] # "never" /\ \A s \in Stream : cdn[s] # None => cdn[s].group # g

(* Without the administrator there is one request at a time.               *)
Alike(u, v) == (u = None <=> v = None) /\ (u # None => u.on = v.on /\ u.ports = v.ports)
OpAlone(o, c, k, l, u) ==
  /\ o.kind = "create" /\ o.pc \in {"group", "send"} => c[o.s] = None /\ k[o.s] = None /\ o.s \notin u
  /\ o.kind = "create" /\ o.pc \in {"save", "ports"} => c[o.s] # None /\ c[o.s].on = o.in.on /\ c[o.s].ports = o.in.ports
  /\ o.kind = "create" /\ o.pc = "save" => k[o.s] = None /\ o.s \notin u
  /\ o.kind = "update" /\ o.pc \in {"group", "send"} /\ o.s \notin u /\ c[o.s] # None => o.prev.snap = c[o.s].on
  /\ o.kind = "update" /\ o.pc \in {"save", "ports"} /\ o.s \notin u =>
       /\ c[o.s] # None /\ c[o.s].on = Given(o.in.on, o.prev.snap)
       /\ k[o.s] # None /\ c[o.s].ports = Given(o.in.ports, k[o.s].ports)
  /\ o.pc = "ports" /\ o.s \notin u => k[o.s] # None /\ k[o.s].snap = c[o.s].on /\ k[o.s].on = c[o.s].on
  /\ o.kind = "delete" /\ o.pc \in {"gone", "save"} => c[o.s] = None
  /\ o.pc = "records" =>
       /\ \A s \in Stream \ u : Alike(o.list[s], c[s])
       /\ l # None => \A s \in Stream : Alike(l[s], o.list[s]) \/ Alike(l[s], c[s])
AloneInv == \A r \in Caller :
  /\ lock = r <=> ops[r].kind # "none"
  /\ OpAlone(ops[r], cdn, rows, slist, torn)

(* What is billed is what is served, but where a request has still to save *)
(* it; a cached list shows it too, or is of a stream without a row.        *)
ServedInv ==
  /\ \A s \in Stream \ torn :
       /\ cdn[s] # None /\ (\A r \in Caller : Writing(ops[r]) => ops[r].s # s) =>
            rows[s] # None /\ rows[s].snap = cdn[s].on /\ rows[s].on = cdn[s].on /\ rows[s].ports = cdn[s].ports
       /\ slist # None => Alike(slist[s], cdn[s])
  /\ slist # None => \A s \in Stream :
       slist[s] = None /\ cdn[s] # None => rows[s] = None /\ s \in torn /\ \A r \in Caller : ops[r].s # s

StreamsInv == GroupsInv /\ StreamsType /\ OpsInv /\ PassInv /\ CleanInv
BilledInv == AdminReq = {} => AloneInv /\ ServedInv

-----------------------------------------------------------------------------
(* Groups.                                                                  *)
LEMMA NamedCounted == IsFiniteSet(Named) /\ Cardinality(Named) \in Nat
  BY GroupsAssumption, FS_Subset, FS_CardinalityType DEF Named

EnsType == [pc : {"idle", "try", "wait", "find", "post", "again", "save", "set", "done", "failed"}, got : Gid \cup {None}]

(* What a caller does on its own: only its place and the lock change.      *)
LEMMA GoKeeps ==
  ASSUME GroupsInv, NEW r \in Req, UNCHANGED <<groups, glist, table, lost>>,
         ens' \in [Req -> EnsType], \A q \in Req : q # r => ens'[q] = ens[q],
         holder' \in Req \cup {None}, \A q \in Req : q # r => (holder' = q <=> holder = q),
         holder' = r <=> ens'[r].pc \in Holding,
         ens'[r].pc \in Holding => mapping.name # "new",
         ens'[r].pc \in {"save", "set"} => ens'[r].got \in Gid /\ groups[ens'[r].got] = "new",
         ens'[r].pc = "done" => mapping.name = "new" /\ ens'[r].got = mapping.id,
         ens'[r].pc # "post"
  PROVE  GroupsInv'
  <1>1. Named' = Named
    BY DEF Named
  <1>2. GroupsTypeOK'
    BY DEF GroupsInv, GroupsTypeOK, table, EnsType
  <1>3. ASSUME NEW q \in Req
        PROVE  /\ (holder' = q) <=> (ens'[q].pc \in Holding)
               /\ ens'[q].pc \in Holding => mapping'.name # "new"
               /\ ens'[q].pc \in {"save", "set"} => ens'[q].got \in Gid /\ groups'[ens'[q].got] = "new"
               /\ ens'[q].pc = "done" => mapping'.name = "new" /\ ens'[q].got = mapping'.id
               /\ ens'[q].pc = "post" => Cardinality(Named') <= lost'
    <2>1. CASE q = r
      BY <2>1 DEF table
    <2>2. CASE q # r
      BY <2>2, <1>1 DEF GroupsInv, table
    <2> QED BY <2>1, <2>2
  <1>4. /\ mapping'.name = None => mapping'.id = None
        /\ mapping'.name # None => mapping'.id \in Gid /\ groups'[mapping'.id] = mapping'.name
        /\ \A g \in Gid : past'[g] # "never" => groups'[g] # "new"
    BY DEF GroupsInv, table
  <1>5. glist' # None =>
       /\ \A g \in Gid : glist'[g] = "new" => groups'[g] = "new"
       /\ (\A g \in Gid : glist'[g] # "new") => Cardinality(Named') <= lost'
    BY <1>1 DEF GroupsInv
  <1>6. GroupsFew'
    BY <1>1 DEF GroupsInv, GroupsFew
  <1> QED BY <1>2, <1>3, <1>4, <1>5, <1>6 DEF GroupsInv

LEMMA EnsureKept == ASSUME GroupsInv, NEW r \in Req, Ensure(r) PROVE GroupsInv'
  <1>1. CASE Mapped
    <2>1. ens' = [ens EXCEPT ![r] = [pc |-> "done", got |-> mapping.id]]
      BY <1>1 DEF Ensure, Got
    <2> QED BY <2>1, <1>1, GoKeeps, GroupsAssumption DEF Ensure, At, Mapped, GroupsInv, GroupsTypeOK, EnsType, Holding
  <1>2. CASE ~Mapped
    <2>1. ens' = [ens EXCEPT ![r].pc = "try"]
      BY <1>2 DEF Ensure, Go
    <2> QED BY <2>1, <1>2, GoKeeps, GroupsAssumption DEF Ensure, At, Mapped, GroupsInv, GroupsTypeOK, EnsType, Holding
  <1> QED BY <1>1, <1>2

LEMMA TryKept == ASSUME GroupsInv, NEW r \in Req, Try(r) PROVE GroupsInv'
  <1>1. CASE ~LockFree
    <2>1. ens' = [ens EXCEPT ![r].pc = "wait"]
      BY <1>1 DEF Try, Go
    <2> QED BY <2>1, <1>1, GoKeeps, GroupsAssumption DEF Try, At, GroupsInv, GroupsTypeOK, EnsType, Holding
  <1>2. CASE LockFree /\ Mapped
    <2>1. ens' = [ens EXCEPT ![r] = [pc |-> "done", got |-> mapping.id]]
      BY <1>2 DEF Try, Got
    <2> QED BY <2>1, <1>2, GoKeeps, GroupsAssumption DEF Try, At, Mapped, GroupsInv, GroupsTypeOK, EnsType, Holding
  <1>3. CASE LockFree /\ ~Mapped
    <2>1. ens' = [ens EXCEPT ![r].pc = "find"] /\ holder' = r /\ holder = None
      BY <1>3 DEF Try, Go, LockFree
    <2> QED BY <2>1, <1>3, GoKeeps, GroupsAssumption DEF Try, At, Mapped, GroupsInv, GroupsTypeOK, EnsType, Holding
  <1> QED BY <1>1, <1>2, <1>3

LEMMA WaitKept == ASSUME GroupsInv, NEW r \in Req, Poll(r) \/ GiveUp(r) PROVE GroupsInv'
  <1>1. CASE Poll(r)
    <2>1. ens' = [ens EXCEPT ![r] = [pc |-> "done", got |-> mapping.id]]
      BY <1>1 DEF Poll, Got
    <2> QED BY <2>1, <1>1, GoKeeps, GroupsAssumption DEF Poll, At, Mapped, GroupsInv, GroupsTypeOK, EnsType, Holding
  <1>2. CASE GiveUp(r)
    <2>1. ens' = [ens EXCEPT ![r].pc = "failed"]
      BY <1>2 DEF GiveUp, Go
    <2> QED BY <2>1, <1>2, GoKeeps, GroupsAssumption DEF GiveUp, At, GroupsInv, GroupsTypeOK, EnsType, Holding
  <1> QED BY <1>1, <1>2

LEMMA FailsKept == ASSUME GroupsInv, NEW r \in Req, EnsureFails(r) PROVE GroupsInv'
  <1>1. ens' = [ens EXCEPT ![r].pc = "failed"] /\ holder' = None /\ holder = r
    BY DEF EnsureFails, Fails, Go, Released, GroupsInv, Holding
  <1> QED BY <1>1, GoKeeps, GroupsAssumption DEF EnsureFails, GroupsInv, GroupsTypeOK, EnsType, Holding

LEMMA FindKept == ASSUME GroupsInv, NEW r \in Req, Find(r) PROVE GroupsInv'
  <1>1. PICK l \in Cached(glist, groups) :
          /\ glist' = l
          /\ \/ \E g \in Gid : l[g] = "new" /\ Got(r, "save", g) /\ UNCHANGED holder
             \/ /\ \A g \in Gid : l[g] # "new"
                /\ IF At(r, "find") THEN Go(r, "post") /\ UNCHANGED holder ELSE Fails(r)
    BY DEF Find
  <1>2. /\ UNCHANGED <<groups, table, lost>> /\ Named' = Named
        /\ ens[r].pc \in {"find", "again"} /\ holder = r /\ mapping.name # "new"
    BY DEF Find, At, GroupsInv, Holding, Named
  <1>3. /\ l \in [Gid -> {"old", "new", None}] /\ l # None
        /\ \A g \in Gid : l[g] = "new" => groups[g] = "new"
        /\ (\A g \in Gid : l[g] # "new") => Cardinality(Named) <= lost
    <2>1. CASE l = groups
      <3>1. (\A g \in Gid : l[g] # "new") => Named = {}
        BY <2>1 DEF Named
      <3>2. lost \in Nat /\ Cardinality({}) = 0
        BY FS_EmptySet, GroupsAssumption DEF GroupsInv, GroupsTypeOK
      <3>3. l \in [Gid -> {"old", "new", None}]
        BY <2>1 DEF GroupsInv, GroupsTypeOK
      <3>4. l # None
        BY <3>3, GroupsAssumption
      <3>5. (\A g \in Gid : l[g] # "new") => Cardinality(Named) <= lost
        BY <3>1, <3>2
      <3> QED BY <2>1, <3>3, <3>4, <3>5
    <2>2. CASE l = glist /\ glist # None
      BY <2>2, GroupsAssumption DEF GroupsInv, GroupsTypeOK
    <2> QED BY <2>1, <2>2, <1>1 DEF Cached
  <1>4. /\ ens' \in [Req -> EnsType] /\ holder' \in Req \cup {None}
        /\ \A q \in Req : q # r => ens'[q] = ens[q] /\ (holder' = q <=> holder = q)
        /\ holder' = r <=> ens'[r].pc \in Holding
        /\ ens'[r].pc \in {"save", "set"} => ens'[r].got \in Gid /\ groups[ens'[r].got] = "new"
        /\ ens'[r].pc # "done"
        /\ ens'[r].pc = "post" => Cardinality(Named) <= lost
    <2>1. CASE \E g \in Gid : l[g] = "new" /\ Got(r, "save", g) /\ UNCHANGED holder
      <3>1. PICK g \in Gid : l[g] = "new" /\ ens' = [ens EXCEPT ![r] = [pc |-> "save", got |-> g]] /\ UNCHANGED holder
        BY <2>1 DEF Got
      <3> QED BY <3>1, <1>2, <1>3, GroupsAssumption DEF GroupsInv, GroupsTypeOK, EnsType, Holding
    <2>2. CASE (\A g \in Gid : l[g] # "new") /\ At(r, "find")
      <3>1. ens' = [ens EXCEPT ![r].pc = "post"] /\ UNCHANGED holder
        BY <2>2, <1>1 DEF Go
      <3> QED BY <3>1, <2>2, <1>2, <1>3, GroupsAssumption DEF GroupsInv, GroupsTypeOK, EnsType, Holding
    <2>3. CASE (\A g \in Gid : l[g] # "new") /\ ~At(r, "find")
      <3>1. ens' = [ens EXCEPT ![r].pc = "failed"] /\ holder' = None
        BY <2>3, <1>1, <1>2 DEF Go, Fails, Released
      <3> QED BY <3>1, <2>3, <1>2, <1>3, GroupsAssumption DEF GroupsInv, GroupsTypeOK, EnsType, Holding
    <2> QED BY <2>1, <2>2, <2>3, <1>1
  <1>5. GroupsTypeOK'
    BY <1>1, <1>2, <1>3, <1>4 DEF GroupsInv, GroupsTypeOK, table, EnsType
  <1>6. ASSUME NEW q \in Req
        PROVE  /\ (holder' = q) <=> (ens'[q].pc \in Holding)
               /\ ens'[q].pc \in Holding => mapping'.name # "new"
               /\ ens'[q].pc \in {"save", "set"} => ens'[q].got \in Gid /\ groups'[ens'[q].got] = "new"
               /\ ens'[q].pc = "done" => mapping'.name = "new" /\ ens'[q].got = mapping'.id
               /\ ens'[q].pc = "post" => Cardinality(Named') <= lost'
    <2>1. CASE q = r
      BY <2>1, <1>2, <1>4 DEF table
    <2>2. CASE q # r
      BY <2>2, <1>2, <1>4 DEF GroupsInv, table
    <2> QED BY <2>1, <2>2
  <1>7. /\ mapping'.name = None => mapping'.id = None
        /\ mapping'.name # None => mapping'.id \in Gid /\ groups'[mapping'.id] = mapping'.name
        /\ \A g \in Gid : past'[g] # "never" => groups'[g] # "new"
        /\ GroupsFew'
    BY <1>2 DEF GroupsInv, table, GroupsFew
  <1>8. glist' # None =>
       /\ \A g \in Gid : glist'[g] = "new" => groups'[g] = "new"
       /\ (\A g \in Gid : glist'[g] # "new") => Cardinality(Named') <= lost'
    BY <1>1, <1>2, <1>3
  <1> QED BY <1>5, <1>6, <1>7, <1>8 DEF GroupsInv

LEMMA PostKept == ASSUME GroupsInv, NEW r \in Req, Post(r) PROVE GroupsInv'
  <1> DEFINE n == Cardinality(Named)
             m == Cardinality(Named')
  <1>1. /\ UNCHANGED <<mapping, past, holder>> /\ holder = r /\ mapping.name # "new" /\ ens[r].pc = "post"
        /\ n \in Nat /\ lost \in Nat /\ n <= lost
    BY NamedCounted, GroupsAssumption DEF Post, At, GroupsInv, Holding, table, GroupsTypeOK
  <1> HIDE DEF n, m
  <1>2. CASE UNCHANGED <<groups, glist>> /\ lost < MaxLost /\ lost' = lost + 1 /\ Go(r, "again")
    <2>1. m = n
      BY <1>2 DEF m, n, Named
    <2>2. ens' = [ens EXCEPT ![r].pc = "again"]
      BY <1>2 DEF Go
    <2>3. GroupsTypeOK'
      BY <1>1, <1>2, <2>2, GroupsAssumption DEF GroupsInv, GroupsTypeOK
    <2>4. ASSUME NEW q \in Req
        PROVE  /\ (holder' = q) <=> (ens'[q].pc \in Holding)
               /\ ens'[q].pc \in Holding => mapping'.name # "new"
               /\ ens'[q].pc \in {"save", "set"} => ens'[q].got \in Gid /\ groups'[ens'[q].got] = "new"
               /\ ens'[q].pc = "done" => mapping'.name = "new" /\ ens'[q].got = mapping'.id
               /\ ens'[q].pc # "post"
      BY <1>1, <1>2, <2>2 DEF GroupsInv, GroupsTypeOK, Holding
    <2>5. /\ mapping'.name = None => mapping'.id = None
          /\ mapping'.name # None => mapping'.id \in Gid /\ groups'[mapping'.id] = mapping'.name
          /\ \A g \in Gid : past'[g] # "never" => groups'[g] # "new"
          /\ glist' # None => \A g \in Gid : glist'[g] = "new" => groups'[g] = "new"
      BY <1>1, <1>2 DEF GroupsInv
    <2>6. m <= lost' /\ m <= 1 + lost'
      BY <1>1, <1>2, <2>1
    <2> QED BY <2>3, <2>4, <2>5, <2>6 DEF GroupsInv, GroupsFew, m
  <1>3. CASE \E g \in Gid :
          /\ groups[g] = None /\ past[g] = "never" /\ groups' = [groups EXCEPT ![g] = "new"]
          /\ \/ Got(r, "save", g) /\ glist' = Invalidated(glist) /\ UNCHANGED lost
             \/ lost < MaxLost /\ lost' = lost + 1 /\ Go(r, "again") /\ UNCHANGED glist
    <2>1. PICK g \in Gid :
          /\ groups[g] = None /\ past[g] = "never" /\ groups' = [groups EXCEPT ![g] = "new"]
          /\ \/ Got(r, "save", g) /\ glist' = Invalidated(glist) /\ UNCHANGED lost
             \/ lost < MaxLost /\ lost' = lost + 1 /\ Go(r, "again") /\ UNCHANGED glist
      BY <1>3
    <2>2. m = n + 1
      <3>1. Named' = Named \cup {g}
        BY <2>1 DEF Named, GroupsInv, GroupsTypeOK
      <3>2. IsFiniteSet(Named) /\ g \notin Named
        BY <2>1, NamedCounted, GroupsAssumption DEF Named
      <3>3. Cardinality(Named \cup {g}) = Cardinality(Named) + 1
        BY <3>2, FS_AddElement
      <3> QED BY <3>1, <3>3 DEF m, n
    <2>3. /\ groups' \in [Gid -> {"old", "new", None}] /\ groups'[g] = "new"
          /\ \A q \in Gid : groups[q] # None => groups'[q] = groups[q]
          /\ \A q \in Gid : past[q] # "never" => groups'[q] # "new"
      BY <2>1, GroupsAssumption DEF GroupsInv, GroupsTypeOK
    <2>4. /\ mapping'.name = None => mapping'.id = None
          /\ mapping'.name # None => mapping'.id \in Gid /\ groups'[mapping'.id] = mapping'.name
          /\ \A q \in Gid : past'[q] # "never" => groups'[q] # "new"
      BY <1>1, <2>3 DEF GroupsInv
    <2>5. CASE Got(r, "save", g) /\ glist' = Invalidated(glist) /\ UNCHANGED lost
      <3>1. ens' = [ens EXCEPT ![r] = [pc |-> "save", got |-> g]] /\ glist' = None
        BY <2>5 DEF Got, Invalidated
      <3>2. GroupsTypeOK'
        BY <1>1, <2>3, <2>5, <3>1 DEF GroupsInv, GroupsTypeOK
      <3>3. ASSUME NEW q \in Req
          PROVE  /\ (holder' = q) <=> (ens'[q].pc \in Holding)
                 /\ ens'[q].pc \in Holding => mapping'.name # "new"
                 /\ ens'[q].pc \in {"save", "set"} => ens'[q].got \in Gid /\ groups'[ens'[q].got] = "new"
                 /\ ens'[q].pc = "done" => mapping'.name = "new" /\ ens'[q].got = mapping'.id
                 /\ ens'[q].pc # "post"
        BY <1>1, <2>1, <2>3, <3>1 DEF GroupsInv, GroupsTypeOK, Holding
      <3>4. m <= 1 + lost'
        BY <1>1, <2>2, <2>5
      <3> QED BY <2>4, <3>1, <3>2, <3>3, <3>4 DEF GroupsInv, GroupsFew, m
    <2>6. CASE lost < MaxLost /\ lost' = lost + 1 /\ Go(r, "again") /\ UNCHANGED glist
      <3>1. ens' = [ens EXCEPT ![r].pc = "again"]
        BY <2>6 DEF Go
      <3>2. GroupsTypeOK'
        BY <1>1, <2>3, <2>6, <3>1, GroupsAssumption DEF GroupsInv, GroupsTypeOK
      <3>3. ASSUME NEW q \in Req
          PROVE  /\ (holder' = q) <=> (ens'[q].pc \in Holding)
                 /\ ens'[q].pc \in Holding => mapping'.name # "new"
                 /\ ens'[q].pc \in {"save", "set"} => ens'[q].got \in Gid /\ groups'[ens'[q].got] = "new"
                 /\ ens'[q].pc = "done" => mapping'.name = "new" /\ ens'[q].got = mapping'.id
                 /\ ens'[q].pc # "post"
        BY <1>1, <2>1, <2>3, <3>1 DEF GroupsInv, GroupsTypeOK, Holding
      <3>4. m <= lost' /\ m <= 1 + lost'
        BY <1>1, <2>2, <2>6
      <3>5. glist' # None => \A q \in Gid : glist'[q] = "new" => groups'[q] = "new"
        BY <2>1, <2>3, <2>6, GroupsAssumption DEF GroupsInv
      <3> QED BY <2>4, <3>2, <3>3, <3>4, <3>5 DEF GroupsInv, GroupsFew, m
    <2> QED BY <2>1, <2>5, <2>6
  <1> QED BY <1>2, <1>3 DEF Post

LEMMA SavedKept == ASSUME GroupsInv, NEW r \in Req, Remember(r) \/ SetMapping(r) PROVE GroupsInv'
  <1>1. Named' = Named /\ UNCHANGED <<groups, glist, lost>>
    BY DEF Remember, SetMapping, Named
  <1>2. /\ holder = r /\ mapping.name # "new" /\ ens[r].got \in Gid /\ groups[ens[r].got] = "new"
        /\ ens[r].pc \in {"save", "set"}
    BY DEF Remember, SetMapping, At, GroupsInv, Holding
  <1>3. GroupsFew' /\ (glist' # None =>
       /\ \A g \in Gid : glist'[g] = "new" => groups'[g] = "new"
       /\ (\A g \in Gid : glist'[g] # "new") => Cardinality(Named') <= lost')
    BY <1>1 DEF GroupsInv, GroupsFew
  <1>4. CASE Remember(r)
    <2>1. ens' = [ens EXCEPT ![r].pc = "set"] /\ UNCHANGED <<mapping, holder>>
      BY <1>4 DEF Remember, Go
    <2>2. /\ past' \in [Gid -> {"never", "superseded", "cleaned"}]
          /\ \A g \in Gid : past'[g] # "never" => groups[g] # "new"
      <3>1. CASE mapping.id = None \/ mapping = [id |-> ens[r].got, name |-> "new"]
        BY <1>4, <3>1 DEF Remember, Superseded, GroupsInv, GroupsTypeOK
      <3>2. CASE ~(mapping.id = None \/ mapping = [id |-> ens[r].got, name |-> "new"])
        <4>1. past' = [past EXCEPT ![mapping.id] = IF past[mapping.id] = "never" THEN "superseded" ELSE past[mapping.id]]
          BY <1>4, <3>2 DEF Remember, Superseded
        <4>2. mapping.id \in Gid /\ groups[mapping.id] # "new"
          BY <1>2, <3>2 DEF GroupsInv
        <4> QED BY <4>1, <4>2 DEF GroupsInv, GroupsTypeOK
      <3> QED BY <3>1, <3>2
    <2>3. GroupsTypeOK'
      BY <1>1, <2>1, <2>2 DEF GroupsInv, GroupsTypeOK
    <2>4. ASSUME NEW q \in Req
          PROVE  /\ (holder' = q) <=> (ens'[q].pc \in Holding)
                 /\ ens'[q].pc \in Holding => mapping'.name # "new"
                 /\ ens'[q].pc \in {"save", "set"} => ens'[q].got \in Gid /\ groups'[ens'[q].got] = "new"
                 /\ ens'[q].pc = "done" => mapping'.name = "new" /\ ens'[q].got = mapping'.id
                 /\ ens'[q].pc = "post" => Cardinality(Named') <= lost'
      BY <1>1, <1>2, <2>1 DEF GroupsInv, GroupsTypeOK, Holding
    <2>5. /\ mapping'.name = None => mapping'.id = None
          /\ mapping'.name # None => mapping'.id \in Gid /\ groups'[mapping'.id] = mapping'.name
          /\ \A g \in Gid : past'[g] # "never" => groups'[g] # "new"
      BY <1>1, <2>1, <2>2 DEF GroupsInv
    <2> QED BY <1>3, <2>3, <2>4, <2>5 DEF GroupsInv
  <1>5. CASE SetMapping(r)
    <2>1. /\ ens' = [ens EXCEPT ![r].pc = "done"] /\ holder' = None /\ UNCHANGED past
          /\ mapping' = [id |-> ens[r].got, name |-> "new"]
      BY <1>2, <1>5 DEF SetMapping, Go, Released
    <2>2. GroupsTypeOK'
      BY <1>1, <1>2, <2>1 DEF GroupsInv, GroupsTypeOK
    <2>3. ASSUME NEW q \in Req
          PROVE  /\ (holder' = q) <=> (ens'[q].pc \in Holding)
                 /\ ens'[q].pc \in Holding => mapping'.name # "new"
                 /\ ens'[q].pc \in {"save", "set"} => ens'[q].got \in Gid /\ groups'[ens'[q].got] = "new"
                 /\ ens'[q].pc = "done" => mapping'.name = "new" /\ ens'[q].got = mapping'.id
                 /\ ens'[q].pc = "post" => Cardinality(Named') <= lost'
      <3>1. CASE q = r
        BY <1>2, <2>1, <3>1, GroupsAssumption DEF GroupsInv, GroupsTypeOK, Holding
      <3>2. CASE q # r
        <4>1. ens'[q] = ens[q] /\ ens[q].pc \notin Holding /\ ens[q].pc # "done"
          BY <1>2, <2>1, <3>2 DEF GroupsInv, GroupsTypeOK
        <4> QED BY <4>1, <2>1, <3>2, GroupsAssumption DEF Holding
      <3> QED BY <3>1, <3>2
    <2>4. /\ mapping'.name = None => mapping'.id = None
          /\ mapping'.name # None => mapping'.id \in Gid /\ groups'[mapping'.id] = mapping'.name
          /\ \A g \in Gid : past'[g] # "never" => groups'[g] # "new"
      BY <1>1, <1>2, <2>1, GroupsAssumption DEF GroupsInv
    <2> QED BY <1>3, <2>2, <2>3, <2>4 DEF GroupsInv
  <1> QED BY <1>4, <1>5

LEMMA EnsureStepKept == ASSUME GroupsInv, NEW r \in Req, EnsureStep(r) PROVE GroupsInv'
  BY EnsureKept, TryKept, WaitKept, FailsKept, FindKept, PostKept, SavedKept DEF EnsureStep

LEMMA EnsureFrame ==
  ASSUME GroupsInv, NEW r \in Req, EnsureStep(r)
  PROVE  /\ \A q \in Req : q # r => ens'[q] = ens[q]
         /\ mapping.name = "new" => mapping' = mapping
         /\ \A g \in Gid : past[g] # "never" => past'[g] # "never"
  <1>1. CASE Ensure(r) \/ Try(r) \/ Poll(r) \/ GiveUp(r) \/ EnsureFails(r)
    BY <1>1 DEF GroupsInv, GroupsTypeOK, Ensure, Try, Poll, GiveUp, EnsureFails, Fails, Go, Got, table
  <1>2. CASE Find(r)
    <2>1. \A q \in Req : q # r => ens'[q] = ens[q]
      BY <1>2 DEF GroupsInv, GroupsTypeOK, Find, Fails, Go, Got
    <2> QED BY <1>2, <2>1 DEF Find, table
  <1>3. CASE Post(r)
    <2>1. \A q \in Req : q # r => ens'[q] = ens[q]
      BY <1>3 DEF GroupsInv, GroupsTypeOK, Post, Go, Got
    <2> QED BY <1>3, <2>1 DEF Post, table
  <1>4. CASE Remember(r)
    <2>1. \A q \in Req : q # r => ens'[q] = ens[q]
      BY <1>4 DEF GroupsInv, GroupsTypeOK, Remember, Go
    <2>2. \A g \in Gid : past[g] # "never" => past'[g] # "never"
      BY <1>4 DEF GroupsInv, GroupsTypeOK, Remember, Superseded
    <2> QED BY <1>4, <2>1, <2>2 DEF Remember
  <1>5. CASE SetMapping(r)
    BY <1>5 DEF GroupsInv, GroupsTypeOK, SetMapping, Go, At, Holding
  <1> QED BY <1>1, <1>2, <1>3, <1>4, <1>5 DEF EnsureStep

(* The counter of requests without an answer grows by itself.              *)
LEMMA LostKept ==
  ASSUME GroupsInv, UNCHANGED gvars, lost' = lost \/ (lost < MaxLost /\ lost' = lost + 1)
  PROVE  GroupsInv'
  <1> DEFINE n == Cardinality(Named)
  <1>1. Named' = Named
    BY DEF Named, gvars
  <1>2. n \in Nat
    BY NamedCounted
  <1> HIDE DEF n
  <1>3. lost \in Nat /\ lost' \in 0..MaxLost /\ lost <= lost'
    BY GroupsAssumption DEF GroupsInv, GroupsTypeOK
  <1>4. GroupsTypeOK'
    BY <1>3 DEF GroupsInv, GroupsTypeOK, gvars, table
  <1>5. ASSUME NEW q \in Req
        PROVE  /\ (holder' = q) <=> (ens'[q].pc \in Holding)
               /\ ens'[q].pc \in Holding => mapping'.name # "new"
               /\ ens'[q].pc \in {"save", "set"} => ens'[q].got \in Gid /\ groups'[ens'[q].got] = "new"
               /\ ens'[q].pc = "done" => mapping'.name = "new" /\ ens'[q].got = mapping'.id
               /\ ens'[q].pc = "post" => n <= lost'
    BY <1>2, <1>3 DEF GroupsInv, gvars, table, n
  <1>6. /\ mapping'.name = None => mapping'.id = None
        /\ mapping'.name # None => mapping'.id \in Gid /\ groups'[mapping'.id] = mapping'.name
        /\ \A g \in Gid : past'[g] # "never" => groups'[g] # "new"
    BY DEF GroupsInv, gvars, table
  <1>7. glist' # None =>
       /\ \A g \in Gid : glist'[g] = "new" => groups'[g] = "new"
       /\ (\A g \in Gid : glist'[g] # "new") => n <= lost'
    BY <1>2, <1>3 DEF GroupsInv, gvars, table, n
  <1>8. n <= 1 + lost'
    BY <1>2, <1>3 DEF GroupsInv, GroupsFew, n
  <1> QED BY <1>1, <1>4, <1>5, <1>6, <1>7, <1>8 DEF GroupsInv, GroupsFew, n

-----------------------------------------------------------------------------
(* Streams.                                                                 *)
LEMMA EnsuringKept ==
  ASSUME StreamsInv, Ensuring
  PROVE  StreamsInv' /\ UNCHANGED svars
  <1>1. PICK r \in Req : (IF r = Pass THEN pass.pc = "group" ELSE r \in Caller /\ ops[r].pc = "group") /\ EnsureStep(r)
    BY StreamsAssumption DEF Ensuring, OnPass, Caller
  <1>2. GroupsInv'
    BY <1>1, EnsureStepKept DEF StreamsInv
  <1>3. /\ \A q \in Req : q # r => ens'[q] = ens[q]
        /\ mapping.name = "new" => mapping' = mapping
        /\ \A g \in Gid : past[g] # "never" => past'[g] # "never"
    BY <1>1, EnsureFrame DEF StreamsInv
  <1>4. UNCHANGED <<cdn, slist, rows, lock, ops, pass, begun, torn>>
    BY DEF Ensuring, svars
  <1>5. StreamsType'
    BY <1>4 DEF StreamsInv, StreamsType
  <1>6. OpsInv'
    <2> SUFFICES ASSUME NEW q \in Caller
                 PROVE  /\ OpForm(ops[q])
                        /\ ops[q].pc # "group" => ens'[q].pc \in Calm
                        /\ Grouping(ops[q]) => ens'[q].pc = "done"
                        /\ Writing(ops[q]) /\ cdn[ops[q].s] # None => cdn[ops[q].s].group = mapping'.id
      BY <1>4 DEF OpsInv
    <2>1. OpForm(ops[q])
      BY DEF StreamsInv, OpsInv
    <2>2. CASE q = r
      BY <1>1, <2>1, <2>2 DEF Grouping, Writing, Caller
    <2>3. CASE q # r
      <3>1. ens'[q] = ens[q] /\ q \in Req
        BY <1>3, <2>3 DEF Caller
      <3>2. Writing(ops[q]) => ens[q].pc = "done" /\ mapping.name = "new"
        BY <3>1 DEF StreamsInv, OpsInv, Grouping, Writing, GroupsInv
      <3> QED BY <1>3, <2>1, <3>1, <3>2 DEF StreamsInv, OpsInv
    <2> QED BY <2>2, <2>3
  <1>7. PassInv'
    <2>1. CASE r = Pass
      BY <1>1, <1>4, <2>1 DEF StreamsInv, PassInv
    <2>2. CASE r # Pass
      <3>1. ens'[Pass] = ens[Pass] /\ (ens[Pass].pc = "done" => mapping' = mapping)
        BY <1>3, <2>2, StreamsAssumption DEF StreamsInv, GroupsInv
      <3> QED BY <1>4, <3>1 DEF StreamsInv, PassInv
    <2> QED BY <2>1, <2>2
  <1>8. CleanInv'
    BY <1>3, <1>4 DEF StreamsInv, CleanInv
  <1> QED BY <1>2, <1>4, <1>5, <1>6, <1>7, <1>8 DEF StreamsInv, svars

(* What a request may do to the rest: it puts streams into the group of    *)
(* the mapping, and leaves the cached list, drops it or fetches it.        *)
CdnMoves == \A s \in Stream :
  cdn'[s] = None \/ cdn'[s] = cdn[s] \/ (mapping.name = "new" /\ cdn'[s].group = mapping.id)
SlistMoves == slist' = None \/ slist' = slist \/ (slist' = cdn /\ cdn' = cdn)
RowsMove == \A s \in Stream :
  rows'[s] = None \/ rows[s] # None \/ cdn'[s] = None \/ cdn'[s].group = mapping.id

LEMMA CleanKept ==
  ASSUME StreamsInv, UNCHANGED <<mapping, groups, past, pass>>, CdnMoves, SlistMoves
  PROVE  CleanInv'
  <1>1. ASSUME slist' # None, NEW s \in Stream, cdn'[s] # None, ~(mapping.name = "new" /\ cdn'[s].group = mapping.id)
        PROVE  slist'[s] # None /\ slist'[s].group = cdn'[s].group
    BY <1>1 DEF CdnMoves, SlistMoves, StreamsInv, CleanInv
  <1>2. ASSUME pass.pc = "clean", NEW g \in pass.todo
        PROVE  g \in Gid /\ past[g] # "never" /\ \A s \in Stream : cdn'[s] # None => cdn'[s].group # g
    <2>1. g \in Gid /\ past[g] # "never" /\ \A s \in Stream : cdn[s] # None => cdn[s].group # g
      BY <1>2 DEF StreamsInv, CleanInv
    <2>2. mapping.name = "new" => g # mapping.id
      BY <2>1, GroupsAssumption DEF StreamsInv, GroupsInv
    <2> QED BY <2>1, <2>2 DEF CdnMoves
  <1> QED BY <1>1, <1>2 DEF CleanInv

LEMMA RequestFrame ==
  ASSUME StreamsInv, NEW r \in Caller, GroupsInv', StreamsType', UNCHANGED <<mapping, groups, past, pass>>,
         CdnMoves, SlistMoves, RowsMove, \A q \in Caller : q # r => ops'[q] = ops[q],
         \A q \in Req : q # r => ens'[q] = ens[q],
         OpForm(ops'[r]), ops'[r].pc # "group" => ens'[r].pc \in Calm, Grouping(ops'[r]) => ens'[r].pc = "done",
         Writing(ops'[r]) /\ cdn'[ops'[r].s] # None => cdn'[ops'[r].s].group = mapping.id
  PROVE  StreamsInv'
  <1>1. OpsInv'
    <2> SUFFICES ASSUME NEW q \in Caller, q # r
                 PROVE  /\ OpForm(ops'[q])
                        /\ ops'[q].pc # "group" => ens'[q].pc \in Calm
                        /\ Grouping(ops'[q]) => ens'[q].pc = "done"
                        /\ Writing(ops'[q]) /\ cdn'[ops'[q].s] # None => cdn'[ops'[q].s].group = mapping.id
      BY DEF OpsInv
    <2>1. ops'[q] = ops[q] /\ ens'[q] = ens[q] /\ q \in Req
      BY DEF Caller
    <2>2. Writing(ops[q]) => ops[q].s \in Stream
      BY DEF StreamsInv, OpsInv, OpForm, Writing
    <2> QED BY <2>1, <2>2 DEF StreamsInv, OpsInv, CdnMoves
  <1>2. PassInv'
    <2>1. ens'[Pass] = ens[Pass]
      BY StreamsAssumption DEF Caller
    <2>2. \A s \in Stream : rows'[s] # None /\ cdn'[s] # None /\ cdn'[s].group # mapping.id =>
            rows[s] # None /\ cdn[s] # None /\ cdn[s].group # mapping.id
      BY DEF CdnMoves, RowsMove
    <2> QED BY <2>1, <2>2 DEF StreamsInv, PassInv
  <1> QED BY <1>1, <1>2, CleanKept DEF StreamsInv

LEMMA FinishedFacts ==
  ASSUME StreamsInv, NEW r \in Caller, Finished(r)
  PROVE  /\ ops' \in [Caller -> OpRecord] /\ ops'[r] = Idle /\ lock' \in Caller \cup {None}
         /\ \A q \in Caller : q # r => ops'[q] = ops[q]
         /\ OpForm(Idle) /\ ~Grouping(Idle) /\ ~Writing(Idle) /\ Idle.pc = "idle"
  <1>1. Idle \in OpRecord
    BY DEF Idle, OpRecord, Lists
  <1>2. ops' = [ops EXCEPT ![r] = Idle] /\ ops \in [Caller -> OpRecord] /\ lock \in Caller \cup {None}
    BY DEF Finished, StreamsInv, StreamsType
  <1>3. OpForm(Idle) /\ ~Grouping(Idle) /\ ~Writing(Idle) /\ Idle.pc = "idle"
    BY DEF OpForm, Grouping, Writing, Idle
  <1> QED BY <1>1, <1>2, <1>3 DEF Finished, Unlocked

LEMMA NowFacts ==
  ASSUME StreamsInv, NEW r \in Caller, NEW c, Now(r, c),
         c \in {"idle", "group", "send", "save", "ports", "gone", "list", "records"}
  PROVE  /\ ops' \in [Caller -> OpRecord] /\ \A q \in Caller : q # r => ops'[q] = ops[q]
         /\ ops'[r] = [ops[r] EXCEPT !.pc = c] /\ ops'[r].pc = c /\ ops'[r].kind = ops[r].kind /\ ops'[r].s = ops[r].s
         /\ ops'[r].in = ops[r].in /\ ops'[r].prev = ops[r].prev /\ ops'[r].list = ops[r].list
  <1>1. ops' = [ops EXCEPT ![r].pc = c] /\ ops \in [Caller -> OpRecord]
    BY DEF Now, StreamsInv, StreamsType
  <1> DEFINE o == [ops[r] EXCEPT !.pc = c]
  <1>2. o \in OpRecord /\ o.pc = c /\ o.kind = ops[r].kind /\ o.s = ops[r].s /\ o.in = ops[r].in /\ o.prev = ops[r].prev /\ o.list = ops[r].list
    BY <1>1 DEF OpRecord
  <1>3. ops' = [ops EXCEPT ![r] = o]
    BY <1>1
  <1> HIDE DEF o
  <1>4. ops'[r] = o /\ ops' \in [Caller -> OpRecord] /\ \A q \in Caller : q # r => ops'[q] = ops[q]
    BY <1>1, <1>2, <1>3
  <1> QED BY <1>2, <1>4 DEF o

(* A request begins; one that needs the group asks for it anew.            *)
LEMMA BeginFacts ==
  ASSUME StreamsInv, NEW r \in Caller, NEW kind, NEW s, NEW in, NEW c, Begin(r, kind, s, in, c), lock' = lock \/ lock' = r,
         kind \in {"create", "update", "delete", "refresh"}, s \in Stream \cup {None}, in \in Inputs \cup {None},
         c \in {"group", "send", "list"}
  PROVE  /\ StreamsType' /\ \A q \in Caller : q # r => ops'[q] = ops[q]
         /\ CdnMoves /\ SlistMoves /\ RowsMove /\ pass' = pass
         /\ ops'[r] = [kind |-> kind, pc |-> c, s |-> s, in |-> in, prev |-> IF s = None THEN None ELSE rows[s], list |-> None]
         /\ ens[r].pc \in Calm /\ ops[r] = Idle
  <1> DEFINE o == [kind |-> kind, pc |-> c, s |-> s, in |-> in, prev |-> IF s = None THEN None ELSE rows[s], list |-> None]
  <1>1. o \in OpRecord
    BY StreamsAssumption DEF OpRecord, StreamsInv, StreamsType, Lists
  <1>2. ops' = [ops EXCEPT ![r] = o] /\ ops \in [Caller -> OpRecord] /\ UNCHANGED <<cdn, slist, rows, pass, torn>>
    BY DEF Begin, StreamsInv, StreamsType
  <1>3. ops[r] = Idle /\ ens[r].pc \in Calm
    BY DEF Begin, StreamsInv, OpsInv, Idle
  <1>4. begun' \in 0..MaxOps
    BY StreamsAssumption DEF Begin, StreamsInv, StreamsType
  <1> HIDE DEF o
  <1>5. ops'[r] = o /\ ops' \in [Caller -> OpRecord] /\ \A q \in Caller : q # r => ops'[q] = ops[q]
    BY <1>1, <1>2
  <1>6. StreamsType'
    BY <1>2, <1>4, <1>5 DEF StreamsInv, StreamsType
  <1> QED BY <1>2, <1>3, <1>5, <1>6 DEF o, CdnMoves, SlistMoves, RowsMove

LEMMA AnewKept ==
  ASSUME StreamsInv, NEW r \in Caller, ens[r].pc \in Calm, UNCHANGED <<groups, glist, table, holder, lost>>,
         ens' = [ens EXCEPT ![r] = [pc |-> "idle", got |-> None]]
  PROVE  GroupsInv' /\ (\A q \in Req : q # r => ens'[q] = ens[q]) /\ ens'[r].pc = "idle"
  <1>1. r \in Req /\ GroupsInv
    BY DEF Caller, StreamsInv
  <1>2. /\ ens' \in [Req -> EnsType] /\ \A q \in Req : q # r => ens'[q] = ens[q]
        /\ ens'[r] = [pc |-> "idle", got |-> None] /\ holder # r /\ holder \in Req \cup {None}
    BY <1>1 DEF GroupsInv, GroupsTypeOK, EnsType, Calm, Holding
  <1> QED BY <1>1, <1>2, GoKeeps DEF Holding

LEMMA SameGroups == ASSUME StreamsInv, UNCHANGED <<gvars, lost>> PROVE GroupsInv' /\ UNCHANGED <<mapping, groups, past, ens>>
  <1>1. GroupsInv' /\ UNCHANGED <<mapping, groups, past, ens>>
    BY LostKept DEF StreamsInv, gvars, table
  <1> QED BY <1>1

LEMMA BeginsKept ==
  ASSUME StreamsInv, NEW r \in Caller, BeginCreate(r) \/ BeginUpdate(r) \/ BeginDelete(r) \/ BeginRefresh(r)
  PROVE  StreamsInv'
  <1>0. r \in Req
    BY DEF Caller
  <1>1. CASE BeginCreate(r)
    <2>1. PICK s \in Stream, on \in BOOLEAN, p \in Ports :
            rows[s] = None /\ Begin(r, "create", s, [on |-> on, ports |-> p], "group")
      BY <1>1 DEF BeginCreate
    <2>2. (lock' = lock \/ lock' = r) /\ UNCHANGED <<groups, glist, table, holder, lost, mapping, past>>
          /\ ens' = [ens EXCEPT ![r] = [pc |-> "idle", got |-> None]]
      BY <1>1, <2>1 DEF BeginCreate, Locked, Begin, table
    <2>3. [on |-> on, ports |-> p] \in Inputs
      BY DEF Inputs
    <2>4. /\ StreamsType' /\ \A q \in Caller : q # r => ops'[q] = ops[q]
          /\ CdnMoves /\ SlistMoves /\ RowsMove /\ pass' = pass /\ ens[r].pc \in Calm
          /\ ops'[r] = [kind |-> "create", pc |-> "group", s |-> s, in |-> [on |-> on, ports |-> p], prev |-> IF s = None THEN None ELSE rows[s], list |-> None]
      BY <2>1, <2>2, <2>3, BeginFacts
    <2>5. GroupsInv' /\ (\A q \in Req : q # r => ens'[q] = ens[q]) /\ ens'[r].pc = "idle"
      BY <2>2, <2>4, AnewKept
    <2>6. OpForm(ops'[r]) /\ ops'[r].pc = "group" /\ ~Grouping(ops'[r]) /\ ~Writing(ops'[r])
      BY <2>3, <2>4, StreamsAssumption DEF OpForm, Grouping, Writing, Inputs
    <2> QED BY <1>0, <2>2, <2>4, <2>5, <2>6, RequestFrame
  <1>2. CASE BeginUpdate(r)
    <2>1. PICK s \in Stream, in \in Inputs : rows[s] # None /\ Begin(r, "update", s, in, "group")
      BY <1>2 DEF BeginUpdate
    <2>2. (lock' = lock \/ lock' = r) /\ UNCHANGED <<groups, glist, table, holder, lost, mapping, past>>
          /\ ens' = [ens EXCEPT ![r] = [pc |-> "idle", got |-> None]]
      BY <1>2, <2>1 DEF BeginUpdate, Locked, Begin, table
    <2>4. /\ StreamsType' /\ \A q \in Caller : q # r => ops'[q] = ops[q]
          /\ CdnMoves /\ SlistMoves /\ RowsMove /\ pass' = pass /\ ens[r].pc \in Calm
          /\ ops'[r] = [kind |-> "update", pc |-> "group", s |-> s, in |-> in, prev |-> IF s = None THEN None ELSE rows[s], list |-> None]
      BY <2>1, <2>2, BeginFacts
    <2>5. GroupsInv' /\ (\A q \in Req : q # r => ens'[q] = ens[q]) /\ ens'[r].pc = "idle"
      BY <2>2, <2>4, AnewKept
    <2>6. OpForm(ops'[r]) /\ ops'[r].pc = "group" /\ ~Grouping(ops'[r]) /\ ~Writing(ops'[r])
      BY <2>1, <2>4, StreamsAssumption DEF OpForm, Grouping, Writing, StreamsInv, StreamsType
    <2> QED BY <1>0, <2>2, <2>4, <2>5, <2>6, RequestFrame
  <1>3. CASE BeginDelete(r)
    <2>1. PICK s \in Stream : rows[s] # None /\ Begin(r, "delete", s, None, "send")
      BY <1>3 DEF BeginDelete
    <2>2. (lock' = lock \/ lock' = r) /\ UNCHANGED <<gvars, lost>>
      BY <1>3, <2>1 DEF BeginDelete, Locked, Begin
    <2>4. /\ StreamsType' /\ \A q \in Caller : q # r => ops'[q] = ops[q]
          /\ CdnMoves /\ SlistMoves /\ RowsMove /\ pass' = pass /\ ens[r].pc \in Calm
          /\ ops'[r] = [kind |-> "delete", pc |-> "send", s |-> s, in |-> None, prev |-> IF s = None THEN None ELSE rows[s], list |-> None]
      BY <2>1, <2>2, BeginFacts
    <2>5. GroupsInv' /\ UNCHANGED <<mapping, groups, past, ens>>
      BY <2>2, SameGroups
    <2>6. OpForm(ops'[r]) /\ ~Grouping(ops'[r]) /\ ~Writing(ops'[r])
      BY <2>1, <2>4, StreamsAssumption DEF OpForm, Grouping, Writing, StreamsInv, StreamsType
    <2> QED BY <1>0, <2>2, <2>4, <2>5, <2>6, RequestFrame
  <1>4. CASE BeginRefresh(r)
    <2>1. Begin(r, "refresh", None, None, "list")
      BY <1>4 DEF BeginRefresh
    <2>2. (lock' = lock \/ lock' = r) /\ UNCHANGED <<gvars, lost>>
      BY <1>4, <2>1 DEF BeginRefresh, RefreshLocked, Locked, Begin
    <2>4. /\ StreamsType' /\ \A q \in Caller : q # r => ops'[q] = ops[q]
          /\ CdnMoves /\ SlistMoves /\ RowsMove /\ pass' = pass /\ ens[r].pc \in Calm
          /\ ops'[r] = [kind |-> "refresh", pc |-> "list", s |-> None, in |-> None, prev |-> IF None = None THEN None ELSE rows[None], list |-> None]
      BY <2>1, <2>2, BeginFacts
    <2>5. GroupsInv' /\ UNCHANGED <<mapping, groups, past, ens>>
      BY <2>2, SameGroups
    <2>6. OpForm(ops'[r]) /\ ~Grouping(ops'[r]) /\ ~Writing(ops'[r])
      BY <2>4 DEF OpForm, Grouping, Writing
    <2> QED BY <1>0, <2>2, <2>4, <2>5, <2>6, RequestFrame
  <1> QED BY <1>1, <1>2, <1>3, <1>4

(* A request that has no more to do, or goes on; the lists of the CDN.     *)
LEMMA FinishedKept ==
  ASSUME StreamsInv, NEW r \in Caller, Finished(r), GroupsInv', UNCHANGED <<mapping, groups, past, ens, pass>>,
         ens[r].pc \in Calm, CdnMoves, SlistMoves, RowsMove,
         cdn' \in [Stream -> Config \cup {None}], slist' \in Lists, rows' \in [Stream -> Rows \cup {None}],
         begun' = begun, torn' \in SUBSET Stream
  PROVE  StreamsInv'
  <1>1. /\ ops' \in [Caller -> OpRecord] /\ ops'[r] = Idle /\ lock' \in Caller \cup {None}
        /\ \A q \in Caller : q # r => ops'[q] = ops[q]
        /\ OpForm(ops'[r]) /\ ~Grouping(ops'[r]) /\ ~Writing(ops'[r])
    BY FinishedFacts
  <1>2. StreamsType'
    BY <1>1 DEF StreamsInv, StreamsType
  <1> QED BY <1>1, <1>2, RequestFrame

LEMMA GoesOnKept ==
  ASSUME StreamsInv, NEW r \in Caller, NEW c, Now(r, c), GroupsInv', UNCHANGED <<mapping, groups, past, ens, pass>>,
         ens[r].pc \in Calm, CdnMoves, SlistMoves, RowsMove,
         cdn' \in [Stream -> Config \cup {None}], slist' \in Lists, rows' \in [Stream -> Rows \cup {None}],
         begun' = begun, torn' \in SUBSET Stream, lock' = lock,
         ops[r].kind \in {"create", "update"} => c \in {"send", "save", "ports"} /\ ens[r].pc = "done",
         ops[r].kind \in {"create", "update"} /\ c # "send" /\ cdn'[ops[r].s] # None => cdn'[ops[r].s].group = mapping.id,
         ops[r].kind = "delete" => c \in {"gone", "save"},
         ops[r].kind \in {"create", "update", "delete"}
  PROVE  StreamsInv'
  <1>1. c \in {"idle", "group", "send", "save", "ports", "gone", "list", "records"}
    OBVIOUS
  <1>2. /\ ops' \in [Caller -> OpRecord] /\ \A q \in Caller : q # r => ops'[q] = ops[q]
        /\ ops'[r].pc = c /\ ops'[r].kind = ops[r].kind /\ ops'[r].s = ops[r].s
        /\ ops'[r].in = ops[r].in /\ ops'[r].prev = ops[r].prev
    BY <1>1, NowFacts
  <1>3. StreamsType'
    BY <1>2 DEF StreamsInv, StreamsType
  <1>4. OpForm(ops'[r])
    BY <1>2 DEF OpForm, StreamsInv, OpsInv
  <1>5. /\ ops'[r].pc # "group" => ens'[r].pc \in Calm
        /\ Grouping(ops'[r]) => ens'[r].pc = "done"
        /\ Writing(ops'[r]) /\ cdn'[ops'[r].s] # None => cdn'[ops'[r].s].group = mapping.id
    BY <1>2 DEF Grouping, Writing
  <1> QED BY <1>2, <1>3, <1>4, <1>5, RequestFrame

(* What the CDN answers, or not.                                           *)
LEMMA SentFacts ==
  ASSUME StreamsInv, NEW next \in [Stream -> Config \cup {None}], Answered(next) \/ Unanswered(next), UNCHANGED gvars
  PROVE  /\ cdn' \in {cdn, next} /\ cdn' \in [Stream -> Config \cup {None}] /\ slist' \in Lists
         /\ (slist' = None \/ slist' = slist) /\ GroupsInv' /\ UNCHANGED <<mapping, groups, past, ens>>
  <1>1. cdn' \in {cdn, next} /\ (slist' = None \/ slist' = slist)
    BY DEF Answered, Unanswered, Invalidated
  <1>2. lost' = lost \/ (lost < MaxLost /\ lost' = lost + 1)
    BY DEF Answered, Unanswered
  <1>3. GroupsInv'
    BY <1>2, LostKept DEF StreamsInv
  <1> QED BY <1>1, <1>3 DEF StreamsInv, StreamsType, Lists, gvars, table

LEMMA GroupedKept == ASSUME StreamsInv, NEW r \in Caller, Grouped(r) PROVE StreamsInv'
  <1>1. GroupsInv' /\ UNCHANGED <<mapping, groups, past, ens, pass, cdn, slist, rows, begun, torn>>
    BY SameGroups DEF Grouped
  <1>2. CdnMoves /\ SlistMoves /\ RowsMove
    BY <1>1 DEF CdnMoves, SlistMoves, RowsMove
  <1>3. ops[r].kind \in {"create", "update"} /\ ens[r].pc \in Calm
    BY DEF Grouped, At, Calm, StreamsInv, StreamsType, OpRecord, OpsInv, OpForm
  <1>4. CASE At(r, "done") /\ Now(r, "send") /\ UNCHANGED lock
    BY <1>1, <1>2, <1>3, <1>4, GoesOnKept DEF At, StreamsInv, StreamsType
  <1>5. CASE At(r, "failed") /\ Finished(r)
    BY <1>1, <1>2, <1>3, <1>5, FinishedKept DEF StreamsInv, StreamsType
  <1> QED BY <1>4, <1>5 DEF Grouped

LEMMA SendKept ==
  ASSUME StreamsInv, NEW r \in Caller, SendCreate(r) \/ SendUpdate(r) \/ SendDelete(r)
  PROVE  StreamsInv'
  <1>1. /\ UNCHANGED <<gvars, rows, pass, begun>> /\ ens[r].pc \in Calm /\ ops[r].s \in Stream /\ ops[r] \in OpRecord
        /\ ops[r].kind \in {"create", "update", "delete"}
    BY DEF SendCreate, SendUpdate, SendDelete, Doing, StreamsInv, OpsInv, OpForm, StreamsType
  <1>2. RowsMove /\ rows' \in [Stream -> Rows \cup {None}]
    BY <1>1 DEF RowsMove, StreamsInv, StreamsType
  <1>3. cdn \in [Stream -> Config \cup {None}] /\ torn \in SUBSET Stream /\ slist \in Lists
    BY DEF StreamsInv, StreamsType
  <1>4. CASE SendCreate(r) \/ SendUpdate(r)
    <2>1. /\ ens[r].pc = "done" /\ mapping.name = "new" /\ ens[r].got = mapping.id /\ mapping.id \in Gid
          /\ ops[r].in \in Inputs /\ (ops[r].kind = "create" => ops[r].in.on # None /\ ops[r].in.ports # None)
      BY <1>4, GroupsAssumption DEF SendCreate, SendUpdate, Doing, StreamsInv, OpsInv, OpForm, Grouping, GroupsInv, Caller
    <2>2. PICK next \in [Stream -> Config \cup {None}] :
            /\ \A s \in Stream : next[s] = cdn[s] \/ next[s].group = mapping.id
            /\ next[ops[r].s] # None => next[ops[r].s].group = mapping.id
            /\ \/ Answered(next) /\ Now(r, "save") /\ UNCHANGED <<lock, torn>>
               \/ Finished(r) /\ UNCHANGED <<cdn, slist, lost, torn>>
               \/ Unanswered(next) /\ Finished(r) /\ torn' = torn \cup {ops[r].s}
      <3>1. CASE SendCreate(r)
        <4> DEFINE v == [group |-> ens[r].got, on |-> ops[r].in.on, ports |-> ops[r].in.ports]
                   next == [cdn EXCEPT ![ops[r].s] = v]
        <4>1. v \in Config /\ v.group = mapping.id
          BY <2>1, <3>1 DEF Config, Inputs, SendCreate, Doing
        <4>2. next \in [Stream -> Config \cup {None}] /\ \A s \in Stream : next[s] = cdn[s] \/ next[s].group = mapping.id
          BY <1>1, <1>3, <4>1
        <4>3. next[ops[r].s].group = mapping.id
          BY <1>1, <1>3, <4>1
        <4>4. \/ Answered(next) /\ Now(r, "save") /\ UNCHANGED <<lock, torn>>
              \/ Unanswered(next) /\ Finished(r) /\ torn' = torn \cup {ops[r].s}
          BY <3>1 DEF SendCreate
        <4> QED BY <4>2, <4>3, <4>4
      <3>2. CASE SendUpdate(r)
        <4> DEFINE w == cdn[ops[r].s]
                   v == IF w = None THEN w ELSE [group |-> ens[r].got, on |-> Given(ops[r].in.on, w.on), ports |-> Given(ops[r].in.ports, w.ports)]
                   next == [cdn EXCEPT ![ops[r].s] = v]
        <4>1. v \in Config \cup {None} /\ (v = None => cdn[ops[r].s] = None) /\ (v # None => v.group = mapping.id)
          BY <1>1, <1>3, <2>1, StreamsAssumption DEF Config, Inputs, Given
        <4>5. next = [cdn EXCEPT ![ops[r].s] = v]
          OBVIOUS
        <4>4. \/ Answered(next) /\ Now(r, "save") /\ UNCHANGED <<lock, torn>>
              \/ Finished(r) /\ UNCHANGED <<cdn, slist, lost, torn>>
              \/ Unanswered(next) /\ Finished(r) /\ torn' = torn \cup {ops[r].s}
          BY <3>2 DEF SendUpdate
        <4> HIDE DEF v, next
        <4>2. next \in [Stream -> Config \cup {None}] /\ \A s \in Stream : next[s] = cdn[s] \/ next[s].group = mapping.id
          BY <1>1, <1>3, <4>1, <4>5
        <4>3. next[ops[r].s] # None => next[ops[r].s].group = mapping.id
          BY <1>1, <1>3, <4>1, <4>5
        <4> QED BY <4>2, <4>3, <4>4
      <3> QED BY <1>4, <3>1, <3>2
    <2>3. CASE Answered(next) /\ Now(r, "save") /\ UNCHANGED <<lock, torn>>
      <3>1. /\ cdn' = next /\ cdn' \in [Stream -> Config \cup {None}] /\ slist' \in Lists
            /\ (slist' = None \/ slist' = slist) /\ GroupsInv' /\ UNCHANGED <<mapping, groups, past, ens>>
        BY <1>1, <2>3, SentFacts DEF Answered
      <3>2. CdnMoves /\ SlistMoves
        BY <2>1, <2>2, <3>1 DEF CdnMoves, SlistMoves
      <3>3. ops[r].kind \in {"create", "update"}
        BY <1>4 DEF SendCreate, SendUpdate, Doing
      <3> QED BY <1>1, <1>2, <1>3, <2>1, <2>2, <2>3, <3>1, <3>2, <3>3, GoesOnKept
    <2>4. CASE Finished(r) /\ UNCHANGED <<cdn, slist, lost, torn>>
      <3>1. GroupsInv' /\ UNCHANGED <<mapping, groups, past, ens>>
        BY <1>1, <2>4, SameGroups
      <3>2. CdnMoves /\ SlistMoves
        BY <2>4 DEF CdnMoves, SlistMoves
      <3> QED BY <1>1, <1>2, <1>3, <2>4, <3>1, <3>2, FinishedKept
    <2>5. CASE Unanswered(next) /\ Finished(r) /\ torn' = torn \cup {ops[r].s}
      <3>1. /\ cdn' \in {cdn, next} /\ cdn' \in [Stream -> Config \cup {None}] /\ slist' \in Lists
            /\ (slist' = None \/ slist' = slist) /\ GroupsInv' /\ UNCHANGED <<mapping, groups, past, ens>>
        BY <1>1, <2>5, SentFacts
      <3>2. CdnMoves /\ SlistMoves
        BY <2>1, <2>2, <3>1 DEF CdnMoves, SlistMoves
      <3> QED BY <1>1, <1>2, <1>3, <2>5, <3>1, <3>2, FinishedKept
    <2> QED BY <2>2, <2>3, <2>4, <2>5
  <1>5. CASE SendDelete(r)
    <2> DEFINE next == [cdn EXCEPT ![ops[r].s] = None]
    <2>1. next \in [Stream -> Config \cup {None}] /\ \A s \in Stream : next[s] = cdn[s] \/ next[s] = None
      BY <1>1, <1>3
    <2>2. ops[r].kind = "delete"
      BY <1>5 DEF SendDelete, Doing
    <2>3. \/ Answered(next) /\ Now(r, "save") /\ UNCHANGED <<lock, torn>>
          \/ Finished(r) /\ UNCHANGED <<cdn, slist, lost, torn>>
          \/ Now(r, "gone") /\ UNCHANGED <<cdn, slist, lost, lock, torn>>
          \/ Unanswered(next) /\ Finished(r) /\ torn' = torn \cup {ops[r].s}
      BY <1>5 DEF SendDelete
    <2> HIDE DEF next
    <2>4. CASE Answered(next) /\ Now(r, "save") /\ UNCHANGED <<lock, torn>>
      <3>1. /\ cdn' \in {cdn, next} /\ cdn' \in [Stream -> Config \cup {None}] /\ slist' \in Lists
            /\ (slist' = None \/ slist' = slist) /\ GroupsInv' /\ UNCHANGED <<mapping, groups, past, ens>>
        BY <1>1, <2>1, <2>4, SentFacts
      <3>2. CdnMoves /\ SlistMoves
        BY <2>1, <3>1 DEF CdnMoves, SlistMoves
      <3> QED BY <1>1, <1>2, <1>3, <2>2, <2>4, <3>1, <3>2, GoesOnKept
    <2>5. CASE Finished(r) /\ UNCHANGED <<cdn, slist, lost, torn>>
      <3>1. GroupsInv' /\ UNCHANGED <<mapping, groups, past, ens>>
        BY <1>1, <2>5, SameGroups
      <3>2. CdnMoves /\ SlistMoves
        BY <2>5 DEF CdnMoves, SlistMoves
      <3> QED BY <1>1, <1>2, <1>3, <2>5, <3>1, <3>2, FinishedKept
    <2>6. CASE Now(r, "gone") /\ UNCHANGED <<cdn, slist, lost, lock, torn>>
      <3>1. GroupsInv' /\ UNCHANGED <<mapping, groups, past, ens>>
        BY <1>1, <2>6, SameGroups
      <3>2. CdnMoves /\ SlistMoves
        BY <2>6 DEF CdnMoves, SlistMoves
      <3> QED BY <1>1, <1>2, <1>3, <2>2, <2>6, <3>1, <3>2, GoesOnKept
    <2>7. CASE Unanswered(next) /\ Finished(r) /\ torn' = torn \cup {ops[r].s}
      <3>1. /\ cdn' \in {cdn, next} /\ cdn' \in [Stream -> Config \cup {None}] /\ slist' \in Lists
            /\ (slist' = None \/ slist' = slist) /\ GroupsInv' /\ UNCHANGED <<mapping, groups, past, ens>>
        BY <1>1, <2>1, <2>7, SentFacts
      <3>2. CdnMoves /\ SlistMoves
        BY <2>1, <3>1 DEF CdnMoves, SlistMoves
      <3> QED BY <1>1, <1>2, <1>3, <2>7, <3>1, <3>2, FinishedKept
    <2> QED BY <2>3, <2>4, <2>5, <2>6, <2>7
  <1> QED BY <1>4, <1>5

LEMMA LookUpKept == ASSUME StreamsInv, NEW r \in Caller, LookUp(r) PROVE StreamsInv'
  <1>1. /\ GroupsInv' /\ UNCHANGED <<mapping, groups, past, ens, pass, cdn, rows, begun, torn>>
        /\ ops[r].kind = "delete" /\ ops[r].pc = "gone" /\ ens[r].pc \in Calm
    BY SameGroups DEF LookUp, Doing, StreamsInv, OpsInv
  <1>2. /\ cdn \in [Stream -> Config \cup {None}] /\ torn \in SUBSET Stream /\ rows \in [Stream -> Rows \cup {None}]
        /\ slist' \in Lists /\ SlistMoves
    BY <1>1 DEF LookUp, Cached, StreamsInv, StreamsType, Lists, SlistMoves
  <1>3. CdnMoves /\ RowsMove
    BY <1>1 DEF CdnMoves, RowsMove
  <1>4. (Now(r, "save") /\ UNCHANGED lock) \/ Finished(r)
    BY DEF LookUp
  <1> QED BY <1>1, <1>2, <1>3, <1>4, GoesOnKept, FinishedKept

LEMMA SaveKept == ASSUME StreamsInv, NEW r \in Caller, Save(r) PROVE StreamsInv'
  <1>1. /\ GroupsInv' /\ UNCHANGED <<mapping, groups, past, ens, pass, cdn, slist, begun, torn, lock>>
        /\ ops[r].kind \in {"create", "update"} /\ Writing(ops[r]) /\ ens[r].pc = "done" /\ ops[r].s \in Stream
        /\ ops[r].in \in Inputs /\ (ops[r].kind = "create" => ops[r].in.on # None) /\ (ops[r].kind = "update" => ops[r].prev \in Rows)
        /\ (cdn[ops[r].s] # None => cdn[ops[r].s].group = mapping.id)
    BY SameGroups DEF Save, StreamsInv, StreamsType, OpRecord, OpsInv, OpForm, Writing, Grouping
  <1>2. /\ cdn \in [Stream -> Config \cup {None}] /\ torn \in SUBSET Stream /\ rows \in [Stream -> Rows \cup {None}]
        /\ slist \in Lists
    BY DEF StreamsInv, StreamsType
  <1> DEFINE snap == IF ops[r].kind = "create" THEN ops[r].in.on ELSE Given(ops[r].in.on, ops[r].prev.snap)
             k == rows[ops[r].s]
             v == IF k = None THEN [snap |-> snap, on |-> snap, ports |-> None] ELSE [k EXCEPT !.snap = snap, !.on = snap]
  <1>3. rows' = [rows EXCEPT ![ops[r].s] = v]
    BY DEF Save, Row
  <1>4. snap \in BOOLEAN
    BY <1>1 DEF Given, Inputs, Rows
  <1>5. v \in Rows
    <2> HIDE DEF snap
    <2> QED BY <1>1, <1>2, <1>4 DEF Rows
  <1> HIDE DEF v
  <1>6. rows' \in [Stream -> Rows \cup {None}] /\ RowsMove
    BY <1>1, <1>2, <1>3, <1>5 DEF RowsMove
  <1>7. CdnMoves /\ SlistMoves
    BY <1>1 DEF CdnMoves, SlistMoves
  <1>8. Now(r, "ports") /\ ens[r].pc \in Calm
    BY <1>1 DEF Save, Calm
  <1> QED BY <1>1, <1>2, <1>6, <1>7, <1>8, GoesOnKept

LEMMA SyncPortsKept == ASSUME StreamsInv, NEW r \in Caller, SyncPorts(r) PROVE StreamsInv'
  <1>1. /\ GroupsInv' /\ UNCHANGED <<mapping, groups, past, ens, pass, cdn, slist, begun, torn>>
        /\ Finished(r) /\ ens[r].pc \in Calm /\ ops[r].s \in Stream /\ ops[r].in \in Inputs
    BY SameGroups DEF SyncPorts, StreamsInv, StreamsType, OpRecord, OpsInv, OpForm, Writing, Grouping, Calm
  <1>2. /\ cdn \in [Stream -> Config \cup {None}] /\ torn \in SUBSET Stream /\ rows \in [Stream -> Rows \cup {None}]
        /\ slist \in Lists
    BY DEF StreamsInv, StreamsType
  <1> DEFINE k == rows[ops[r].s]
             v == IF k = None \/ ops[r].in.ports = None THEN k ELSE [k EXCEPT !.ports = ops[r].in.ports]
  <1>3. rows' = [rows EXCEPT ![ops[r].s] = v]
    BY DEF SyncPorts, Counted
  <1>4. v \in Rows \cup {None} /\ (k = None => v = None)
    BY <1>1, <1>2 DEF Rows, Inputs
  <1> HIDE DEF v
  <1>5. rows' \in [Stream -> Rows \cup {None}] /\ RowsMove
    BY <1>1, <1>2, <1>3, <1>4 DEF RowsMove
  <1>6. CdnMoves /\ SlistMoves
    BY <1>1 DEF CdnMoves, SlistMoves
  <1> QED BY <1>1, <1>2, <1>5, <1>6, FinishedKept

LEMMA EndKept == ASSUME StreamsInv, NEW r \in Caller, Remove(r) \/ CutShort(r) PROVE StreamsInv'
  <1>1. /\ GroupsInv' /\ UNCHANGED <<mapping, groups, past, ens, pass, cdn, slist, begun>>
        /\ Finished(r) /\ ens[r].pc \in Calm /\ ops[r].s \in Stream
    BY SameGroups DEF Remove, CutShort, Doing, StreamsInv, StreamsType, OpRecord, OpsInv, OpForm
  <1>2. /\ cdn \in [Stream -> Config \cup {None}] /\ torn \in SUBSET Stream /\ rows \in [Stream -> Rows \cup {None}]
        /\ slist \in Lists
    BY DEF StreamsInv, StreamsType
  <1>3. rows' \in [Stream -> Rows \cup {None}] /\ RowsMove /\ torn' \in SUBSET Stream
    BY <1>1, <1>2 DEF RowsMove, Remove, CutShort
  <1>4. CdnMoves /\ SlistMoves
    BY <1>1 DEF CdnMoves, SlistMoves
  <1> QED BY <1>1, <1>2, <1>3, <1>4, FinishedKept

LEMMA ReadListKept == ASSUME StreamsInv, NEW r \in Caller, ReadList(r) PROVE StreamsInv'
  <1>1. /\ GroupsInv' /\ UNCHANGED <<mapping, groups, past, ens, pass, cdn, rows, lock, begun, torn>>
        /\ ops[r].kind = "refresh" /\ ops[r].pc = "list" /\ ens[r].pc \in Calm /\ ops[r].s = None
    BY SameGroups DEF ReadList, Doing, StreamsInv, OpsInv, OpForm
  <1>2. PICK l \in Cached(slist, cdn) : slist' = l /\ ops' = [ops EXCEPT ![r].list = l, ![r].pc = "records"]
    BY DEF ReadList
  <1>3. l \in Lists /\ l # None /\ SlistMoves
    BY <1>1, <1>2, StreamsAssumption DEF Cached, StreamsInv, StreamsType, Lists, SlistMoves
  <1> DEFINE o == [ops[r] EXCEPT !.list = l, !.pc = "records"]
  <1>4. o \in OpRecord /\ o.pc = "records" /\ o.kind = "refresh" /\ o.list = l /\ o.s = None
    <2>1. ops[r] \in OpRecord /\ l \in Lists
      BY <1>3 DEF StreamsInv, StreamsType
    <2> QED BY <1>1, <2>1 DEF OpRecord
  <1>5. ops' = [ops EXCEPT ![r] = o]
    BY <1>2 DEF StreamsInv, StreamsType
  <1> HIDE DEF o
  <1>6. ops'[r] = o /\ ops' \in [Caller -> OpRecord] /\ \A q \in Caller : q # r => ops'[q] = ops[q]
    BY <1>4, <1>5 DEF StreamsInv, StreamsType
  <1>7. OpForm(o) /\ ~Grouping(o) /\ ~Writing(o)
    BY <1>3, <1>4 DEF OpForm, Grouping, Writing
  <1>8. StreamsType' /\ CdnMoves /\ RowsMove
    BY <1>1, <1>2, <1>3, <1>6 DEF StreamsInv, StreamsType, CdnMoves, RowsMove
  <1> QED BY <1>1, <1>3, <1>4, <1>6, <1>7, <1>8, RequestFrame

LEMMA SaveRecordsKept == ASSUME StreamsInv, NEW r \in Caller, SaveRecords(r) PROVE StreamsInv'
  <1>1. /\ GroupsInv' /\ UNCHANGED <<mapping, groups, past, ens, pass, cdn, slist, begun>>
        /\ Finished(r) /\ ens[r].pc \in Calm /\ ops[r].list # None /\ ops[r].list \in Lists
    BY SameGroups DEF SaveRecords, Doing, StreamsInv, StreamsType, OpRecord, OpsInv, OpForm
  <1>2. /\ cdn \in [Stream -> Config \cup {None}] /\ torn \in SUBSET Stream /\ rows \in [Stream -> Rows \cup {None}]
        /\ slist \in Lists
    BY DEF StreamsInv, StreamsType
  <1> DEFINE l == ops[r].list
             both == {s \in Stream : l[s] # None /\ rows[s] # None}
  <1>3. /\ rows' = [s \in Stream |-> IF s \in both THEN [snap |-> l[s].on, on |-> l[s].on, ports |-> l[s].ports] ELSE rows[s]]
        /\ torn' = torn \ {s \in both : l[s] = cdn[s]}
    BY DEF SaveRecords
  <1>4. l \in [Stream -> Config \cup {None}]
    BY <1>1 DEF Lists
  <1>5. \A s \in both : [snap |-> l[s].on, on |-> l[s].on, ports |-> l[s].ports] \in Rows
    BY <1>4 DEF Config, Rows
  <1>6. rows' \in [Stream -> Rows \cup {None}] /\ RowsMove /\ torn' \in SUBSET Stream
    BY <1>2, <1>3, <1>5 DEF RowsMove
  <1>7. CdnMoves /\ SlistMoves
    BY <1>1 DEF CdnMoves, SlistMoves
  <1> QED BY <1>1, <1>2, <1>6, <1>7, FinishedKept

LEMMA RequestKept == ASSUME StreamsInv, NEW r \in Caller, Request(r) PROVE StreamsInv'
  BY BeginsKept, GroupedKept, SendKept, LookUpKept, SaveKept, SyncPortsKept, EndKept, ReadListKept, SaveRecordsKept
     DEF Request

-----------------------------------------------------------------------------
(* The pass.                                                                *)
LEMMA PassFrame ==
  ASSUME StreamsInv, GroupsInv', StreamsType', UNCHANGED <<mapping, groups, past, ens, ops>>, CdnMoves, PassInv', CleanInv'
  PROVE  StreamsInv'
  <1>1. OpsInv'
    <2> SUFFICES ASSUME NEW q \in Caller
                 PROVE  Writing(ops[q]) /\ cdn'[ops[q].s] # None => cdn'[ops[q].s].group = mapping.id
      BY DEF StreamsInv, OpsInv
    <2>1. Writing(ops[q]) => ops[q].s \in Stream
      BY DEF StreamsInv, OpsInv, OpForm, Writing
    <2> QED BY <2>1 DEF StreamsInv, OpsInv, CdnMoves
  <1> QED BY <1>1 DEF StreamsInv

LEMMA CleanStays ==
  ASSUME StreamsInv, UNCHANGED <<mapping, groups, past>>, CdnMoves, SlistMoves, pass'.pc # "clean"
  PROVE  CleanInv'
  BY DEF CdnMoves, SlistMoves, StreamsInv, CleanInv

LEMMA PassMovesKept ==
  ASSUME StreamsInv, PassBegin \/ PassRead \/ PassDone
  PROVE  StreamsInv'
  <1>1. GroupsInv' /\ UNCHANGED <<mapping, groups, past, ens, cdn, slist, rows, lock, ops, begun, torn>>
    BY SameGroups DEF PassBegin, PassRead, PassDone
  <1>2. CdnMoves /\ SlistMoves
    BY <1>1 DEF CdnMoves, SlistMoves
  <1>3. pass \in PassRecord /\ rows \in [Stream -> Rows \cup {None}]
    BY DEF StreamsInv, StreamsType
  <1>4. CASE PassBegin
    <2>1. pass' = [pass EXCEPT !.pc = "group"] /\ pass' \in PassRecord /\ pass'.pc = "group"
      BY <1>3, <1>4 DEF PassBegin, PassAt, PassRecord
    <2>2. PassInv' /\ StreamsType' /\ CleanInv'
      BY <1>1, <1>2, <2>1, CleanStays DEF PassInv, StreamsType, StreamsInv
    <2> QED BY <1>1, <1>2, <2>2, PassFrame
  <1>5. CASE PassRead /\ At(Pass, "done")
    <2>1. pass' = [pass EXCEPT !.pc = "rows", !.read = rows, !.todo = {s \in Stream : rows[s] # None}]
      BY <1>5 DEF PassRead, At
    <2>2. pass' \in PassRecord /\ pass'.pc = "rows" /\ pass'.read = rows /\ pass'.todo = {s \in Stream : rows[s] # None}
      BY <1>3, <2>1 DEF PassRecord
    <2>3. StreamsType' /\ CleanInv'
      BY <1>1, <1>2, <2>2, CleanStays DEF StreamsType, StreamsInv
    <2>4. PassInv'
      BY <1>1, <1>3, <1>5, <2>2, StreamsAssumption DEF PassInv, At, Calm
    <2> QED BY <1>1, <1>2, <2>3, <2>4, PassFrame
  <1>6. CASE PassRead /\ At(Pass, "failed")
    <2>1. pass' = [pass EXCEPT !.pc = "end", !.errors = TRUE]
      BY <1>6 DEF PassRead, At
    <2>2. pass' \in PassRecord /\ pass'.pc = "end" /\ pass'.errors
      BY <1>3, <2>1 DEF PassRecord
    <2>3. StreamsType' /\ CleanInv'
      BY <1>1, <1>2, <2>2, CleanStays DEF StreamsType, StreamsInv
    <2>4. PassInv'
      BY <1>1, <1>6, <2>2 DEF PassInv, At, Calm
    <2> QED BY <1>1, <1>2, <2>3, <2>4, PassFrame
  <1>7. CASE PassDone
    <2>1. PICK c \in {"end", "refs"} : (c = "refs" => ~pass.errors) /\ pass' = [pass EXCEPT !.pc = c]
      BY <1>7 DEF PassDone, PassAt
    <2>2. pass' \in PassRecord /\ pass'.pc = c /\ pass'.errors = pass.errors /\ pass.pc = "rows" /\ pass.todo = {}
      BY <1>3, <1>7, <2>1 DEF PassRecord, PassDone, OnPass
    <2>3. StreamsType' /\ CleanInv'
      BY <1>1, <1>2, <2>2, CleanStays DEF StreamsType, StreamsInv
    <2>4. PassInv'
      BY <1>1, <2>1, <2>2 DEF PassInv, StreamsInv, Calm
    <2> QED BY <1>1, <1>2, <2>3, <2>4, PassFrame
  <1> QED BY <1>4, <1>5, <1>6, <1>7 DEF PassRead

(* Where the pass is, the group it asked for is the one in use.            *)
LEMMA PassGot ==
  ASSUME StreamsInv, pass.pc \in {"rows", "save", "gone", "refs", "clean"}
  PROVE  ens[Pass].pc = "done" /\ mapping.name = "new" /\ ens[Pass].got = mapping.id /\ mapping.id \in Gid /\ groups[mapping.id] = "new"
  <1>1. ens[Pass].pc = "done"
    BY DEF StreamsInv, PassInv
  <1> QED BY <1>1, StreamsAssumption, GroupsAssumption DEF StreamsInv, GroupsInv

LEMMA PassPutKept == ASSUME StreamsInv, PassPut PROVE StreamsInv'
  <1>1. pass \in PassRecord /\ pass.pc = "rows" /\ cdn \in [Stream -> Config \cup {None}]
    BY DEF StreamsInv, StreamsType, PassPut, OnPass
  <1>2. ens[Pass].pc = "done" /\ mapping.name = "new" /\ ens[Pass].got = mapping.id /\ mapping.id \in Gid
    BY <1>1, PassGot
  <1>3. UNCHANGED <<gvars, rows, lock, ops, begun, torn>>
    BY DEF PassPut
  <1>4. PICK s \in pass.todo, c \in {"save", "gone"}, next \in [Stream -> Config \cup {None}] :
          /\ pass' = [pass EXCEPT !.pc = c, !.s = s, !.todo = @ \ {s}]
          /\ \A q \in Stream : next[q] = cdn[q] \/ next[q].group = mapping.id
          /\ next[s] # None => next[s].group = mapping.id
          /\ \/ Answered(next) /\ c = "save"
             \/ c = "gone" /\ (UNCHANGED <<cdn, slist, lost>> \/ Unanswered(next))
    <2>1. PICK s \in pass.todo :
       LET next == [cdn EXCEPT ![s] = IF @ = None THEN @ ELSE [@ EXCEPT !.group = ens[Pass].got]]
           at(pc) == pass' = [pass EXCEPT !.pc = pc, !.s = s, !.todo = @ \ {s}] IN
         \/ cdn[s] # None /\ Answered(next) /\ at("save")
         \/ cdn[s] = None /\ at("gone") /\ UNCHANGED <<cdn, slist, lost>>
         \/ Unanswered(next) /\ at("gone")
      BY DEF PassPut
    <2> DEFINE v == IF cdn[s] = None THEN cdn[s] ELSE [cdn[s] EXCEPT !.group = ens[Pass].got]
               next == [cdn EXCEPT ![s] = v]
    <2>2. s \in Stream
      BY <1>1 DEF StreamsInv, PassInv
    <2>3. v \in Config \cup {None} /\ (v = None => cdn[s] = None) /\ (v # None => v.group = mapping.id)
      BY <1>1, <1>2, <2>2, StreamsAssumption DEF Config
    <2>4. \E c \in {"save", "gone"} :
            /\ pass' = [pass EXCEPT !.pc = c, !.s = s, !.todo = @ \ {s}]
            /\ \/ Answered(next) /\ c = "save"
               \/ c = "gone" /\ (UNCHANGED <<cdn, slist, lost>> \/ Unanswered(next))
      BY <2>1
    <2>5. next = [cdn EXCEPT ![s] = v]
      OBVIOUS
    <2> HIDE DEF v, next
    <2>6. next \in [Stream -> Config \cup {None}] /\ (next[s] # None => next[s].group = mapping.id)
          /\ \A q \in Stream : next[q] = cdn[q] \/ next[q].group = mapping.id
      BY <1>1, <2>2, <2>3, <2>5
    <2> QED BY <2>4, <2>6
  <1>5. /\ s \in Stream /\ pass.todo \subseteq Stream /\ pass.read[s] # None
        /\ pass.read # None /\ \A q \in pass.todo : pass.read[q] # None
    BY <1>1 DEF StreamsInv, PassInv
  <1>6. /\ pass' \in PassRecord /\ pass'.pc = c /\ pass'.s = s /\ pass'.todo = pass.todo \ {s} /\ pass'.read = pass.read
        /\ pass'.errors = pass.errors
    BY <1>1, <1>4, <1>5 DEF PassRecord
  <1>7. CASE Answered(next) /\ c = "save"
    <2>1. /\ cdn' = next /\ cdn' \in [Stream -> Config \cup {None}] /\ slist' \in Lists
          /\ (slist' = None \/ slist' = slist) /\ GroupsInv' /\ UNCHANGED <<mapping, groups, past, ens>>
      BY <1>3, <1>7, SentFacts DEF Answered
    <2>2. CdnMoves /\ SlistMoves
      BY <1>2, <1>4, <2>1 DEF CdnMoves, SlistMoves
    <2>3. StreamsType' /\ CleanInv'
      BY <1>3, <1>6, <1>7, <2>1, <2>2, CleanStays DEF StreamsInv, StreamsType
    <2>4. PassInv'
      <3>1. ASSUME ~pass.errors, NEW q \in Stream, rows[q] # None, cdn'[q] # None, cdn'[q].group # mapping.id
            PROVE  q \in pass.todo \ {s}
        <4>1. q # s /\ cdn'[q] = cdn[q]
          BY <1>4, <2>1, <3>1
        <4>2. q \in pass.todo
          BY <1>1, <3>1, <4>1 DEF StreamsInv, PassInv
        <4> QED BY <4>1, <4>2
      <3> QED BY <1>2, <1>3, <1>5, <1>6, <1>7, <2>1, <3>1 DEF PassInv, Calm
    <2> QED BY <1>3, <2>1, <2>2, <2>3, <2>4, PassFrame
  <1>8. CASE c = "gone" /\ (UNCHANGED <<cdn, slist, lost>> \/ Unanswered(next))
    <2>1. /\ cdn' \in {cdn, next} /\ cdn' \in [Stream -> Config \cup {None}] /\ slist' \in Lists
          /\ (slist' = None \/ slist' = slist) /\ GroupsInv' /\ UNCHANGED <<mapping, groups, past, ens>>
      <3>1. CASE UNCHANGED <<cdn, slist, lost>>
        BY <1>3, <3>1, SameGroups DEF StreamsInv, StreamsType
      <3>2. CASE Unanswered(next)
        BY <1>3, <3>2, SentFacts
      <3> QED BY <1>8, <3>1, <3>2
    <2>2. CdnMoves /\ SlistMoves
      BY <1>2, <1>4, <2>1 DEF CdnMoves, SlistMoves
    <2>3. StreamsType' /\ CleanInv'
      BY <1>3, <1>6, <1>8, <2>1, <2>2, CleanStays DEF StreamsInv, StreamsType
    <2>4. PassInv'
      <3>1. ASSUME ~pass.errors, NEW q \in Stream, rows[q] # None, cdn'[q] # None, cdn'[q].group # mapping.id
            PROVE  q \in pass.todo \ {s} \/ q = s
        <4>1. cdn'[q] = cdn[q]
          BY <1>4, <2>1, <3>1
        <4>2. q \in pass.todo
          BY <1>1, <3>1, <4>1 DEF StreamsInv, PassInv
        <4> QED BY <4>2
      <3> QED BY <1>2, <1>3, <1>5, <1>6, <1>8, <2>1, <3>1 DEF PassInv, Calm
    <2> QED BY <1>3, <2>1, <2>2, <2>3, <2>4, PassFrame
  <1> QED BY <1>4, <1>7, <1>8

LEMMA PassSaveKept == ASSUME StreamsInv, PassSave PROVE StreamsInv'
  <1>1. pass \in PassRecord /\ pass.pc = "save" /\ pass' = [pass EXCEPT !.pc = "rows"]
    BY DEF StreamsInv, StreamsType, PassSave, OnPass, PassAt
  <1>2. /\ pass' \in PassRecord /\ pass'.pc = "rows" /\ pass'.s = pass.s /\ pass'.todo = pass.todo /\ pass'.read = pass.read
        /\ pass'.errors = pass.errors
    BY <1>1 DEF PassRecord
  <1>3. GroupsInv' /\ UNCHANGED <<mapping, groups, past, ens, cdn, slist, lock, ops, begun>>
    BY SameGroups DEF PassSave
  <1>4. /\ pass.s \in Stream /\ pass.read[pass.s] # None /\ pass.read # None
        /\ rows \in [Stream -> Rows \cup {None}] /\ torn \in SUBSET Stream
    BY <1>1 DEF StreamsInv, StreamsType, PassInv
  <1>5. /\ rows' \in [Stream -> Rows \cup {None}] /\ torn' \in SUBSET Stream
        /\ \A s \in Stream : rows'[s] # None => rows[s] # None
    <2>1. CASE rows[pass.s] = None
      BY <1>4, <2>1 DEF PassSave
    <2>2. CASE rows[pass.s] # None
      <3> DEFINE v == [rows[pass.s] EXCEPT !.snap = pass.read[pass.s].snap]
      <3>1. pass.read \in [Stream -> Rows \cup {None}]
        BY <1>1, <1>4 DEF PassRecord
      <3>2. v \in Rows
        BY <1>4, <2>2, <3>1 DEF Rows
      <3>3. rows' = [rows EXCEPT ![pass.s] = v]
        BY <1>4, <2>2 DEF PassSave
      <3> HIDE DEF v
      <3>4. torn' \in SUBSET Stream
        BY <1>4, <2>2 DEF PassSave
      <3> QED BY <1>4, <2>2, <3>2, <3>3, <3>4
    <2> QED BY <2>1, <2>2
  <1>6. CdnMoves /\ SlistMoves
    BY <1>3 DEF CdnMoves, SlistMoves
  <1>7. StreamsType' /\ CleanInv'
    BY <1>2, <1>3, <1>5, <1>6, CleanStays DEF StreamsInv, StreamsType
  <1>8. PassInv'
    BY <1>1, <1>2, <1>3, <1>5 DEF StreamsInv, PassInv
  <1> QED BY <1>3, <1>6, <1>7, <1>8, PassFrame

LEMMA PassGoneKept == ASSUME StreamsInv, PassGone PROVE StreamsInv'
  <1>1. pass \in PassRecord /\ pass.pc = "gone" /\ pass.s \in Stream /\ rows \in [Stream -> Rows \cup {None}]
    BY DEF StreamsInv, StreamsType, PassGone, OnPass, PassInv
  <1>2. GroupsInv' /\ UNCHANGED <<mapping, groups, past, ens, cdn, lock, ops, begun, torn>>
    BY SameGroups DEF PassGone
  <1>3. PICK l \in Cached(slist, cdn) :
          /\ slist' = l
          /\ \/ rows' = [rows EXCEPT ![pass.s] = None] /\ pass' = [pass EXCEPT !.pc = "rows"]
             \/ pass' = [pass EXCEPT !.pc = "rows", !.errors = TRUE] /\ UNCHANGED rows
    BY DEF PassGone, PassAt, StillThere
  <1>4. slist' \in Lists /\ SlistMoves /\ CdnMoves
    BY <1>2, <1>3 DEF Cached, StreamsInv, StreamsType, Lists, SlistMoves, CdnMoves
  <1>5. /\ pass' \in PassRecord /\ pass'.pc = "rows" /\ pass'.todo = pass.todo /\ pass'.read = pass.read
        /\ rows' \in [Stream -> Rows \cup {None}]
        /\ \/ pass'.errors
           \/ pass'.errors = pass.errors /\ rows' = [rows EXCEPT ![pass.s] = None]
    BY <1>1, <1>3 DEF PassRecord
  <1>6. StreamsType' /\ CleanInv'
    BY <1>2, <1>4, <1>5, CleanStays DEF StreamsInv, StreamsType
  <1>7. PassInv'
    BY <1>1, <1>2, <1>5 DEF StreamsInv, PassInv
  <1> QED BY <1>2, <1>4, <1>6, <1>7, PassFrame

LEMMA PassRefsKept == ASSUME StreamsInv, PassRefs PROVE StreamsInv'
  <1>1. pass \in PassRecord /\ pass.pc = "refs" /\ ens[Pass].got = mapping.id /\ mapping.name = "new"
    BY PassGot DEF StreamsInv, StreamsType, PassRefs, OnPass
  <1>2. GroupsInv' /\ UNCHANGED <<mapping, groups, past, ens, cdn, rows, lock, ops, begun, torn>>
    BY SameGroups DEF PassRefs
  <1>3. PICK l \in Cached(slist, cdn) :
          /\ slist' = l
          /\ pass' = [pass EXCEPT !.pc = "clean", !.todo = {g \in Gid : past[g] = "superseded"} \ (Referenced(l) \cup {ens[Pass].got})]
    BY DEF PassRefs
  <1>4. slist' \in Lists /\ SlistMoves /\ CdnMoves
    BY <1>2, <1>3 DEF Cached, StreamsInv, StreamsType, Lists, SlistMoves, CdnMoves
  <1>5. /\ pass' \in PassRecord /\ pass'.pc = "clean" /\ pass'.errors = pass.errors
        /\ pass'.todo = {g \in Gid : past[g] = "superseded"} \ (Referenced(l) \cup {ens[Pass].got})
    BY <1>1, <1>3 DEF PassRecord
  <1>6. StreamsType'
    BY <1>2, <1>4, <1>5 DEF StreamsInv, StreamsType
  <1>7. PassInv'
    BY <1>1, <1>2, <1>5 DEF StreamsInv, PassInv
  <1>8. \A s \in Stream : cdn[s] # None /\ cdn[s].group # mapping.id => l[s] # None /\ l[s].group = cdn[s].group
    BY <1>3 DEF Cached, StreamsInv, CleanInv
  <1>9. CleanInv'
    <2>1. ASSUME NEW g \in pass'.todo
          PROVE  g \in Gid /\ past[g] # "never" /\ \A s \in Stream : cdn[s] # None => cdn[s].group # g
      <3>1. g \in Gid /\ past[g] = "superseded" /\ g \notin Referenced(l) /\ g # mapping.id
        BY <1>1, <1>5, <2>1
      <3> QED BY <1>8, <3>1 DEF Referenced
    <2>2. ASSUME slist' # None, NEW s \in Stream, cdn[s] # None, cdn[s].group # mapping.id
          PROVE  slist'[s] # None /\ slist'[s].group = cdn[s].group
      BY <1>3, <1>8, <2>2
    <2> QED BY <1>1, <1>2, <2>1, <2>2 DEF CleanInv
  <1> QED BY <1>2, <1>4, <1>6, <1>7, <1>9, PassFrame

LEMMA PassCleanKept == ASSUME StreamsInv, PassClean PROVE StreamsInv'
  <1>1. pass \in PassRecord /\ pass.pc = "clean" /\ mapping.id \in Gid /\ mapping.name = "new" /\ groups[mapping.id] = "new"
    BY PassGot DEF StreamsInv, StreamsType, PassClean, OnPass
  <1>2. UNCHANGED <<mapping, holder, ens, lost, cdn, slist, rows, lock, ops, begun, torn>>
    BY DEF PassClean
  <1>3. CdnMoves /\ SlistMoves
    BY <1>2 DEF CdnMoves, SlistMoves
  <1>4. CASE pass.todo = {}
    <2>1. pass' = [pass EXCEPT !.pc = "end"] /\ UNCHANGED <<groups, glist, past>>
      BY <1>4 DEF PassClean, PassAt
    <2>2. pass' \in PassRecord /\ pass'.pc = "end" /\ pass'.errors = pass.errors
      BY <1>1, <2>1 DEF PassRecord
    <2>3. GroupsInv' /\ UNCHANGED <<mapping, groups, past, ens>>
      BY <1>2, <2>1, SameGroups DEF gvars, table
    <2>4. StreamsType' /\ CleanInv'
      BY <1>2, <1>3, <2>1, <2>2, CleanStays DEF StreamsInv, StreamsType
    <2>5. PassInv'
      BY <1>1, <1>2, <2>2 DEF StreamsInv, PassInv, Calm
    <2> QED BY <1>2, <1>3, <2>3, <2>4, <2>5, PassFrame
  <1>5. CASE pass.todo # {}
    <2>1. PICK g \in pass.todo :
            /\ groups' = [groups EXCEPT ![g] = None] /\ glist' = None
            /\ past' = [past EXCEPT ![g] = "cleaned"] /\ pass' = [pass EXCEPT !.todo = @ \ {g}]
      BY <1>5 DEF PassClean, Invalidated
    <2>2. g \in Gid /\ past[g] # "never" /\ groups[g] # "new" /\ g # mapping.id
      BY <1>1, <2>1 DEF StreamsInv, CleanInv, GroupsInv
    <2>3. /\ pass' \in PassRecord /\ pass'.pc = "clean" /\ pass'.errors = pass.errors /\ pass'.todo = pass.todo \ {g}
      BY <1>1, <2>1 DEF PassRecord
    <2>4. /\ groups' \in [Gid -> {"old", "new", None}] /\ past' \in [Gid -> {"never", "superseded", "cleaned"}]
          /\ \A q \in Gid : groups'[q] = "new" <=> groups[q] = "new"
          /\ \A q \in Gid : past'[q] = "never" <=> past[q] = "never"
          /\ groups'[mapping.id] = groups[mapping.id]
      BY <1>1, <2>1, <2>2, GroupsAssumption DEF StreamsInv, GroupsInv, GroupsTypeOK
    <2>5. Named' = Named
      BY <2>4 DEF Named
    <2>6. GroupsInv'
      <3>1. GroupsTypeOK'
        BY <1>2, <2>1, <2>4 DEF StreamsInv, GroupsInv, GroupsTypeOK
      <3>2. ASSUME NEW q \in Req
            PROVE  /\ (holder' = q) <=> (ens'[q].pc \in Holding)
                   /\ ens'[q].pc \in Holding => mapping'.name # "new"
                   /\ ens'[q].pc \in {"save", "set"} => ens'[q].got \in Gid /\ groups'[ens'[q].got] = "new"
                   /\ ens'[q].pc = "done" => mapping'.name = "new" /\ ens'[q].got = mapping'.id
                   /\ ens'[q].pc = "post" => Cardinality(Named') <= lost'
        BY <1>2, <2>4, <2>5 DEF StreamsInv, GroupsInv
      <3>3. /\ mapping'.name = None => mapping'.id = None
            /\ mapping'.name # None => mapping'.id \in Gid /\ groups'[mapping'.id] = mapping'.name
            /\ \A q \in Gid : past'[q] # "never" => groups'[q] # "new"
            /\ glist' = None
        BY <1>2, <2>1, <2>4 DEF StreamsInv, GroupsInv
      <3>4. GroupsFew'
        BY <1>2, <2>5 DEF StreamsInv, GroupsInv, GroupsFew
      <3> QED BY <3>1, <3>2, <3>3, <3>4 DEF GroupsInv
    <2>7. StreamsType'
      BY <1>2, <2>3 DEF StreamsInv, StreamsType
    <2>8. PassInv'
      BY <1>1, <1>2, <2>3 DEF StreamsInv, PassInv
    <2>9. CleanInv'
      BY <1>1, <1>2, <2>3, <2>4 DEF StreamsInv, CleanInv
    <2>10. OpsInv'
      BY <1>2 DEF StreamsInv, OpsInv
    <2> QED BY <2>6, <2>7, <2>8, <2>9, <2>10 DEF StreamsInv
  <1> QED BY <1>4, <1>5

LEMMA PassesKept == ASSUME StreamsInv, Passes PROVE StreamsInv'
  BY PassMovesKept, PassPutKept, PassSaveKept, PassGoneKept, PassRefsKept, PassCleanKept DEF Passes

-----------------------------------------------------------------------------
LEMMA GroupsStart == ASSUME GroupsInit PROVE GroupsInv
  <1>1. /\ groups \in [Gid -> {"old", "new", None}] /\ \A g \in Gid : groups[g] # "new"
    BY GroupsAssumption DEF GroupsInit
  <1>2. /\ mapping \in [id : Gid \cup {None}, name : {"old", "new", None}]
        /\ mapping.name = None => mapping.id = None
        /\ mapping.name # None => mapping.id \in Gid /\ groups[mapping.id] = mapping.name
    <2>1. CASE \E g \in Gid : groups[g] = "old"
      <3> DEFINE g == CHOOSE q \in Gid : groups[q] = "old"
      <3>1. g \in Gid /\ groups[g] = "old"
        BY <2>1
      <3>2. mapping = [id |-> g, name |-> "old"]
        BY <2>1 DEF GroupsInit
      <3> HIDE DEF g
      <3> QED BY <3>1, <3>2, GroupsAssumption
    <2>2. CASE ~\E g \in Gid : groups[g] = "old"
      BY <2>2 DEF GroupsInit, NoGroup
    <2> QED BY <2>1, <2>2
  <1>3. /\ glist = None /\ past = [g \in Gid |-> "never"] /\ holder = None /\ lost = 0
        /\ ens = [r \in Req |-> [pc |-> "idle", got |-> None]]
    BY DEF GroupsInit
  <1>4. GroupsTypeOK
    BY <1>1, <1>2, <1>3, GroupsAssumption DEF GroupsTypeOK
  <1>5. GroupsFew
    <2>1. Named = {}
      BY <1>1 DEF Named
    <2> QED BY <1>3, <2>1, FS_EmptySet DEF GroupsFew
  <1>6. ASSUME NEW r \in Req PROVE holder # r /\ ens[r].pc = "idle"
    BY <1>3, <1>6, GroupsAssumption
  <1> QED BY <1>1, <1>2, <1>3, <1>4, <1>5, <1>6 DEF GroupsInv, Holding

LEMMA StreamsStart == ASSUME Init PROVE StreamsInv /\ AloneInv /\ ServedInv
  <1>1. GroupsInv
    BY GroupsStart DEF Init
  <1>2. PICK n \in SUBSET Stream, v \in Ports, k \in SUBSET Stream :
          /\ k \subseteq n
          /\ n # {} => mapping.id # None
          /\ cdn = [s \in Stream |-> IF s \in n THEN [group |-> mapping.id, on |-> TRUE, ports |-> v] ELSE None]
          /\ rows = [s \in Stream |-> IF s \in k THEN [snap |-> TRUE, on |-> TRUE, ports |-> cdn[s].ports] ELSE None]
          /\ torn = n \ k
    BY DEF Init
  <1>3. /\ slist = None /\ lock = None /\ ops = [r \in Caller |-> Idle] /\ begun = 0
        /\ pass = [pc |-> "start", read |-> None, todo |-> {}, s |-> None, errors |-> FALSE]
    BY DEF Init
  <1>4. mapping.id \in Gid \cup {None} /\ \A r \in Req : ens[r].pc = "idle"
    BY <1>1 DEF Init, GroupsInit, GroupsInv, GroupsTypeOK
  <1>5. ASSUME NEW s \in Stream
        PROVE  /\ cdn[s] \in Config \cup {None} /\ rows[s] \in Rows \cup {None}
               /\ cdn[s] # None /\ s \notin torn =>
                    rows[s] # None /\ rows[s].snap = cdn[s].on /\ rows[s].on = cdn[s].on /\ rows[s].ports = cdn[s].ports
    <2>1. cdn[s] = IF s \in n THEN [group |-> mapping.id, on |-> TRUE, ports |-> v] ELSE None
      BY <1>2
    <2>2. rows[s] = IF s \in k THEN [snap |-> TRUE, on |-> TRUE, ports |-> cdn[s].ports] ELSE None
      BY <1>2
    <2>3. [group |-> mapping.id, on |-> TRUE, ports |-> v] \in Config /\ [snap |-> TRUE, on |-> TRUE, ports |-> v] \in Rows
      BY <1>4 DEF Config, Rows
    <2>4. CASE s \in k
      BY <1>2, <2>1, <2>2, <2>3, <2>4, StreamsAssumption
    <2>5. CASE s \notin k
      BY <1>2, <2>1, <2>2, <2>3, <2>5, StreamsAssumption
    <2> QED BY <2>4, <2>5
  <1>6. StreamsType
    <2>1. Idle \in OpRecord
      BY DEF Idle, OpRecord, Lists
    <2>2. cdn \in [Stream -> Config \cup {None}] /\ rows \in [Stream -> Rows \cup {None}] /\ torn \in SUBSET Stream
      BY <1>2, <1>5
    <2> QED BY <1>3, <2>1, <2>2, StreamsAssumption DEF StreamsType, Lists, PassRecord
  <1>7. \A r \in Caller : ops[r] = Idle /\ ens[r].pc = "idle" /\ lock # r
    BY <1>3, <1>4, GroupsAssumption DEF Caller
  <1>8. OpForm(Idle) /\ ~Grouping(Idle) /\ ~Writing(Idle)
    BY DEF OpForm, Grouping, Writing, Idle
  <1>9. OpsInv
    BY <1>7, <1>8 DEF OpsInv, Calm
  <1>10. PassInv /\ CleanInv
    BY <1>3, <1>4, StreamsAssumption DEF PassInv, CleanInv, Calm
  <1>11. AloneInv
    BY <1>7 DEF AloneInv, OpAlone, Idle
  <1>12. ServedInv
    BY <1>3, <1>5 DEF ServedInv
  <1> QED BY <1>1, <1>6, <1>9, <1>10, <1>11, <1>12 DEF StreamsInv

LEMMA StreamsStays == ASSUME StreamsInv, UNCHANGED vars PROVE StreamsInv'
  <1>1. GroupsInv' /\ UNCHANGED <<mapping, groups, past, ens>>
    BY SameGroups DEF vars
  <1>2. UNCHANGED <<cdn, slist, rows, lock, ops, pass, begun, torn>>
    BY DEF vars
  <1>3. CdnMoves /\ SlistMoves
    BY <1>2 DEF CdnMoves, SlistMoves
  <1>4. StreamsType' /\ PassInv' /\ CleanInv'
    BY <1>1, <1>2 DEF StreamsInv, StreamsType, PassInv, CleanInv
  <1> QED BY <1>1, <1>2, <1>3, <1>4, PassFrame

LEMMA StreamsKept == ASSUME StreamsInv, [Next]_vars PROVE StreamsInv'
  BY StreamsStays, EnsuringKept, RequestKept, PassesKept DEF Next

LEMMA StreamsInvariance == MCSpec => []StreamsInv
  <1>1. MCInit => StreamsInv
    BY StreamsStart DEF MCInit
  <1>2. StreamsInv /\ [MCNext]_<<caching, vars, cache>> => StreamsInv'
    <2>1. [MCNext]_<<caching, vars, cache>> => [Next]_vars
      BY DEF MCNext
    <2> QED BY <2>1, StreamsKept
  <1> QED BY <1>1, <1>2, PTL DEF MCSpec

-----------------------------------------------------------------------------
(* One request at a time: what is billed.                                   *)
LEMMA BilledFrame ==
  ASSUME StreamsInv, AloneInv, ServedInv, NEW r \in Caller, ops[r].kind # "none" \/ lock = None,
         \A q \in Caller : q # r => ops'[q] = ops[q],
         lock' \in {r, None}, lock' = r <=> ops'[r].kind # "none",
         OpAlone(ops'[r], cdn', rows', slist', torn'),
         \A s \in Stream : s \notin torn' /\ cdn'[s] # None /\ ~(Writing(ops'[r]) /\ ops'[r].s = s) =>
           rows'[s] # None /\ rows'[s].snap = cdn'[s].on /\ rows'[s].on = cdn'[s].on /\ rows'[s].ports = cdn'[s].ports,
         slist' # None => \A s \in Stream :
           /\ s \notin torn' => Alike(slist'[s], cdn'[s])
           /\ slist'[s] = None /\ cdn'[s] # None => rows'[s] = None /\ s \in torn' /\ ops'[r].s # s
  PROVE  AloneInv' /\ ServedInv'
  <1>1. ASSUME NEW q \in Caller, q # r PROVE ops'[q] = Idle /\ lock' # q
    <2>1. ops[q].kind = "none"
      BY <1>1, GroupsAssumption DEF AloneInv, Caller
    <2>2. ops[q] = Idle
      BY <2>1 DEF StreamsInv, OpsInv, OpForm
    <2> QED BY <1>1, <2>2, GroupsAssumption DEF Caller
  <1>2. AloneInv'
    <2> SUFFICES ASSUME NEW q \in Caller
                 PROVE  (lock' = q <=> ops'[q].kind # "none") /\ OpAlone(ops'[q], cdn', rows', slist', torn')
      BY DEF AloneInv
    <2>1. CASE q = r
      BY <2>1
    <2>2. CASE q # r
      BY <1>1, <2>2 DEF OpAlone, Idle
    <2> QED BY <2>1, <2>2
  <1>3. ServedInv'
    <2>1. ASSUME NEW s \in Stream \ torn', cdn'[s] # None, \A q \in Caller : Writing(ops'[q]) => ops'[q].s # s
          PROVE  rows'[s] # None /\ rows'[s].snap = cdn'[s].on /\ rows'[s].on = cdn'[s].on /\ rows'[s].ports = cdn'[s].ports
      BY <2>1
    <2>2. ASSUME slist' # None, NEW s \in Stream, slist'[s] = None, cdn'[s] # None
          PROVE  rows'[s] = None /\ s \in torn' /\ \A q \in Caller : ops'[q].s # s
      <3>1. ASSUME NEW q \in Caller PROVE ops'[q].s # s
        <4>1. CASE q = r
          BY <2>2, <4>1
        <4>2. CASE q # r
          BY <1>1, <4>2, StreamsAssumption DEF Idle
        <4> QED BY <4>1, <4>2
      <3> QED BY <2>2, <3>1
    <2> QED BY <2>1, <2>2 DEF ServedInv
  <1> QED BY <1>2, <1>3

(* What the request that has the lock may rely on.                         *)
LEMMA BilledFacts ==
  ASSUME StreamsInv, AloneInv, ServedInv, NEW r \in Caller, ops[r].kind # "none" \/ lock = None
  PROVE  /\ OpAlone(ops[r], cdn, rows, slist, torn) /\ (ops[r].kind # "none" => lock = r)
         /\ \A s \in Stream : s \notin torn /\ cdn[s] # None /\ ~(Writing(ops[r]) /\ ops[r].s = s) =>
              rows[s] # None /\ rows[s].snap = cdn[s].on /\ rows[s].on = cdn[s].on /\ rows[s].ports = cdn[s].ports
         /\ slist # None => \A s \in Stream :
              /\ s \notin torn => Alike(slist[s], cdn[s])
              /\ slist[s] = None /\ cdn[s] # None => rows[s] = None /\ s \in torn /\ ops[r].s # s
  <1>1. ASSUME NEW q \in Caller, q # r PROVE ~Writing(ops[q])
    BY <1>1, GroupsAssumption DEF AloneInv, Caller, Writing
  <1>2. OpAlone(ops[r], cdn, rows, slist, torn) /\ (ops[r].kind # "none" => lock = r)
    BY DEF AloneInv
  <1>3. ASSUME NEW s \in Stream, s \notin torn, cdn[s] # None, ~(Writing(ops[r]) /\ ops[r].s = s)
        PROVE  rows[s] # None /\ rows[s].snap = cdn[s].on /\ rows[s].on = cdn[s].on /\ rows[s].ports = cdn[s].ports
    <2>1. \A q \in Caller : Writing(ops[q]) => ops[q].s # s
      BY <1>1, <1>3
    <2> QED BY <1>3, <2>1 DEF ServedInv
  <1> QED BY <1>2, <1>3 DEF ServedInv

LEMMA FinishedBilled ==
  ASSUME StreamsInv, AloneInv, ServedInv, NEW r \in Caller, ops[r].kind # "none", Finished(r),
         \A s \in Stream : s \notin torn' /\ cdn'[s] # None =>
           rows'[s] # None /\ rows'[s].snap = cdn'[s].on /\ rows'[s].on = cdn'[s].on /\ rows'[s].ports = cdn'[s].ports,
         slist' # None => \A s \in Stream :
           /\ s \notin torn' => Alike(slist'[s], cdn'[s])
           /\ slist'[s] = None /\ cdn'[s] # None => rows'[s] = None /\ s \in torn'
  PROVE  AloneInv' /\ ServedInv'
  <1>1. /\ ops'[r] = Idle /\ \A q \in Caller : q # r => ops'[q] = ops[q]
        /\ ~Writing(Idle)
    BY FinishedFacts
  <1>2. lock' = None
    BY BilledFacts DEF Finished, Unlocked
  <1>3. OpAlone(ops'[r], cdn', rows', slist', torn')
    BY <1>1 DEF OpAlone, Idle
  <1>4. r # None /\ ops'[r].s = None /\ ops'[r].kind = "none" /\ None \notin Stream
    BY <1>1, GroupsAssumption, StreamsAssumption DEF Caller, Idle
  <1> QED BY <1>1, <1>2, <1>3, <1>4, BilledFrame

LEMMA BeginsBilled ==
  ASSUME StreamsInv, AloneInv, ServedInv, AdminReq = {}, NEW r \in Caller,
         BeginCreate(r) \/ BeginUpdate(r) \/ BeginDelete(r) \/ BeginRefresh(r)
  PROVE  AloneInv' /\ ServedInv'
  <1>1. lock = None /\ lock' = r /\ ops[r] = Idle /\ UNCHANGED <<cdn, rows, slist, torn>>
    BY DEF BeginCreate, BeginUpdate, BeginDelete, BeginRefresh, RefreshLocked, Locked, Begin
  <1>2. ~Writing(ops[r]) /\ ops \in [Caller -> OpRecord]
    BY <1>1 DEF Writing, Idle, StreamsInv, StreamsType
  <1>3. /\ \A s \in Stream : s \notin torn /\ cdn[s] # None =>
              rows[s] # None /\ rows[s].snap = cdn[s].on /\ rows[s].on = cdn[s].on /\ rows[s].ports = cdn[s].ports
        /\ slist # None => \A s \in Stream :
              /\ s \notin torn => Alike(slist[s], cdn[s])
              /\ slist[s] = None /\ cdn[s] # None => rows[s] = None /\ s \in torn
    BY <1>1, <1>2, BilledFacts
  <1>4. PICK kind \in {"create", "update", "delete", "refresh"}, s \in Stream \cup {None}, in \in Inputs \cup {None}, c \in {"group", "send", "list"} :
          /\ Begin(r, kind, s, in, c)
          /\ kind = "create" => cdn[s] = None /\ rows[s] = None /\ s \notin torn
          /\ kind \in {"update", "delete"} => rows[s] # None /\ s \in Stream
          /\ kind = "refresh" => s = None /\ c = "list"
          /\ kind = "delete" => c = "send"
          /\ kind \in {"create", "update"} => c = "group"
    <2>1. CASE BeginCreate(r)
      <3>1. PICK s \in Stream, on \in BOOLEAN, v \in Ports :
              /\ cdn[s] = None /\ rows[s] = None /\ s \notin torn
              /\ Begin(r, "create", s, [on |-> on, ports |-> v], "group")
        BY <2>1 DEF BeginCreate
      <3>2. [on |-> on, ports |-> v] \in Inputs
        BY DEF Inputs
      <3> QED BY <3>1, <3>2
    <2>2. CASE BeginUpdate(r)
      BY <2>2 DEF BeginUpdate
    <2>3. CASE BeginDelete(r)
      BY <2>3 DEF BeginDelete
    <2>4. CASE BeginRefresh(r)
      BY <2>4 DEF BeginRefresh
    <2> QED BY <2>1, <2>2, <2>3, <2>4
  <1>5. /\ \A q \in Caller : q # r => ops'[q] = ops[q]
        /\ ops'[r] = [kind |-> kind, pc |-> c, s |-> s, in |-> in, prev |-> IF s = None THEN None ELSE rows[s], list |-> None]
    BY <1>1, <1>4, BeginFacts
  <1>6. ops'[r].kind = kind /\ ops'[r].pc = c /\ ops'[r].s = s /\ (s # None => ops'[r].prev = rows[s]) /\ ~Writing(ops'[r])
    BY <1>4, <1>5 DEF Writing
  <1>7. OpAlone(ops'[r], cdn, rows, slist, torn)
    BY <1>3, <1>4, <1>6, StreamsAssumption DEF OpAlone
  <1>8. slist # None => \A q \in Stream : slist[q] = None /\ cdn[q] # None => ops'[r].s # q
    BY <1>3, <1>4, <1>6, StreamsAssumption
  <1>9. ops'[r].kind # "none"
    BY <1>4, <1>6
  <1> QED BY <1>1, <1>3, <1>5, <1>6, <1>7, <1>8, <1>9, BilledFrame

(* A request that goes on: what it has changed, for its stream and others. *)
LEMMA GoesOnBilled ==
  ASSUME StreamsInv, AloneInv, ServedInv, NEW r \in Caller, ops[r].kind # "none", NEW c, Now(r, c), lock' = lock,
         c \in {"send", "save", "ports", "gone"},
         OpAlone(ops'[r], cdn', rows', slist', torn'),
         \A s \in Stream : s \notin torn' /\ cdn'[s] # None /\ ~(Writing(ops'[r]) /\ ops'[r].s = s) =>
           rows'[s] # None /\ rows'[s].snap = cdn'[s].on /\ rows'[s].on = cdn'[s].on /\ rows'[s].ports = cdn'[s].ports,
         slist' # None => \A s \in Stream :
           /\ s \notin torn' => Alike(slist'[s], cdn'[s])
           /\ slist'[s] = None /\ cdn'[s] # None => rows'[s] = None /\ s \in torn' /\ ops[r].s # s
  PROVE  AloneInv' /\ ServedInv'
  <1>1. /\ \A q \in Caller : q # r => ops'[q] = ops[q]
        /\ ops'[r].kind = ops[r].kind /\ ops'[r].s = ops[r].s
    BY NowFacts
  <1>2. lock = r
    BY BilledFacts
  <1> QED BY <1>1, <1>2, BilledFrame

LEMMA GroupedBilled ==
  ASSUME StreamsInv, AloneInv, ServedInv, NEW r \in Caller, Grouped(r)
  PROVE  AloneInv' /\ ServedInv'
  <1>1. UNCHANGED <<cdn, slist, rows, torn>> /\ ops[r].kind \in {"create", "update"} /\ ops[r].pc = "group" /\ ~Writing(ops[r])
    BY DEF Grouped, StreamsInv, StreamsType, OpRecord, OpsInv, OpForm, Writing
  <1>2. /\ OpAlone(ops[r], cdn, rows, slist, torn)
        /\ \A s \in Stream : s \notin torn /\ cdn[s] # None =>
              rows[s] # None /\ rows[s].snap = cdn[s].on /\ rows[s].on = cdn[s].on /\ rows[s].ports = cdn[s].ports
        /\ slist # None => \A s \in Stream :
              /\ s \notin torn => Alike(slist[s], cdn[s])
              /\ slist[s] = None /\ cdn[s] # None => rows[s] = None /\ s \in torn /\ ops[r].s # s
    BY <1>1, BilledFacts
  <1>3. CASE Now(r, "send") /\ UNCHANGED lock
    <2>1. /\ ops'[r].pc = "send" /\ ops'[r].kind = ops[r].kind /\ ops'[r].s = ops[r].s
          /\ ops'[r].in = ops[r].in /\ ops'[r].prev = ops[r].prev
      BY <1>3, NowFacts
    <2>2. OpAlone(ops'[r], cdn, rows, slist, torn) /\ ~Writing(ops'[r])
      BY <1>1, <1>2, <2>1 DEF OpAlone, Writing
    <2> QED BY <1>1, <1>2, <1>3, <2>2, GoesOnBilled
  <1>4. CASE Finished(r)
    BY <1>1, <1>2, <1>4, FinishedBilled
  <1> QED BY <1>3, <1>4 DEF Grouped

LEMMA SendCreateBilled ==
  ASSUME StreamsInv, AloneInv, ServedInv, NEW r \in Caller, SendCreate(r)
  PROVE  AloneInv' /\ ServedInv'
  <1> DEFINE e == ops[r].s
             v == [group |-> ens[r].got, on |-> ops[r].in.on, ports |-> ops[r].in.ports]
             next == [cdn EXCEPT ![e] = v]
  <1>1. /\ UNCHANGED rows /\ ops[r].kind = "create" /\ ops[r].pc = "send" /\ ~Writing(ops[r]) /\ e \in Stream
        /\ ops[r].in \in Inputs /\ ops[r].in.on # None /\ ops[r].in.ports # None /\ cdn \in [Stream -> Config \cup {None}]
    BY DEF SendCreate, Doing, StreamsInv, StreamsType, OpRecord, OpsInv, OpForm, Writing
  <1>2. /\ cdn[e] = None /\ rows[e] = None /\ e \notin torn
        /\ \A s \in Stream : s \notin torn /\ cdn[s] # None =>
              rows[s] # None /\ rows[s].snap = cdn[s].on /\ rows[s].on = cdn[s].on /\ rows[s].ports = cdn[s].ports
        /\ slist # None => \A s \in Stream :
              /\ s \notin torn => Alike(slist[s], cdn[s])
              /\ slist[s] = None /\ cdn[s] # None => rows[s] = None /\ s \in torn /\ e # s
    BY <1>1, BilledFacts DEF OpAlone
  <1>3. /\ \A s \in Stream : s # e => next[s] = cdn[s]
        /\ next[e] # None /\ next[e].on = ops[r].in.on /\ next[e].ports = ops[r].in.ports
    <2>1. v \in Config /\ v.on = ops[r].in.on /\ v.ports = ops[r].in.ports
      <3>1. ens[r].pc = "done"
        BY <1>1 DEF StreamsInv, OpsInv, Grouping
      <3>2. r \in Req
        BY DEF Caller
      <3>3. ens[r].got \in Gid
        BY <3>1, <3>2, GroupsAssumption DEF StreamsInv, GroupsInv
      <3> QED BY <1>1, <3>3 DEF Config, Inputs
    <2> HIDE DEF v
    <2> QED BY <1>1, <2>1, StreamsAssumption
  <1>4. \/ Answered(next) /\ Now(r, "save") /\ UNCHANGED <<lock, torn>>
        \/ Unanswered(next) /\ Finished(r) /\ torn' = torn \cup {e}
    BY DEF SendCreate
  <1> HIDE DEF next
  <1>5. CASE Answered(next) /\ Now(r, "save") /\ UNCHANGED <<lock, torn>>
    <2>1. /\ ops'[r].pc = "save" /\ ops'[r].kind = "create" /\ ops'[r].s = e /\ ops'[r].in = ops[r].in
      BY <1>1, <1>5, NowFacts
    <2>2. cdn' = next /\ slist' = None
      BY <1>5 DEF Answered, Invalidated
    <2>3. OpAlone(ops'[r], cdn', rows', slist', torn')
      BY <1>1, <1>2, <1>3, <1>5, <2>1, <2>2 DEF OpAlone
    <2>4. Writing(ops'[r])
      BY <2>1 DEF Writing
    <2> QED BY <1>1, <1>2, <1>3, <1>5, <2>1, <2>2, <2>3, <2>4, GoesOnBilled
  <1>6. CASE Unanswered(next) /\ Finished(r) /\ torn' = torn \cup {e}
    <2>1. cdn' \in {cdn, next} /\ slist' = slist
      BY <1>6 DEF Unanswered
    <2> QED BY <1>1, <1>2, <1>3, <1>6, <2>1, FinishedBilled
  <1> QED BY <1>4, <1>5, <1>6

LEMMA SendUpdateBilled ==
  ASSUME StreamsInv, AloneInv, ServedInv, NEW r \in Caller, SendUpdate(r)
  PROVE  AloneInv' /\ ServedInv'
  <1> DEFINE e == ops[r].s
             w == cdn[e]
             v == IF w = None THEN w ELSE [group |-> ens[r].got, on |-> Given(ops[r].in.on, w.on), ports |-> Given(ops[r].in.ports, w.ports)]
             next == [cdn EXCEPT ![e] = v]
  <1>1. /\ UNCHANGED rows /\ ops[r].kind = "update" /\ ops[r].pc = "send" /\ ~Writing(ops[r]) /\ e \in Stream
        /\ ops[r].in \in Inputs /\ cdn \in [Stream -> Config \cup {None}]
    BY DEF SendUpdate, Doing, StreamsInv, StreamsType, OpRecord, OpsInv, OpForm, Writing
  <1>2. /\ e \notin torn /\ cdn[e] # None => ops[r].prev.snap = cdn[e].on
        /\ \A s \in Stream : s \notin torn /\ cdn[s] # None =>
              rows[s] # None /\ rows[s].snap = cdn[s].on /\ rows[s].on = cdn[s].on /\ rows[s].ports = cdn[s].ports
        /\ slist # None => \A s \in Stream :
              /\ s \notin torn => Alike(slist[s], cdn[s])
              /\ slist[s] = None /\ cdn[s] # None => rows[s] = None /\ s \in torn /\ e # s
    BY <1>1, BilledFacts DEF OpAlone
  <1>3. /\ \A s \in Stream : s # e => next[s] = cdn[s]
        /\ cdn[e] = None => next[e] = None
        /\ cdn[e] # None => next[e] # None /\ next[e].on = Given(ops[r].in.on, cdn[e].on) /\ next[e].ports = Given(ops[r].in.ports, cdn[e].ports)
    <2>1. w = None => v = None
      OBVIOUS
    <2>2. w # None => v # None /\ v.on = Given(ops[r].in.on, w.on) /\ v.ports = Given(ops[r].in.ports, w.ports)
      <3>1. ens[r].pc = "done"
        BY <1>1 DEF StreamsInv, OpsInv, Grouping
      <3>2. r \in Req
        BY DEF Caller
      <3>3. ens[r].got \in Gid
        BY <3>1, <3>2, GroupsAssumption DEF StreamsInv, GroupsInv
      <3>4. w # None => v \in Config
        BY <1>1, <3>3 DEF Config, Inputs, Given
      <3> QED BY <3>4, StreamsAssumption
    <2> HIDE DEF v
    <2> QED BY <1>1, <2>1, <2>2
  <1>4. \/ cdn[e] # None /\ Answered(next) /\ Now(r, "save") /\ UNCHANGED <<lock, torn>>
        \/ Finished(r) /\ UNCHANGED <<cdn, slist, torn>>
        \/ Unanswered(next) /\ Finished(r) /\ torn' = torn \cup {e}
    BY DEF SendUpdate
  <1> HIDE DEF next, v
  <1>5. CASE cdn[e] # None /\ Answered(next) /\ Now(r, "save") /\ UNCHANGED <<lock, torn>>
    <2>1. /\ ops'[r].pc = "save" /\ ops'[r].kind = "update" /\ ops'[r].s = e /\ ops'[r].in = ops[r].in /\ ops'[r].prev = ops[r].prev
      BY <1>1, <1>5, NowFacts
    <2>2. cdn' = next /\ slist' = None
      BY <1>5 DEF Answered, Invalidated
    <2>3. OpAlone(ops'[r], cdn', rows', slist', torn')
      BY <1>1, <1>2, <1>3, <1>5, <2>1, <2>2 DEF OpAlone
    <2>4. Writing(ops'[r])
      BY <2>1 DEF Writing
    <2> QED BY <1>1, <1>2, <1>3, <1>5, <2>1, <2>2, <2>3, <2>4, GoesOnBilled
  <1>6. CASE Finished(r) /\ UNCHANGED <<cdn, slist, torn>>
    BY <1>1, <1>2, <1>6, FinishedBilled
  <1>7. CASE Unanswered(next) /\ Finished(r) /\ torn' = torn \cup {e}
    <2>1. cdn' \in {cdn, next} /\ slist' = slist
      BY <1>7 DEF Unanswered
    <2> QED BY <1>1, <1>2, <1>3, <1>7, <2>1, FinishedBilled
  <1> QED BY <1>4, <1>5, <1>6, <1>7

LEMMA SendDeleteBilled ==
  ASSUME StreamsInv, AloneInv, ServedInv, NEW r \in Caller, SendDelete(r)
  PROVE  AloneInv' /\ ServedInv'
  <1> DEFINE e == ops[r].s
             next == [cdn EXCEPT ![e] = None]
  <1>1. /\ UNCHANGED rows /\ ops[r].kind = "delete" /\ ops[r].pc = "send" /\ ~Writing(ops[r]) /\ e \in Stream
        /\ cdn \in [Stream -> Config \cup {None}]
    BY DEF SendDelete, Doing, StreamsInv, StreamsType, OpRecord, OpsInv, OpForm, Writing
  <1>2. /\ \A s \in Stream : s \notin torn /\ cdn[s] # None =>
              rows[s] # None /\ rows[s].snap = cdn[s].on /\ rows[s].on = cdn[s].on /\ rows[s].ports = cdn[s].ports
        /\ slist # None => \A s \in Stream :
              /\ s \notin torn => Alike(slist[s], cdn[s])
              /\ slist[s] = None /\ cdn[s] # None => rows[s] = None /\ s \in torn /\ e # s
    BY <1>1, BilledFacts
  <1>3. next[e] = None /\ \A s \in Stream : s # e => next[s] = cdn[s]
    BY <1>1
  <1>4. \/ Answered(next) /\ Now(r, "save") /\ UNCHANGED <<lock, torn>>
        \/ Finished(r) /\ UNCHANGED <<cdn, slist, torn>>
        \/ cdn[e] = None /\ Now(r, "gone") /\ UNCHANGED <<cdn, slist, lock, torn>>
        \/ Unanswered(next) /\ Finished(r) /\ torn' = torn \cup {e}
    BY DEF SendDelete
  <1> HIDE DEF next
  <1>5. CASE Answered(next) /\ Now(r, "save") /\ UNCHANGED <<lock, torn>>
    <2>1. ops'[r].pc = "save" /\ ops'[r].kind = "delete" /\ ops'[r].s = e
      BY <1>1, <1>5, NowFacts
    <2>2. cdn' = next /\ slist' = None
      BY <1>5 DEF Answered, Invalidated
    <2>3. OpAlone(ops'[r], cdn', rows', slist', torn') /\ ~Writing(ops'[r])
      BY <1>3, <2>1, <2>2 DEF OpAlone, Writing
    <2> QED BY <1>1, <1>2, <1>3, <1>5, <2>2, <2>3, GoesOnBilled
  <1>6. CASE Finished(r) /\ UNCHANGED <<cdn, slist, torn>>
    BY <1>1, <1>2, <1>6, FinishedBilled
  <1>7. CASE cdn[e] = None /\ Now(r, "gone") /\ UNCHANGED <<cdn, slist, lock, torn>>
    <2>1. ops'[r].pc = "gone" /\ ops'[r].kind = "delete" /\ ops'[r].s = e
      BY <1>1, <1>7, NowFacts
    <2>2. OpAlone(ops'[r], cdn', rows', slist', torn') /\ ~Writing(ops'[r])
      BY <1>7, <2>1 DEF OpAlone, Writing
    <2> QED BY <1>1, <1>2, <1>7, <2>2, GoesOnBilled
  <1>8. CASE Unanswered(next) /\ Finished(r) /\ torn' = torn \cup {e}
    <2>1. cdn' \in {cdn, next} /\ slist' = slist
      BY <1>8 DEF Unanswered
    <2> QED BY <1>1, <1>2, <1>3, <1>8, <2>1, FinishedBilled
  <1> QED BY <1>4, <1>5, <1>6, <1>7, <1>8

LEMMA LookUpBilled ==
  ASSUME StreamsInv, AloneInv, ServedInv, NEW r \in Caller, LookUp(r)
  PROVE  AloneInv' /\ ServedInv'
  <1>1. /\ UNCHANGED <<cdn, rows, torn>> /\ ops[r].kind = "delete" /\ ops[r].pc = "gone" /\ ~Writing(ops[r])
        /\ slist' \in {cdn, slist}
    BY DEF LookUp, Doing, Writing, Cached
  <1>2. /\ cdn[ops[r].s] = None
        /\ \A s \in Stream : s \notin torn /\ cdn[s] # None =>
              rows[s] # None /\ rows[s].snap = cdn[s].on /\ rows[s].on = cdn[s].on /\ rows[s].ports = cdn[s].ports
        /\ slist # None => \A s \in Stream :
              /\ s \notin torn => Alike(slist[s], cdn[s])
              /\ slist[s] = None /\ cdn[s] # None => rows[s] = None /\ s \in torn /\ ops[r].s # s
    BY <1>1, BilledFacts DEF OpAlone
  <1>3. slist' # None => \A s \in Stream :
              /\ s \notin torn => Alike(slist'[s], cdn[s])
              /\ slist'[s] = None /\ cdn[s] # None => rows[s] = None /\ s \in torn /\ ops[r].s # s
    <2>1. CASE slist' = cdn
      BY <2>1 DEF Alike
    <2>2. CASE slist' = slist
      BY <1>2, <2>2
    <2> QED BY <1>1, <2>1, <2>2
  <1>4. CASE Now(r, "save") /\ UNCHANGED lock
    <2>1. ops'[r].pc = "save" /\ ops'[r].kind = "delete" /\ ops'[r].s = ops[r].s
      BY <1>1, <1>4, NowFacts
    <2>2. OpAlone(ops'[r], cdn', rows', slist', torn') /\ ~Writing(ops'[r])
      BY <1>1, <1>2, <2>1 DEF OpAlone, Writing
    <2> QED BY <1>1, <1>2, <1>3, <1>4, <2>2, GoesOnBilled
  <1>5. CASE Finished(r)
    BY <1>1, <1>2, <1>3, <1>5, FinishedBilled
  <1> QED BY <1>4, <1>5 DEF LookUp

LEMMA SaveBilled ==
  ASSUME StreamsInv, AloneInv, ServedInv, NEW r \in Caller, Save(r)
  PROVE  AloneInv' /\ ServedInv'
  <1> DEFINE e == ops[r].s
             snap == IF ops[r].kind = "create" THEN ops[r].in.on ELSE Given(ops[r].in.on, ops[r].prev.snap)
             k == rows[e]
             v == IF k = None THEN [snap |-> snap, on |-> snap, ports |-> None] ELSE [k EXCEPT !.snap = snap, !.on = snap]
  <1>1. /\ UNCHANGED <<cdn, slist, torn, lock>> /\ ops[r].kind \in {"create", "update"} /\ ops[r].pc = "save" /\ e \in Stream
        /\ ops[r].in \in Inputs /\ (ops[r].kind = "create" => ops[r].in.on # None /\ ops[r].in.ports # None)
        /\ (ops[r].kind = "update" => ops[r].prev \in Rows)
        /\ rows \in [Stream -> Rows \cup {None}] /\ Writing(ops[r]) /\ Now(r, "ports")
    BY DEF Save, StreamsInv, StreamsType, OpRecord, OpsInv, OpForm, Writing
  <1>2. /\ OpAlone(ops[r], cdn, rows, slist, torn)
        /\ \A s \in Stream : s \notin torn /\ cdn[s] # None /\ s # e =>
              rows[s] # None /\ rows[s].snap = cdn[s].on /\ rows[s].on = cdn[s].on /\ rows[s].ports = cdn[s].ports
        /\ slist # None => \A s \in Stream :
              /\ s \notin torn => Alike(slist[s], cdn[s])
              /\ slist[s] = None /\ cdn[s] # None => rows[s] = None /\ s \in torn /\ e # s
    BY <1>1, BilledFacts
  <1>3. rows' = [rows EXCEPT ![e] = v]
    BY DEF Save, Row
  <1>4. snap \in BOOLEAN
    BY <1>1 DEF Given, Inputs, Rows
  <1>5. v # None /\ v.snap = snap /\ v.on = snap /\ (k # None => v.ports = k.ports)
    <2> HIDE DEF snap
    <2>1. v \in Rows /\ v.snap = snap /\ v.on = snap /\ (k # None => v.ports = k.ports)
      BY <1>1, <1>4 DEF Rows
    <2> QED BY <2>1, StreamsAssumption
  <1>6. /\ cdn[e] # None /\ ops[r].kind = "create" => cdn[e].on = snap
        /\ ops[r].kind = "create" => cdn[e] # None /\ cdn[e].ports = ops[r].in.ports
        /\ ops[r].kind = "update" /\ e \notin torn =>
             cdn[e] # None /\ k # None /\ cdn[e].on = snap /\ cdn[e].ports = Given(ops[r].in.ports, k.ports)
    BY <1>1, <1>2 DEF OpAlone
  <1> HIDE DEF v, snap
  <1>7. /\ rows'[e] # None /\ rows'[e].snap = snap /\ rows'[e].on = snap /\ (k # None => rows'[e].ports = k.ports)
        /\ \A s \in Stream : s # e => rows'[s] = rows[s]
    BY <1>1, <1>3, <1>5
  <1>8. /\ ops'[r].pc = "ports" /\ ops'[r].kind = ops[r].kind /\ ops'[r].s = e /\ ops'[r].in = ops[r].in /\ ops'[r].prev = ops[r].prev
    BY <1>1, NowFacts
  <1>9. ops[r].kind = "update" => snap = Given(ops[r].in.on, ops[r].prev.snap)
    BY DEF snap
  <1>11. ops[r].kind = "create" => snap = ops[r].in.on
    BY DEF snap
  <1>10. OpAlone(ops'[r], cdn', rows', slist', torn')
    BY <1>1, <1>6, <1>7, <1>8, <1>9, <1>11 DEF OpAlone
  <1>12. Writing(ops'[r])
    BY <1>1, <1>8 DEF Writing
  <1> QED BY <1>1, <1>2, <1>7, <1>8, <1>10, <1>12, GoesOnBilled

LEMMA SyncPortsBilled ==
  ASSUME StreamsInv, AloneInv, ServedInv, NEW r \in Caller, SyncPorts(r)
  PROVE  AloneInv' /\ ServedInv'
  <1> DEFINE e == ops[r].s
             k == rows[e]
             v == IF k = None \/ ops[r].in.ports = None THEN k ELSE [k EXCEPT !.ports = ops[r].in.ports]
  <1>1. /\ UNCHANGED <<cdn, slist, torn>> /\ ops[r].kind \in {"create", "update"} /\ ops[r].pc = "ports" /\ e \in Stream
        /\ ops[r].in \in Inputs /\ (ops[r].kind = "create" => ops[r].in.ports # None)
        /\ rows \in [Stream -> Rows \cup {None}] /\ Writing(ops[r]) /\ Finished(r)
    BY DEF SyncPorts, StreamsInv, StreamsType, OpRecord, OpsInv, OpForm, Writing
  <1>2. /\ OpAlone(ops[r], cdn, rows, slist, torn)
        /\ \A s \in Stream : s \notin torn /\ cdn[s] # None /\ s # e =>
              rows[s] # None /\ rows[s].snap = cdn[s].on /\ rows[s].on = cdn[s].on /\ rows[s].ports = cdn[s].ports
        /\ slist # None => \A s \in Stream :
              /\ s \notin torn => Alike(slist[s], cdn[s])
              /\ slist[s] = None /\ cdn[s] # None => rows[s] = None /\ s \in torn /\ e # s
    BY <1>1, BilledFacts
  <1>3. rows' = [rows EXCEPT ![e] = v]
    BY DEF SyncPorts, Counted
  <1>4. /\ k = None => v = None
        /\ k # None => v # None /\ v.snap = k.snap /\ v.on = k.on /\ v.ports = Given(ops[r].in.ports, k.ports)
    <2>1. k # None => v \in Rows /\ v.snap = k.snap /\ v.on = k.on /\ v.ports = Given(ops[r].in.ports, k.ports)
      BY <1>1 DEF Rows, Inputs, Given
    <2> QED BY <2>1, StreamsAssumption
  <1> HIDE DEF v
  <1>5. rows'[e] = v /\ \A s \in Stream : s # e => rows'[s] = rows[s]
    BY <1>1, <1>3
  <1>6. e \notin torn /\ cdn[e] # None =>
           rows'[e] # None /\ rows'[e].snap = cdn[e].on /\ rows'[e].on = cdn[e].on /\ rows'[e].ports = cdn[e].ports
    BY <1>1, <1>2, <1>4, <1>5 DEF OpAlone, Given
  <1>7. ops[r].kind # "none"
    BY <1>1
  <1> QED BY <1>1, <1>2, <1>5, <1>6, <1>7, FinishedBilled

LEMMA EndBilled ==
  ASSUME StreamsInv, AloneInv, ServedInv, NEW r \in Caller, Remove(r) \/ CutShort(r)
  PROVE  AloneInv' /\ ServedInv'
  <1> DEFINE e == ops[r].s
  <1>1. /\ UNCHANGED <<cdn, slist>> /\ e \in Stream /\ ops[r].kind # "none" /\ rows \in [Stream -> Rows \cup {None}] /\ Finished(r)
    BY DEF Remove, CutShort, Doing, StreamsInv, StreamsType, OpRecord, OpsInv, OpForm
  <1>2. /\ OpAlone(ops[r], cdn, rows, slist, torn)
        /\ \A s \in Stream : s \notin torn /\ cdn[s] # None /\ s # e =>
              rows[s] # None /\ rows[s].snap = cdn[s].on /\ rows[s].on = cdn[s].on /\ rows[s].ports = cdn[s].ports
        /\ slist # None => \A s \in Stream :
              /\ s \notin torn => Alike(slist[s], cdn[s])
              /\ slist[s] = None /\ cdn[s] # None => rows[s] = None /\ s \in torn /\ e # s
    BY <1>1, BilledFacts
  <1>3. CASE Remove(r)
    <2>1. cdn[e] = None /\ UNCHANGED torn /\ rows' = [rows EXCEPT ![e] = None]
      BY <1>2, <1>3 DEF OpAlone, Remove, Doing
    <2> QED BY <1>1, <1>2, <2>1, FinishedBilled
  <1>4. CASE CutShort(r)
    <2>1. UNCHANGED rows /\ torn' = torn \cup {e}
      BY <1>4 DEF CutShort
    <2> QED BY <1>1, <1>2, <2>1, FinishedBilled
  <1> QED BY <1>3, <1>4

LEMMA ReadListBilled ==
  ASSUME StreamsInv, AloneInv, ServedInv, NEW r \in Caller, ReadList(r)
  PROVE  AloneInv' /\ ServedInv'
  <1>1. /\ UNCHANGED <<cdn, rows, torn, lock>> /\ ops[r].kind = "refresh" /\ ops[r].pc = "list" /\ ~Writing(ops[r]) /\ ops[r].s = None
    BY DEF ReadList, Doing, Writing, StreamsInv, OpsInv, OpForm
  <1>2. /\ lock = r
        /\ \A s \in Stream : s \notin torn /\ cdn[s] # None =>
              rows[s] # None /\ rows[s].snap = cdn[s].on /\ rows[s].on = cdn[s].on /\ rows[s].ports = cdn[s].ports
        /\ slist # None => \A s \in Stream :
              /\ s \notin torn => Alike(slist[s], cdn[s])
              /\ slist[s] = None /\ cdn[s] # None => rows[s] = None /\ s \in torn
    BY <1>1, BilledFacts
  <1>3. PICK l \in Cached(slist, cdn) : slist' = l /\ ops' = [ops EXCEPT ![r].list = l, ![r].pc = "records"]
    BY DEF ReadList
  <1>4. l \in Lists /\ l # None
    BY <1>3, StreamsAssumption DEF Cached, StreamsInv, StreamsType, Lists
  <1>5. \A s \in Stream :
          /\ s \notin torn => Alike(l[s], cdn[s])
          /\ l[s] = None /\ cdn[s] # None => rows[s] = None /\ s \in torn
          /\ Alike(l[s], l[s])
    <2>1. CASE l = cdn
      BY <2>1 DEF Alike
    <2>2. CASE l = slist
      BY <1>2, <1>4, <2>2 DEF Alike
    <2> QED BY <1>3, <2>1, <2>2 DEF Cached
  <1> DEFINE o == [ops[r] EXCEPT !.list = l, !.pc = "records"]
  <1>6. o \in OpRecord /\ o.pc = "records" /\ o.kind = "refresh" /\ o.list = l /\ o.s = None
    <2>1. ops[r] \in OpRecord /\ l \in Lists
      BY <1>4 DEF StreamsInv, StreamsType
    <2> QED BY <1>1, <2>1 DEF OpRecord
  <1>7. ops' = [ops EXCEPT ![r] = o]
    BY <1>3 DEF StreamsInv, StreamsType
  <1> HIDE DEF o
  <1>8. ops'[r] = o /\ \A q \in Caller : q # r => ops'[q] = ops[q]
    BY <1>7 DEF StreamsInv, StreamsType
  <1>9. OpAlone(o, cdn, rows, l, torn) /\ ~Writing(o)
    BY <1>5, <1>6 DEF OpAlone, Writing
  <1>10. ops[r].kind # "none" /\ ops'[r].kind # "none" /\ lock' = r
    BY <1>1, <1>2, <1>6, <1>8
  <1>11. \A s \in Stream : ops'[r].s # s
    BY <1>6, <1>8, StreamsAssumption
  <1> QED BY <1>1, <1>2, <1>3, <1>5, <1>8, <1>9, <1>10, <1>11, BilledFrame

LEMMA SaveRecordsBilled ==
  ASSUME StreamsInv, AloneInv, ServedInv, NEW r \in Caller, SaveRecords(r)
  PROVE  AloneInv' /\ ServedInv'
  <1> DEFINE l == ops[r].list
             both == {s \in Stream : l[s] # None /\ rows[s] # None}
  <1>1. /\ UNCHANGED <<cdn, slist>> /\ ops[r].kind = "refresh" /\ ops[r].pc = "records" /\ ~Writing(ops[r])
        /\ Finished(r) /\ l \in [Stream -> Config \cup {None}] /\ rows \in [Stream -> Rows \cup {None}]
    BY DEF SaveRecords, Doing, Writing, StreamsInv, StreamsType, OpRecord, OpsInv, OpForm, Lists
  <1>2. /\ \A s \in Stream : s \notin torn => Alike(l[s], cdn[s])
        /\ slist # None => \A s \in Stream : Alike(slist[s], l[s]) \/ Alike(slist[s], cdn[s])
        /\ \A s \in Stream : s \notin torn /\ cdn[s] # None =>
              rows[s] # None /\ rows[s].snap = cdn[s].on /\ rows[s].on = cdn[s].on /\ rows[s].ports = cdn[s].ports
        /\ slist # None => \A s \in Stream :
              /\ s \notin torn => Alike(slist[s], cdn[s])
              /\ slist[s] = None /\ cdn[s] # None => rows[s] = None /\ s \in torn
    BY <1>1, BilledFacts DEF OpAlone
  <1>3. /\ rows' = [s \in Stream |-> IF s \in both THEN [snap |-> l[s].on, on |-> l[s].on, ports |-> l[s].ports] ELSE rows[s]]
        /\ torn' = torn \ {s \in both : l[s] = cdn[s]}
    BY DEF SaveRecords
  <1>4. ASSUME NEW s \in Stream, s \notin torn', cdn[s] # None
        PROVE  rows'[s] # None /\ rows'[s].snap = cdn[s].on /\ rows'[s].on = cdn[s].on /\ rows'[s].ports = cdn[s].ports
    <2>1. CASE s \in both
      <3> DEFINE v == [snap |-> l[s].on, on |-> l[s].on, ports |-> l[s].ports]
      <3>1. v \in Rows /\ v.snap = l[s].on /\ v.on = l[s].on /\ v.ports = l[s].ports
        BY <1>1, <2>1 DEF Config, Rows
      <3>2. rows'[s] = v
        BY <1>3, <2>1
      <3>3. Alike(l[s], cdn[s]) /\ l[s] # None
        BY <1>2, <1>3, <1>4, <2>1 DEF Alike
      <3> HIDE DEF v
      <3> QED BY <3>1, <3>2, <3>3, StreamsAssumption DEF Alike
    <2>2. CASE s \notin both
      BY <1>2, <1>3, <1>4, <2>2
    <2> QED BY <2>1, <2>2
  <1>5. ASSUME slist # None, NEW s \in Stream
        PROVE  /\ s \notin torn' => Alike(slist[s], cdn[s])
               /\ slist[s] = None /\ cdn[s] # None => rows'[s] = None /\ s \in torn'
    <2>1. ASSUME s \notin torn' PROVE Alike(slist[s], cdn[s])
      BY <1>2, <1>3, <1>5, <2>1
    <2>2. ASSUME slist[s] = None, cdn[s] # None PROVE rows'[s] = None /\ s \in torn'
      BY <1>2, <1>3, <1>5, <2>2
    <2> QED BY <2>1, <2>2
  <1>6. ops[r].kind # "none"
    BY <1>1
  <1> QED BY <1>1, <1>4, <1>5, <1>6, FinishedBilled

LEMMA RequestBilled ==
  ASSUME StreamsInv, AloneInv, ServedInv, AdminReq = {}, NEW r \in Caller, Request(r)
  PROVE  AloneInv' /\ ServedInv'
  BY BeginsBilled, GroupedBilled, SendCreateBilled, SendUpdateBilled, SendDeleteBilled, LookUpBilled, SaveBilled,
     SyncPortsBilled, EndBilled, ReadListBilled, SaveRecordsBilled
     DEF Request

(* The pass changes no configuration but the group, removes only rows of   *)
(* streams that are gone, and tears what it overwrites.                    *)
LEMMA PassBilledFrame ==
  ASSUME StreamsInv, AloneInv, ServedInv, UNCHANGED <<ops, lock>>,
         cdn' \in [Stream -> Config \cup {None}], \A s \in Stream : Alike(cdn'[s], cdn[s]),
         slist' = None \/ slist' = slist \/ (slist' = cdn /\ cdn' = cdn),
         torn \subseteq torn',
         \A s \in Stream : s \notin torn' => rows'[s] = rows[s] \/ (rows'[s] = None /\ cdn[s] = None),
         \A s \in Stream : rows[s] = None => rows'[s] = None /\ (s \in torn' => s \in torn)
  PROVE  AloneInv' /\ ServedInv'
  <1>1. \A s \in Stream : (cdn'[s] = None <=> cdn[s] = None) /\ (cdn[s] # None => cdn'[s].on = cdn[s].on /\ cdn'[s].ports = cdn[s].ports)
    BY DEF Alike
  <1>2. ASSUME NEW r \in Caller PROVE OpAlone(ops[r], cdn', rows', slist', torn')
    <2>1. OpAlone(ops[r], cdn, rows, slist, torn) /\ OpForm(ops[r])
      BY DEF AloneInv, StreamsInv, OpsInv
    <2>2. CASE ops[r].kind \in {"create", "update"}
      <3>1. ops[r].s \in Stream /\ ops[r].pc \notin {"records", "gone"}
        BY <2>1, <2>2 DEF OpForm
      <3> QED BY <1>1, <2>1, <2>2, <3>1 DEF OpAlone
    <2>3. CASE ops[r].kind = "delete"
      BY <1>1, <2>1, <2>3 DEF OpAlone, OpForm
    <2>4. CASE ops[r].kind = "refresh" /\ ops[r].pc = "records"
      <3>1. \A s \in Stream : s \notin torn' => Alike(ops[r].list[s], cdn'[s])
        BY <1>1, <2>1, <2>4 DEF OpAlone, Alike
      <3>2. slist' # None => \A s \in Stream : Alike(slist'[s], ops[r].list[s]) \/ Alike(slist'[s], cdn'[s])
        <4>1. CASE slist' = slist /\ slist # None
          BY <1>1, <2>1, <2>4, <4>1 DEF OpAlone, Alike
        <4>2. CASE slist' = cdn /\ cdn' = cdn
          BY <4>2 DEF Alike
        <4> QED BY <4>1, <4>2
      <3> QED BY <2>4, <3>1, <3>2 DEF OpAlone
    <2>5. CASE ops[r].kind = "none" \/ (ops[r].kind = "refresh" /\ ops[r].pc # "records")
      BY <2>1, <2>5 DEF OpAlone, OpForm
    <2>6. ops[r].kind \in {"none", "create", "update", "delete", "refresh"}
      BY DEF StreamsInv, StreamsType, OpRecord
    <2> QED BY <2>2, <2>3, <2>4, <2>5, <2>6
  <1>3. AloneInv'
    BY <1>2 DEF AloneInv
  <1>4. ASSUME NEW s \in Stream \ torn', cdn'[s] # None, \A r \in Caller : Writing(ops[r]) => ops[r].s # s
        PROVE  rows'[s] # None /\ rows'[s].snap = cdn'[s].on /\ rows'[s].on = cdn'[s].on /\ rows'[s].ports = cdn'[s].ports
    BY <1>1, <1>4 DEF ServedInv
  <1>5. ASSUME slist' # None, NEW s \in Stream
        PROVE  /\ s \notin torn' => Alike(slist'[s], cdn'[s])
               /\ slist'[s] = None /\ cdn'[s] # None => rows'[s] = None /\ s \in torn' /\ \A r \in Caller : ops[r].s # s
    <2>1. CASE slist' = slist
      BY <1>1, <1>5, <2>1 DEF ServedInv, Alike
    <2>2. CASE slist' = cdn /\ cdn' = cdn
      BY <2>2 DEF Alike
    <2> QED BY <1>5, <2>1, <2>2
  <1>6. ServedInv'
    BY <1>4, <1>5 DEF ServedInv
  <1> QED BY <1>3, <1>6

LEMMA PassesBilled ==
  ASSUME StreamsInv, AloneInv, ServedInv, Passes
  PROVE  AloneInv' /\ ServedInv'
  <1>1. cdn \in [Stream -> Config \cup {None}] /\ rows \in [Stream -> Rows \cup {None}] /\ pass \in PassRecord /\ torn \in SUBSET Stream
    BY DEF StreamsInv, StreamsType
  <1>2. \A s \in Stream : Alike(cdn[s], cdn[s])
    BY DEF Alike
  <1>3. CASE PassBegin \/ PassRead \/ PassDone \/ PassClean
    <2>1. UNCHANGED <<ops, lock, cdn, slist, rows, torn>>
      BY <1>3 DEF PassBegin, PassRead, PassDone, PassClean
    <2> QED BY <1>1, <1>2, <2>1, PassBilledFrame
  <1>4. CASE PassRefs
    <2>1. UNCHANGED <<ops, lock, cdn, rows, torn>> /\ slist' \in {cdn, slist}
      BY <1>4 DEF PassRefs, Cached
    <2> QED BY <1>1, <1>2, <2>1, PassBilledFrame
  <1>5. CASE PassPut
    <2>1. PICK s \in pass.todo :
       LET next == [cdn EXCEPT ![s] = IF @ = None THEN @ ELSE [@ EXCEPT !.group = ens[Pass].got]] IN
         Answered(next) \/ Unanswered(next) \/ UNCHANGED <<cdn, slist>>
      BY <1>5 DEF PassPut
    <2> DEFINE v == IF cdn[s] = None THEN cdn[s] ELSE [cdn[s] EXCEPT !.group = ens[Pass].got]
               next == [cdn EXCEPT ![s] = v]
    <2>2. s \in Stream /\ ens[Pass].got \in Gid
      BY <1>5, <2>1, PassGot DEF StreamsInv, PassInv, PassPut, OnPass
    <2>3. v \in Config \cup {None} /\ Alike(v, cdn[s])
      BY <1>1, <2>2, StreamsAssumption DEF Config, Alike
    <2>4. Answered(next) \/ Unanswered(next) \/ UNCHANGED <<cdn, slist>>
      BY <2>1
    <2>5. next = [cdn EXCEPT ![s] = v]
      OBVIOUS
    <2> HIDE DEF v, next
    <2>6. next \in [Stream -> Config \cup {None}] /\ \A q \in Stream : Alike(next[q], cdn[q])
      BY <1>1, <1>2, <2>2, <2>3, <2>5
    <2>7. cdn' \in {cdn, next} /\ (slist' = None \/ slist' = slist)
      BY <2>4 DEF Answered, Unanswered, Invalidated
    <2>8. UNCHANGED <<ops, lock, rows, torn>>
      BY <1>5 DEF PassPut
    <2> QED BY <1>1, <1>2, <2>6, <2>7, <2>8, PassBilledFrame
  <1>6. CASE PassSave
    <2>1. UNCHANGED <<ops, lock, cdn, slist>> /\ pass.s \in Stream
      BY <1>6 DEF PassSave, StreamsInv, PassInv, OnPass
    <2>2. /\ torn' = torn \/ (torn' = torn \cup {pass.s} /\ rows[pass.s] # None)
          /\ \A s \in Stream : s \notin torn' => rows'[s] = rows[s]
          /\ \A s \in Stream : s # pass.s => rows'[s] = rows[s]
          /\ rows[pass.s] = None => rows' = rows
      <3>1. CASE rows[pass.s] = None
        BY <1>6, <3>1 DEF PassSave
      <3>2. CASE rows[pass.s] # None
        <4>1. /\ rows' = [rows EXCEPT ![pass.s].snap = pass.read[pass.s].snap]
              /\ torn' = IF rows' = rows THEN torn ELSE torn \cup {pass.s}
          BY <1>6, <3>2 DEF PassSave
        <4>2. \A s \in Stream : s # pass.s => rows'[s] = rows[s]
          BY <1>1, <4>1
        <4>3. CASE rows' = rows
          BY <3>2, <4>1, <4>3
        <4>4. CASE rows' # rows
          BY <3>2, <4>1, <4>2, <4>4
        <4> QED BY <4>3, <4>4
      <3> QED BY <3>1, <3>2
    <2> QED BY <1>1, <1>2, <2>1, <2>2, PassBilledFrame
  <1>7. CASE PassGone
    <2>1. UNCHANGED <<ops, lock, cdn, torn>> /\ pass.s \in Stream
      BY <1>7 DEF PassGone, StreamsInv, PassInv, OnPass
    <2>2. PICK l \in Cached(slist, cdn) :
            slist' = l /\ (rows' = rows \/ (l[pass.s] = None /\ rows' = [rows EXCEPT ![pass.s] = None]))
      BY <1>7 DEF PassGone, Absent
    <2>3. slist' = slist \/ slist' = cdn
      BY <2>2 DEF Cached
    <2>4. ASSUME l[pass.s] = None PROVE cdn[pass.s] = None \/ rows[pass.s] = None
      <3>1. CASE l = cdn
        BY <2>4, <3>1
      <3>2. CASE l = slist /\ slist # None
        BY <2>1, <2>4, <3>2 DEF ServedInv
      <3> QED BY <2>2, <3>1, <3>2 DEF Cached
    <2>5. \A s \in Stream : rows'[s] = rows[s] \/ (rows'[s] = None /\ cdn[s] = None)
      BY <1>1, <2>1, <2>2, <2>4
    <2>6. \A s \in Stream : rows[s] = None => rows'[s] = None
      BY <2>5
    <2> QED BY <1>1, <1>2, <2>1, <2>3, <2>5, <2>6, PassBilledFrame
  <1> QED BY <1>3, <1>4, <1>5, <1>6, <1>7 DEF Passes

LEMMA BilledStays == ASSUME AloneInv, ServedInv, UNCHANGED vars PROVE AloneInv' /\ ServedInv'
  <1>1. UNCHANGED <<cdn, slist, rows, lock, ops, torn>>
    BY DEF vars
  <1>2. AloneInv' /\ ServedInv'
    BY <1>1 DEF AloneInv, ServedInv
  <1> QED BY <1>2

LEMMA EnsuringBilled == ASSUME AloneInv, ServedInv, UNCHANGED svars PROVE AloneInv' /\ ServedInv'
  <1>1. UNCHANGED <<cdn, slist, rows, lock, ops, torn>>
    BY DEF svars
  <1>2. AloneInv' /\ ServedInv'
    BY <1>1 DEF AloneInv, ServedInv
  <1> QED BY <1>2

LEMMA BilledKept ==
  ASSUME StreamsInv, AloneInv, ServedInv, AdminReq = {}, [Next]_vars
  PROVE  AloneInv' /\ ServedInv'
  BY BilledStays, EnsuringBilled, EnsuringKept, RequestBilled, PassesBilled DEF Next

LEMMA BilledInvariance == ASSUME AdminReq = {} PROVE MCSpec => [](StreamsInv /\ AloneInv /\ ServedInv)
  <1>1. MCInit => StreamsInv /\ AloneInv /\ ServedInv
    BY StreamsStart DEF MCInit
  <1>2. StreamsInv /\ AloneInv /\ ServedInv /\ [MCNext]_<<caching, vars, cache>> => (StreamsInv /\ AloneInv /\ ServedInv)'
    <2>1. [MCNext]_<<caching, vars, cache>> => [Next]_vars
      BY DEF MCNext
    <2> QED BY <2>1, StreamsKept, BilledKept
  <1> QED BY <1>1, <1>2, PTL DEF MCSpec

LEMMA GroupsAreSound == ASSUME StreamsInv PROVE TypesOK /\ GroupsFew /\ PassGroups
  <1>1. TypesOK
    <2>1. GroupsTypeOK /\ StreamsType
      BY DEF StreamsInv, GroupsInv
    <2>2. \A r \in Caller : ops[r] \in OpRecord
      BY <2>1 DEF StreamsType
    <2>3. pass \in PassRecord
      BY <2>1 DEF StreamsType
    <2> QED BY <2>1, <2>2, <2>3 DEF TypesOK, StreamsType, OpRecord, PassRecord
  <1>2. GroupsFew
    BY DEF StreamsInv, GroupsInv
  <1>3. PassGroups
    BY DEF PassGroups, OnPass, StreamsInv, PassInv
  <1> QED BY <1>1, <1>2, <1>3

(* A customer has one group in use and at most one more for every POST     *)
(* that was not answered, and after a pass without errors every stream of  *)
(* a row is in it: also when administrators write at the same time         *)
(* (customer-groups.js:77, customer-group-reconciliation.js:66).           *)
THEOREM OneGroupInUse == MCSpec => [](TypesOK /\ GroupsFew /\ PassGroups)
  BY StreamsInvariance, GroupsAreSound, PTL

(* When all requests come from the customer, who waits for the lock, what  *)
(* is billed is what is served as well (resource-mutation.js,              *)
(* data-proxy.js:266).                                                     *)
THEOREM StreamsStaySound == ASSUME AdminReq = {} PROVE MCSpec => []StreamsSound
  <1>1. StreamsInv /\ AloneInv /\ ServedInv => StreamsSound
    <2>1. ASSUME ServedInv, \A r \in Caller : ops[r] = Idle, NEW s \in Stream \ torn, cdn[s] # None
          PROVE  rows[s] # None /\ rows[s].on = cdn[s].on /\ rows[s].ports = cdn[s].ports
      <3>1. \A r \in Caller : ~Writing(ops[r])
        BY <2>1 DEF Writing, Idle
      <3> QED BY <2>1, <3>1 DEF ServedInv
    <2>2. ServedInv => BilledFollows
      BY <2>1 DEF BilledFollows
    <2> QED BY <2>2, GroupsAreSound DEF StreamsSound
  <1> QED BY <1>1, BilledInvariance, PTL

-----------------------------------------------------------------------------
(* What a step may not remove.                                              *)
LiveStep == \A s \in Stream : rows[s] # None /\ rows'[s] = None => cdn[s] = None
UsedStep == \A g \in Gid : groups[g] # None /\ groups'[g] = None =>
              g # mapping.id /\ \A s \in Stream : cdn[s] # None => cdn[s].group # g

LEMMA GroupsUsed == ASSUME StreamsInv, [Next]_vars PROVE UsedStep
  <1>1. groups \in [Gid -> {"old", "new", None}]
    BY DEF StreamsInv, GroupsInv, GroupsTypeOK
  <1>2. CASE groups' = groups
    BY <1>2 DEF UsedStep
  <1>3. ASSUME NEW r \in Req, EnsureStep(r) PROVE UsedStep
    <2>1. CASE Post(r)
      <3>1. groups' = groups \/ \E g \in Gid : groups' = [groups EXCEPT ![g] = "new"]
        BY <2>1 DEF Post
      <3>2. CASE groups' # groups
        <4>1. PICK g \in Gid : groups' = [groups EXCEPT ![g] = "new"]
          BY <3>1, <3>2
        <4> QED BY <1>1, <4>1, GroupsAssumption DEF UsedStep
      <3> QED BY <1>2, <3>2
    <2>2. CASE ~Post(r)
      BY <1>2, <1>3, <2>2 DEF EnsureStep, Ensure, Try, Poll, GiveUp, Find, Remember, SetMapping, EnsureFails
    <2> QED BY <2>1, <2>2
  <1>4. CASE PassClean
    <2>1. CASE groups' # groups
      <3>1. PICK g \in pass.todo : groups' = [groups EXCEPT ![g] = None]
        BY <1>4, <2>1 DEF PassClean
      <3>2. pass.pc = "clean" /\ mapping.id \in Gid /\ groups[mapping.id] = "new"
        BY <1>4, PassGot DEF PassClean, OnPass
      <3>3. /\ past[g] # "never" /\ g \in Gid
            /\ \A s \in Stream : cdn[s] # None => cdn[s].group # g
        BY <3>1, <3>2 DEF StreamsInv, CleanInv
      <3>4. g # mapping.id
        BY <3>2, <3>3 DEF StreamsInv, GroupsInv
      <3>5. \A q \in Gid : q # g => groups'[q] = groups[q]
        BY <1>1, <3>1
      <3> QED BY <3>3, <3>4, <3>5 DEF UsedStep
    <2> QED BY <1>2, <2>1
  <1>5. CASE Passes /\ ~PassClean
    BY <1>2, <1>5 DEF Passes, PassBegin, PassRead, PassPut, PassSave, PassGone, PassDone, PassRefs, gvars
  <1>6. CASE \E r \in Caller : Request(r)
    <2>1. groups' = groups
      BY <1>6 DEF Request, BeginCreate, BeginUpdate, BeginDelete, BeginRefresh, Grouped, SendCreate, SendUpdate, SendDelete,
         LookUp, Save, SyncPorts, Remove, CutShort, ReadList, SaveRecords, gvars
    <2> QED BY <1>2, <2>1
  <1>7. CASE Ensuring
    BY <1>3, <1>7, StreamsAssumption DEF Ensuring, Caller
  <1>8. CASE UNCHANGED vars
    BY <1>2, <1>8 DEF vars, gvars
  <1> QED BY <1>4, <1>5, <1>6, <1>7, <1>8 DEF Next

LEMMA RowsLive == ASSUME StreamsInv, AloneInv, ServedInv, [Next]_vars PROVE LiveStep
  <1>1. rows \in [Stream -> Rows \cup {None}]
    BY DEF StreamsInv, StreamsType
  <1>2. CASE rows' = rows
    BY <1>2 DEF LiveStep
  <1>3. ASSUME NEW r \in Caller, Save(r) PROVE LiveStep
    <2> DEFINE e == ops[r].s
               snap == IF ops[r].kind = "create" THEN ops[r].in.on ELSE Given(ops[r].in.on, ops[r].prev.snap)
               v == IF rows[e] = None THEN [snap |-> snap, on |-> snap, ports |-> None] ELSE [rows[e] EXCEPT !.snap = snap, !.on = snap]
    <2>1. rows' = [rows EXCEPT ![e] = v]
      BY <1>3 DEF Save, Row
    <2>2. /\ ops[r].kind \in {"create", "update"} /\ ops[r].in \in Inputs /\ (ops[r].kind = "create" => ops[r].in.on # None)
          /\ (ops[r].kind = "update" => ops[r].prev \in Rows) /\ e \in Stream
      BY <1>3 DEF Save, StreamsInv, StreamsType, OpRecord, OpsInv, OpForm
    <2>3. snap \in BOOLEAN
      BY <2>2 DEF Given, Inputs, Rows
    <2>4. v \in Rows
      <3> HIDE DEF snap
      <3> QED BY <1>1, <2>2, <2>3 DEF Rows
    <2> HIDE DEF v
    <2> QED BY <1>1, <2>1, <2>4, StreamsAssumption DEF LiveStep
  <1>4. ASSUME NEW r \in Caller, SyncPorts(r) PROVE LiveStep
    <2> DEFINE e == ops[r].s
               v == IF rows[e] = None \/ ops[r].in.ports = None THEN rows[e] ELSE [rows[e] EXCEPT !.ports = ops[r].in.ports]
    <2>1. rows' = [rows EXCEPT ![e] = v]
      BY <1>4 DEF SyncPorts, Counted
    <2>2. ops[r].in \in Inputs /\ e \in Stream
      BY <1>4 DEF SyncPorts, StreamsInv, StreamsType, OpRecord, OpsInv, OpForm
    <2>3. v = rows[e] \/ v \in Rows
      BY <1>1, <2>2 DEF Rows, Inputs
    <2> HIDE DEF v
    <2> QED BY <1>1, <2>1, <2>3, StreamsAssumption DEF LiveStep
  <1>5. ASSUME NEW r \in Caller, Remove(r) PROVE LiveStep
    <2>1. cdn[ops[r].s] = None
      BY <1>5 DEF Remove, Doing, AloneInv, OpAlone
    <2> QED BY <1>1, <1>5, <2>1 DEF Remove, LiveStep
  <1>6. ASSUME NEW r \in Caller, SaveRecords(r) PROVE LiveStep
    <2> DEFINE l == ops[r].list
               both == {s \in Stream : l[s] # None /\ rows[s] # None}
    <2>1. rows' = [s \in Stream |-> IF s \in both THEN [snap |-> l[s].on, on |-> l[s].on, ports |-> l[s].ports] ELSE rows[s]]
      BY <1>6 DEF SaveRecords
    <2>2. l \in [Stream -> Config \cup {None}]
      BY <1>6 DEF SaveRecords, Doing, StreamsInv, StreamsType, OpRecord, OpsInv, OpForm, Lists
    <2>3. \A s \in both : [snap |-> l[s].on, on |-> l[s].on, ports |-> l[s].ports] \in Rows
      BY <2>2 DEF Config, Rows
    <2> QED BY <1>1, <2>1, <2>3, StreamsAssumption DEF LiveStep
  <1>7. CASE \E r \in Caller : Request(r)
    <2>1. PICK r \in Caller : Request(r)
      BY <1>7
    <2>2. CASE Save(r) \/ SyncPorts(r) \/ Remove(r) \/ SaveRecords(r)
      BY <1>3, <1>4, <1>5, <1>6, <2>2
    <2>3. CASE ~(Save(r) \/ SyncPorts(r) \/ Remove(r) \/ SaveRecords(r))
      BY <1>2, <2>1, <2>3 DEF Request, BeginCreate, BeginUpdate, BeginDelete, BeginRefresh, Begin, Grouped, SendCreate, SendUpdate,
         SendDelete, LookUp, CutShort, ReadList
    <2> QED BY <2>2, <2>3
  <1>8. CASE PassSave
    <2>1. CASE rows[pass.s] # None
      <3> DEFINE v == [rows[pass.s] EXCEPT !.snap = pass.read[pass.s].snap]
      <3>1. pass.s \in Stream /\ pass.read[pass.s] \in Rows
        BY <1>8 DEF PassSave, OnPass, StreamsInv, StreamsType, PassInv, PassRecord
      <3>2. v \in Rows
        BY <1>1, <2>1, <3>1 DEF Rows
      <3>3. rows' = [rows EXCEPT ![pass.s] = v]
        BY <1>1, <1>8, <2>1 DEF PassSave
      <3> HIDE DEF v
      <3> QED BY <1>1, <3>2, <3>3, StreamsAssumption DEF LiveStep
    <2> QED BY <1>2, <1>8, <2>1 DEF PassSave
  <1>9. CASE PassGone
    <2>1. pass.s \in Stream
      BY <1>9 DEF PassGone, StreamsInv, PassInv, OnPass
    <2>2. PICK l \in Cached(slist, cdn) : rows' = rows \/ (l[pass.s] = None /\ rows' = [rows EXCEPT ![pass.s] = None])
      BY <1>9 DEF PassGone, Absent
    <2>3. ASSUME l[pass.s] = None PROVE cdn[pass.s] = None \/ rows[pass.s] = None
      <3>1. CASE l = cdn
        BY <2>3, <3>1
      <3>2. CASE l = slist /\ slist # None
        BY <2>1, <2>3, <3>2 DEF ServedInv
      <3> QED BY <2>2, <3>1, <3>2 DEF Cached
    <2> QED BY <1>1, <1>2, <2>1, <2>2, <2>3 DEF LiveStep
  <1>10. CASE Passes /\ ~PassSave /\ ~PassGone
    BY <1>2, <1>10 DEF Passes, PassBegin, PassRead, PassPut, PassDone, PassRefs, PassClean
  <1>11. CASE Ensuring \/ UNCHANGED vars
    BY <1>2, <1>11 DEF Ensuring, svars, vars
  <1> QED BY <1>7, <1>8, <1>9, <1>10, <1>11 DEF Next

(* The pass cleans no group that is used: there is no stream in it, with   *)
(* or without a row, and it is not the one of the mapping                  *)
(* (customer-group-reconciliation.js:147).                                 *)
THEOREM UsedGroupsStay == MCSpec => InUseKept
  <1>1. StreamsInv /\ [MCNext]_<<caching, vars, cache>> => [UsedStep]_vars
    <2>1. [MCNext]_<<caching, vars, cache>> => [Next]_vars
      BY DEF MCNext
    <2> QED BY <2>1, GroupsUsed
  <1> QED BY <1>1, StreamsInvariance, PTL DEF MCSpec, InUseKept, UsedStep

(* Nor is the row of a stream removed that the CDN serves, when all        *)
(* requests come from the customer (customer-group-reconciliation.js:78,   *)
(* tenant-proxy.js:1242).                                                  *)
THEOREM NothingLiveGoes == ASSUME AdminReq = {} PROVE MCSpec => NothingLiveRemoved
  <1>1. StreamsInv /\ AloneInv /\ ServedInv /\ [MCNext]_<<caching, vars, cache>> => [LiveStep]_vars
    <2>1. [MCNext]_<<caching, vars, cache>> => [Next]_vars
      BY DEF MCNext
    <2> QED BY <2>1, RowsLive
  <1>2. MCSpec => NoLiveRowRemoved
    BY <1>1, BilledInvariance, PTL DEF MCSpec, NoLiveRowRemoved, LiveStep
  <1> QED BY <1>2, UsedGroupsStay, PTL DEF NothingLiveRemoved

-----------------------------------------------------------------------------
(* The cache.                                                               *)
Gens == C!Gens
Memory == [read : [Gens -> Nat], cool : Readers \cup {None}]
Command == [r : Readers, op : {"get", "incr", "fetch", "save"}, res : Int]
Task ==
  [pc : {"idle", "gen", "key", "fetch", "load", "save", "join", "write", "bump", "claim", "done"},
   at : Proc \cup {None}, key : Nat, val : Nat, on : Readers \cup {None}, own : Nat, all : Nat]

CacheType ==
  /\ ver \in Nat \ {0} /\ gen \in Nat \ {0} /\ store \in [Gens -> Nat] /\ cool \in Readers \cup {None}
  /\ conn \in [Proc -> BOOLEAN] /\ local \in [Proc -> Nat \ {0}] /\ pending \in [Proc -> BOOLEAN]
  /\ memory \in [Proc -> Memory] /\ inflight \in [Proc -> [Gens -> Readers \cup {None}]]
  /\ queue \in [Proc -> Seq(Command)] /\ req \in [Readers -> Task]
  /\ drops \in 0..MaxDrops /\ away \in SUBSET Proc /\ returned \in [Proc -> Nat]
  /\ tangled \in SUBSET Proc /\ granted \in SUBSET Readers

(* No version is newer than what the CDN shows.                            *)
NotNewer ==
  /\ \A k \in Gens : store[k] <= ver
  /\ \A p \in Proc : returned[p] <= ver /\ \A k \in Gens : memory[p].read[k] <= ver
  /\ \A p \in Proc : \A i \in 1..Len(queue[p]) : queue[p][i].op = "fetch" => queue[p][i].res <= ver
  /\ \A r \in Readers : req[r].val <= ver /\ req[r].own <= ver /\ req[r].all <= ver

(* Each request counts once: a write makes one version, one number here    *)
(* and one in Redis, and a read at most one in Redis.                      *)
Begun == {r \in Readers : req[r].pc \notin {"idle", "write"}}
Written == {r \in Readers : req[r].pc # "idle" /\ ~(req[r].pc = "write" /\ req[r].val = 0)}
Unsent == {r \in Readers : \E p \in Proc : \E i \in 1..Len(queue[p]) :
             queue[p][i].r = r /\ queue[p][i].op = "incr" /\ queue[p][i].res = -1}
Counts ==
  /\ ver <= 1 + Cardinality(Written)
  /\ gen <= 1 + Cardinality(Begun \ Unsent)
  /\ \A p \in Proc : local[p] <= 1 + Cardinality(Begun)

(* Each command is of a request that waits for it; they are carried out in *)
(* their order, and fail together.                                         *)
Sent(op, pc) ==
  \/ op \in {"get", "incr"} /\ pc = "gen"
  \/ op = "incr" /\ pc = "bump"
  \/ op = "fetch" /\ pc = "fetch"
  \/ op = "save" /\ pc = "save"
Queued ==
  /\ \A p \in Proc : \A i \in 1..Len(queue[p]) :
       /\ req[queue[p][i].r].at = p /\ Sent(queue[p][i].op, req[queue[p][i].r].pc)
       /\ conn[p] => queue[p][i].res >= -1
       /\ ~conn[p] => queue[p][i].res = -2
       /\ queue[p][i].op \in {"get", "incr"} /\ queue[p][i].res >= 0 => queue[p][i].res \in 1..gen
  /\ \A p \in Proc : \A i, j \in 1..Len(queue[p]) : j < i =>
       /\ queue[p][i].r # queue[p][j].r
       /\ queue[p][i].res # -1 => queue[p][j].res # -1
  /\ \A p \in Proc : ~conn[p] => p \in away

(* What is under way is loading, and who joined it waits for it.           *)
Waits == {"key", "fetch", "load", "save", "join"}
Places ==
  /\ \A r \in Readers :
       /\ req[r].pc # "idle" => req[r].at \in Proc
       /\ req[r].pc \in {"gen", "key", "fetch", "load", "save", "join"} => req[r].key \in Gens
       /\ req[r].pc \in {"gen", "key", "fetch"} => req[r].val = 0
       /\ req[r].pc \in {"write", "bump", "claim"} => req[r].own = 0 /\ req[r].all = 0
       /\ req[r].pc \in {"fetch", "load", "save"} => inflight[req[r].at][req[r].key] = r
       /\ req[r].pc = "join" => req[r].on # None /\ inflight[req[r].at][req[r].key] = req[r].on
  /\ \A p \in Proc : \A k \in Gens : inflight[p][k] # None =>
       req[inflight[p][k]].pc \in {"fetch", "load", "save"} /\ req[inflight[p][k]].at = p /\ req[inflight[p][k]].key = k

Held == away = {} => granted \subseteq {cool}

(* What a read of a process may find under a number: what its memory has,  *)
(* or what a load will give it.                                            *)
MayFind(p, k, v) ==
  v > 0 /\ \/ memory[p].read[k] = v
           \/ \E q \in Readers : req[q].pc \in {"load", "save"} /\ req[q].at = p /\ req[q].key = k /\ req[q].val = v

(* A process whose numbers are all new: each number it gets is above those *)
(* it has used ...                                                         *)
Base(p) == IF pending[p] THEN local[p] - 1 ELSE local[p]
Numbers(p) ==
  /\ \A k \in Gens, v \in Nat : MayFind(p, k, v) => k <= local[p]
  /\ \A r \in Readers : req[r].at = p /\ req[r].pc \in Waits => req[r].key <= local[p]
  /\ conn[p] =>
       /\ gen >= Base(p)
       /\ \A i \in 1..Len(queue[p]) : queue[p][i].res >= 0 =>
            /\ queue[p][i].op = "get" => queue[p][i].res >= Base(p)
            /\ queue[p][i].op = "incr" => queue[p][i].res > Base(p)
       /\ \A i, j \in 1..Len(queue[p]) : j < i /\ queue[p][i].res >= 0 /\ queue[p][j].op \in {"get", "incr"} =>
            /\ queue[p][i].op = "get" => queue[p][i].res >= queue[p][j].res
            /\ queue[p][i].op = "incr" => queue[p][i].res > queue[p][j].res

(* ... and what may be found under them is not older than its own writes.  *)
Writes(p) ==
  /\ \A v \in Nat : MayFind(p, local[p], v) =>
       returned[p] <= v /\ \A r \in Readers : req[r].pc = "bump" /\ req[r].at = p => req[r].val <= v
  /\ \A r \in Readers : req[r].at = p /\ req[r].pc \in Waits =>
       \A v \in Nat : MayFind(p, req[r].key, v) => req[r].own <= v
  /\ \A r \in Readers : req[r].at = p /\ req[r].pc = "gen" => req[r].own <= returned[p]
OwnKept == \A p \in Proc \ tangled : Numbers(p) /\ Writes(p)

(* While nobody has come back to Redis there is, for each number, a version *)
(* below which nothing is found under that number, and every write that was *)
(* answered before a number was given is at or below its version.           *)
Trusted == away = {} \/ tangled # Proc
FloorRedis(F) ==
  /\ \A k, l \in Gens : k <= l => F[k] <= F[l]
  /\ \A k \in Gens : F[k] <= ver /\ (store[k] > 0 => k <= gen /\ F[k] <= store[k])
FloorProcess(F, p) == conn[p] =>
  /\ p \notin away /\ returned[p] <= F[gen]
  /\ \A k \in Gens, v \in Nat : MayFind(p, k, v) => k <= gen /\ F[k] <= v
FloorCommand(F, p, i) == conn[p] /\ queue[p][i].res >= 0 =>
  /\ queue[p][i].op = "fetch" /\ queue[p][i].res > 0 => F[req[queue[p][i].r].key] <= queue[p][i].res
  /\ queue[p][i].op \in {"get", "incr"} =>
       /\ req[queue[p][i].r].own <= F[queue[p][i].res]
       /\ away = {} => req[queue[p][i].r].all <= F[queue[p][i].res]
       /\ req[queue[p][i].r].pc = "bump" => req[queue[p][i].r].val <= F[queue[p][i].res]
FloorRequest(F, r) == req[r].at \in Proc /\ conn[req[r].at] =>
  /\ req[r].pc \in Waits => req[r].key <= gen /\ req[r].own <= F[req[r].key] /\ (away = {} => req[r].all <= F[req[r].key])
  /\ req[r].pc = "gen" => req[r].own <= F[gen] /\ (away = {} => req[r].all <= F[gen])
Floor(F) ==
  /\ FloorRedis(F) /\ \A p \in Proc : FloorProcess(F, p) /\ \A i \in 1..Len(queue[p]) : FloorCommand(F, p, i)
  /\ \A r \in Readers : FloorRequest(F, r)
Floors == Trusted => \E F \in [Gens -> Nat] : Floor(F)

CacheInv ==
  /\ CacheType /\ NotNewer /\ Counts /\ Queued /\ Places /\ Held
  /\ OwnKept /\ Floors /\ C!SeesAll /\ C!SeesOwn

-----------------------------------------------------------------------------
(* Sequences of commands: one added, one taken, one answered, all failed.  *)
LEMMA SequenceMade ==
  ASSUME NEW S, NEW n \in Nat, NEW t \in [1..n -> S] PROVE t \in Seq(S) /\ Len(t) = n
  OBVIOUS

LEMMA CommandsFailed ==
  ASSUME NEW s \in Seq(Command), NEW t, t = [i \in DOMAIN s |-> [s[i] EXCEPT !.res = -2]]
  PROVE  /\ t \in Seq(Command) /\ Len(t) = Len(s)
         /\ \A i \in 1..Len(s) : t[i].r = s[i].r /\ t[i].op = s[i].op /\ t[i].res = -2
  <1>1. DOMAIN s = 1..Len(s) /\ Len(s) \in Nat /\ \A i \in 1..Len(s) : s[i] \in Command
    OBVIOUS
  <1>2. ASSUME NEW i \in 1..Len(s) PROVE [s[i] EXCEPT !.res = -2] \in Command
    <2>1. s[i] \in Command /\ -2 \in Int
      BY <1>1
    <2> QED BY <2>1 DEF Command
  <1>3. t \in [1..Len(s) -> Command]
    BY <1>1, <1>2
  <1>4. t \in Seq(Command) /\ Len(t) = Len(s)
    BY <1>1, <1>3, SequenceMade
  <1>5. ASSUME NEW i \in 1..Len(s) PROVE t[i].r = s[i].r /\ t[i].op = s[i].op /\ t[i].res = -2
    <2>1. s[i] \in Command /\ t[i] = [s[i] EXCEPT !.res = -2]
      BY <1>1
    <2> QED BY <2>1 DEF Command
  <1> QED BY <1>4, <1>5

LEMMA CommandAnswered ==
  ASSUME NEW s \in Seq(Command), NEW i \in 1..Len(s), NEW c \in Command, NEW t, t = [s EXCEPT ![i] = c]
  PROVE  t \in Seq(Command) /\ Len(t) = Len(s) /\ t[i] = c /\ \A j \in 1..Len(s) : j # i => t[j] = s[j]
  BY ExceptSeq

LEMMA NewestFound ==
  ASSUME NEW n \in Nat, NEW T \in SUBSET (0..n), T # {}
  PROVE  C!Max(T) \in T /\ \A v \in T : v <= C!Max(T)
  <1> DEFINE S == {m \in Nat : n - m \in T}
  <1>1. S \subseteq Nat /\ S # {}
    <2>1. PICK v \in T : TRUE
      OBVIOUS
    <2>2. v \in 0..n
      OBVIOUS
    <2>3. n - v \in Nat /\ n - (n - v) = v
      BY <2>2
    <2> QED BY <2>1, <2>3
  <1>2. PICK m \in S : \A k \in S : ~(<<k, m>> \in OpToRel(<, Nat))
    BY <1>1, NatLessThanWellFounded, WFMin
  <1>3. m \in Nat /\ n - m \in T
    BY <1>2
  <1>4. \A k \in S : ~(k < m)
    BY <1>1, <1>2 DEF OpToRel
  <1>5. ASSUME NEW u \in T PROVE n - m >= u
    <2>1. u \in 0..n
      OBVIOUS
    <2>2. n - u \in Nat /\ n - (n - u) = u
      BY <2>1
    <2>3. ~(n - u < m)
      BY <1>4, <2>2
    <2> QED BY <1>3, <2>1, <2>3
  <1> HIDE DEF S
  <1>6. \E v \in T : \A u \in T : v >= u
    BY <1>3, <1>5
  <1>7. C!Max(T) \in T /\ \A u \in T : C!Max(T) >= u
    BY <1>6 DEF C!Max
  <1>8. \A u \in T : u \in Nat
    OBVIOUS
  <1> QED BY <1>7, <1>8

LEMMA NewerOfTwo ==
  ASSUME NEW u \in Nat, NEW v \in Nat
  PROVE  C!Max({u, v}) = IF u >= v THEN u ELSE v
  BY DEF C!Max

-----------------------------------------------------------------------------
(* What the steps of a request have in common: they leave Redis alone, but  *)
(* for the cooldown, they take its answered command or send another, and    *)
(* other requests go on only if they have joined its load.                  *)
Left(q, r) ==
  /\ req[q].pc = "join" /\ req[q].on = r /\ req'[r].pc = "done"
  /\ req'[q].pc = "done" /\ req'[q].at = req[q].at /\ req'[q].own = req[q].own /\ req'[q].all = req[q].all
  /\ req'[q].val = req'[r].val
Taken(r, p, i, d) ==
  i + d \in 1..Len(queue[p]) /\ queue'[p][i] = queue[p][i + d] /\ queue[p][i + d].r # r
Sending(r, p, i) ==
  /\ i = Len(queue'[p]) /\ p = req'[r].at /\ conn[p] /\ queue'[p][i].r = r /\ queue'[p][i].res = -1
  /\ Sent(queue'[p][i].op, req'[r].pc)
  /\ queue'[p][i].op = "incr" => req[r].pc \in {"idle", "write"}
InLine(r) == \A p \in Proc : \E d \in {0, 1} : \A i \in 1..Len(queue'[p]) : Taken(r, p, i, d) \/ Sending(r, p, i)
Moves(r) ==
  /\ gen' = gen /\ store' = store /\ conn' = conn /\ drops' = drops /\ away' = away
  /\ req' \in [Readers -> Task] /\ queue' \in [Proc -> Seq(Command)]
  /\ \A q \in Readers : q # r => req'[q] = req[q] \/ Left(q, r)
  /\ req'[r].pc # "idle" /\ req'[r].at \in Proc
  /\ req'[r].pc = "write" => req[r].pc = "idle" \/ (req[r].pc = "write" /\ req'[r].val > 0)
  /\ InLine(r)

(* A load finds the version of now.                                         *)
Finds ==
  \A p \in Proc, k \in Gens, v \in Nat : MayFind(p, k, v)' =>
    \/ MayFind(p, k, v)
    \/ v = ver /\ \E q \in Readers : req[q].pc = "load" /\ req[q].at = p /\ req[q].key = k

LEMMA QueuedAt ==
  ASSUME Queued, NEW p \in Proc, NEW i \in 1..Len(queue[p])
  PROVE  /\ req[queue[p][i].r].at = p /\ Sent(queue[p][i].op, req[queue[p][i].r].pc)
         /\ conn[p] => queue[p][i].res >= -1
         /\ ~conn[p] => queue[p][i].res = -2
         /\ queue[p][i].op \in {"get", "incr"} /\ queue[p][i].res >= 0 => queue[p][i].res \in 1..gen
  BY DEF Queued

LEMMA QueuedApart ==
  ASSUME Queued, NEW p \in Proc, NEW i \in 1..Len(queue[p]), NEW j \in 1..Len(queue[p]), j < i
  PROVE  queue[p][i].r # queue[p][j].r /\ (queue[p][i].res # -1 => queue[p][j].res # -1)
  BY DEF Queued

(* A command that is waited for is not that of a request doing anything else. *)
LEMMA MovesQueued ==
  ASSUME CacheType, Queued, NEW r \in Readers, Moves(r)
  PROVE  Queued'
  <1>1. ASSUME NEW p \in Proc, NEW i \in 1..Len(queue'[p]), NEW d \in {0, 1}, Taken(r, p, i, d)
        PROVE  /\ i + d \in 1..Len(queue[p]) /\ queue'[p][i] = queue[p][i + d]
               /\ queue'[p][i].r \in Readers \ {r} /\ req'[queue'[p][i].r] = req[queue'[p][i].r]
    <2>1. i + d \in 1..Len(queue[p]) /\ queue'[p][i] = queue[p][i + d] /\ queue[p][i + d].r # r
      BY <1>1 DEF Taken
    <2>2. queue[p][i + d] \in Command
      BY <2>1 DEF CacheType
    <2>3. Sent(queue[p][i + d].op, req[queue[p][i + d].r].pc)
      BY <2>1 DEF Queued
    <2>4. ~Left(queue'[p][i].r, r)
      BY <2>1, <2>3 DEF Left, Sent
    <2> QED BY <2>1, <2>2, <2>4 DEF Command, Moves
  <1>2. ASSUME NEW p \in Proc, NEW i \in 1..Len(queue'[p])
        PROVE  /\ req'[queue'[p][i].r].at = p /\ Sent(queue'[p][i].op, req'[queue'[p][i].r].pc)
               /\ conn'[p] => queue'[p][i].res >= -1
               /\ ~conn'[p] => queue'[p][i].res = -2
               /\ queue'[p][i].op \in {"get", "incr"} /\ queue'[p][i].res >= 0 => queue'[p][i].res \in 1..gen'
    <2>1. PICK d \in {0, 1} : Taken(r, p, i, d) \/ Sending(r, p, i)
      BY DEF Moves, InLine
    <2>2. CASE Taken(r, p, i, d)
      <3>1. /\ i + d \in 1..Len(queue[p]) /\ queue'[p][i] = queue[p][i + d]
            /\ req'[queue'[p][i].r] = req[queue[p][i + d].r] /\ conn' = conn /\ gen' = gen
        BY <1>1, <2>2 DEF Moves
      <3>2. PICK m \in 1..Len(queue[p]) : m = i + d
        BY <3>1
      <3> QED BY <3>1, <3>2, QueuedAt
    <2>3. CASE Sending(r, p, i)
      <3>1. conn' = conn
        BY DEF Moves
      <3>2. queue'[p][i].r = r /\ queue'[p][i].res = -1 /\ conn[p] /\ req'[r].at = p /\ Sent(queue'[p][i].op, req'[r].pc)
        BY <2>3 DEF Sending
      <3> QED BY <3>1, <3>2
    <2> QED BY <2>1, <2>2, <2>3
  <1>3. ASSUME NEW p \in Proc, NEW i \in 1..Len(queue'[p]), NEW j \in 1..Len(queue'[p]), j < i
        PROVE  /\ queue'[p][i].r # queue'[p][j].r
               /\ queue'[p][i].res # -1 => queue'[p][j].res # -1
    <2>1. PICK d \in {0, 1} : \A m \in 1..Len(queue'[p]) : Taken(r, p, m, d) \/ Sending(r, p, m)
      BY DEF Moves, InLine
    <2>2. Taken(r, p, j, d)
      BY <1>3, <2>1 DEF Sending
    <2>3. CASE Taken(r, p, i, d)
      <3>1. i + d \in 1..Len(queue[p]) /\ j + d \in 1..Len(queue[p]) /\ j + d < i + d
        BY <1>1, <1>3, <2>2, <2>3
      <3>2. queue'[p][i] = queue[p][i + d] /\ queue'[p][j] = queue[p][j + d]
        BY <1>1, <2>2, <2>3
      <3>3. /\ queue[p][i + d].r # queue[p][j + d].r
            /\ queue[p][i + d].res # -1 => queue[p][j + d].res # -1
        BY <3>1, QueuedApart
      <3> QED BY <3>2, <3>3
    <2>4. CASE Sending(r, p, i)
      BY <1>1, <2>2, <2>4 DEF Sending
    <2> QED BY <2>1, <2>3, <2>4
  <1>4. \A p \in Proc : ~conn'[p] => p \in away'
    BY DEF Queued, Moves
  <1> QED BY <1>2, <1>3, <1>4 DEF Queued

LEMMA MovesCounts ==
  ASSUME CacheType, Counts, Queued, NEW r \in Readers, Moves(r), ver' = ver,
         \A p \in Proc : local'[p] <= 1 + Cardinality(Begun')
  PROVE  Counts'
  <1>1. IsFiniteSet(Readers)
    BY CacheAssumption
  <1>2. Written \subseteq Written' /\ Written' \subseteq Readers
    BY DEF Written, Moves, Left
  <1>3. Begun \ Unsent \subseteq Begun' \ Unsent' /\ Begun' \subseteq Readers
    <2>1. ASSUME NEW q \in Begun \ Unsent PROVE q \in Begun' \ Unsent'
      <3>1. q \in Readers /\ req[q].pc \notin {"idle", "write"}
        BY DEF Begun
      <3>2. q \in Begun'
        BY <3>1 DEF Begun, Moves, Left
      <3>3. ASSUME NEW p \in Proc, NEW i \in 1..Len(queue'[p]),
                   queue'[p][i].r = q, queue'[p][i].op = "incr", queue'[p][i].res = -1
            PROVE  FALSE
        <4>1. PICK d \in {0, 1} : Taken(r, p, i, d) \/ Sending(r, p, i)
          BY DEF Moves, InLine
        <4>2. CASE Taken(r, p, i, d)
          BY <2>1, <3>1, <3>3, <4>2 DEF Taken, Unsent
        <4>3. CASE Sending(r, p, i)
          BY <3>1, <3>3, <4>3 DEF Sending
        <4> QED BY <4>1, <4>2, <4>3
      <3> QED BY <3>2, <3>3 DEF Unsent
    <2>2. Begun' \subseteq Readers
      BY DEF Begun
    <2> QED BY <2>1, <2>2
  <1>4. IsFiniteSet(Written') /\ IsFiniteSet(Begun' \ Unsent')
    BY <1>1, <1>2, <1>3, FS_Subset
  <1>5. Cardinality(Written) <= Cardinality(Written') /\ Cardinality(Begun \ Unsent) <= Cardinality(Begun' \ Unsent')
    BY <1>2, <1>3, <1>4, FS_Subset
  <1>6. /\ IsFiniteSet(Written) /\ IsFiniteSet(Begun \ Unsent)
        /\ Cardinality(Written) \in Nat /\ Cardinality(Begun \ Unsent) \in Nat
        /\ Cardinality(Written') \in Nat /\ Cardinality(Begun' \ Unsent') \in Nat
    BY <1>2, <1>3, <1>4, FS_Subset, FS_CardinalityType
  <1>7. ver' <= 1 + Cardinality(Written')
    BY <1>5, <1>6 DEF Counts, CacheType
  <1>8. gen' <= 1 + Cardinality(Begun' \ Unsent')
    BY <1>5, <1>6 DEF Counts, CacheType, Moves
  <1> QED BY <1>7, <1>8 DEF Counts

LEMMA CountedAlike == \A S : C!Cardinality(S) = Cardinality(S)
  BY DEF C!Cardinality, Cardinality

(* A number that was given here or in Redis is one of Gens.                 *)
LEMMA NumbersFew ==
  ASSUME CacheType, Counts
  PROVE  /\ gen \in Gens /\ \A p \in Proc : local[p] \in Gens
         /\ Cardinality(Begun) \in Nat /\ IsFiniteSet(Begun) /\ Cardinality(Readers) \in Nat
         /\ Cardinality(Begun \ Unsent) <= Cardinality(Begun) /\ Cardinality(Begun \ Unsent) \in Nat
         /\ ver <= 1 + Cardinality(Readers)
  <1>1. /\ Begun \subseteq Readers /\ Begun \ Unsent \subseteq Begun /\ Written \subseteq Readers
        /\ IsFiniteSet(Readers)
    BY CacheAssumption DEF Begun, Written
  <1>2. IsFiniteSet(Begun) /\ IsFiniteSet(Begun \ Unsent) /\ IsFiniteSet(Written)
    BY <1>1, FS_Subset
  <1>3. Cardinality(Begun) <= Cardinality(Readers) /\ Cardinality(Written) <= Cardinality(Readers)
    BY <1>1, FS_Subset
  <1>4. Cardinality(Begun \ Unsent) <= Cardinality(Begun)
    BY <1>1, <1>2, FS_Subset
  <1>5. Cardinality(Readers) \in Nat /\ Cardinality(Begun) \in Nat /\ Cardinality(Begun \ Unsent) \in Nat /\ Cardinality(Written) \in Nat
    BY <1>1, <1>2, FS_CardinalityType
  <1>g. Gens = 1..(1 + Cardinality(Readers))
    BY CountedAlike DEF Gens, C!Gens
  <1>6. gen \in Gens
    BY <1>3, <1>4, <1>5, <1>g DEF Counts, CacheType
  <1>7. \A p \in Proc : local[p] \in Gens
    BY <1>3, <1>5, <1>g DEF Counts, CacheType
  <1>8. ver <= 1 + Cardinality(Readers)
    BY <1>3, <1>5 DEF Counts, CacheType
  <1> QED BY <1>2, <1>4, <1>5, <1>6, <1>7, <1>8

LEMMA NumbersMade ==
  Gens \subseteq Nat \ {0} /\ \A n \in Nat \ {0}, m \in Gens : n <= m => n \in Gens
  <1>1. Gens = 1..(1 + Cardinality(Readers)) /\ Cardinality(Readers) \in Nat
    BY CacheAssumption, CountedAlike, FS_CardinalityType DEF Gens, C!Gens
  <1> QED BY <1>1

LEMMA MovesNotNewer ==
  ASSUME CacheType, NotNewer, Queued, NEW r \in Readers, Moves(r), Finds, CacheType', ver <= ver',
         \A p \in Proc : returned'[p] <= ver',
         req'[r].val <= ver' /\ req'[r].own <= ver' /\ req'[r].all <= ver'
  PROVE  NotNewer'
  <1>1. ver \in Nat /\ ver' \in Nat
    BY DEF CacheType
  <1>2. \A k \in Gens : store'[k] <= ver'
    BY <1>1 DEF NotNewer, CacheType, Moves
  <1>3. ASSUME NEW p \in Proc, NEW k \in Gens PROVE memory'[p].read[k] <= ver'
    <2>1. memory'[p].read[k] \in Nat
      BY DEF CacheType, Memory
    <2>2. CASE memory'[p].read[k] > 0
      <3>1. PICK v \in Nat : v = memory'[p].read[k]
        BY <2>1
      <3>2. MayFind(p, k, v)'
        BY <2>2, <3>1 DEF MayFind
      <3>3. MayFind(p, k, v) \/ v = ver
        BY <3>2 DEF Finds
      <3> QED BY <1>1, <3>1, <3>3 DEF MayFind, NotNewer
    <2> QED BY <1>1, <2>1, <2>2
  <1>4. ASSUME NEW p \in Proc, NEW i \in 1..Len(queue'[p]), queue'[p][i].op = "fetch" PROVE queue'[p][i].res <= ver'
    <2>1. PICK d \in {0, 1} : Taken(r, p, i, d) \/ Sending(r, p, i)
      BY DEF Moves, InLine
    <2>2. CASE Taken(r, p, i, d)
      <3>1. queue[p][i + d] \in Command
        BY <2>2 DEF CacheType, Taken
      <3> QED BY <1>1, <1>4, <2>2, <3>1 DEF Taken, NotNewer, Command
    <2>3. CASE Sending(r, p, i)
      BY <1>1, <2>3 DEF Sending
    <2> QED BY <2>1, <2>2, <2>3
  <1>5. ASSUME NEW q \in Readers PROVE req'[q].val <= ver' /\ req'[q].own <= ver' /\ req'[q].all <= ver'
    <2>1. req[q] \in Task
      BY DEF CacheType
    <2>a. req[q].val \in Nat /\ req[q].own \in Nat /\ req[q].all \in Nat
      BY <2>1 DEF Task
    <2>b. req[q].val <= ver /\ req[q].own <= ver /\ req[q].all <= ver
      BY DEF NotNewer
    <2>2. CASE q = r
      BY <2>2
    <2>3. CASE req'[q] = req[q]
      BY <1>1, <2>a, <2>b, <2>3
    <2>4. CASE Left(q, r)
      BY <1>1, <2>a, <2>b, <2>4 DEF Left
    <2> QED BY <2>2, <2>3, <2>4 DEF Moves
  <1> QED BY <1>2, <1>3, <1>4, <1>5 DEF NotNewer

LEMMA MovesNumbers ==
  ASSUME CacheType, CacheType', Queued, NEW r \in Readers, NEW p \in Proc, Numbers(p), Moves(r), Finds,
         local[p] <= local'[p], Base(p)' = Base(p),
         req'[r].at = p /\ req'[r].pc \in Waits => req'[r].key <= local'[p]
  PROVE  Numbers(p)'
  <1>1. Base(p)' = Base(p) /\ local[p] \in Nat /\ local'[p] \in Nat
    BY DEF CacheType
  <1>2. ASSUME NEW k \in Gens, NEW v \in Nat, MayFind(p, k, v)' PROVE k <= local'[p]
    <2>1. k <= local[p]
      BY <1>2 DEF Finds, Numbers, Waits
    <2>2. k \in Nat
      BY DEF Gens, C!Gens
    <2> QED BY <1>1, <2>1, <2>2
  <1>3. ASSUME NEW q \in Readers, req'[q].at = p, req'[q].pc \in Waits PROVE req'[q].key <= local'[p]
    <2>1. CASE q = r
      BY <1>3, <2>1
    <2>2. CASE q # r
      <3>1. req'[q] = req[q] /\ req[q].key \in Nat
        BY <1>3, <2>2 DEF Moves, Left, Waits, CacheType, Task
      <3>2. req[q].key <= local[p]
        BY <1>3, <3>1 DEF Numbers
      <3> QED BY <1>1, <3>1, <3>2
    <2> QED BY <2>1, <2>2
  <1>4. ASSUME conn'[p], NEW d \in {0, 1}, NEW i \in 1..Len(queue'[p]), queue'[p][i].res >= 0,
               Taken(r, p, i, d) \/ Sending(r, p, i)
        PROVE  i + d \in 1..Len(queue[p]) /\ queue'[p][i] = queue[p][i + d]
    BY <1>4 DEF Taken, Sending
  <1>5. ASSUME conn'[p], NEW i \in 1..Len(queue'[p]), queue'[p][i].res >= 0
        PROVE  /\ queue'[p][i].op = "get" => queue'[p][i].res >= Base(p)
               /\ queue'[p][i].op = "incr" => queue'[p][i].res > Base(p)
    <2>1. PICK d \in {0, 1} : Taken(r, p, i, d) \/ Sending(r, p, i)
      BY DEF Moves, InLine
    <2> QED BY <1>4, <1>5, <2>1 DEF Numbers, Moves
  <1>6. ASSUME conn'[p], NEW i \in 1..Len(queue'[p]), NEW j \in 1..Len(queue'[p]), j < i,
               queue'[p][i].res >= 0, queue'[p][j].op \in {"get", "incr"}
        PROVE  /\ queue'[p][i].op = "get" => queue'[p][i].res >= queue'[p][j].res
               /\ queue'[p][i].op = "incr" => queue'[p][i].res > queue'[p][j].res
    <2>1. PICK d \in {0, 1} : \A m \in 1..Len(queue'[p]) : Taken(r, p, m, d) \/ Sending(r, p, m)
      BY DEF Moves, InLine
    <2>2. i + d \in 1..Len(queue[p]) /\ queue'[p][i] = queue[p][i + d]
      BY <1>4, <1>6, <2>1
    <2>3. j + d \in 1..Len(queue[p]) /\ queue'[p][j] = queue[p][j + d] /\ j + d < i + d
      BY <1>6, <2>1 DEF Taken, Sending
    <2> QED BY <1>6, <2>2, <2>3 DEF Numbers, Moves
  <1>7. conn'[p] => gen' >= Base(p)
    BY DEF Numbers, Moves
  <1> QED BY <1>1, <1>2, <1>3, <1>5, <1>6, <1>7 DEF Numbers

LEMMA MovesWrites ==
  ASSUME CacheType, CacheType', NotNewer, NEW r \in Readers, NEW p \in Proc, Writes(p), Moves(r), Finds,
         NEW l \in Gens, l = local'[p],
         \A v \in Nat : MayFind(p, l, v) =>
           returned'[p] <= v /\ \A q \in Readers : req'[q].pc = "bump" /\ req'[q].at = p => req'[q].val <= v,
         returned[p] <= returned'[p], returned'[p] <= ver, \A q \in Readers : req'[q].pc = "bump" => req'[q].val <= ver,
         req'[r].at = p /\ req'[r].pc \in Waits =>
           req'[r].own <= ver /\ \A k \in Gens : k = req'[r].key => \A v \in Nat : MayFind(p, k, v) => req'[r].own <= v,
         req'[r].at = p /\ req'[r].pc = "gen" => req'[r].own <= returned'[p],
         \A q \in Readers : req'[q].pc \in Waits => req'[q].key \in Gens
  PROVE  Writes(p)'
  <1>1. ASSUME NEW k \in Gens, NEW v \in Nat, MayFind(p, k, v)' PROVE MayFind(p, k, v) \/ v = ver
    BY <1>1 DEF Finds
  <1>2. ASSUME NEW v \in Nat, MayFind(p, l, v)'
        PROVE  returned'[p] <= v /\ \A q \in Readers : req'[q].pc = "bump" /\ req'[q].at = p => req'[q].val <= v
    BY <1>1, <1>2
  <1>3. ASSUME NEW q \in Readers, req'[q].at = p, req'[q].pc \in Waits, NEW k \in Gens, k = req'[q].key,
               NEW v \in Nat, MayFind(p, k, v)'
        PROVE  req'[q].own <= v
    <2>1. MayFind(p, k, v) \/ v = ver
      BY <1>1, <1>3
    <2>2. CASE q = r
      BY <1>3, <2>1, <2>2
    <2>3. CASE q # r
      <3>1. req'[q] = req[q]
        BY <1>3, <2>3 DEF Moves, Left, Waits
      <3> QED BY <1>3, <2>1, <3>1 DEF Writes, NotNewer
    <2> QED BY <2>2, <2>3
  <1>4. ASSUME NEW q \in Readers, req'[q].at = p, req'[q].pc = "gen" PROVE req'[q].own <= returned'[p]
    <2>1. CASE q = r
      BY <1>4, <2>1
    <2>2. CASE q # r
      <3>1. req'[q] = req[q]
        BY <1>4, <2>2 DEF Moves, Left
      <3>2. req[q].own <= returned[p]
        BY <1>4, <3>1 DEF Writes
      <3>3. req[q].own \in Nat /\ returned[p] \in Nat /\ returned'[p] \in Nat
        BY DEF CacheType, Task
      <3> QED BY <3>1, <3>2, <3>3
    <2> QED BY <2>1, <2>2
  <1>5. \A v \in Nat : MayFind(p, local[p], v)' =>
          returned'[p] <= v /\ \A q \in Readers : req'[q].pc = "bump" /\ req'[q].at = p => req'[q].val <= v
    BY <1>2 DEF MayFind
  <1>6. \A q \in Readers : req'[q].at = p /\ req'[q].pc \in Waits =>
          \A v \in Nat : MayFind(p, req[q].key, v)' => req'[q].own <= v
    BY <1>3 DEF MayFind
  <1> QED BY <1>4, <1>5, <1>6 DEF Writes

LEMMA MovesFloor ==
  ASSUME CacheType, Queued, Counts, NEW r \in Readers, Moves(r), Finds, NEW F \in [Gens -> Nat], Floor(F),
         ver \in Nat, ver' \in Nat, ver <= ver', \A p \in Proc : conn[p] => returned'[p] <= F[gen],
         FloorRequest(F, r)'
  PROVE  Floor(F)'
  <1>1. FloorRedis(F)'
    BY DEF Floor, FloorRedis, Moves
  <1>2. ASSUME NEW p \in Proc, conn'[p]
        PROVE  /\ p \notin away' /\ returned'[p] <= F[gen']
               /\ \A k \in Gens, v \in Nat : MayFind(p, k, v)' => k <= gen' /\ F[k] <= v
    <2>1. conn[p] /\ FloorProcess(F, p)
      BY <1>2 DEF Moves, Floor
    <2>2. ASSUME NEW k \in Gens, NEW v \in Nat, MayFind(p, k, v)' PROVE k <= gen /\ F[k] <= v
      <3>1. CASE MayFind(p, k, v)
        BY <2>1, <3>1 DEF FloorProcess
      <3>2. CASE v = ver /\ \E q \in Readers : req[q].pc = "load" /\ req[q].at = p /\ req[q].key = k
        BY <2>1, <3>2 DEF Floor, FloorRequest, FloorRedis, Waits
      <3> QED BY <2>2, <3>1, <3>2 DEF Finds
    <2> QED BY <2>1, <2>2 DEF FloorProcess, Moves
  <1>3. ASSUME NEW p \in Proc, NEW i \in 1..Len(queue'[p]) PROVE FloorCommand(F, p, i)'
    <2>1. PICK d \in {0, 1} : Taken(r, p, i, d) \/ Sending(r, p, i)
      BY DEF Moves, InLine
    <2>2. CASE Taken(r, p, i, d)
      <3>1. i + d \in 1..Len(queue[p]) /\ queue'[p][i] = queue[p][i + d] /\ queue[p][i + d].r # r
        BY <2>2 DEF Taken
      <3>2. queue[p][i + d].r \in Readers
        <4>1. queue[p] \in Seq(Command)
          BY DEF CacheType
        <4>2. queue[p][i + d] \in Command
          BY <3>1, <4>1
        <4> QED BY <4>2 DEF Command
      <3>3. req'[queue[p][i + d].r] = req[queue[p][i + d].r]
        BY <3>1, <3>2 DEF Queued, Sent, Moves, Left
      <3>4. FloorCommand(F, p, i + d)
        BY <3>1 DEF Floor
      <3> QED BY <3>1, <3>3, <3>4 DEF FloorCommand, Moves
    <2>3. CASE Sending(r, p, i)
      <3>1. ~(queue'[p][i].res >= 0)
        BY <2>3 DEF Sending
      <3> QED BY <3>1 DEF FloorCommand
    <2> QED BY <2>1, <2>2, <2>3
  <1>4. ASSUME NEW q \in Readers PROVE FloorRequest(F, q)'
    <2>1. CASE q = r
      BY <2>1
    <2>2. CASE q # r /\ req'[q] = req[q]
      BY <2>2 DEF Floor, FloorRequest, Moves
    <2>3. CASE q # r /\ Left(q, r)
      BY <2>3 DEF FloorRequest, Left, Waits
    <2> QED BY <2>1, <2>2, <2>3 DEF Moves
  <1> QED BY <1>1, <1>2, <1>3, <1>4 DEF Floor, FloorProcess

(* A version with which a read of a process may end.                        *)
Enough(q, v) ==
  v > 0 => (away = {} => req[q].all <= v) /\ (req[q].at \notin tangled => req[q].own <= v)

LEMMA MovesSees ==
  ASSUME C!SeesAll, C!SeesOwn, NEW r \in Readers, Moves(r), CacheType, CacheType', tangled \subseteq tangled',
         req'[r].pc = "done" /\ req'[r].val > 0 => \A q \in Readers : q = r \/ Left(q, r) =>
           Enough(q, req'[r].val) /\ req'[q].all = req[q].all /\ req'[q].own = req[q].own /\ req'[q].at = req[q].at
  PROVE  C!SeesAll' /\ C!SeesOwn'
  <1>1. ASSUME NEW q \in Readers, req'[q].pc = "done", req'[q].val > 0
        PROVE  (away' = {} => req'[q].val >= req'[q].all) /\ (req'[q].at \notin tangled' => req'[q].val >= req'[q].own)
    <2>1. req'[q].val \in Nat /\ req'[q].all \in Nat /\ req'[q].own \in Nat
      BY DEF CacheType, Task
    <2>2. CASE q = r \/ Left(q, r)
      <3>1. req'[r].pc = "done" /\ req'[q].val = req'[r].val
        BY <1>1, <2>2 DEF Left
      <3> QED BY <1>1, <2>1, <2>2, <3>1 DEF Enough, Moves
    <2>3. CASE q # r /\ req'[q] = req[q]
      BY <1>1, <2>3 DEF C!SeesAll, C!SeesOwn, C!Reading, C!Now, Moves
    <2> QED BY <2>2, <2>3 DEF Moves
  <1> QED BY <1>1 DEF C!SeesAll, C!SeesOwn, C!Reading, C!Now

-----------------------------------------------------------------------------
(* The queues.                                                              *)
LEMMA NotWaitedFor ==
  ASSUME CacheType, Queued, NEW r \in Readers, req[r].pc \notin {"gen", "bump", "fetch", "save"},
         NEW p \in Proc, NEW i \in 1..Len(queue[p])
  PROVE  queue[p][i].r # r
  BY DEF Queued, Sent

LEMMA QueueStays ==
  ASSUME CacheType, Queued, NEW r \in Readers, req[r].pc \notin {"gen", "bump", "fetch", "save"}, queue' = queue
  PROVE  queue' \in [Proc -> Seq(Command)] /\ InLine(r)
  <1>1. ASSUME NEW p \in Proc, NEW i \in 1..Len(queue'[p]) PROVE Taken(r, p, i, 0)
    BY NotWaitedFor DEF Taken
  <1> QED BY <1>1 DEF CacheType, InLine

LEMMA QueueGrows ==
  ASSUME CacheType, Queued, NEW r \in Readers, req[r].pc \notin {"gen", "bump", "fetch", "save"},
         NEW p \in Proc, conn[p], NEW op \in {"get", "incr", "fetch", "save"}, C!Sends(p, r, op),
         req'[r].at = p, Sent(op, req'[r].pc), op = "incr" => req[r].pc \in {"idle", "write"}
  PROVE  queue' \in [Proc -> Seq(Command)] /\ InLine(r)
  <1> DEFINE c == [r |-> r, op |-> op, res |-> -1]
  <1>1. c \in Command /\ c.r = r /\ c.op = op /\ c.res = -1
    BY DEF Command
  <1>2. queue' = [queue EXCEPT ![p] = Append(queue[p], c)]
    BY DEF C!Sends, CacheType
  <1> HIDE DEF c
  <1>3. queue[p] \in Seq(Command)
    BY DEF CacheType
  <1>4. /\ Append(queue[p], c) \in Seq(Command) /\ Len(Append(queue[p], c)) = Len(queue[p]) + 1
        /\ \A i \in 1..Len(queue[p]) : Append(queue[p], c)[i] = queue[p][i]
        /\ Append(queue[p], c)[Len(queue[p]) + 1] = c
    BY <1>1, <1>3, AppendProperties
  <1>5. queue' \in [Proc -> Seq(Command)] /\ queue'[p] = Append(queue[p], c)
    BY <1>2, <1>4 DEF CacheType
  <1>6. ASSUME NEW q \in Proc, NEW i \in 1..Len(queue'[q]) PROVE Taken(r, q, i, 0) \/ Sending(r, q, i)
    <2>1. CASE q # p
      <3>1. queue'[q] = queue[q]
        BY <1>2, <2>1 DEF CacheType
      <3> QED BY <3>1, NotWaitedFor DEF Taken
    <2>2. CASE q = p /\ i \in 1..Len(queue[p])
      BY <1>4, <1>5, <2>2, NotWaitedFor DEF Taken
    <2>3. CASE q = p /\ i = Len(queue[p]) + 1
      BY <1>1, <1>4, <1>5, <2>3 DEF Sending
    <2>4. Len(queue[p]) \in Nat
      BY <1>3
    <2> QED BY <1>4, <1>5, <2>1, <2>2, <2>3, <2>4
  <1> QED BY <1>5, <1>6 DEF InLine

LEMMA QueueShrinks ==
  ASSUME CacheType, Queued, Places, NEW r \in Readers, req[r].pc # "idle", NEW op, C!Answered(r, op)
  PROVE  /\ queue' \in [Proc -> Seq(Command)] /\ InLine(r)
         /\ req[r].at \in Proc /\ 1 \in 1..Len(queue[req[r].at]) /\ queue[req[r].at][1].r = r
         /\ Head(queue[req[r].at]) = queue[req[r].at][1] /\ queue[req[r].at][1].op \in op
         /\ queue[req[r].at][1].res \in Int /\ (C!Failed(r) <=> ~conn[req[r].at])
         /\ conn[req[r].at] => queue[req[r].at][1].res >= 0
         /\ C!Res(r) = queue[req[r].at][1].res
         /\ \A i \in 1..Len(queue'[req[r].at]) :
              i + 1 \in 1..Len(queue[req[r].at]) /\ queue'[req[r].at][i] = queue[req[r].at][i + 1]
  <1> DEFINE p == req[r].at
  <1>1. p \in Proc /\ queue[p] \in Seq(Command) /\ queue[p] # <<>>
    BY DEF Places, C!Answered, CacheType
  <1>2. /\ Tail(queue[p]) \in Seq(Command) /\ Len(Tail(queue[p])) = Len(queue[p]) - 1 /\ Len(queue[p]) \in Nat
        /\ \A i \in 1..Len(Tail(queue[p])) : Tail(queue[p])[i] = queue[p][i + 1]
    BY <1>1, HeadTailProperties
  <1>3. 1 \in 1..Len(queue[p]) /\ Head(queue[p]) = queue[p][1]
    BY <1>1
  <1>4. queue[p][1] \in Command
    BY <1>1, <1>3
  <1>5. queue[p][1].r = r /\ queue[p][1].op \in op /\ queue[p][1].res # -1 /\ queue' = [queue EXCEPT ![p] = Tail(queue[p])]
    BY <1>3 DEF C!Answered, CacheType
  <1> HIDE DEF p
  <1>6. queue' \in [Proc -> Seq(Command)] /\ queue'[p] = Tail(queue[p])
    BY <1>1, <1>2, <1>5 DEF CacheType
  <1>7. ASSUME NEW i \in 1..Len(queue'[p])
        PROVE  i + 1 \in 1..Len(queue[p]) /\ queue'[p][i] = queue[p][i + 1] /\ Taken(r, p, i, 1)
    <2>1. i + 1 \in 1..Len(queue[p]) /\ queue'[p][i] = queue[p][i + 1] /\ 1 < i + 1
      BY <1>2, <1>6
    <2>2. queue[p][i + 1].r # queue[p][1].r
      BY <1>1, <1>3, <2>1 DEF Queued
    <2> QED BY <1>5, <2>1, <2>2 DEF Taken
  <1>8. ASSUME NEW q \in Proc, q # p, NEW i \in 1..Len(queue'[q]) PROVE Taken(r, q, i, 0)
    <2>1. queue'[q] = queue[q]
      BY <1>1, <1>5, <1>8 DEF CacheType
    <2>2. Len(queue[q]) \in Nat /\ req[queue[q][i].r].at = q
      BY <2>1 DEF Queued, CacheType
    <2>3. queue[q][i].r # r
      BY <1>8, <2>2 DEF p
    <2> QED BY <2>1, <2>2, <2>3 DEF Taken
  <1>9. InLine(r)
    <2>1. SUFFICES ASSUME NEW q \in Proc PROVE \E d \in {0, 1} : \A i \in 1..Len(queue'[q]) : Taken(r, q, i, d) \/ Sending(r, q, i)
      BY DEF InLine
    <2>2. CASE q = p
      BY <1>7, <2>2
    <2>3. CASE q # p
      BY <1>8, <2>3
    <2> QED BY <2>2, <2>3
  <1>10. (conn[p] => queue[p][1].res >= -1) /\ (~conn[p] => queue[p][1].res = -2) /\ queue[p][1].res \in Int
    BY <1>1, <1>3, <1>4 DEF Queued, Command
  <1>11. C!Res(r) = queue[p][1].res
    BY <1>3 DEF C!Res, p
  <1>12. C!Failed(r) <=> ~conn[p]
    BY <1>10, <1>11 DEF C!Failed
  <1> QED BY <1>1, <1>3, <1>5, <1>6, <1>7, <1>9, <1>10, <1>11, <1>12 DEF p

-----------------------------------------------------------------------------
(* A step of a request, when the numbers of its process and the versions it *)
(* has answered stay: what remains to be said is what it now asks for.      *)
LEMMA FloorsMove ==
  ASSUME CacheInv, NEW r \in Readers, Moves(r), Finds, CacheType', ver <= ver', tangled \subseteq tangled',
         Trusted => \A F \in [Gens -> Nat] : Floor(F) =>
           FloorRequest(F, r)' /\ \A p \in Proc : conn[p] => returned'[p] <= F[gen]
  PROVE  Floors'
  <1>1. SUFFICES ASSUME Trusted' PROVE \E F \in [Gens -> Nat] : Floor(F)'
    BY DEF Floors
  <1>2. Trusted
    BY <1>1 DEF Trusted, Moves, CacheType
  <1>3. PICK F \in [Gens -> Nat] : Floor(F)
    BY <1>2 DEF CacheInv, Floors
  <1>4. ver \in Nat /\ ver' \in Nat /\ CacheType /\ Queued /\ Counts
    BY DEF CacheInv, CacheType
  <1>5. FloorRequest(F, r)' /\ \A p \in Proc : conn[p] => returned'[p] <= F[gen]
    BY <1>2, <1>3
  <1>6. Floor(F)'
    BY <1>3, <1>4, <1>5, MovesFloor
  <1> QED BY <1>6

Asks(r) ==
  /\ req'[r].pc \in Waits => req'[r].key <= local[req'[r].at] /\ req'[r].own <= ver
  /\ req'[r].pc \in Waits =>
       \A k \in Gens, v \in Nat : k = req'[r].key /\ MayFind(req'[r].at, k, v) => req'[r].own <= v
  /\ req'[r].pc = "gen" => req'[r].own <= returned[req'[r].at]

LEMMA SimpleMoves ==
  ASSUME CacheInv, NEW r \in Readers, Moves(r), Finds, CacheType', Counts', Places', Held', ver <= ver',
         local' = local, pending' = pending, returned' = returned, tangled' = tangled,
         req'[r].val <= ver' /\ req'[r].own <= ver' /\ req'[r].all <= ver', req'[r].pc # "bump",
         req'[r].at \notin tangled => Asks(r),
         Trusted => \A F \in [Gens -> Nat] : Floor(F) => FloorRequest(F, r)',
         req'[r].pc = "done" /\ req'[r].val > 0 => \A q \in Readers : q = r \/ Left(q, r) =>
           Enough(q, req'[r].val) /\ req'[q].all = req[q].all /\ req'[q].own = req[q].own /\ req'[q].at = req[q].at
  PROVE  CacheInv'
  <1>1. /\ CacheType /\ NotNewer /\ Counts /\ Queued /\ Places /\ OwnKept /\ C!SeesAll /\ C!SeesOwn
        /\ ver \in Nat /\ ver' \in Nat
    BY DEF CacheInv, CacheType
  <1>2. Queued'
    BY <1>1, MovesQueued
  <1>3. \A p \in Proc : returned[p] \in Nat /\ returned[p] <= ver /\ returned'[p] <= ver'
    BY <1>1 DEF NotNewer, CacheType
  <1>4. NotNewer'
    BY <1>1, <1>3, MovesNotNewer
  <1>5. ASSUME NEW p \in Proc \ tangled PROVE Numbers(p)' /\ Writes(p)'
    <2>1. Numbers(p) /\ Writes(p)
      BY <1>1 DEF OwnKept
    <2>2. Numbers(p)'
      <3>1. local[p] <= local'[p] /\ Base(p)' = Base(p)
        BY <1>1 DEF CacheType, Base
      <3> QED BY <1>1, <2>1, <3>1, MovesNumbers DEF Asks
    <2>3. PICK l \in Gens : l = local'[p]
      BY <1>1, NumbersFew
    <2>4. ASSUME NEW q \in Readers, req'[q].pc = "bump" PROVE req'[q].val <= ver /\ req'[q] = req[q]
      BY <1>1, <2>4 DEF Moves, Left, NotNewer
    <2>5. ASSUME NEW v \in Nat, MayFind(p, l, v)
          PROVE  returned'[p] <= v /\ \A q \in Readers : req'[q].pc = "bump" /\ req'[q].at = p => req'[q].val <= v
      <3>1. MayFind(p, local[p], v)
        BY <2>3, <2>5
      <3> QED BY <2>1, <2>4, <3>1 DEF Writes
    <2>6. \A q \in Readers : req'[q].pc \in Waits => req'[q].key \in Gens
      BY DEF Places, Waits
    <2>7. returned[p] <= returned'[p]
      BY <1>3
    <2>8. req'[r].at = p /\ req'[r].pc \in Waits =>
            req'[r].own <= ver /\ \A k \in Gens : k = req'[r].key => \A v \in Nat : MayFind(p, k, v) => req'[r].own <= v
      BY DEF Asks
    <2>9. req'[r].at = p /\ req'[r].pc = "gen" => req'[r].own <= returned'[p]
      BY DEF Asks
    <2>10. returned'[p] <= ver /\ \A q \in Readers : req'[q].pc = "bump" => req'[q].val <= ver
      BY <1>3, <2>4
    <2>11. Writes(p)'
      BY <1>1, <2>1, <2>3, <2>5, <2>6, <2>7, <2>8, <2>9, <2>10, MovesWrites
    <2> QED BY <2>2, <2>11
  <1>6. OwnKept'
    BY <1>5 DEF OwnKept
  <1>7. Trusted => \A F \in [Gens -> Nat] : Floor(F) =>
          FloorRequest(F, r)' /\ \A p \in Proc : conn[p] => returned'[p] <= F[gen]
    BY DEF Floor, FloorProcess
  <1>8. Floors'
    BY <1>7, FloorsMove
  <1>9. C!SeesAll' /\ C!SeesOwn'
    BY <1>1, MovesSees
  <1> QED BY <1>2, <1>4, <1>6, <1>8, <1>9 DEF CacheInv

LEMMA CountsMove ==
  ASSUME CacheType, CacheType', Counts, Queued, NEW r \in Readers, Moves(r), ver' = ver, local' = local
  PROVE  Counts'
  <1>1. Begun \subseteq Begun' /\ Begun' \subseteq Readers /\ IsFiniteSet(Readers)
    BY CacheAssumption DEF Begun, Moves, Left
  <1>2. IsFiniteSet(Begun')
    BY <1>1, FS_Subset
  <1>3. Cardinality(Begun) <= Cardinality(Begun') /\ Cardinality(Begun') \in Nat /\ Cardinality(Begun) \in Nat
    BY <1>1, <1>2, FS_Subset, FS_CardinalityType
  <1>4. \A p \in Proc : local'[p] <= 1 + Cardinality(Begun')
    BY <1>3 DEF Counts, CacheType
  <1> QED BY <1>4, MovesCounts

(* What a read finds is enough for it, and for those who have joined it.    *)
LEMMA FoundEnough ==
  ASSUME CacheInv, NEW q \in Readers, req[q].pc \in Waits, NEW k \in Gens, k = req[q].key,
         NEW v \in Nat, MayFind(req[q].at, k, v)
  PROVE  Enough(q, v)
  <1>1. CacheType /\ Queued /\ Places /\ OwnKept /\ Floors
    BY DEF CacheInv
  <1>2. PICK p \in Proc : p = req[q].at
    BY <1>1 DEF Places, Waits
  <1>3. req[q].own \in Nat /\ req[q].all \in Nat
    BY <1>1 DEF CacheType, Task
  <1>4. ASSUME p \notin tangled PROVE req[q].own <= v
    BY <1>1, <1>2, <1>4 DEF OwnKept, Writes
  <1>5. ASSUME away = {} PROVE req[q].all <= v
    <2>1. conn[p]
      BY <1>1, <1>5 DEF Queued
    <2>2. PICK F \in [Gens -> Nat] : Floor(F)
      BY <1>1, <1>5 DEF Floors, Trusted
    <2>3. F[k] <= v
      BY <1>2, <2>1, <2>2 DEF Floor, FloorProcess
    <2>4. req[q].all <= F[k]
      BY <1>2, <1>5, <2>1, <2>2 DEF Floor, FloorRequest
    <2>5. F[k] \in Nat
      OBVIOUS
    <2> QED BY <1>3, <2>3, <2>4, <2>5
  <1> QED BY <1>2, <1>4, <1>5 DEF Enough

LEMMA FetchedEnough ==
  ASSUME CacheInv, NEW q \in Readers, req[q].pc \in Waits, NEW i \in 1..Len(queue[req[q].at]),
         queue[req[q].at][i].op = "fetch", queue[req[q].at][i].res > 0, queue[req[q].at][i].res \in Int,
         req[queue[req[q].at][i].r].key = req[q].key
  PROVE  Enough(q, queue[req[q].at][i].res)
  <1>1. CacheType /\ Queued /\ Places /\ OwnKept /\ Floors
    BY DEF CacheInv
  <1>2. PICK p \in Proc : p = req[q].at
    BY <1>1 DEF Places, Waits
  <1>3. req[q].own \in Nat /\ req[q].all \in Nat /\ req[q].key \in Gens
    BY <1>1 DEF CacheType, Task, Places, Waits
  <1>4. conn[p]
    BY <1>1, <1>2 DEF Queued
  <1>5. ASSUME Trusted PROVE req[q].own <= queue[p][i].res /\ (away = {} => req[q].all <= queue[p][i].res)
    <2>1. PICK F \in [Gens -> Nat] : Floor(F)
      BY <1>1, <1>5 DEF Floors
    <2>2. PICK k \in Gens : k = req[q].key
      BY <1>3
    <2>3. F[k] <= queue[p][i].res /\ F[k] \in Nat
      <3>1. i \in 1..Len(queue[p])
        BY <1>2
      <3>2. FloorCommand(F, p, i)
        BY <2>1, <3>1 DEF Floor
      <3>3. queue[p][i].op = "fetch" /\ queue[p][i].res > 0 /\ queue[p][i].res \in Int /\ req[queue[p][i].r].key = k
        BY <1>2, <2>2
      <3>4. queue[p][i].res >= 0
        BY <3>3
      <3>5. F[req[queue[p][i].r].key] <= queue[p][i].res
        BY <1>4, <3>2, <3>3, <3>4 DEF FloorCommand
      <3> QED BY <2>1, <3>3, <3>5
    <2>4. req[q].own <= F[k] /\ (away = {} => req[q].all <= F[k])
      BY <1>2, <1>4, <2>1, <2>2 DEF Floor, FloorRequest
    <2> QED BY <1>2, <1>3, <2>3, <2>4
  <1>6. (away = {} => Trusted) /\ (p \notin tangled => Trusted)
    BY DEF Trusted
  <1> QED BY <1>2, <1>5, <1>6 DEF Enough

(* A read goes on with the number it has, or ends.                          *)
LEMMA WaitMoves ==
  ASSUME CacheInv, NEW r \in Readers, req[r].pc \in Waits, Moves(r), Finds, CacheType', Places',
         ver' = ver, local' = local, pending' = pending, returned' = returned, tangled' = tangled,
         cool' = cool, granted' = granted,
         req'[r].pc \in Waits \cup {"done"}, req'[r].at = req[r].at, req'[r].key = req[r].key,
         req'[r].own = req[r].own, req'[r].all = req[r].all, req'[r].val <= ver,
         req'[r].pc = "done" => \A q \in Readers : q = r \/ Left(q, r) => Enough(q, req'[r].val)
  PROVE  CacheInv'
  <1>1. /\ CacheType /\ NotNewer /\ Counts /\ Queued /\ Places /\ Held /\ OwnKept
        /\ ver \in Nat /\ req[r].own <= ver /\ req[r].all <= ver
    BY DEF CacheInv, CacheType, NotNewer
  <1>2. Counts'
    BY <1>1, CountsMove
  <1>3. Held'
    BY <1>1 DEF Held, Moves
  <1>4. ASSUME req'[r].at \notin tangled PROVE Asks(r)
    <2>1. PICK p \in Proc : p = req[r].at
      BY <1>1 DEF Places, Waits
    <2>2. Numbers(p) /\ Writes(p)
      BY <1>1, <1>4, <2>1 DEF OwnKept
    <2>3. req[r].key <= local[p]
      BY <2>1, <2>2 DEF Numbers
    <2>4. \A v \in Nat : MayFind(p, req[r].key, v) => req[r].own <= v
      BY <2>1, <2>2 DEF Writes
    <2>5. req'[r].pc # "gen"
      BY DEF Waits
    <2> QED BY <1>1, <2>1, <2>3, <2>4, <2>5 DEF Asks
  <1>5. ASSUME NEW F \in [Gens -> Nat], Floor(F) PROVE FloorRequest(F, r)'
    <2>1. FloorRequest(F, r) /\ req'[r].pc # "gen"
      BY <1>5 DEF Floor, Waits
    <2> QED BY <2>1 DEF FloorRequest, Moves
  <1>6. req'[r].pc # "bump"
    BY DEF Waits
  <1>7. req'[r].pc = "done" => \A q \in Readers : q = r \/ Left(q, r) =>
          Enough(q, req'[r].val) /\ req'[q].all = req[q].all /\ req'[q].own = req[q].own /\ req'[q].at = req[q].at
    BY DEF Left
  <1> QED BY <1>1, <1>2, <1>3, <1>4, <1>5, <1>6, <1>7, SimpleMoves

-----------------------------------------------------------------------------
(* Where requests are, and what they may find.                              *)
LEMMA NobodyJoined ==
  ASSUME Places, NEW r \in Readers, req[r].pc \notin {"fetch", "load", "save"}, NEW q \in Readers
  PROVE  ~Left(q, r)
  <1>1. SUFFICES ASSUME req[q].pc = "join", req[q].on = r PROVE FALSE
    BY DEF Left
  <1>2. PICK p \in Proc, k \in Gens : p = req[q].at /\ k = req[q].key
    BY <1>1 DEF Places
  <1>3. inflight[p][k] = r /\ r # None
    BY <1>1, <1>2 DEF Places
  <1> QED BY <1>3 DEF Places

LEMMA LoadsMoved ==
  ASSUME CacheType, Places, NEW r \in Readers, inflight' = inflight,
         \A q \in Readers : q # r => req'[q] = req[q],
         req[r].pc \in {"fetch", "load", "save"} =>
           req'[r].pc \in {"fetch", "load", "save"} /\ req'[r].at = req[r].at /\ req'[r].key = req[r].key,
         req'[r].pc \in {"fetch", "load", "save"} => req[r].pc \in {"fetch", "load", "save"},
         req'[r].pc # "idle" => req'[r].at \in Proc,
         req'[r].pc \in {"gen", "key", "fetch", "load", "save", "join"} => req'[r].key \in Gens,
         req'[r].pc \in {"gen", "key", "fetch"} => req'[r].val = 0,
         req'[r].pc \in {"write", "bump", "claim"} => req'[r].own = 0 /\ req'[r].all = 0,
         req'[r].pc = "join" => req'[r].on # None /\ inflight[req'[r].at][req'[r].key] = req'[r].on
  PROVE  Places'
  <1>1. ASSUME NEW q \in Readers
        PROVE  /\ req'[q].pc # "idle" => req'[q].at \in Proc
               /\ req'[q].pc \in {"gen", "key", "fetch", "load", "save", "join"} => req'[q].key \in Gens
               /\ req'[q].pc \in {"gen", "key", "fetch"} => req'[q].val = 0
               /\ req'[q].pc \in {"write", "bump", "claim"} => req'[q].own = 0 /\ req'[q].all = 0
               /\ req'[q].pc \in {"fetch", "load", "save"} => inflight'[req'[q].at][req'[q].key] = q
               /\ req'[q].pc = "join" => req'[q].on # None /\ inflight'[req'[q].at][req'[q].key] = req'[q].on
    <2>1. CASE q = r
      BY <2>1 DEF Places
    <2>2. CASE q # r
      BY <2>2 DEF Places
    <2> QED BY <2>1, <2>2
  <1>2. ASSUME NEW p \in Proc, NEW k \in Gens, inflight'[p][k] # None
        PROVE  /\ req'[inflight'[p][k]].pc \in {"fetch", "load", "save"}
               /\ req'[inflight'[p][k]].at = p /\ req'[inflight'[p][k]].key = k
    <2>1. inflight[p][k] \in Readers /\ inflight'[p][k] = inflight[p][k]
      BY <1>2 DEF CacheType
    <2>2. req[inflight[p][k]].pc \in {"fetch", "load", "save"} /\ req[inflight[p][k]].at = p /\ req[inflight[p][k]].key = k
      BY <2>1, <1>2 DEF Places
    <2> QED BY <2>1, <2>2
  <1> QED BY <1>1, <1>2 DEF Places

LEMMA LoadEnds ==
  ASSUME CacheType, Places, NEW r \in Readers, req[r].pc \in {"fetch", "load", "save"}, NEW v \in Nat, C!Ends(r, v)
  PROVE  /\ req' \in [Readers -> Task] /\ inflight' \in [Proc -> [Gens -> Readers \cup {None}]] /\ Places'
         /\ \A q \in Readers : q # r => req'[q] = req[q] \/ Left(q, r)
         /\ req'[r].pc = "done" /\ req'[r].val = v /\ req'[r].at = req[r].at /\ req'[r].key = req[r].key
         /\ req'[r].own = req[r].own /\ req'[r].all = req[r].all
  <1>1. PICK p \in Proc, k \in Gens : p = req[r].at /\ k = req[r].key
    BY DEF Places
  <1>2. inflight[p][k] = r
    BY <1>1 DEF Places
  <1>3. /\ inflight' \in [Proc -> [Gens -> Readers \cup {None}]] /\ inflight'[p][k] = None
        /\ \A q \in Proc, l \in Gens : q # p \/ l # k => inflight'[q][l] = inflight[q][l]
    BY <1>1 DEF C!Ends, C!Forgotten, CacheType
  <1>4. ASSUME NEW q \in Readers
        PROVE  IF q = r \/ (req[q].pc = "join" /\ req[q].on = r)
               THEN /\ req'[q] \in Task /\ req'[q].pc = "done" /\ req'[q].val = v /\ req'[q].at = req[q].at
                    /\ req'[q].key = req[q].key /\ req'[q].own = req[q].own /\ req'[q].all = req[q].all
               ELSE req'[q] = req[q]
    <2>1. req[q] \in Task
      BY DEF CacheType
    <2>2. req'[q] = IF q = r \/ (req[q].pc = "join" /\ req[q].on = r)
                    THEN [req[q] EXCEPT !.pc = "done", !.val = v, !.on = None] ELSE req[q]
      BY DEF C!Ends, C!Now
    <2> QED BY <2>1, <2>2 DEF Task
  <1>5. req' \in [Readers -> Task]
    <2>1. \A q \in Readers : req'[q] \in Task
      BY <1>4 DEF CacheType
    <2>2. req' = [q \in Readers |-> req'[q]]
      BY DEF C!Ends
    <2> QED BY <2>1, <2>2
  <1>6. \A q \in Readers : q # r => req'[q] = req[q] \/ Left(q, r)
    BY <1>4 DEF Left
  <1>7. ASSUME NEW q \in Readers, req'[q].pc # "done"
        PROVE  req'[q] = req[q] /\ q # r /\ ~(req[q].pc = "join" /\ req[q].on = r)
    BY <1>4, <1>7
  <1>8. ASSUME NEW q \in Readers
        PROVE  /\ req'[q].pc # "idle" => req'[q].at \in Proc
               /\ req'[q].pc \in {"gen", "key", "fetch", "load", "save", "join"} => req'[q].key \in Gens
               /\ req'[q].pc \in {"gen", "key", "fetch"} => req'[q].val = 0
               /\ req'[q].pc \in {"write", "bump", "claim"} => req'[q].own = 0 /\ req'[q].all = 0
               /\ req'[q].pc \in {"fetch", "load", "save"} => inflight'[req'[q].at][req'[q].key] = q
               /\ req'[q].pc = "join" => req'[q].on # None /\ inflight'[req'[q].at][req'[q].key] = req'[q].on
    <2>1. CASE req'[q].pc = "done"
      <3>1. req[q].pc # "idle" /\ req'[q].at = req[q].at
        BY <1>4, <2>1
      <3> QED BY <2>1, <3>1 DEF Places
    <2>2. CASE req'[q].pc # "done"
      <3>1. req'[q] = req[q] /\ q # r /\ ~(req[q].pc = "join" /\ req[q].on = r)
        BY <1>7, <2>2
      <3>2. ASSUME req[q].pc \in {"fetch", "load", "save"} PROVE inflight'[req[q].at][req[q].key] = q
        <4>1. PICK m \in Proc, l \in Gens : m = req[q].at /\ l = req[q].key /\ inflight[m][l] = q
          BY <3>2 DEF Places
        <4> QED BY <1>2, <1>3, <3>1, <4>1
      <3>3. ASSUME req[q].pc = "join" PROVE inflight'[req[q].at][req[q].key] = req[q].on
        <4>1. PICK m \in Proc, l \in Gens : m = req[q].at /\ l = req[q].key /\ inflight[m][l] = req[q].on
          BY <3>3 DEF Places
        <4> QED BY <1>2, <1>3, <3>1, <3>3, <4>1
      <3> QED BY <3>1, <3>2, <3>3 DEF Places
    <2> QED BY <2>1, <2>2
  <1>9. ASSUME NEW m \in Proc, NEW l \in Gens, inflight'[m][l] # None
        PROVE  /\ req'[inflight'[m][l]].pc \in {"fetch", "load", "save"}
               /\ req'[inflight'[m][l]].at = m /\ req'[inflight'[m][l]].key = l
    <2>1. (m # p \/ l # k) /\ inflight'[m][l] = inflight[m][l] /\ inflight[m][l] \in Readers
      BY <1>3, <1>9 DEF CacheType
    <2>2. req[inflight[m][l]].pc \in {"fetch", "load", "save"} /\ req[inflight[m][l]].at = m /\ req[inflight[m][l]].key = l
      BY <1>9, <2>1 DEF Places
    <2>3. inflight[m][l] # r
      BY <1>1, <2>1, <2>2
    <2> QED BY <1>4, <2>1, <2>2, <2>3
  <1>10. Places'
    BY <1>8, <1>9 DEF Places
  <1> QED BY <1>3, <1>4, <1>5, <1>6, <1>10

LEMMA FindsKept ==
  ASSUME CacheType, NEW r \in Readers, \A q \in Readers : q # r => req'[q] = req[q] \/ Left(q, r),
         req'[r].pc \in {"load", "save"} /\ req'[r].val > 0 =>
           req[r].pc \in {"load", "save"} /\ req'[r].val = req[r].val /\ req'[r].at = req[r].at /\ req'[r].key = req[r].key,
         \A p \in Proc, k \in Gens :
           \/ memory'[p].read[k] = memory[p].read[k] \/ memory'[p].read[k] = 0
           \/ req[r].pc \in {"load", "save"} /\ req[r].at = p /\ req[r].key = k /\ memory'[p].read[k] = req[r].val
  PROVE  Finds
  BY DEF Finds, MayFind, Left

-----------------------------------------------------------------------------
(* Each step of a read.                                                     *)
LEMMA OneChanged ==
  ASSUME CacheType, NEW r \in Readers, NEW t \in Task, req' = [req EXCEPT ![r] = t]
  PROVE  req' \in [Readers -> Task] /\ req'[r] = t /\ \A q \in Readers : q # r => req'[q] = req[q]
  BY DEF CacheType

LEMMA LookupKept == ASSUME CacheInv, NEW r \in Readers, C!Lookup(r) PROVE CacheInv'
  <1>1. /\ CacheType /\ Queued /\ Places /\ NotNewer /\ req[r] \in Task /\ req[r].pc = "key" /\ req[r].val = 0
        /\ UNCHANGED <<ver, gen, store, cool, conn, local, pending, memory, drops, away, returned, tangled, granted>>
    BY DEF CacheInv, CacheType, Places, C!Lookup, C!Now, C!redis, C!history
  <1>2. PICK p \in Proc, k \in Gens : p = req[r].at /\ k = req[r].key
    BY <1>1 DEF Places
  <1>a. "key" \in Waits /\ ver \in Nat /\ 0 <= ver
    BY <1>1 DEF Waits, CacheType
  <1>3. CASE memory[p].read[k] > 0 /\ req' = [req EXCEPT ![r].pc = "done", ![r].val = memory[p].read[k]] /\ UNCHANGED <<queue, inflight>>
    <2> DEFINE v == memory[p].read[k]
               t == [req[r] EXCEPT !.pc = "done", !.val = v]
    <2>1. v \in Nat /\ v <= ver /\ MayFind(p, k, v)
      BY <1>1, <1>3 DEF CacheType, Memory, NotNewer, MayFind
    <2>2. req' = [req EXCEPT ![r] = t]
      BY <1>1, <1>3 DEF CacheType
    <2> HIDE DEF v
    <2>3. /\ t \in Task /\ t.pc = "done" /\ t.at = req[r].at /\ t.key = req[r].key /\ t.own = req[r].own /\ t.all = req[r].all
          /\ t.val = v
      BY <1>1, <2>1 DEF Task
    <2> HIDE DEF t
    <2>4. req' \in [Readers -> Task] /\ req'[r] = t /\ \A q \in Readers : q # r => req'[q] = req[q]
      BY <1>1, <2>2, <2>3, OneChanged
    <2>5. queue' \in [Proc -> Seq(Command)] /\ InLine(r)
      BY <1>1, <1>3, QueueStays
    <2>6. Moves(r)
      BY <1>1, <1>2, <2>3, <2>4, <2>5 DEF Moves
    <2>7. Finds
      BY <1>1, <2>3, <2>4, FindsKept
    <2>8. Places'
      BY <1>1, <1>2, <1>3, <2>3, <2>4, LoadsMoved
    <2>9. CacheType'
      BY <1>1, <1>3, <2>4 DEF CacheType
    <2>10. Enough(r, v) /\ \A q \in Readers : ~Left(q, r)
      BY <1>1, <1>2, <1>a, <2>1, FoundEnough, NobodyJoined
    <2> QED BY <1>1, <1>a, <2>1, <2>3, <2>4, <2>6, <2>7, <2>8, <2>9, <2>10, WaitMoves
  <1>4. CASE \E q \in C!Loading(p, k) : req' = [req EXCEPT ![r].pc = "join", ![r].on = q] /\ UNCHANGED <<queue, inflight>>
    <2>0. inflight[p][k] \in Readers \cup {None}
      BY <1>1 DEF CacheType
    <2>a. PICK q \in C!Loading(p, k) : req' = [req EXCEPT ![r].pc = "join", ![r].on = q]
      BY <1>4
    <2>1. q \in Readers /\ q = inflight[p][k] /\ q # None
      BY <2>0, <2>a DEF C!Loading
    <2> DEFINE t == [req[r] EXCEPT !.pc = "join", !.on = q]
    <2>2. req' = [req EXCEPT ![r] = t]
      BY <1>1, <2>a DEF CacheType
    <2>3. /\ t \in Task /\ t.pc = "join" /\ t.at = req[r].at /\ t.key = req[r].key /\ t.own = req[r].own /\ t.all = req[r].all
          /\ t.val = 0 /\ t.on = q
      BY <1>1, <2>1 DEF Task
    <2> HIDE DEF t
    <2>4. req' \in [Readers -> Task] /\ req'[r] = t /\ \A m \in Readers : m # r => req'[m] = req[m]
      BY <1>1, <2>2, <2>3, OneChanged
    <2>5. queue' \in [Proc -> Seq(Command)] /\ InLine(r)
      BY <1>1, <1>4, QueueStays
    <2>6. Moves(r)
      BY <1>1, <1>2, <2>3, <2>4, <2>5 DEF Moves
    <2>7. Finds
      BY <1>1, <2>3, <2>4, FindsKept
    <2>8. Places'
      <3>1. req'[r].pc = "join" /\ inflight[req'[r].at][req'[r].key] = req'[r].on /\ req'[r].on # None
        BY <1>2, <2>1, <2>3, <2>4
      <3>2. req'[r].at \in Proc /\ req'[r].key \in Gens
        BY <1>2, <2>3, <2>4
      <3> QED BY <1>1, <1>4, <2>4, <3>1, <3>2, LoadsMoved
    <2>9. CacheType'
      BY <1>1, <1>4, <2>4 DEF CacheType
    <2> QED BY <1>1, <1>a, <2>3, <2>4, <2>6, <2>7, <2>8, <2>9, WaitMoves DEF Waits
  <1>5. CASE /\ C!Loading(p, k) = {} /\ inflight' = [inflight EXCEPT ![p][k] = r]
             /\ IF conn[p] THEN C!Set(r, "fetch") /\ C!Sends(p, r, "fetch") ELSE C!Set(r, "load") /\ UNCHANGED queue
    <2> DEFINE c == IF conn[p] THEN "fetch" ELSE "load"
               t == [req[r] EXCEPT !.pc = c]
    <2>1. c \in {"fetch", "load"} /\ (conn[p] => c = "fetch")
      OBVIOUS
    <2>2. req' = [req EXCEPT ![r] = t]
      BY <1>1, <1>5 DEF CacheType, C!Set
    <2> HIDE DEF c
    <2>3. /\ t \in Task /\ t.pc = c /\ t.at = req[r].at /\ t.key = req[r].key /\ t.own = req[r].own /\ t.all = req[r].all
          /\ t.val = 0
      BY <1>1, <2>1 DEF Task
    <2> HIDE DEF t
    <2>4. req' \in [Readers -> Task] /\ req'[r] = t /\ \A q \in Readers : q # r => req'[q] = req[q]
      BY <1>1, <2>2, <2>3, OneChanged
    <2>5. queue' \in [Proc -> Seq(Command)] /\ InLine(r)
      <3>1. CASE conn[p]
        BY <1>1, <1>2, <1>5, <2>1, <2>3, <2>4, <3>1, QueueGrows DEF Sent
      <3>2. CASE ~conn[p]
        BY <1>1, <1>5, <3>2, QueueStays
      <3> QED BY <3>1, <3>2
    <2>6. Moves(r)
      BY <1>1, <1>2, <2>1, <2>3, <2>4, <2>5 DEF Moves
    <2>7. Finds
      BY <1>1, <2>3, <2>4, FindsKept
    <2>8. /\ inflight' \in [Proc -> [Gens -> Readers \cup {None}]] /\ inflight'[p][k] = r /\ inflight[p][k] = None
          /\ \A m \in Proc, l \in Gens : m # p \/ l # k => inflight'[m][l] = inflight[m][l]
      BY <1>1, <1>5 DEF CacheType, C!Loading
    <2>9. Places'
      <3>1. ASSUME NEW q \in Readers, q # r
            PROVE  /\ req[q].pc \in {"fetch", "load", "save"} => inflight'[req[q].at][req[q].key] = q
                   /\ req[q].pc = "join" => inflight'[req[q].at][req[q].key] = req[q].on
        <4>1. ASSUME req[q].pc \in {"fetch", "load", "save", "join"} PROVE inflight'[req[q].at][req[q].key] = inflight[req[q].at][req[q].key]
          <5>1. PICK m \in Proc, l \in Gens : m = req[q].at /\ l = req[q].key /\ inflight[m][l] # None
            BY <1>1, <3>1, <4>1, CacheAssumption DEF Places
          <5> QED BY <2>8, <5>1
        <4> QED BY <1>1, <3>1, <4>1 DEF Places
      <3>2. ASSUME NEW m \in Proc, NEW l \in Gens, inflight'[m][l] # None, m # p \/ l # k
            PROVE  /\ req'[inflight'[m][l]].pc \in {"fetch", "load", "save"}
                   /\ req'[inflight'[m][l]].at = m /\ req'[inflight'[m][l]].key = l
        <4>1. inflight'[m][l] = inflight[m][l] /\ inflight[m][l] \in Readers
          BY <1>1, <2>8, <3>2 DEF CacheType
        <4>2. /\ req[inflight[m][l]].pc \in {"fetch", "load", "save"}
              /\ req[inflight[m][l]].at = m /\ req[inflight[m][l]].key = l
          BY <1>1, <3>2, <4>1 DEF Places
        <4> QED BY <1>1, <2>4, <4>1, <4>2
      <3>3. ASSUME NEW q \in Readers
            PROVE  /\ req'[q].pc # "idle" => req'[q].at \in Proc
                   /\ req'[q].pc \in {"gen", "key", "fetch", "load", "save", "join"} => req'[q].key \in Gens
                   /\ req'[q].pc \in {"gen", "key", "fetch"} => req'[q].val = 0
                   /\ req'[q].pc \in {"write", "bump", "claim"} => req'[q].own = 0 /\ req'[q].all = 0
                   /\ req'[q].pc \in {"fetch", "load", "save"} => inflight'[req'[q].at][req'[q].key] = q
                   /\ req'[q].pc = "join" => req'[q].on # None /\ inflight'[req'[q].at][req'[q].key] = req'[q].on
        <4>1. CASE q = r
          BY <1>2, <2>1, <2>3, <2>4, <2>8, <4>1
        <4>2. CASE q # r
          BY <1>1, <2>4, <3>1, <4>2 DEF Places
        <4> QED BY <4>1, <4>2
      <3>4. ASSUME NEW m \in Proc, NEW l \in Gens, inflight'[m][l] # None
            PROVE  /\ req'[inflight'[m][l]].pc \in {"fetch", "load", "save"}
                   /\ req'[inflight'[m][l]].at = m /\ req'[inflight'[m][l]].key = l
        BY <1>2, <2>1, <2>3, <2>4, <2>8, <3>2, <3>4
      <3> QED BY <3>3, <3>4 DEF Places
    <2>10. CacheType'
      BY <1>1, <2>4, <2>5, <2>8 DEF CacheType
    <2> QED BY <1>1, <1>a, <2>1, <2>3, <2>4, <2>6, <2>7, <2>9, <2>10, WaitMoves DEF Waits
  <1> QED BY <1>2, <1>3, <1>4, <1>5 DEF C!Lookup


LEMMA JoinedTogether ==
  ASSUME Places, NEW r \in Readers, NEW q \in Readers, req[q].pc = "join", req[q].on = r
  PROVE  req[q].at = req[r].at /\ req[q].key = req[r].key /\ req[q].pc \in Waits
  <1>1. PICK p \in Proc, k \in Gens : p = req[q].at /\ k = req[q].key
    BY DEF Places
  <1>2. inflight[p][k] = r /\ r # None
    BY <1>1 DEF Places
  <1>3. req[r].at = p /\ req[r].key = k
    BY <1>2 DEF Places
  <1> QED BY <1>1, <1>3 DEF Waits

LEMMA EndsKept ==
  ASSUME CacheInv, NEW r \in Readers, req[r].pc \in {"fetch", "load", "save"}, NEW v \in Nat, v <= ver, C!Ends(r, v),
         queue' \in [Proc -> Seq(Command)], InLine(r), memory' \in [Proc -> Memory],
         UNCHANGED <<ver, gen, store, cool, conn, local, pending, drops, away, returned, tangled, granted>>,
         \A p \in Proc, k \in Gens :
           \/ memory'[p].read[k] = memory[p].read[k]
           \/ req[r].pc = "load" /\ req[r].at = p /\ req[r].key = k /\ memory'[p].read[k] = req[r].val,
         \A q \in Readers : req[q].pc \in Waits /\ req[q].at = req[r].at /\ req[q].key = req[r].key => Enough(q, v)
  PROVE  CacheInv'
  <1>1. CacheType /\ Queued /\ Places /\ req[r].pc \in Waits /\ req[r].at \in Proc
    BY DEF CacheInv, Waits, Places
  <1>2. /\ req' \in [Readers -> Task] /\ inflight' \in [Proc -> [Gens -> Readers \cup {None}]] /\ Places'
        /\ \A q \in Readers : q # r => req'[q] = req[q] \/ Left(q, r)
        /\ req'[r].pc = "done" /\ req'[r].val = v /\ req'[r].at = req[r].at /\ req'[r].key = req[r].key
        /\ req'[r].own = req[r].own /\ req'[r].all = req[r].all
    BY <1>1, LoadEnds
  <1>3. Moves(r)
    BY <1>1, <1>2 DEF Moves
  <1>4. Finds
    BY <1>1, <1>2, FindsKept
  <1>5. CacheType'
    BY <1>1, <1>2 DEF CacheType
  <1>6. ASSUME NEW q \in Readers, q = r \/ Left(q, r) PROVE Enough(q, v)
    <2>1. CASE q = r
      BY <1>1, <2>1
    <2>2. CASE Left(q, r)
      BY <1>1, <2>2, JoinedTogether DEF Left
    <2> QED BY <1>6, <2>1, <2>2
  <1> QED BY <1>1, <1>2, <1>3, <1>4, <1>5, <1>6, WaitMoves

LEMMA FetchedKept == ASSUME CacheInv, NEW r \in Readers, C!Fetched(r) PROVE CacheInv'
  <1>1. /\ CacheType /\ Queued /\ Places /\ NotNewer /\ req[r] \in Task /\ req[r].pc = "fetch" /\ req[r].val = 0
        /\ C!Answered(r, {"fetch"}) /\ C!Connected(r)
        /\ UNCHANGED <<ver, gen, store, cool, local, pending, memory, drops, away, returned, tangled, granted>>
    BY DEF CacheInv, CacheType, Places, C!Fetched, C!Now, C!redis, C!history
  <1>2. PICK p \in Proc, k \in Gens : p = req[r].at /\ k = req[r].key
    BY <1>1 DEF Places
  <1>3. /\ queue' \in [Proc -> Seq(Command)] /\ InLine(r) /\ 1 \in 1..Len(queue[p]) /\ queue[p][1].r = r
        /\ queue[p][1].op = "fetch" /\ queue[p][1].res \in Int /\ C!Res(r) = queue[p][1].res
        /\ (C!Failed(r) <=> ~conn[p])
    BY <1>1, <1>2, QueueShrinks
  <1>4. conn' = conn
    BY <1>1, <1>2, <1>3 DEF C!Connected, CacheType
  <1>5. ver \in Nat /\ 0 <= ver /\ "fetch" \in Waits /\ "load" \in Waits
    BY <1>1 DEF CacheType, Waits
  <1>6. CASE C!Res(r) > 0
    <2>1. PICK v \in Nat : v = queue[p][1].res /\ v = C!Res(r) /\ v > 0
      BY <1>3, <1>6
    <2>2. C!Ends(r, v)
      BY <1>6, <2>1 DEF C!Fetched
    <2>3. v <= ver
      BY <1>1, <1>3, <2>1 DEF NotNewer
    <2>4. ASSUME NEW q \in Readers, req[q].pc \in Waits, req[q].at = req[r].at, req[q].key = req[r].key PROVE Enough(q, v)
      BY <1>2, <1>3, <2>1, <2>4, FetchedEnough
    <2>5. memory' \in [Proc -> Memory]
      BY <1>1 DEF CacheType
    <2> QED BY <1>1, <1>3, <1>4, <2>2, <2>3, <2>4, <2>5, EndsKept
  <1>7. CASE ~(C!Res(r) > 0)
    <2> DEFINE t == [req[r] EXCEPT !.pc = "load"]
    <2>1. req' = [req EXCEPT ![r] = t] /\ inflight' = inflight
      BY <1>1, <1>7 DEF CacheType, C!Set, C!Fetched
    <2>2. /\ t \in Task /\ t.pc = "load" /\ t.at = req[r].at /\ t.key = req[r].key /\ t.own = req[r].own /\ t.all = req[r].all
          /\ t.val = 0
      BY <1>1 DEF Task
    <2> HIDE DEF t
    <2>3. req' \in [Readers -> Task] /\ req'[r] = t /\ \A q \in Readers : q # r => req'[q] = req[q]
      BY <1>1, <2>1, <2>2, OneChanged
    <2>4. Moves(r)
      BY <1>1, <1>2, <1>3, <1>4, <2>2, <2>3 DEF Moves
    <2>5. Finds
      BY <1>1, <2>2, <2>3, FindsKept
    <2>6. Places'
      BY <1>1, <1>2, <2>1, <2>2, <2>3, LoadsMoved
    <2>7. CacheType'
      BY <1>1, <1>3, <1>4, <2>1, <2>3 DEF CacheType
    <2> QED BY <1>1, <1>5, <2>2, <2>3, <2>4, <2>5, <2>6, <2>7, WaitMoves
  <1> QED BY <1>6, <1>7

LEMMA SeenKept == ASSUME CacheInv, NEW r \in Readers, C!Seen(r) PROVE CacheInv'
  <1>1. /\ CacheType /\ Queued /\ Places /\ req[r] \in Task /\ req[r].pc = "load" /\ req[r].val = 0
        /\ req' = [req EXCEPT ![r].val = ver]
        /\ UNCHANGED <<ver, gen, store, cool, conn, local, pending, memory, inflight, queue, drops, away, returned, tangled, granted>>
    BY DEF CacheInv, CacheType, C!Seen, C!Now, C!redis, C!process, C!history
  <1>2. PICK p \in Proc, k \in Gens : p = req[r].at /\ k = req[r].key
    BY <1>1 DEF Places
  <1>3. ver \in Nat /\ ver <= ver /\ "load" \in Waits
    BY <1>1 DEF CacheType, Waits
  <1> DEFINE t == [req[r] EXCEPT !.val = ver]
  <1>4. req' = [req EXCEPT ![r] = t]
    BY <1>1 DEF CacheType
  <1>5. /\ t \in Task /\ t.pc = "load" /\ t.at = req[r].at /\ t.key = req[r].key /\ t.own = req[r].own /\ t.all = req[r].all
        /\ t.val = ver
    BY <1>1, <1>3 DEF Task
  <1> HIDE DEF t
  <1>6. req' \in [Readers -> Task] /\ req'[r] = t /\ \A q \in Readers : q # r => req'[q] = req[q]
    BY <1>1, <1>4, <1>5, OneChanged
  <1>7. queue' \in [Proc -> Seq(Command)] /\ InLine(r)
    BY <1>1, QueueStays
  <1>8. Moves(r)
    BY <1>1, <1>2, <1>5, <1>6, <1>7 DEF Moves
  <1>9. Finds
    <2>1. ASSUME NEW m \in Proc, NEW l \in Gens, NEW v \in Nat, MayFind(m, l, v)', ~MayFind(m, l, v)
          PROVE  v = ver /\ req[r].pc = "load" /\ req[r].at = m /\ req[r].key = l
      <3>1. v > 0 /\ memory[m].read[l] # v
        BY <1>1, <2>1 DEF MayFind
      <3>2. PICK q \in Readers : req'[q].pc \in {"load", "save"} /\ req'[q].at = m /\ req'[q].key = l /\ req'[q].val = v
        BY <1>1, <2>1, <3>1 DEF MayFind
      <3>3. q = r
        BY <1>6, <2>1, <3>1, <3>2 DEF MayFind
      <3> QED BY <1>1, <1>5, <1>6, <3>2, <3>3
    <2> QED BY <2>1 DEF Finds
  <1>10. Places'
    BY <1>1, <1>2, <1>5, <1>6, LoadsMoved
  <1>11. CacheType'
    BY <1>1, <1>6 DEF CacheType
  <1> QED BY <1>1, <1>3, <1>5, <1>6, <1>8, <1>9, <1>10, <1>11, WaitMoves

LEMMA LoadKept == ASSUME CacheInv, NEW r \in Readers, C!Load(r) PROVE CacheInv'
  <1>1. /\ CacheType /\ Queued /\ Places /\ NotNewer /\ req[r] \in Task /\ req[r].pc = "load" /\ req[r].val > 0
        /\ memory' = [memory EXCEPT ![req[r].at].read[req[r].key] = req[r].val]
        /\ UNCHANGED <<ver, gen, store, cool, conn, local, pending, drops, away, returned, tangled, granted>>
    BY DEF CacheInv, CacheType, C!Load, C!Under, C!Now, C!redis, C!history
  <1>2. PICK p \in Proc, k \in Gens : p = req[r].at /\ k = req[r].key
    BY <1>1 DEF Places
  <1>3. ver \in Nat /\ req[r].val \in Nat /\ req[r].val <= ver /\ "load" \in Waits /\ "save" \in Waits
    BY <1>1 DEF CacheType, Task, NotNewer, Waits
  <1>4. /\ memory' \in [Proc -> Memory] /\ memory'[p].read[k] = req[r].val
        /\ \A m \in Proc, l \in Gens : m # p \/ l # k => memory'[m].read[l] = memory[m].read[l]
    <2> DEFINE e == [memory[p] EXCEPT !.read[k] = req[r].val]
    <2>1. memory[p] \in Memory
      BY <1>1 DEF CacheType
    <2>2. e \in Memory /\ e.read[k] = req[r].val /\ \A l \in Gens : l # k => e.read[l] = memory[p].read[l]
      BY <1>3, <2>1 DEF Memory
    <2>3. memory' = [memory EXCEPT ![p] = e]
      BY <1>1, <1>2 DEF CacheType
    <2> HIDE DEF e
    <2>4. memory' \in [Proc -> Memory] /\ memory'[p] = e /\ \A m \in Proc : m # p => memory'[m] = memory[m]
      <3>1. memory \in [Proc -> Memory]
        BY <1>1 DEF CacheType
      <3> QED BY <2>2, <2>3, <3>1
    <2> QED BY <2>2, <2>4
  <1>5. MayFind(p, k, req[r].val)
    BY <1>1, <1>2 DEF MayFind
  <1>6. CASE conn[p]
    <2> DEFINE t == [req[r] EXCEPT !.pc = "save"]
    <2>1. req' = [req EXCEPT ![r] = t] /\ inflight' = inflight /\ C!Sends(p, r, "save")
      BY <1>1, <1>2, <1>6 DEF CacheType, C!Set, C!Load
    <2>2. /\ t \in Task /\ t.pc = "save" /\ t.at = req[r].at /\ t.key = req[r].key /\ t.own = req[r].own /\ t.all = req[r].all
          /\ t.val = req[r].val
      BY <1>1 DEF Task
    <2> HIDE DEF t
    <2>3. req' \in [Readers -> Task] /\ req'[r] = t /\ \A q \in Readers : q # r => req'[q] = req[q]
      BY <1>1, <2>1, <2>2, OneChanged
    <2>4. queue' \in [Proc -> Seq(Command)] /\ InLine(r)
      BY <1>1, <1>2, <1>6, <2>1, <2>2, <2>3, QueueGrows DEF Sent
    <2>5. Moves(r)
      BY <1>1, <1>2, <2>2, <2>3, <2>4 DEF Moves
    <2>6. Finds
      BY <1>1, <1>2, <1>4, <2>2, <2>3, FindsKept
    <2>7. Places'
      BY <1>1, <1>2, <2>1, <2>2, <2>3, LoadsMoved
    <2>8. CacheType'
      BY <1>1, <1>4, <2>1, <2>3, <2>4 DEF CacheType
    <2> QED BY <1>1, <1>3, <2>2, <2>3, <2>5, <2>6, <2>7, <2>8, WaitMoves
  <1>7. CASE ~conn[p]
    <2>1. C!Ends(r, req[r].val) /\ queue' = queue
      BY <1>2, <1>7 DEF C!Load
    <2>2. queue' \in [Proc -> Seq(Command)] /\ InLine(r)
      BY <1>1, <2>1, QueueStays
    <2>3. ASSUME NEW q \in Readers, req[q].pc \in Waits, req[q].at = req[r].at, req[q].key = req[r].key
          PROVE  Enough(q, req[r].val)
      BY <1>2, <1>3, <1>5, <2>3, FoundEnough
    <2> QED BY <1>1, <1>2, <1>3, <1>4, <2>1, <2>2, <2>3, EndsKept
  <1> QED BY <1>6, <1>7

LEMMA LoadFailsKept == ASSUME CacheInv, NEW r \in Readers, C!LoadFails(r) PROVE CacheInv'
  <1>1. /\ CacheType /\ Queued /\ req[r].pc = "load" /\ C!Ends(r, 0)
        /\ UNCHANGED <<ver, gen, store, cool, conn, local, pending, memory, queue, drops, away, returned, tangled, granted>>
    BY DEF CacheInv, C!LoadFails, C!Now, C!redis, C!history
  <1>2. queue' \in [Proc -> Seq(Command)] /\ InLine(r)
    BY <1>1, QueueStays
  <1>3. ver \in Nat /\ 0 <= ver /\ memory' \in [Proc -> Memory] /\ \A q \in Readers : Enough(q, 0)
    BY <1>1 DEF CacheType, Enough
  <1> QED BY <1>1, <1>2, <1>3, EndsKept

LEMMA SavedReadKept == ASSUME CacheInv, NEW r \in Readers, C!Saved(r) PROVE CacheInv'
  <1>1. /\ CacheType /\ Queued /\ Places /\ NotNewer /\ req[r].pc = "save" /\ C!Ends(r, req[r].val)
        /\ C!Answered(r, {"save"}) /\ C!Connected(r)
        /\ UNCHANGED <<ver, gen, store, cool, local, pending, memory, drops, away, returned, tangled, granted>>
    BY DEF CacheInv, C!Saved, C!Now, C!redis, C!history
  <1>2. PICK p \in Proc, k \in Gens : p = req[r].at /\ k = req[r].key
    BY <1>1 DEF Places
  <1>3. queue' \in [Proc -> Seq(Command)] /\ InLine(r) /\ (C!Failed(r) <=> ~conn[p])
    BY <1>1, <1>2, QueueShrinks
  <1>4. conn' = conn
    BY <1>1, <1>2, <1>3 DEF C!Connected, CacheType
  <1>5. PICK v \in Nat : v = req[r].val /\ v <= ver
    BY <1>1 DEF CacheType, Task, NotNewer
  <1>6. memory' \in [Proc -> Memory]
    BY <1>1 DEF CacheType
  <1>7. ASSUME NEW q \in Readers, req[q].pc \in Waits, req[q].at = req[r].at, req[q].key = req[r].key PROVE Enough(q, v)
    <2>1. CASE v > 0
      <3>1. MayFind(p, k, v)
        BY <1>1, <1>2, <1>5, <2>1 DEF MayFind
      <3> QED BY <1>2, <1>7, <3>1, FoundEnough
    <2>2. CASE ~(v > 0)
      BY <2>2 DEF Enough
    <2> QED BY <2>1, <2>2
  <1> QED BY <1>1, <1>3, <1>4, <1>5, <1>6, <1>7, EndsKept

LEMMA ReadKept == ASSUME CacheInv, NEW r \in Readers, NEW p \in Proc, C!Read(r, p) PROVE CacheInv'
  <1>1. /\ CacheType /\ Queued /\ Places /\ NotNewer /\ Counts /\ Held /\ OwnKept /\ req[r].pc = "idle"
        /\ UNCHANGED <<ver, gen, store, cool, conn, local, pending, memory, inflight, drops, away, returned, tangled, granted>>
    BY DEF CacheInv, C!Read, C!Now, C!redis, C!history
  <1>2. ver \in Nat /\ 0 <= ver /\ \A q \in Proc : returned[q] \in Nat /\ returned[q] <= ver
    BY <1>1 DEF CacheType, NotNewer
  <1> DEFINE T == {returned[q] : q \in Proc}
             c == IF conn[p] THEN "gen" ELSE "key"
             t == [C!Fresh(c) EXCEPT !.at = p, !.key = local[p], !.own = returned[p], !.all = C!Max(T)]
  <1>3. T \in SUBSET (0..ver) /\ T # {}
    BY <1>2, CacheAssumption
  <1>4. PICK m \in Nat : m = C!Max(T) /\ m <= ver /\ \E q \in Proc : m = returned[q]
    <2>1. C!Max(T) \in T
      BY <1>2, <1>3, NewestFound
    <2> QED BY <1>2, <2>1
  <1>5. req' = [req EXCEPT ![r] = t]
    BY DEF C!Read
  <1> HIDE DEF T
  <1>6. c \in {"gen", "key"} /\ (c = "gen" <=> conn[p])
    OBVIOUS
  <1>7. local[p] \in Gens /\ local[p] \in Nat
    BY <1>1, NumbersFew DEF CacheType
  <1> HIDE DEF c
  <1>8. t \in Task /\ t.pc = c /\ t.at = p /\ t.key = local[p] /\ t.val = 0 /\ t.own = returned[p] /\ t.all = m
    BY <1>2, <1>4, <1>6, <1>7 DEF Task, C!Fresh
  <1> HIDE DEF t
  <1>9. req' \in [Readers -> Task] /\ req'[r] = t /\ \A q \in Readers : q # r => req'[q] = req[q]
    BY <1>1, <1>5, <1>8, OneChanged
  <1>10. queue' \in [Proc -> Seq(Command)] /\ InLine(r)
    <2>1. CASE conn[p]
      <3>1. PICK op \in {"get", "incr"} : C!Sends(p, r, op)
        BY <2>1 DEF C!Read
      <3> QED BY <1>1, <1>6, <1>8, <1>9, <2>1, <3>1, QueueGrows DEF Sent
    <2>2. CASE ~conn[p]
      BY <1>1, <2>2, QueueStays DEF C!Read
    <2> QED BY <2>1, <2>2
  <1>11. Moves(r)
    BY <1>1, <1>6, <1>8, <1>9, <1>10 DEF Moves
  <1>12. Finds
    BY <1>1, <1>6, <1>8, <1>9, FindsKept
  <1>13. Places'
    BY <1>1, <1>6, <1>7, <1>8, <1>9, LoadsMoved
  <1>14. CacheType'
    BY <1>1, <1>9, <1>10 DEF CacheType
  <1>15. Counts'
    BY <1>1, <1>11, <1>14, CountsMove
  <1>16. Held'
    BY <1>1 DEF Held
  <1>17. ASSUME p \notin tangled PROVE Asks(r)
    <2>1. \A v \in Nat : MayFind(p, local[p], v) => returned[p] <= v
      BY <1>1, <1>17 DEF OwnKept, Writes
    <2> QED BY <1>2, <1>6, <1>7, <1>8, <1>9, <2>1 DEF Asks
  <1>18. ASSUME NEW F \in [Gens -> Nat], Floor(F) PROVE FloorRequest(F, r)'
    <2>1. ASSUME conn[p] PROVE returned[p] <= F[gen]
      BY <1>18, <2>1 DEF Floor, FloorProcess
    <2>2. ASSUME away = {} PROVE m <= F[gen]
      <3>1. PICK q \in Proc : m = returned[q]
        BY <1>4
      <3>2. conn[q]
        BY <1>1, <2>2 DEF Queued
      <3> QED BY <1>18, <3>1, <3>2 DEF Floor, FloorProcess
    <2>3. req'[r].at = p /\ req'[r].pc = c /\ req'[r].own = returned[p] /\ req'[r].all = m /\ conn' = conn /\ gen' = gen /\ away' = away
      BY <1>1, <1>8, <1>9
    <2>4. c \in Waits => ~conn[p]
      BY <1>6 DEF Waits
    <2> QED BY <1>6, <2>1, <2>2, <2>3, <2>4 DEF FloorRequest
  <1> QED BY <1>1, <1>2, <1>4, <1>6, <1>8, <1>9, <1>11, <1>12, <1>13, <1>14, <1>15, <1>16, <1>17, <1>18, SimpleMoves

-----------------------------------------------------------------------------
(* Writes and claims, which read nothing.                                   *)
LEMMA AsideKept ==
  ASSUME CacheInv, NEW r \in Readers, NEW t \in Task, req' = [req EXCEPT ![r] = t],
         req[r].pc \in {"idle", "write", "claim"}, t.pc \in {"write", "claim", "done"},
         t.pc = "write" => req[r].pc = "idle" \/ (req[r].pc = "write" /\ t.val > 0),
         t.at \in Proc, t.own = 0, t.all = 0, t.pc = "done" => t.val = 0 \/ (req[r].pc # "idle" /\ req[r].at = t.at),
         t.val <= ver', ver' \in Nat \ {0}, ver <= ver', ver' = ver \/ Counts',
         memory' \in [Proc -> Memory], \A p \in Proc, k \in Gens : memory'[p].read[k] = memory[p].read[k],
         cool' \in Readers \cup {None}, granted' \in SUBSET Readers, Held',
         UNCHANGED <<gen, store, conn, local, pending, inflight, queue, drops, away, returned, tangled>>
  PROVE  CacheInv'
  <1>1. CacheType /\ Queued /\ Places /\ Counts
    BY DEF CacheInv
  <1>2. req' \in [Readers -> Task] /\ req'[r] = t /\ \A q \in Readers : q # r => req'[q] = req[q]
    BY <1>1, OneChanged
  <1>3. queue' \in [Proc -> Seq(Command)] /\ InLine(r)
    BY <1>1, QueueStays
  <1>4. Moves(r)
    BY <1>1, <1>2, <1>3 DEF Moves
  <1>5. Finds
    BY <1>1, <1>2, FindsKept
  <1>6. Places'
    BY <1>1, <1>2, LoadsMoved
  <1>7. CacheType'
    BY <1>1, <1>2 DEF CacheType
  <1>8. Counts'
    BY <1>1, <1>4, <1>7, CountsMove
  <1>9. Asks(r) /\ \A F \in [Gens -> Nat] : FloorRequest(F, r)'
    BY <1>2 DEF Asks, FloorRequest, Waits
  <1>10. t.val \in Nat /\ 0 <= ver'
    BY DEF Task
  <1>11. t.pc = "done" /\ t.val > 0 => \A q \in Readers : q = r \/ Left(q, r) =>
           Enough(q, t.val) /\ req'[q].all = req[q].all /\ req'[q].own = req[q].own /\ req'[q].at = req[q].at
    <2>1. \A q \in Readers : ~Left(q, r)
      BY <1>1, NobodyJoined
    <2>2. CASE req[r].pc \in {"write", "claim"} /\ req[r].at = t.at
      <3>1. req[r].own = 0 /\ req[r].all = 0
        BY <1>1, <2>2 DEF Places
      <3> QED BY <1>2, <1>10, <2>1, <2>2, <3>1 DEF Enough
    <2> QED BY <2>2
  <1> QED BY <1>2, <1>4, <1>5, <1>6, <1>7, <1>8, <1>9, <1>10, <1>11, SimpleMoves

LEMMA WriteKept == ASSUME CacheInv, NEW r \in Readers, NEW p \in Proc, C!Write(r, p) PROVE CacheInv'
  <1>1. /\ CacheType /\ Held /\ req[r].pc = "idle"
        /\ UNCHANGED <<ver, gen, store, cool, conn, local, pending, memory, inflight, queue, drops, away, returned, tangled, granted>>
    BY DEF CacheInv, C!Write, C!Now, C!redis, C!process, C!history
  <1> DEFINE t == [C!Fresh("write") EXCEPT !.at = p]
  <1>2. req' = [req EXCEPT ![r] = t]
    BY DEF C!Write
  <1>3. t \in Task /\ t.pc = "write" /\ t.at = p /\ t.val = 0 /\ t.own = 0 /\ t.all = 0
    BY DEF Task, C!Fresh
  <1> HIDE DEF t
  <1>4. /\ ver' = ver /\ ver \in Nat \ {0} /\ 0 <= ver' /\ ver <= ver' /\ memory' \in [Proc -> Memory] /\ cool' \in Readers \cup {None}
        /\ granted' \in SUBSET Readers
    BY <1>1 DEF CacheType
  <1>5. Held'
    BY <1>1 DEF Held
  <1> QED BY <1>1, <1>2, <1>3, <1>4, <1>5, AsideKept

LEMMA LostWriteKept == ASSUME CacheInv, NEW r \in Readers, C!Lost(r) PROVE CacheInv'
  <1>1. /\ CacheType /\ Held /\ Places /\ NotNewer /\ req[r] \in Task /\ req[r].pc = "write"
        /\ UNCHANGED <<ver, gen, store, cool, conn, local, pending, memory, inflight, queue, drops, away, returned, tangled, granted>>
    BY DEF CacheInv, CacheType, C!Lost, C!Now, C!redis, C!process, C!history
  <1> DEFINE t == [req[r] EXCEPT !.pc = "done"]
  <1>2. req' = [req EXCEPT ![r] = t]
    BY <1>1 DEF C!Lost, C!Set, CacheType
  <1>3. t \in Task /\ t.pc = "done" /\ t.at = req[r].at /\ t.val = req[r].val /\ t.own = req[r].own /\ t.all = req[r].all
    BY <1>1 DEF Task
  <1> HIDE DEF t
  <1>4. /\ ver' = ver /\ ver \in Nat \ {0} /\ req[r].val <= ver' /\ ver <= ver' /\ memory' \in [Proc -> Memory]
        /\ cool' \in Readers \cup {None} /\ granted' \in SUBSET Readers
    BY <1>1 DEF CacheType, NotNewer
  <1>5. Held'
    BY <1>1 DEF Held
  <1>6. req[r].own = 0 /\ req[r].all = 0 /\ req[r].at \in Proc
    BY <1>1 DEF Places
  <1> QED BY <1>1, <1>2, <1>3, <1>4, <1>5, <1>6, AsideKept

LEMMA DoneKept == ASSUME CacheInv, NEW r \in Readers, C!Done(r) PROVE CacheInv'
  <1>1. /\ CacheType /\ Held /\ Places /\ Counts /\ req[r] \in Task /\ req[r].pc = "write" /\ req[r].val = 0 /\ ver' = ver + 1
        /\ UNCHANGED <<gen, store, cool, conn, local, pending, memory, inflight, queue, drops, away, returned, tangled, granted>>
    BY DEF CacheInv, CacheType, C!Done, C!Now, C!redis, C!process, C!history
  <1>a. PICK n \in Nat : n = ver + 1 /\ n > 0
    BY <1>1 DEF CacheType
  <1> DEFINE t == [req[r] EXCEPT !.val = n]
  <1>2. req' = [req EXCEPT ![r] = t]
    BY <1>1, <1>a DEF C!Done, CacheType
  <1>3. /\ t \in Task /\ t.pc = "write" /\ t.at = req[r].at /\ t.val = n /\ t.own = req[r].own /\ t.all = req[r].all
    BY <1>1, <1>a DEF Task
  <1> HIDE DEF t
  <1>4. /\ ver' \in Nat \ {0} /\ n <= ver' /\ ver <= ver' /\ memory' \in [Proc -> Memory]
        /\ cool' \in Readers \cup {None} /\ granted' \in SUBSET Readers
    BY <1>1, <1>a DEF CacheType
  <1>5. Held'
    BY <1>1 DEF Held
  <1>6. req[r].own = 0 /\ req[r].all = 0 /\ req[r].at \in Proc
    BY <1>1 DEF Places
  <1>7. req'[r] = t /\ \A q \in Readers : q # r => req'[q] = req[q]
    BY <1>1, <1>2, <1>3, OneChanged
  <1>8. Begun' = Begun /\ Unsent' = Unsent
    BY <1>1, <1>3, <1>7 DEF Begun, Unsent
  <1>9. Written' = Written \cup {r} /\ r \notin Written /\ IsFiniteSet(Written)
    <2>1. Written \subseteq Readers
      BY DEF Written
    <2>2. IsFiniteSet(Written)
      BY <2>1, CacheAssumption, FS_Subset
    <2> QED BY <1>1, <1>a, <1>3, <1>7, <2>2 DEF Written
  <1>10. Cardinality(Written') = Cardinality(Written) + 1 /\ Cardinality(Written) \in Nat
    BY <1>9, FS_AddElement, FS_CardinalityType
  <1>11. Counts'
    <2>1. gen' <= 1 + Cardinality(Begun' \ Unsent') /\ \A p \in Proc : local'[p] <= 1 + Cardinality(Begun')
      BY <1>1, <1>8 DEF Counts
    <2>2. ver' <= 1 + Cardinality(Written')
      BY <1>1, <1>10 DEF Counts, CacheType
    <2> QED BY <2>1, <2>2 DEF Counts
  <1> QED BY <1>1, <1>2, <1>3, <1>4, <1>5, <1>6, <1>11, <1>a, AsideKept

LEMMA ClaimKept == ASSUME CacheInv, NEW r \in Readers, NEW p \in Proc, C!Claim(r, p) PROVE CacheInv'
  <1>1. /\ CacheType /\ Held /\ Queued /\ req[r].pc = "idle"
        /\ UNCHANGED <<ver, gen, store, conn, local, pending, inflight, queue, drops, away, returned, tangled>>
    BY DEF CacheInv, C!Claim, C!Now
  <1> DEFINE free == IF conn[p] THEN cool = None ELSE memory[p].cool = None
             c == IF free THEN "claim" ELSE "done"
             t == [C!Fresh(c) EXCEPT !.at = p]
  <1>2. req' = [req EXCEPT ![r] = t]
    BY DEF C!Claim
  <1>3. c \in {"claim", "done"}
    OBVIOUS
  <1> HIDE DEF c
  <1>4. t \in Task /\ t.pc = c /\ t.at = p /\ t.val = 0 /\ t.own = 0 /\ t.all = 0
    BY <1>3 DEF Task, C!Fresh
  <1> HIDE DEF t
  <1>5. /\ cool' = IF free /\ conn[p] THEN r ELSE cool
        /\ memory' = IF free /\ ~conn[p] THEN [memory EXCEPT ![p].cool = r] ELSE memory
        /\ granted' = IF free THEN granted \cup {r} ELSE granted
    BY DEF C!Claim
  <1>6. memory' \in [Proc -> Memory] /\ \A q \in Proc, k \in Gens : memory'[q].read[k] = memory[q].read[k]
    <2>1. memory \in [Proc -> Memory] /\ memory[p] \in Memory
      BY <1>1 DEF CacheType
    <2>2. [memory[p] EXCEPT !.cool = r] \in Memory /\ [memory[p] EXCEPT !.cool = r].read = memory[p].read
      BY <2>1 DEF Memory
    <2>3. memory' = memory \/ memory' = [memory EXCEPT ![p] = [memory[p] EXCEPT !.cool = r]]
      BY <1>5, <2>1
    <2> QED BY <2>1, <2>2, <2>3
  <1>7. ver' = ver /\ ver \in Nat \ {0} /\ 0 <= ver' /\ ver <= ver' /\ cool' \in Readers \cup {None} /\ granted' \in SUBSET Readers
    BY <1>1, <1>5 DEF CacheType
  <1>8. Held'
    <2>1. SUFFICES ASSUME away = {} PROVE granted' \subseteq {cool'}
      BY <1>1 DEF Held
    <2>2. conn[p] /\ granted \subseteq {cool} /\ granted \subseteq Readers
      BY <1>1, <2>1 DEF Queued, Held, CacheType
    <2>3. CASE cool = None
      <3>1. granted = {}
        BY <2>2, <2>3, CacheAssumption
      <3> QED BY <1>5, <2>2, <2>3, <3>1
    <2>4. CASE cool # None
      BY <1>5, <2>2, <2>4
    <2> QED BY <2>3, <2>4
  <1> QED BY <1>1, <1>2, <1>3, <1>4, <1>6, <1>7, <1>8, AsideKept

LEMMA ReleaseKept == ASSUME CacheInv, NEW r \in Readers, C!Release(r) PROVE CacheInv'
  <1>1. /\ CacheType /\ Held /\ Queued /\ Places /\ NotNewer /\ req[r] \in Task /\ req[r].pc = "claim"
        /\ UNCHANGED <<ver, gen, store, conn, local, pending, inflight, queue, drops, away, returned, tangled>>
    BY DEF CacheInv, CacheType, C!Release, C!Now
  <1>2. PICK p \in Proc : p = req[r].at
    BY <1>1 DEF Places
  <1> DEFINE t == [req[r] EXCEPT !.pc = "done"]
  <1>3. req' = [req EXCEPT ![r] = t]
    BY <1>1 DEF C!Release, C!Set, CacheType
  <1>4. t \in Task /\ t.pc = "done" /\ t.at = req[r].at /\ t.val = req[r].val /\ t.own = req[r].own /\ t.all = req[r].all
    BY <1>1 DEF Task
  <1> HIDE DEF t
  <1>5. /\ cool' = IF conn[p] /\ cool = r THEN None ELSE cool
        /\ memory' = IF memory[p].cool = r THEN [memory EXCEPT ![p].cool = None] ELSE memory
        /\ granted' = granted \ {r}
    BY <1>2 DEF C!Release, C!MyToken
  <1>6. memory' \in [Proc -> Memory] /\ \A q \in Proc, k \in Gens : memory'[q].read[k] = memory[q].read[k]
    BY <1>1, <1>5 DEF CacheType, Memory
  <1>7. /\ ver' = ver /\ ver \in Nat \ {0} /\ req[r].val <= ver' /\ ver <= ver' /\ cool' \in Readers \cup {None}
        /\ granted' \in SUBSET Readers
    BY <1>1, <1>5 DEF CacheType, NotNewer
  <1>8. Held'
    BY <1>1, <1>5 DEF Held
  <1>9. req[r].own = 0 /\ req[r].all = 0
    BY <1>1 DEF Places
  <1> QED BY <1>1, <1>2, <1>3, <1>4, <1>6, <1>7, <1>8, <1>9, AsideKept

-----------------------------------------------------------------------------
(* Steps of a request that change the number of its process.                *)
LEMMA MovesKept ==
  ASSUME CacheInv, NEW r \in Readers, NEW p \in Proc, Moves(r), Finds, CacheType', Counts', Places', Held', ver' = ver,
         req'[r].at = p, \A q \in Proc : q # p => local'[q] = local[q] /\ pending'[q] = pending[q] /\ returned'[q] = returned[q],
         tangled \subseteq tangled', returned'[p] <= ver, req'[r].val <= ver /\ req'[r].own <= ver /\ req'[r].all <= ver,
         p \notin tangled' => Numbers(p)' /\ Writes(p)',
         Trusted => \A F \in [Gens -> Nat] : Floor(F) => FloorRequest(F, r)' /\ (conn[p] => returned'[p] <= F[gen]),
         req'[r].pc = "done" /\ req'[r].val > 0 => \A q \in Readers : q = r \/ Left(q, r) =>
           Enough(q, req'[r].val) /\ req'[q].all = req[q].all /\ req'[q].own = req[q].own /\ req'[q].at = req[q].at
  PROVE  CacheInv'
  <1>1. /\ CacheType /\ NotNewer /\ Counts /\ Queued /\ Places /\ OwnKept /\ C!SeesAll /\ C!SeesOwn
        /\ ver \in Nat /\ ver' \in Nat /\ ver <= ver'
    BY DEF CacheInv, CacheType
  <1>2. Queued'
    BY <1>1, MovesQueued
  <1>3. \A q \in Proc : returned[q] \in Nat /\ returned[q] <= ver /\ returned'[q] <= ver'
    BY <1>1 DEF NotNewer, CacheType
  <1>4. NotNewer'
    BY <1>1, <1>3, MovesNotNewer
  <1>5. ASSUME NEW q \in Proc \ tangled', q # p PROVE Numbers(q)' /\ Writes(q)'
    <2>1. Numbers(q) /\ Writes(q)
      BY <1>1, <1>5 DEF OwnKept
    <2>2. Numbers(q)'
      <3>1. local[q] <= local'[q] /\ Base(q)' = Base(q)
        BY <1>1, <1>5 DEF CacheType, Base
      <3> QED BY <1>1, <1>5, <2>1, <3>1, MovesNumbers
    <2>3. PICK l \in Gens : l = local'[q]
      BY <1>1, <1>5, NumbersFew
    <2>4. ASSUME NEW m \in Readers, req'[m].pc = "bump" PROVE req'[m].val <= ver /\ (req'[m].at = q => req'[m] = req[m])
      BY <1>1, <1>5, <2>4 DEF Moves, Left, NotNewer
    <2>5. ASSUME NEW v \in Nat, MayFind(q, l, v)
          PROVE  returned'[q] <= v /\ \A m \in Readers : req'[m].pc = "bump" /\ req'[m].at = q => req'[m].val <= v
      <3>1. MayFind(q, local[q], v)
        BY <1>5, <2>3, <2>5
      <3> QED BY <1>5, <2>1, <2>4, <3>1 DEF Writes
    <2>6. \A m \in Readers : req'[m].pc \in Waits => req'[m].key \in Gens
      BY DEF Places, Waits
    <2>7. returned[q] <= returned'[q] /\ returned'[q] <= ver
      BY <1>3, <1>5
    <2>8. Writes(q)'
      BY <1>1, <1>5, <2>1, <2>3, <2>4, <2>5, <2>6, <2>7, MovesWrites
    <2> QED BY <2>2, <2>8
  <1>6. OwnKept'
    BY <1>5 DEF OwnKept
  <1>7. Trusted => \A F \in [Gens -> Nat] : Floor(F) =>
          FloorRequest(F, r)' /\ \A q \in Proc : conn[q] => returned'[q] <= F[gen]
    BY DEF Floor, FloorProcess
  <1>8. Floors'
    BY <1>1, <1>7, FloorsMove
  <1>9. C!SeesAll' /\ C!SeesOwn'
    BY <1>1, MovesSees
  <1> QED BY <1>2, <1>4, <1>6, <1>8, <1>9 DEF CacheInv

(* The number that was asked for: new, or the one the process had.          *)
LEMMA AnsweredNumbers ==
  ASSUME CacheType, CacheType', Queued, NEW r \in Readers, NEW p \in Proc, Numbers(p), Moves(r), Finds, conn[p],
         NEW n \in Nat, 1 \in 1..Len(queue[p]), queue[p][1].op \in {"get", "incr"}, queue[p][1].res = n,
         \A i \in 1..Len(queue'[p]) : i + 1 \in 1..Len(queue[p]) /\ queue'[p][i] = queue[p][i + 1],
         local'[p] = n, ~pending'[p], pending[p] => queue[p][1].op = "incr",
         req'[r].at = p /\ req'[r].pc \in Waits => req'[r].key <= n
  PROVE  Numbers(p)' /\ local[p] <= n
  <1>1. local[p] \in Nat /\ n >= 0 /\ n \in 1..gen
    BY DEF CacheType, Queued
  <1>2. local[p] <= n
    BY <1>1 DEF Numbers, Base
  <1>3. Base(p)' = n
    BY DEF Base
  <1>4. ASSUME NEW k \in Gens, NEW v \in Nat, MayFind(p, k, v)' PROVE k <= n
    <2>1. k <= local[p]
      BY <1>4 DEF Finds, Numbers, Waits
    <2>2. k \in Nat
      BY DEF Gens, C!Gens
    <2> QED BY <1>1, <1>2, <2>1, <2>2
  <1>5. ASSUME NEW q \in Readers, req'[q].at = p, req'[q].pc \in Waits PROVE req'[q].key <= n
    <2>1. CASE q = r
      BY <1>5, <2>1
    <2>2. CASE q # r
      <3>1. req'[q] = req[q] /\ req[q].key \in Nat
        BY <1>5, <2>2 DEF Moves, Left, Waits, CacheType, Task
      <3>2. req[q].key <= local[p]
        BY <1>5, <3>1 DEF Numbers
      <3> QED BY <1>1, <1>2, <3>1, <3>2
    <2> QED BY <2>1, <2>2
  <1>6. ASSUME NEW i \in 1..Len(queue'[p]), queue'[p][i].res >= 0
        PROVE  /\ queue'[p][i].op = "get" => queue'[p][i].res >= n
               /\ queue'[p][i].op = "incr" => queue'[p][i].res > n
    <2>1. i + 1 \in 1..Len(queue[p]) /\ queue'[p][i] = queue[p][i + 1] /\ 1 < i + 1
      OBVIOUS
    <2> QED BY <1>6, <2>1 DEF Numbers
  <1>7. ASSUME NEW i \in 1..Len(queue'[p]), NEW j \in 1..Len(queue'[p]), j < i,
               queue'[p][i].res >= 0, queue'[p][j].op \in {"get", "incr"}
        PROVE  /\ queue'[p][i].op = "get" => queue'[p][i].res >= queue'[p][j].res
               /\ queue'[p][i].op = "incr" => queue'[p][i].res > queue'[p][j].res
    <2>1. /\ i + 1 \in 1..Len(queue[p]) /\ queue'[p][i] = queue[p][i + 1]
          /\ j + 1 \in 1..Len(queue[p]) /\ queue'[p][j] = queue[p][j + 1] /\ j + 1 < i + 1
      BY <1>7
    <2> QED BY <1>7, <2>1 DEF Numbers
  <1>8. gen' >= n
    BY <1>1 DEF Moves, CacheType
  <1> QED BY <1>2, <1>3, <1>4, <1>5, <1>6, <1>7, <1>8 DEF Numbers


LEMMA NumberWritten ==
  ASSUME CacheType, CacheType', NotNewer, Counts, Places', NEW r \in Readers, NEW p \in Proc, Numbers(p), Writes(p), Moves(r), Finds,
         NEW l \in Gens, l = local'[p], local[p] <= l,
         NEW u \in Nat, u = returned'[p], returned[p] <= u, u <= ver,
         \A v \in Nat : MayFind(p, local[p], v) => u <= v,
         req'[r].pc \in {"key", "bump", "done"}, req'[r].pc = "bump" => req'[r].val <= ver /\ local[p] < l,
         req'[r].pc = "key" => req'[r].key = l /\ req'[r].own <= returned[p]
  PROVE  Writes(p)'
  <1>1. local[p] \in Nat /\ l \in Nat /\ returned[p] \in Nat /\ ver \in Nat /\ returned[p] <= ver
    BY DEF CacheType, NotNewer
  <1>2. ASSUME NEW v \in Nat, MayFind(p, l, v) PROVE l = local[p] /\ MayFind(p, local[p], v)
    <2>1. l <= local[p]
      BY <1>2 DEF Numbers
    <2>2. l = local[p]
      BY <1>1, <2>1
    <2> QED BY <1>2, <2>2
  <1>3. ASSUME NEW q \in Readers, req'[q].pc = "bump" PROVE req'[q].val <= ver /\ (req'[q] = req[q] \/ local[p] < l)
    BY <1>3 DEF Moves, Left, NotNewer
  <1>4. ASSUME NEW v \in Nat, MayFind(p, l, v)
        PROVE  u <= v /\ \A q \in Readers : req'[q].pc = "bump" /\ req'[q].at = p => req'[q].val <= v
    <2>1. l = local[p] /\ MayFind(p, local[p], v)
      BY <1>2, <1>4
    <2> QED BY <1>1, <1>3, <2>1 DEF Writes
  <1>5. ASSUME req'[r].pc = "key"
        PROVE  /\ req'[r].own <= ver
               /\ \A k \in Gens : k = req'[r].key => \A v \in Nat : MayFind(p, k, v) => req'[r].own <= v
    <2>1. req'[r].own \in Nat /\ req'[r].own <= returned[p] /\ req'[r].key = l
      BY <1>5 DEF CacheType, Task
    <2>2. ASSUME NEW v \in Nat, MayFind(p, l, v) PROVE req'[r].own <= v
      BY <1>1, <1>4, <2>1, <2>2
    <2> QED BY <1>1, <2>1, <2>2
  <1>6. /\ \A q \in Readers : req'[q].pc \in Waits => req'[q].key \in Gens
        /\ req'[r].pc \in Waits => req'[r].pc = "key"
        /\ req'[r].pc # "gen"
    BY DEF Places, Waits
  <1> QED BY <1>3, <1>4, <1>5, <1>6, MovesWrites

LEMMA GenerationKept == ASSUME CacheInv, NEW r \in Readers, C!Generation(r) PROVE CacheInv'
  <1>1. /\ CacheType /\ Queued /\ Places /\ NotNewer /\ Counts /\ Held /\ OwnKept
        /\ req[r] \in Task /\ req[r].pc = "gen" /\ req[r].val = 0 /\ req[r].at \in Proc
        /\ C!Answered(r, {"get", "incr"}) /\ C!Connected(r)
        /\ UNCHANGED <<ver, gen, store, cool, memory, inflight, drops, away, returned, granted>>
    BY DEF CacheInv, CacheType, Places, C!Generation, C!Now, C!redis
  <1>2. PICK p \in Proc : p = req[r].at
    BY <1>1
  <1>3. /\ queue' \in [Proc -> Seq(Command)] /\ InLine(r) /\ 1 \in 1..Len(queue[p]) /\ queue[p][1].r = r
        /\ queue[p][1].op \in {"get", "incr"} /\ queue[p][1].res \in Int /\ C!Res(r) = queue[p][1].res
        /\ (C!Failed(r) <=> ~conn[p]) /\ (conn[p] => queue[p][1].res >= 0) /\ Head(queue[p]) = queue[p][1]
        /\ \A i \in 1..Len(queue'[p]) : i + 1 \in 1..Len(queue[p]) /\ queue'[p][i] = queue[p][i + 1]
    BY <1>1, <1>2, QueueShrinks
  <1>4. conn' = conn
    BY <1>1, <1>2, <1>3 DEF C!Connected, CacheType
  <1>5. /\ local' = IF conn[p] THEN [local EXCEPT ![p] = queue[p][1].res] ELSE local
        /\ pending' = IF ~conn[p] \/ queue[p][1].op = "get" THEN pending ELSE [pending EXCEPT ![p] = FALSE]
        /\ tangled' = IF conn[p] /\ queue[p][1].op = "get" /\ pending[p] THEN tangled \cup {p} ELSE tangled
    BY <1>2, <1>3 DEF C!Generation
  <1>6. ver \in Nat /\ 0 <= ver /\ local[p] \in Gens /\ local[p] \in Nat \ {0}
    BY <1>1, NumbersFew DEF CacheType
  <1>7. ASSUME conn[p] PROVE queue[p][1].res \in 1..gen /\ queue[p][1].res \in Gens /\ queue[p][1].res \in Nat \ {0}
    <2>1. queue[p][1].res \in 1..gen
      BY <1>1, <1>3, <1>7 DEF Queued
    <2>2. gen \in Gens /\ gen \in Nat
      BY <1>1, NumbersFew DEF CacheType
    <2>3. Gens = 1..(1 + Cardinality(Readers)) /\ Cardinality(Readers) \in Nat
      BY <1>1, CountedAlike, NumbersFew DEF Gens, C!Gens
    <2> QED BY <2>1, <2>2, <2>3
  <1>8. PICK l \in Gens : l = local'[p] /\ (conn[p] => l = queue[p][1].res) /\ (~conn[p] => l = local[p])
    BY <1>1, <1>5, <1>6, <1>7 DEF CacheType
  <1>a. l \in Nat
    BY DEF Gens, C!Gens
  <1> DEFINE t == [req[r] EXCEPT !.pc = "key", !.key = l]
  <1>9. req' = [req EXCEPT ![r] = t]
    BY <1>1, <1>2, <1>8 DEF C!Generation, CacheType
  <1>10. /\ t \in Task /\ t.pc = "key" /\ t.at = p /\ t.key = l /\ t.val = 0 /\ t.own = req[r].own /\ t.all = req[r].all
    BY <1>1, <1>2, <1>a DEF Task
  <1> HIDE DEF t
  <1>11. req' \in [Readers -> Task] /\ req'[r] = t /\ \A q \in Readers : q # r => req'[q] = req[q]
    BY <1>1, <1>9, <1>10, OneChanged
  <1>12. Moves(r)
    BY <1>1, <1>3, <1>4, <1>10, <1>11 DEF Moves
  <1>13. Finds
    BY <1>1, <1>10, <1>11, FindsKept
  <1>14. Places'
    BY <1>1, <1>10, <1>11, LoadsMoved
  <1>15. CacheType'
    <2>1. local' \in [Proc -> Nat \ {0}]
      BY <1>1, <1>5, <1>7 DEF CacheType
    <2>2. pending' \in [Proc -> BOOLEAN] /\ tangled' \in SUBSET Proc
      BY <1>1, <1>5 DEF CacheType
    <2> QED BY <1>1, <1>3, <1>4, <1>11, <2>1, <2>2 DEF CacheType
  <1>16. Counts'
    <2>1. Begun' = Begun
      BY <1>1, <1>10, <1>11 DEF Begun
    <2>2. ASSUME NEW q \in Proc PROVE local'[q] <= 1 + Cardinality(Begun)
      <3>1. CASE q = p /\ conn[p]
        <4>1. l <= gen /\ gen \in Nat /\ gen <= 1 + Cardinality(Begun \ Unsent)
          BY <1>1, <1>7, <1>8, <3>1 DEF Counts, CacheType
        <4>2. Cardinality(Begun \ Unsent) <= Cardinality(Begun) /\ Cardinality(Begun \ Unsent) \in Nat /\ Cardinality(Begun) \in Nat
          BY <1>1, NumbersFew
        <4> QED BY <1>8, <1>a, <3>1, <4>1, <4>2
      <3>2. CASE q # p \/ ~conn[p]
        <4>1. local'[q] = local[q]
          BY <1>1, <1>5, <3>2 DEF CacheType
        <4> QED BY <1>1, <4>1 DEF Counts
      <3> QED BY <3>1, <3>2
    <2> QED BY <1>1, <1>12, <2>1, <2>2, MovesCounts
  <1>17. Held'
    BY <1>1 DEF Held
  <1>18. req[r].own <= ver /\ req[r].all <= ver /\ returned[p] <= ver /\ returned[p] \in Nat
    BY <1>1 DEF NotNewer, CacheType
  <1>19. ASSUME p \notin tangled' PROVE Numbers(p)' /\ Writes(p)'
    <2>1. Numbers(p) /\ Writes(p)
      BY <1>1, <1>5, <1>19 DEF OwnKept
    <2>2. Numbers(p)' /\ local[p] <= l
      <3>1. CASE conn[p]
        <4>1. ~pending'[p] /\ (pending[p] => queue[p][1].op = "incr")
          BY <1>1, <1>3, <1>5, <1>19, <3>1 DEF CacheType
        <4> QED BY <1>1, <1>3, <1>8, <1>a, <1>10, <1>11, <1>12, <1>13, <1>15, <2>1, <3>1, <4>1, AnsweredNumbers
      <3>2. CASE ~conn[p]
        <4>1. local[p] <= local'[p] /\ Base(p)' = Base(p) /\ l = local[p]
          BY <1>5, <1>6, <1>8, <3>2 DEF Base
        <4> QED BY <1>1, <1>6, <1>8, <1>10, <1>11, <1>12, <1>13, <1>15, <2>1, <4>1, MovesNumbers
      <3> QED BY <3>1, <3>2
    <2>3. req[r].own <= returned[p]
      BY <1>1, <1>2, <2>1 DEF Writes
    <2>4. \A v \in Nat : MayFind(p, local[p], v) => returned[p] <= v
      BY <2>1 DEF Writes
    <2>5. Writes(p)'
      BY <1>1, <1>8, <1>10, <1>11, <1>12, <1>13, <1>14, <1>15, <1>18, <2>1, <2>2, <2>3, <2>4, NumberWritten
    <2> QED BY <2>2, <2>5
  <1>20. ASSUME NEW F \in [Gens -> Nat], Floor(F) PROVE FloorRequest(F, r)' /\ (conn[p] => returned'[p] <= F[gen])
    <2>1. conn[p] => returned'[p] <= F[gen]
      BY <1>1, <1>20 DEF Floor, FloorProcess
    <2>2. ASSUME conn[p] PROVE l <= gen /\ req[r].own <= F[l] /\ (away = {} => req[r].all <= F[l])
      <3>1. FloorCommand(F, p, 1)
        BY <1>3, <1>20 DEF Floor
      <3> QED BY <1>3, <1>7, <1>8, <2>2, <3>1 DEF FloorCommand
    <2>3. /\ req'[r].at = p /\ req'[r].pc = "key" /\ req'[r].key = l /\ req'[r].own = req[r].own /\ req'[r].all = req[r].all
          /\ conn' = conn /\ gen' = gen /\ away' = away
      BY <1>1, <1>4, <1>10, <1>11
    <2> QED BY <2>1, <2>2, <2>3 DEF FloorRequest
  <1>21. \A q \in Proc : q # p => local'[q] = local[q] /\ pending'[q] = pending[q] /\ returned'[q] = returned[q]
    BY <1>1, <1>5 DEF CacheType
  <1>22. tangled \subseteq tangled' /\ returned'[p] <= ver /\ ver' = ver
    BY <1>1, <1>5, <1>18
  <1> QED BY <1>6, <1>10, <1>11, <1>12, <1>13, <1>14, <1>15, <1>16, <1>17, <1>18, <1>19, <1>20, <1>21, <1>22, MovesKept

LEMMA InvalidateKept == ASSUME CacheInv, NEW r \in Readers, C!Invalidate(r) PROVE CacheInv'
  <1>1. /\ CacheType /\ Queued /\ Places /\ NotNewer /\ Counts /\ Held /\ OwnKept
        /\ req[r] \in Task /\ req[r].pc = "write" /\ req[r].val > 0 /\ req[r].at \in Proc /\ req[r].own = 0 /\ req[r].all = 0
        /\ UNCHANGED <<ver, gen, store, cool, conn, inflight, drops, away, granted>>
    BY DEF CacheInv, CacheType, Places, C!Invalidate, C!Now, C!redis
  <1>2. PICK p \in Proc : p = req[r].at
    BY <1>1
  <1>3. /\ memory' = [memory EXCEPT ![p] = C!Empty] /\ local' = [local EXCEPT ![p] = @ + 1] /\ pending' = [pending EXCEPT ![p] = TRUE]
        /\ tangled' = IF pending[p] THEN tangled \cup {p} ELSE tangled
    BY <1>2 DEF C!Invalidate, C!Cleared, C!Advanced, C!Unpublished
  <1>4. /\ ver \in Nat /\ 0 <= ver /\ local[p] \in Nat \ {0} /\ returned[p] \in Nat /\ returned[p] <= ver
        /\ req[r].val \in Nat /\ req[r].val <= ver
    BY <1>1 DEF CacheType, Task, NotNewer
  <1>5. PICK l \in Nat \ {0} : l = local'[p] /\ l = local[p] + 1
    BY <1>1, <1>3, <1>4 DEF CacheType
  <1> DEFINE c == IF conn[p] THEN "bump" ELSE "done"
             t == [req[r] EXCEPT !.pc = c]
  <1>6. req' = [req EXCEPT ![r] = t]
    BY <1>1, <1>2 DEF C!Invalidate, C!Set, CacheType
  <1>7. c \in {"bump", "done"} /\ (c = "bump" <=> conn[p])
    OBVIOUS
  <1> HIDE DEF c
  <1>8. /\ t \in Task /\ t.pc = c /\ t.at = p /\ t.val = req[r].val /\ t.own = 0 /\ t.all = 0
    BY <1>1, <1>2, <1>7 DEF Task
  <1> HIDE DEF t
  <1>9. req' \in [Readers -> Task] /\ req'[r] = t /\ \A q \in Readers : q # r => req'[q] = req[q]
    BY <1>1, <1>6, <1>8, OneChanged
  <1>10. queue' \in [Proc -> Seq(Command)] /\ InLine(r)
    <2>1. CASE conn[p]
      <3>1. C!Sends(p, r, "incr")
        BY <1>2, <2>1 DEF C!Invalidate
      <3> QED BY <1>1, <1>7, <1>8, <1>9, <2>1, <3>1, QueueGrows DEF Sent
    <2>2. CASE ~conn[p]
      BY <1>1, <1>2, <2>2, QueueStays DEF C!Invalidate
    <2> QED BY <2>1, <2>2
  <1>11. PICK u \in Nat : /\ returned' = [returned EXCEPT ![p] = u] /\ u = returned'[p] /\ returned[p] <= u /\ u <= ver
                          /\ conn[p] => u = returned[p]
    <2>1. CASE conn[p]
      BY <1>1, <1>2, <1>4, <2>1 DEF C!Invalidate, CacheType
    <2>2. CASE ~conn[p]
      <3>1. returned' = [returned EXCEPT ![p] = C!Max({returned[p], req[r].val})]
        BY <1>1, <1>2, <2>2 DEF C!Invalidate, C!Returns, CacheType
      <3>2. C!Max({returned[p], req[r].val}) = IF returned[p] >= req[r].val THEN returned[p] ELSE req[r].val
        BY <1>4, NewerOfTwo
      <3>3. PICK u \in Nat : u = C!Max({returned[p], req[r].val}) /\ returned[p] <= u /\ u <= ver
        BY <1>4, <3>2
      <3> QED BY <1>1, <2>2, <3>1, <3>3 DEF CacheType
    <2> QED BY <2>1, <2>2
  <1>12. Moves(r)
    BY <1>1, <1>7, <1>8, <1>9, <1>10 DEF Moves
  <1>13. memory' \in [Proc -> Memory] /\ memory'[p] = C!Empty /\ \A q \in Proc : q # p => memory'[q] = memory[q]
    <2>1. C!Empty \in Memory
      BY DEF Memory, Gens, C!Empty
    <2> QED BY <1>1, <1>3, <2>1 DEF CacheType
  <1>14. Finds
    <2>1. \A k \in Gens : memory'[p].read[k] = 0
      BY <1>13 DEF C!Empty, Gens
    <2>2. \A q \in Proc, k \in Gens : memory'[q].read[k] = memory[q].read[k] \/ memory'[q].read[k] = 0
      BY <1>13, <2>1
    <2> QED BY <1>1, <1>7, <1>8, <1>9, <2>2, FindsKept
  <1>15. Places'
    BY <1>1, <1>7, <1>8, <1>9, LoadsMoved
  <1>16. CacheType'
    <2>1. local' \in [Proc -> Nat \ {0}]
      BY <1>1, <1>3, <1>5 DEF CacheType
    <2>2. pending' \in [Proc -> BOOLEAN] /\ tangled' \in SUBSET Proc /\ returned' \in [Proc -> Nat]
      BY <1>1, <1>3, <1>11 DEF CacheType
    <2> QED BY <1>1, <1>9, <1>10, <1>13, <2>1, <2>2 DEF CacheType
  <1>17. Begun' = Begun \cup {r} /\ r \notin Begun /\ Begun' \subseteq Readers
    BY <1>1, <1>7, <1>8, <1>9 DEF Begun
  <1>18. /\ Cardinality(Begun') = Cardinality(Begun) + 1 /\ Cardinality(Begun) \in Nat
         /\ Cardinality(Begun') <= Cardinality(Readers) /\ Cardinality(Readers) \in Nat
    <2>1. IsFiniteSet(Begun) /\ Cardinality(Begun) \in Nat /\ Cardinality(Readers) \in Nat
      BY <1>1, NumbersFew
    <2>2. Cardinality(Begun') = Cardinality(Begun) + 1
      BY <1>17, <2>1, FS_AddElement
    <2>3. Cardinality(Begun') <= Cardinality(Readers)
      BY <1>17, CacheAssumption, FS_Subset
    <2> QED BY <2>1, <2>2, <2>3
  <1>19. Counts'
    <2>1. ASSUME NEW q \in Proc PROVE local'[q] <= 1 + Cardinality(Begun')
      <3>1. local[q] <= 1 + Cardinality(Begun) /\ local[q] \in Nat
        BY <1>1 DEF Counts, CacheType
      <3>2. local'[q] = local[q] \/ local'[q] = local[q] + 1
        BY <1>1, <1>3 DEF CacheType
      <3> QED BY <1>18, <3>1, <3>2
    <2> QED BY <1>1, <1>12, <2>1, MovesCounts
  <1>20. l \in Gens
    <2>1. local[p] <= 1 + Cardinality(Begun)
      BY <1>1 DEF Counts
    <2>2. Gens = 1..(1 + Cardinality(Readers))
      BY CountedAlike DEF Gens, C!Gens
    <2> QED BY <1>4, <1>5, <1>18, <2>1, <2>2
  <1>21. Held'
    BY <1>1 DEF Held
  <1>22. ASSUME p \notin tangled' PROVE Numbers(p)' /\ Writes(p)'
    <2>1. Numbers(p) /\ Writes(p) /\ ~pending[p]
      BY <1>1, <1>3, <1>22 DEF OwnKept
    <2>2. Base(p)' = Base(p) /\ local[p] <= l /\ local[p] < l
      <3>1. pending'[p] /\ ~pending[p]
        BY <1>1, <1>3, <2>1 DEF CacheType
      <3>2. local[p] <= l /\ local[p] < l /\ local'[p] - 1 = local[p]
        BY <1>4, <1>5
      <3> QED BY <3>1, <3>2 DEF Base
    <2>3. Numbers(p)'
      BY <1>1, <1>5, <1>7, <1>8, <1>9, <1>12, <1>14, <1>16, <2>1, <2>2, MovesNumbers DEF Waits
    <2>4. ASSUME NEW v \in Nat, MayFind(p, l, v) PROVE FALSE
      <3>1. l <= local[p]
        BY <1>20, <2>1, <2>4 DEF Numbers
      <3> QED BY <1>4, <1>5, <3>1
    <2>5. /\ \A q \in Readers : req'[q].pc \in Waits => req'[q].key \in Gens
          /\ req'[r].pc \notin Waits /\ req'[r].pc # "gen"
      BY <1>7, <1>8, <1>9, <1>15 DEF Places, Waits
    <2>6. \A q \in Readers : req'[q].pc = "bump" => req'[q].val <= ver
      <3>1. \A q \in Readers : req'[q].val = req[q].val
        BY <1>8, <1>9
      <3> QED BY <1>1, <3>1 DEF NotNewer
    <2>7. Writes(p)'
      BY <1>1, <1>5, <1>11, <1>12, <1>14, <1>16, <1>20, <2>1, <2>4, <2>5, <2>6, MovesWrites
    <2> QED BY <2>3, <2>7
  <1>23. ASSUME NEW F \in [Gens -> Nat], Floor(F) PROVE FloorRequest(F, r)' /\ (conn[p] => returned'[p] <= F[gen])
    <2>1. conn[p] => returned'[p] <= F[gen]
      BY <1>11, <1>23 DEF Floor, FloorProcess
    <2>2. req'[r].pc \notin Waits /\ req'[r].pc # "gen"
      BY <1>7, <1>8, <1>9 DEF Waits
    <2> QED BY <2>1, <2>2 DEF FloorRequest
  <1>24. ASSUME NEW q \in Readers, q = r \/ Left(q, r)
         PROVE  Enough(q, t.val) /\ req'[q].all = req[q].all /\ req'[q].own = req[q].own /\ req'[q].at = req[q].at
    <2>1. q = r
      BY <1>1, <1>24, NobodyJoined
    <2> QED BY <1>1, <1>2, <1>4, <1>8, <1>9, <2>1 DEF Enough
  <1>25. \A q \in Proc : q # p => local'[q] = local[q] /\ pending'[q] = pending[q] /\ returned'[q] = returned[q]
    BY <1>1, <1>3, <1>11 DEF CacheType
  <1>26. tangled \subseteq tangled' /\ returned'[p] <= ver /\ ver' = ver
    BY <1>1, <1>3, <1>11
  <1> QED BY <1>4, <1>8, <1>9, <1>12, <1>14, <1>15, <1>16, <1>19, <1>21, <1>22, <1>23, <1>24, <1>25, <1>26, MovesKept

LEMMA BumpedKept == ASSUME CacheInv, NEW r \in Readers, C!Bumped(r) PROVE CacheInv'
  <1>1. /\ CacheType /\ Queued /\ Places /\ NotNewer /\ Counts /\ Held /\ OwnKept
        /\ req[r] \in Task /\ req[r].pc = "bump" /\ req[r].at \in Proc /\ req[r].own = 0 /\ req[r].all = 0
        /\ C!Answered(r, {"incr"}) /\ C!Connected(r)
        /\ UNCHANGED <<ver, gen, store, cool, memory, inflight, drops, away, tangled, granted>>
    BY DEF CacheInv, CacheType, Places, C!Bumped, C!Now, C!redis
  <1>2. PICK p \in Proc : p = req[r].at
    BY <1>1
  <1>3. /\ queue' \in [Proc -> Seq(Command)] /\ InLine(r) /\ 1 \in 1..Len(queue[p]) /\ queue[p][1].r = r
        /\ queue[p][1].op = "incr" /\ queue[p][1].res \in Int /\ C!Res(r) = queue[p][1].res
        /\ (C!Failed(r) <=> ~conn[p]) /\ (conn[p] => queue[p][1].res >= 0)
        /\ \A i \in 1..Len(queue'[p]) : i + 1 \in 1..Len(queue[p]) /\ queue'[p][i] = queue[p][i + 1]
    BY <1>1, <1>2, QueueShrinks
  <1>4. conn' = conn
    BY <1>1, <1>2, <1>3 DEF C!Connected, CacheType
  <1>5. /\ local' = IF conn[p] THEN [local EXCEPT ![p] = queue[p][1].res] ELSE local
        /\ pending' = IF conn[p] THEN [pending EXCEPT ![p] = FALSE] ELSE pending
    BY <1>2, <1>3 DEF C!Bumped
  <1>6. /\ ver \in Nat /\ 0 <= ver /\ local[p] \in Gens /\ local[p] \in Nat \ {0} /\ returned[p] \in Nat /\ returned[p] <= ver
        /\ req[r].val \in Nat /\ req[r].val <= ver
    BY <1>1, NumbersFew DEF CacheType, Task, NotNewer
  <1>7. ASSUME conn[p] PROVE queue[p][1].res \in 1..gen /\ queue[p][1].res \in Gens /\ queue[p][1].res \in Nat \ {0}
    <2>1. queue[p][1].res \in 1..gen
      BY <1>1, <1>3, <1>7 DEF Queued
    <2>2. gen \in Gens /\ gen \in Nat
      BY <1>1, NumbersFew DEF CacheType
    <2>3. Gens = 1..(1 + Cardinality(Readers)) /\ Cardinality(Readers) \in Nat
      BY <1>1, CountedAlike, NumbersFew DEF Gens, C!Gens
    <2> QED BY <2>1, <2>2, <2>3
  <1>8. PICK l \in Gens : l = local'[p] /\ (conn[p] => l = queue[p][1].res) /\ (~conn[p] => l = local[p])
    BY <1>1, <1>5, <1>6, <1>7 DEF CacheType
  <1>a. l \in Nat
    BY DEF Gens, C!Gens
  <1>9. PICK u \in Nat : /\ returned' = [returned EXCEPT ![p] = u] /\ u = returned'[p] /\ returned[p] <= u /\ u <= ver
                         /\ u = returned[p] \/ u = req[r].val
    <2>1. returned' = [returned EXCEPT ![p] = C!Max({returned[p], req[r].val})]
      BY <1>1, <1>2 DEF C!Bumped, C!Returns, CacheType
    <2>2. C!Max({returned[p], req[r].val}) = IF returned[p] >= req[r].val THEN returned[p] ELSE req[r].val
      BY <1>6, NewerOfTwo
    <2>3. PICK u \in Nat : /\ u = C!Max({returned[p], req[r].val}) /\ returned[p] <= u /\ u <= ver
                           /\ u = returned[p] \/ u = req[r].val
      BY <1>6, <2>2
    <2> QED BY <1>1, <2>1, <2>3 DEF CacheType
  <1> DEFINE t == [req[r] EXCEPT !.pc = "done"]
  <1>10. req' = [req EXCEPT ![r] = t]
    BY <1>1 DEF C!Bumped, C!Set, CacheType
  <1>11. t \in Task /\ t.pc = "done" /\ t.at = p /\ t.val = req[r].val /\ t.own = 0 /\ t.all = 0
    BY <1>1, <1>2 DEF Task
  <1> HIDE DEF t
  <1>12. req' \in [Readers -> Task] /\ req'[r] = t /\ \A q \in Readers : q # r => req'[q] = req[q]
    BY <1>1, <1>10, <1>11, OneChanged
  <1>13. Moves(r)
    BY <1>1, <1>3, <1>4, <1>11, <1>12 DEF Moves
  <1>14. Finds
    BY <1>1, <1>11, <1>12, FindsKept
  <1>15. Places'
    BY <1>1, <1>11, <1>12, LoadsMoved
  <1>16. CacheType'
    <2>1. local' \in [Proc -> Nat \ {0}]
      BY <1>1, <1>5, <1>7 DEF CacheType
    <2>2. pending' \in [Proc -> BOOLEAN] /\ returned' \in [Proc -> Nat]
      BY <1>1, <1>5, <1>9 DEF CacheType
    <2> QED BY <1>1, <1>3, <1>4, <1>12, <2>1, <2>2 DEF CacheType
  <1>17. Counts'
    <2>1. Begun' = Begun
      BY <1>1, <1>11, <1>12 DEF Begun
    <2>2. ASSUME NEW q \in Proc PROVE local'[q] <= 1 + Cardinality(Begun)
      <3>1. CASE q = p /\ conn[p]
        <4>1. l <= gen /\ gen \in Nat /\ gen <= 1 + Cardinality(Begun \ Unsent)
          BY <1>1, <1>7, <1>8, <3>1 DEF Counts, CacheType
        <4>2. Cardinality(Begun \ Unsent) <= Cardinality(Begun) /\ Cardinality(Begun \ Unsent) \in Nat /\ Cardinality(Begun) \in Nat
          BY <1>1, NumbersFew
        <4> QED BY <1>8, <1>a, <3>1, <4>1, <4>2
      <3>2. CASE q # p \/ ~conn[p]
        <4>1. local'[q] = local[q]
          BY <1>1, <1>5, <3>2 DEF CacheType
        <4> QED BY <1>1, <4>1 DEF Counts
      <3> QED BY <3>1, <3>2
    <2> QED BY <1>1, <1>13, <2>1, <2>2, MovesCounts
  <1>18. Held'
    BY <1>1 DEF Held
  <1>19. ASSUME p \notin tangled' PROVE Numbers(p)' /\ Writes(p)'
    <2>1. Numbers(p) /\ Writes(p)
      BY <1>1, <1>19 DEF OwnKept
    <2>2. Numbers(p)' /\ local[p] <= l
      <3>1. CASE conn[p]
        <4>1. ~pending'[p] /\ req'[r].pc \notin Waits
          BY <1>1, <1>5, <1>11, <1>12, <3>1 DEF CacheType, Waits
        <4> QED BY <1>1, <1>3, <1>8, <1>a, <1>12, <1>13, <1>14, <1>16, <2>1, <3>1, <4>1, AnsweredNumbers
      <3>2. CASE ~conn[p]
        <4>1. local[p] <= local'[p] /\ Base(p)' = Base(p) /\ l = local[p] /\ req'[r].pc \notin Waits
          BY <1>5, <1>6, <1>8, <1>11, <1>12, <3>2 DEF Base, Waits
        <4> QED BY <1>1, <1>6, <1>8, <1>13, <1>14, <1>16, <2>1, <4>1, MovesNumbers
      <3> QED BY <3>1, <3>2
    <2>3. ASSUME NEW v \in Nat, MayFind(p, local[p], v) PROVE u <= v
      BY <1>1, <1>2, <1>9, <2>1, <2>3 DEF Writes
    <2>4. Writes(p)'
      BY <1>1, <1>8, <1>9, <1>11, <1>12, <1>13, <1>14, <1>15, <1>16, <2>1, <2>2, <2>3, NumberWritten
    <2> QED BY <2>2, <2>4
  <1>20. ASSUME NEW F \in [Gens -> Nat], Floor(F) PROVE FloorRequest(F, r)' /\ (conn[p] => returned'[p] <= F[gen])
    <2>1. ASSUME conn[p] PROVE u <= F[gen]
      <3>1. FloorCommand(F, p, 1) /\ FloorRedis(F) /\ returned[p] <= F[gen]
        BY <1>3, <1>20, <2>1 DEF Floor, FloorProcess
      <3>2. l \in Gens /\ gen \in Gens /\ l <= gen
        BY <1>1, <1>7, <1>8, <2>1, NumbersFew
      <3>3. req[r].val <= F[l]
        BY <1>1, <1>3, <1>8, <2>1, <3>1 DEF FloorCommand
      <3>4. F[l] <= F[gen] /\ F[l] \in Nat /\ F[gen] \in Nat
        BY <3>1, <3>2 DEF FloorRedis
      <3> QED BY <1>6, <1>9, <3>1, <3>3, <3>4
    <2>2. req'[r].pc \notin Waits /\ req'[r].pc # "gen"
      BY <1>11, <1>12 DEF Waits
    <2> QED BY <1>9, <2>1, <2>2 DEF FloorRequest
  <1>21. ASSUME NEW q \in Readers, q = r \/ Left(q, r)
         PROVE  Enough(q, t.val) /\ req'[q].all = req[q].all /\ req'[q].own = req[q].own /\ req'[q].at = req[q].at
    <2>1. q = r
      BY <1>1, <1>21, NobodyJoined
    <2> QED BY <1>1, <1>2, <1>6, <1>11, <1>12, <2>1 DEF Enough
  <1>22. \A q \in Proc : q # p => local'[q] = local[q] /\ pending'[q] = pending[q] /\ returned'[q] = returned[q]
    BY <1>1, <1>5, <1>9 DEF CacheType
  <1>23. tangled \subseteq tangled' /\ returned'[p] <= ver /\ ver' = ver
    BY <1>1, <1>9
  <1> QED BY <1>6, <1>11, <1>12, <1>13, <1>14, <1>15, <1>16, <1>17, <1>18, <1>19, <1>20, <1>21, <1>22, <1>23, MovesKept

-----------------------------------------------------------------------------
(* Redis: its answers, its loss and its return; the end of a cooldown.      *)
Still ==
  /\ ver' = ver /\ conn' = conn /\ local' = local /\ pending' = pending /\ memory' = memory /\ inflight' = inflight
  /\ req' = req /\ cool' = cool /\ drops' = drops /\ away' = away /\ returned' = returned /\ tangled' = tangled /\ granted' = granted

(* One command that was waited for is answered.                             *)
AnswerOf(p, i, v) ==
  /\ conn[p] /\ queue[p][i].res = -1 /\ v >= 0 /\ queue' \in [Proc -> Seq(Command)] /\ Len(queue'[p]) = Len(queue[p])
  /\ \A j \in 1..Len(queue[p]) : j < i => queue[p][j].res >= 0
  /\ \A j \in 1..Len(queue[p]) : i < j => queue[p][j].res = -1
  /\ queue'[p][i].r = queue[p][i].r /\ queue'[p][i].op = queue[p][i].op /\ queue'[p][i].res = v
  /\ \A j \in 1..Len(queue[p]) : j # i => queue'[p][j] = queue[p][j]
  /\ \A q \in Proc : q # p => queue'[q] = queue[q]

LEMMA CommandOf ==
  ASSUME CacheType, Queued, Places, NEW p \in Proc, NEW i \in 1..Len(queue[p])
  PROVE  /\ queue[p] \in Seq(Command) /\ queue[p][i] \in Command /\ queue[p][i].r \in Readers
         /\ queue[p][i].op \in {"get", "incr", "fetch", "save"} /\ queue[p][i].res \in Int
         /\ req[queue[p][i].r].at = p /\ Sent(queue[p][i].op, req[queue[p][i].r].pc)
  <1>1. queue[p] \in Seq(Command)
    BY DEF CacheType
  <1>2. queue[p][i] \in Command
    BY <1>1
  <1> QED BY <1>1, <1>2 DEF Command, Queued

LEMMA ItsAnswer ==
  ASSUME CacheType, Queued, Places, NEW p \in Proc, NEW i \in DOMAIN queue[p], queue[p][i].res = -1,
         \A j \in 1..(i - 1) : queue[p][j].res # -1, NEW v \in Nat, queue' = [queue EXCEPT ![p][i].res = v]
  PROVE  AnswerOf(p, i, v) /\ i \in 1..Len(queue[p])
  <1>1. queue[p] \in Seq(Command) /\ i \in 1..Len(queue[p]) /\ Len(queue[p]) \in Nat /\ queue \in [Proc -> Seq(Command)]
    BY DEF CacheType
  <1>2. conn[p]
    BY <1>1 DEF Queued
  <1> DEFINE c == [queue[p][i] EXCEPT !.res = v]
             t == [queue[p] EXCEPT ![i] = c]
  <1>3. queue' = [queue EXCEPT ![p] = t]
    BY <1>1
  <1>a. queue[p][i] \in Command
    BY <1>1
  <1>b. c \in Command /\ c.r = queue[p][i].r /\ c.op = queue[p][i].op /\ c.res = v
    BY <1>a DEF Command
  <1> HIDE DEF c
  <1>4. t \in Seq(Command) /\ Len(t) = Len(queue[p]) /\ t[i] = c /\ \A j \in 1..Len(queue[p]) : j # i => t[j] = queue[p][j]
    BY <1>1, <1>b, CommandAnswered
  <1> HIDE DEF t
  <1>5. queue' \in [Proc -> Seq(Command)] /\ queue'[p] = t /\ \A q \in Proc : q # p => queue'[q] = queue[q]
    BY <1>1, <1>3, <1>4
  <1>6. ASSUME NEW j \in 1..Len(queue[p]), j < i PROVE queue[p][j].res >= 0
    <2>1. j \in 1..(i - 1)
      BY <1>1, <1>6
    <2>2. queue[p][j].res >= -1 /\ queue[p][j].res \in Int
      BY <1>2, CommandOf DEF Queued
    <2> QED BY <2>1, <2>2
  <1>7. ASSUME NEW j \in 1..Len(queue[p]), i < j PROVE queue[p][j].res = -1
    BY <1>1, <1>7 DEF Queued
  <1>8. v >= 0
    OBVIOUS
  <1> QED BY <1>1, <1>2, <1>b, <1>4, <1>5, <1>6, <1>7, <1>8 DEF AnswerOf

LEMMA AnswerType ==
  ASSUME CacheInv, Still, queue' \in [Proc -> Seq(Command)], gen' \in Nat \ {0}, store' \in [Gens -> Nat]
  PROVE  CacheType'
  BY DEF CacheInv, CacheType, Still

LEMMA AnswerQueued ==
  ASSUME CacheInv, Still, NEW p \in Proc, NEW i \in 1..Len(queue[p]), NEW v \in Nat, AnswerOf(p, i, v), gen <= gen', gen' \in Nat,
         queue[p][i].op \in {"get", "incr"} => v \in 1..gen'
  PROVE  Queued'
  <1>1. CacheType /\ Queued /\ Places /\ gen \in Nat
    BY DEF CacheInv, CacheType
  <1>2. ASSUME NEW q \in Proc, NEW j \in 1..Len(queue'[q])
        PROVE  /\ j \in 1..Len(queue[q]) /\ queue'[q][j].r = queue[q][j].r /\ queue'[q][j].op = queue[q][j].op
               /\ IF q = p /\ j = i THEN queue'[q][j].res = v ELSE queue'[q][j] = queue[q][j]
    BY DEF AnswerOf
  <1>3. ASSUME NEW q \in Proc, NEW j \in 1..Len(queue'[q])
        PROVE  /\ req'[queue'[q][j].r].at = q /\ Sent(queue'[q][j].op, req'[queue'[q][j].r].pc)
               /\ conn'[q] => queue'[q][j].res >= -1
               /\ ~conn'[q] => queue'[q][j].res = -2
               /\ queue'[q][j].op \in {"get", "incr"} /\ queue'[q][j].res >= 0 => queue'[q][j].res \in 1..gen'
    <2>1. req'[queue'[q][j].r].at = q /\ Sent(queue'[q][j].op, req'[queue'[q][j].r].pc)
      <3>1. j \in 1..Len(queue[q]) /\ queue'[q][j].r = queue[q][j].r /\ queue'[q][j].op = queue[q][j].op /\ req' = req
        BY <1>2 DEF Still
      <3> QED BY <1>1, <3>1, QueuedAt
    <2>2. CASE q = p /\ j = i
      BY <1>2, <2>1, <2>2 DEF AnswerOf, Still
    <2>3. CASE ~(q = p /\ j = i)
      <3>1. j \in 1..Len(queue[q]) /\ queue'[q][j] = queue[q][j]
        BY <1>2, <2>3
      <3>2. queue[q][j].op \in {"get", "incr"} /\ queue[q][j].res >= 0 => queue[q][j].res \in 1..gen'
        BY <1>1, <3>1 DEF Queued
      <3>3. (conn[q] => queue[q][j].res >= -1) /\ (~conn[q] => queue[q][j].res = -2)
        BY <1>1, <3>1 DEF Queued
      <3> QED BY <2>1, <3>1, <3>2, <3>3 DEF Still
    <2> QED BY <2>2, <2>3
  <1>4. ASSUME NEW q \in Proc, NEW j \in 1..Len(queue'[q]), NEW m \in 1..Len(queue'[q]), m < j
        PROVE  /\ queue'[q][j].r # queue'[q][m].r
               /\ queue'[q][j].res # -1 => queue'[q][m].res # -1
    <2>1. queue'[q][j].r # queue'[q][m].r
      <3>1. j \in 1..Len(queue[q]) /\ m \in 1..Len(queue[q]) /\ queue'[q][j].r = queue[q][j].r /\ queue'[q][m].r = queue[q][m].r
        BY <1>2
      <3> QED BY <1>1, <1>4, <3>1, QueuedApart
    <2>2. CASE q # p
      <3>1. j \in 1..Len(queue[q]) /\ m \in 1..Len(queue[q]) /\ queue'[q][j] = queue[q][j] /\ queue'[q][m] = queue[q][m]
        BY <1>2, <2>2
      <3> QED BY <1>1, <1>4, <3>1, QueuedApart
    <2>3. CASE q = p
      <3>1. m = i => queue'[q][m].res # -1
        BY <1>2, <2>3
      <3>2. m # i /\ j = i => queue'[q][m].res # -1
        BY <1>2, <1>4, <2>3 DEF AnswerOf
      <3>3. ASSUME m # i, j # i PROVE queue'[q][j].res # -1 => queue'[q][m].res # -1
        <4>1. j \in 1..Len(queue[q]) /\ m \in 1..Len(queue[q]) /\ queue'[q][j] = queue[q][j] /\ queue'[q][m] = queue[q][m]
          BY <1>2, <3>3
        <4> QED BY <1>1, <1>4, <4>1, QueuedApart
      <3> QED BY <2>1, <3>1, <3>2, <3>3
    <2> QED BY <2>2, <2>3
  <1>5. \A q \in Proc : ~conn'[q] => q \in away'
    BY <1>1 DEF Queued, Still
  <1> QED BY <1>3, <1>4, <1>5 DEF Queued

LEMMA AnswerCounts ==
  ASSUME CacheInv, Still, NEW p \in Proc, NEW i \in 1..Len(queue[p]), NEW v \in Nat, AnswerOf(p, i, v),
         gen' = IF queue[p][i].op = "incr" THEN gen + 1 ELSE gen
  PROVE  Counts'
  <1>1. /\ CacheType /\ Queued /\ Places /\ Counts /\ gen \in Nat /\ ver' = ver /\ local' = local
        /\ Begun' = Begun /\ Written' = Written /\ Begun \subseteq Readers
    BY DEF CacheInv, CacheType, Still, Begun, Written
  <1>2. ASSUME NEW q \in Proc, NEW j \in 1..Len(queue'[q]), queue'[q][j].res = -1
        PROVE  j \in 1..Len(queue[q]) /\ queue'[q][j] = queue[q][j] /\ ~(q = p /\ j = i)
    BY <1>2 DEF AnswerOf
  <1>3. Unsent' \subseteq Unsent
    BY <1>2 DEF Unsent
  <1>4. PICK r \in Readers : r = queue[p][i].r /\ req[r].at = p /\ Sent(queue[p][i].op, req[r].pc)
    BY <1>1, CommandOf
  <1>5. ASSUME queue[p][i].op = "incr" PROVE r \in Unsent /\ r \in Begun /\ r \notin Unsent'
    <2>1. r \in Unsent
      BY <1>4, <1>5 DEF Unsent, AnswerOf
    <2>2. r \in Begun
      BY <1>4, <1>5 DEF Begun, Sent
    <2>3. ASSUME NEW q \in Proc, NEW j \in 1..Len(queue'[q]), queue'[q][j].res = -1, queue'[q][j].r = r PROVE FALSE
      <3>1. j \in 1..Len(queue[q]) /\ queue[q][j].r = r /\ ~(q = p /\ j = i)
        BY <1>2, <2>3
      <3>2. q = p
        BY <1>1, <1>4, <3>1, CommandOf
      <3>3. i \in Nat /\ j \in Nat /\ j # i
        BY <3>1, <3>2
      <3> QED BY <1>1, <1>4, <3>1, <3>2, <3>3 DEF Queued
    <2> QED BY <2>1, <2>2, <2>3 DEF Unsent
  <1>6. IsFiniteSet(Begun \ Unsent') /\ IsFiniteSet(Begun \ Unsent)
    BY <1>1, CacheAssumption, FS_Subset
  <1>7. Cardinality(Begun \ Unsent) \in Nat /\ Cardinality(Begun \ Unsent') \in Nat
    BY <1>6, FS_CardinalityType
  <1>8. gen' <= 1 + Cardinality(Begun \ Unsent')
    <2>1. CASE queue[p][i].op = "incr"
      <3>1. (Begun \ Unsent) \cup {r} \subseteq Begun \ Unsent' /\ r \notin Begun \ Unsent
        BY <1>3, <1>5, <2>1
      <3>2. Cardinality((Begun \ Unsent) \cup {r}) = Cardinality(Begun \ Unsent) + 1
        BY <1>6, <3>1, FS_AddElement
      <3>3. Cardinality((Begun \ Unsent) \cup {r}) <= Cardinality(Begun \ Unsent')
        BY <1>6, <3>1, FS_Subset
      <3> QED BY <1>1, <1>7, <2>1, <3>2, <3>3 DEF Counts
    <2>2. CASE queue[p][i].op # "incr"
      <3>1. Begun \ Unsent \subseteq Begun \ Unsent'
        BY <1>3
      <3>2. Cardinality(Begun \ Unsent) <= Cardinality(Begun \ Unsent')
        BY <1>6, <3>1, FS_Subset
      <3> QED BY <1>1, <1>7, <2>2, <3>2 DEF Counts
    <2> QED BY <2>1, <2>2
  <1>9. ver' <= 1 + Cardinality(Written') /\ \A q \in Proc : local'[q] <= 1 + Cardinality(Begun')
    BY <1>1 DEF Counts
  <1> QED BY <1>1, <1>8, <1>9 DEF Counts

LEMMA AnswerNumbers ==
  ASSUME CacheInv, Still, NEW p \in Proc, NEW i \in 1..Len(queue[p]), NEW v \in Nat, AnswerOf(p, i, v),
         gen' = (IF queue[p][i].op = "incr" THEN gen + 1 ELSE gen), queue[p][i].op \in {"get", "incr"} => v = gen'
  PROVE  OwnKept'
  <1>1. CacheType /\ Queued /\ Places /\ OwnKept /\ gen \in Nat /\ gen' \in Nat /\ gen <= gen' /\ tangled' = tangled
    BY DEF CacheInv, CacheType, Still
  <1>2. \A q \in Proc, k \in Gens, u \in Nat : MayFind(q, k, u)' = MayFind(q, k, u)
    BY DEF MayFind, Still
  <1>3. ASSUME NEW q \in Proc \ tangled PROVE Numbers(q)'
    <2>1. Numbers(q) /\ Base(q)' = Base(q) /\ Base(q) \in Int
      BY <1>1 DEF OwnKept, Base, Still, CacheType
    <2>2. (\A k \in Gens, u \in Nat : MayFind(q, k, u)' => k <= local'[q]) /\ (conn'[q] => gen' >= Base(q))
      BY <1>1, <1>2, <2>1 DEF Numbers, Still
    <2>3. \A r \in Readers : req'[r].at = q /\ req'[r].pc \in Waits => req'[r].key <= local'[q]
      BY <2>1 DEF Numbers, Still
    <2>4. ASSUME NEW j \in 1..Len(queue'[q])
          PROVE  /\ j \in 1..Len(queue[q]) /\ queue'[q][j].op = queue[q][j].op
                 /\ IF q = p /\ j = i THEN queue'[q][j].res = v ELSE queue'[q][j] = queue[q][j]
      BY DEF AnswerOf
    <2>5. ASSUME conn'[q], NEW j \in 1..Len(queue'[q]), queue'[q][j].res >= 0
          PROVE  /\ queue'[q][j].op = "get" => queue'[q][j].res >= Base(q)
                 /\ queue'[q][j].op = "incr" => queue'[q][j].res > Base(q)
      <3>1. conn[q] /\ gen >= Base(q)
        BY <2>1, <2>5 DEF Still, Numbers
      <3>2. CASE q = p /\ j = i
        BY <1>1, <2>1, <2>4, <3>1, <3>2
      <3>3. CASE ~(q = p /\ j = i)
        BY <2>1, <2>4, <2>5, <3>1, <3>3 DEF Numbers
      <3> QED BY <3>2, <3>3
    <2>6. ASSUME conn'[q], NEW j \in 1..Len(queue'[q]), NEW m \in 1..Len(queue'[q]), m < j,
                 queue'[q][j].res >= 0, queue'[q][m].op \in {"get", "incr"}
          PROVE  /\ queue'[q][j].op = "get" => queue'[q][j].res >= queue'[q][m].res
                 /\ queue'[q][j].op = "incr" => queue'[q][j].res > queue'[q][m].res
      <3>1. conn[q] /\ j \in 1..Len(queue[q]) /\ m \in 1..Len(queue[q]) /\ queue[q][m].op \in {"get", "incr"}
        BY <2>4, <2>6 DEF Still
      <3>2. CASE q = p /\ j = i
        <4>1. queue'[q][m] = queue[q][m] /\ queue[q][m].res >= 0 /\ queue'[q][j].res = v
          BY <2>4, <2>6, <3>1, <3>2 DEF AnswerOf
        <4>2. queue[q][m].res \in 1..gen
          BY <1>1, <3>1, <4>1 DEF Queued
        <4>3. queue'[q][j].op = queue[p][i].op
          BY <2>4, <3>2
        <4>4. queue[q][m].res <= gen /\ queue[q][m].res \in Nat
          BY <1>1, <4>2
        <4> QED BY <1>1, <4>1, <4>3, <4>4
      <3>3. CASE q = p /\ m = i
        BY <2>4, <2>6, <3>1, <3>3 DEF AnswerOf
      <3>4. CASE q # p \/ (j # i /\ m # i)
        BY <2>1, <2>4, <2>6, <3>1, <3>4 DEF Numbers
      <3> QED BY <3>2, <3>3, <3>4
    <2> QED BY <2>1, <2>2, <2>3, <2>5, <2>6 DEF Numbers
  <1>4. ASSUME NEW q \in Proc \ tangled PROVE Writes(q)'
    BY <1>1, <1>4 DEF OwnKept, Writes, MayFind, Still
  <1> QED BY <1>1, <1>3, <1>4 DEF OwnKept

LEMMA AnswerFloor ==
  ASSUME CacheInv, Still, NEW p \in Proc, NEW i \in 1..Len(queue[p]), NEW v \in Nat, AnswerOf(p, i, v),
         gen' = (IF queue[p][i].op = "incr" THEN gen + 1 ELSE gen),
         NEW F \in [Gens -> Nat], Floor(F), NEW G \in [Gens -> Nat], \A k \in Gens : k <= gen => G[k] = F[k],
         gen' \in Gens, F[gen] <= G[gen'], FloorRedis(G)', FloorCommand(G, p, i)'
  PROVE  Floor(G)'
  <1>0. CacheType /\ Queued /\ Places /\ NotNewer /\ Counts /\ gen \in Nat /\ gen' \in Nat /\ gen <= gen'
    <2>1. CacheType /\ Queued /\ Places /\ NotNewer /\ Counts
      BY DEF CacheInv
    <2>2. gen \in Nat
      BY <2>1 DEF CacheType
    <2> QED BY <2>1, <2>2
  <1>1. /\ CacheType /\ Queued /\ Places /\ NotNewer /\ gen \in Nat /\ gen' \in Nat /\ gen <= gen' /\ gen \in Gens
        /\ G[gen'] \in Nat /\ F[gen] \in Nat /\ Gens \subseteq Nat
    BY <1>0, NumbersFew, NumbersMade
  <1>2. \A q \in Proc, k \in Gens, u \in Nat : MayFind(q, k, u)' = MayFind(q, k, u)
    BY DEF MayFind, Still
  <1>3. ASSUME NEW q \in Proc, conn'[q]
        PROVE  /\ q \notin away' /\ returned'[q] <= G[gen']
               /\ \A k \in Gens, u \in Nat : MayFind(q, k, u)' => k <= gen' /\ G[k] <= u
    <2>1. conn[q] /\ FloorProcess(F, q) /\ q \notin away' /\ returned'[q] = returned[q] /\ returned[q] \in Nat
      BY <1>1, <1>3 DEF Still, Floor, FloorProcess, CacheType
    <2>2. returned'[q] <= G[gen']
      BY <1>1, <2>1 DEF FloorProcess
    <2>3. ASSUME NEW k \in Gens, NEW u \in Nat, MayFind(q, k, u) PROVE k <= gen' /\ G[k] <= u
      <3>1. k <= gen /\ F[k] <= u /\ k \in Nat
        BY <1>1, <2>1, <2>3 DEF FloorProcess
      <3> QED BY <1>1, <3>1
    <2> QED BY <1>2, <2>1, <2>2, <2>3
  <1>4. ASSUME NEW q \in Readers PROVE FloorRequest(G, q)'
    <2>1. FloorRequest(F, q) /\ req[q].own \in Nat /\ req[q].all \in Nat
      BY <1>1 DEF Floor, CacheType, Task
    <2>2. CASE req[q].pc \in Waits
      <3>1. req[q].key \in Gens
        BY <1>1, <2>2 DEF Places, Waits
      <3>2. req[q].pc # "gen"
        BY <2>2 DEF Waits
      <3>3. SUFFICES ASSUME req[q].at \in Proc, conn[req[q].at]
                     PROVE  req[q].key <= gen' /\ req[q].own <= G[req[q].key] /\ (away = {} => req[q].all <= G[req[q].key])
        BY <3>2 DEF FloorRequest, Still
      <3>4. req[q].key <= gen /\ req[q].own <= F[req[q].key] /\ (away = {} => req[q].all <= F[req[q].key])
        BY <2>1, <2>2, <3>3 DEF FloorRequest
      <3>5. G[req[q].key] = F[req[q].key] /\ req[q].key \in Nat
        BY <1>1, <3>1, <3>4
      <3> QED BY <1>1, <3>4, <3>5
    <2>3. CASE req[q].pc = "gen"
      BY <1>1, <2>1, <2>3 DEF FloorRequest, Still, Waits
    <2>4. CASE req[q].pc \notin Waits /\ req[q].pc # "gen"
      BY <2>4 DEF FloorRequest, Still
    <2> QED BY <2>2, <2>3, <2>4
  <1>5. ASSUME NEW q \in Proc, NEW j \in 1..Len(queue'[q]) PROVE FloorCommand(G, q, j)'
    <2>1. CASE q = p /\ j = i
      BY <2>1
    <2>2. CASE ~(q = p /\ j = i)
      <3>1. j \in 1..Len(queue[q]) /\ queue'[q][j] = queue[q][j]
        BY <2>2 DEF AnswerOf
      <3>2. FloorCommand(F, q, j)
        BY <3>1 DEF Floor
      <3>3. PICK r \in Readers : r = queue[q][j].r /\ req[r].at = q /\ Sent(queue[q][j].op, req[r].pc)
        BY <1>1, <3>1, CommandOf
      <3>4. SUFFICES ASSUME conn[q], queue[q][j].res >= 0 PROVE FloorCommand(G, q, j)'
        BY <3>1 DEF FloorCommand, Still
      <3>5. CASE queue[q][j].op = "fetch"
        <4>1. req[r].pc = "fetch" /\ req[r].key \in Gens /\ FloorRequest(F, r)
          BY <1>1, <3>3, <3>5 DEF Sent, Places, Floor
        <4>2. req[r].key <= gen
          BY <3>3, <3>4, <4>1 DEF FloorRequest, Waits
        <4> QED BY <3>1, <3>2, <3>3, <3>5, <4>1, <4>2 DEF FloorCommand, Still
      <3>6. CASE queue[q][j].op \in {"get", "incr"}
        <4>1. queue[q][j].res \in 1..gen
          BY <1>1, <3>1, <3>4, <3>6 DEF Queued
        <4>2. queue[q][j].res \in Gens /\ queue[q][j].res <= gen
          BY <1>1, <4>1, NumbersMade
        <4> QED BY <3>1, <3>2, <3>3, <3>6, <4>2 DEF FloorCommand, Still
      <3>7. CASE queue[q][j].op = "save"
        BY <3>1, <3>7 DEF FloorCommand, Still
      <3> QED BY <1>1, <3>1, <3>5, <3>6, <3>7, CommandOf
    <2> QED BY <2>1, <2>2
  <1> QED BY <1>3, <1>4, <1>5 DEF Floor, FloorProcess

LEMMA AnswerNotNewer ==
  ASSUME CacheInv, Still, NEW p \in Proc, NEW i \in 1..Len(queue[p]), NEW v \in Nat, AnswerOf(p, i, v),
         \A k \in Gens : store'[k] <= ver, queue[p][i].op = "fetch" => v <= ver
  PROVE  NotNewer'
  <1>1. NotNewer
    BY DEF CacheInv
  <1>2. ASSUME NEW q \in Proc, NEW j \in 1..Len(queue'[q]), queue'[q][j].op = "fetch" PROVE queue'[q][j].res <= ver
    <2>1. /\ j \in 1..Len(queue[q]) /\ queue'[q][j].op = queue[q][j].op
          /\ IF q = p /\ j = i THEN queue'[q][j].res = v ELSE queue'[q][j] = queue[q][j]
      BY DEF AnswerOf
    <2>2. CASE q = p /\ j = i
      BY <1>2, <2>1, <2>2
    <2>3. CASE ~(q = p /\ j = i)
      BY <1>1, <1>2, <2>1, <2>3 DEF NotNewer
    <2> QED BY <2>2, <2>3
  <1> QED BY <1>1, <1>2 DEF NotNewer, Still

LEMMA AnswerKept ==
  ASSUME CacheInv, Still, NEW p \in Proc, NEW i \in 1..Len(queue[p]), NEW v \in Nat, AnswerOf(p, i, v),
         gen' = (IF queue[p][i].op = "incr" THEN gen + 1 ELSE gen), queue[p][i].op \in {"get", "incr"} => v = gen',
         store' \in [Gens -> Nat], \A k \in Gens : store'[k] <= ver, queue[p][i].op = "fetch" => v <= ver,
         \A F \in [Gens -> Nat] : Trusted /\ Floor(F) => \E G \in [Gens -> Nat] : Floor(G)'
  PROVE  CacheInv'
  <1>1. /\ CacheType /\ Places /\ Held /\ Floors /\ C!SeesAll /\ C!SeesOwn /\ queue' \in [Proc -> Seq(Command)]
    BY DEF CacheInv, AnswerOf
  <1>2. gen \in Nat /\ gen' \in Nat \ {0} /\ gen <= gen' /\ (queue[p][i].op \in {"get", "incr"} => v \in 1..gen')
    <2>1. gen \in Nat \ {0}
      BY <1>1 DEF CacheType
    <2> QED BY <2>1
  <1>3. CacheType'
    BY <1>1, <1>2, AnswerType
  <1>4. Queued'
    BY <1>2, AnswerQueued
  <1>5. NotNewer' /\ Counts' /\ OwnKept'
    BY AnswerNotNewer, AnswerCounts, AnswerNumbers
  <1>6. Places' /\ Held' /\ C!SeesAll' /\ C!SeesOwn'
    BY <1>1 DEF Places, Held, C!SeesAll, C!SeesOwn, C!Reading, C!Now, Still
  <1>7. Floors'
    <2>1. SUFFICES ASSUME Trusted' PROVE \E G \in [Gens -> Nat] : Floor(G)'
      BY DEF Floors
    <2>2. Trusted
      BY <2>1 DEF Trusted, Still
    <2>3. PICK F \in [Gens -> Nat] : Floor(F)
      BY <1>1, <2>2 DEF Floors
    <2> QED BY <2>2, <2>3
  <1> QED BY <1>3, <1>4, <1>5, <1>6, <1>7 DEF CacheInv

LEMMA GotKept ==
  ASSUME CacheInv, Still, NEW p \in Proc, NEW i \in 1..Len(queue[p]), NEW v \in Nat, AnswerOf(p, i, v),
         queue[p][i].op = "get", v = gen, gen' = gen, store' = store
  PROVE  CacheInv'
  <1>1. CacheType /\ Queued /\ Places /\ NotNewer /\ Counts
    BY DEF CacheInv
  <1>2. gen \in Gens
    BY <1>1, NumbersFew
  <1>3. PICK r \in Readers : r = queue[p][i].r /\ req[r].at = p /\ req[r].pc = "gen"
    BY <1>1, CommandOf DEF Sent
  <1>4. ASSUME NEW F \in [Gens -> Nat], Floor(F) PROVE Floor(F)'
    <2>1. FloorRedis(F)' /\ F[gen] <= F[gen'] /\ \A k \in Gens : k <= gen => F[k] = F[k]
      BY <1>2, <1>4 DEF Floor, FloorRedis, Still
    <2>2. FloorRequest(F, r) /\ conn[p]
      BY <1>4 DEF Floor, AnswerOf
    <2>3. FloorCommand(F, p, i)'
      <3>1. queue'[p][i].r = r /\ queue'[p][i].op = "get" /\ queue'[p][i].res = gen
        BY <1>3 DEF AnswerOf
      <3>2. req[r].own <= F[gen] /\ (away = {} => req[r].all <= F[gen])
        BY <1>3, <2>2 DEF FloorRequest
      <3> QED BY <1>3, <3>1, <3>2 DEF FloorCommand, Still
    <2> QED BY <1>2, <1>4, <2>1, <2>3, AnswerFloor
  <1>5. store' \in [Gens -> Nat] /\ \A k \in Gens : store'[k] <= ver
    BY <1>1 DEF CacheType, NotNewer
  <1> QED BY <1>4, <1>5, AnswerKept

LEMMA SoughtKept ==
  ASSUME CacheInv, Still, NEW p \in Proc, NEW i \in 1..Len(queue[p]), NEW v \in Nat, AnswerOf(p, i, v),
         queue[p][i].op = "fetch", v \in {store[req[queue[p][i].r].key], 0}, gen' = gen, store' = store
  PROVE  CacheInv'
  <1>1. CacheType /\ Queued /\ Places /\ NotNewer /\ Counts
    BY DEF CacheInv
  <1>2. gen \in Gens
    BY <1>1, NumbersFew
  <1>3. PICK r \in Readers : r = queue[p][i].r /\ req[r].at = p /\ req[r].pc = "fetch"
    BY <1>1, CommandOf DEF Sent
  <1>4. PICK k \in Gens : k = req[r].key
    BY <1>1, <1>3 DEF Places
  <1>5. ASSUME NEW F \in [Gens -> Nat], Floor(F) PROVE Floor(F)'
    <2>1. FloorRedis(F)' /\ F[gen] <= F[gen'] /\ \A l \in Gens : l <= gen => F[l] = F[l]
      BY <1>2, <1>5 DEF Floor, FloorRedis, Still
    <2>2. v > 0 => F[k] <= v
      BY <1>3, <1>4, <1>5 DEF Floor, FloorRedis
    <2>3. FloorCommand(F, p, i)'
      <3>1. queue'[p][i].r = r /\ queue'[p][i].op = "fetch" /\ queue'[p][i].res = v
        BY <1>3 DEF AnswerOf
      <3> QED BY <1>4, <2>2, <3>1 DEF FloorCommand, Still
    <2> QED BY <1>2, <1>5, <2>1, <2>3, AnswerFloor
  <1>6. store' \in [Gens -> Nat] /\ (\A l \in Gens : store'[l] <= ver) /\ v <= ver
    BY <1>1, <1>3, <1>4 DEF CacheType, NotNewer
  <1> QED BY <1>5, <1>6, AnswerKept

LEMMA KeptKept ==
  ASSUME CacheInv, Still, NEW p \in Proc, NEW i \in 1..Len(queue[p]), AnswerOf(p, i, 1),
         queue[p][i].op = "save", store' = [store EXCEPT ![req[queue[p][i].r].key] = req[queue[p][i].r].val], gen' = gen
  PROVE  CacheInv'
  <1>1. CacheType /\ Queued /\ Places /\ NotNewer /\ Counts
    BY DEF CacheInv
  <1>2. gen \in Gens
    BY <1>1, NumbersFew
  <1>3. PICK r \in Readers : r = queue[p][i].r /\ req[r].at = p /\ req[r].pc = "save"
    BY <1>1, CommandOf DEF Sent
  <1>4. PICK k \in Gens, u \in Nat : k = req[r].key /\ u = req[r].val /\ u <= ver
    BY <1>1, <1>3 DEF Places, CacheType, Task, NotNewer
  <1>5. store' \in [Gens -> Nat] /\ \A l \in Gens : store'[l] = IF l = k THEN u ELSE store[l]
    BY <1>1, <1>3, <1>4 DEF CacheType
  <1>6. ASSUME NEW F \in [Gens -> Nat], Floor(F) PROVE Floor(F)'
    <2>1. F[gen] <= F[gen'] /\ \A l \in Gens : l <= gen => F[l] = F[l]
      BY <1>2
    <2>2. ASSUME u > 0 PROVE k <= gen /\ F[k] <= u
      <3>1. MayFind(p, k, u) /\ conn[p]
        BY <1>3, <1>4, <2>2 DEF MayFind, AnswerOf
      <3> QED BY <1>6, <3>1 DEF Floor, FloorProcess
    <2>3. FloorRedis(F)'
      BY <1>5, <1>6, <2>2 DEF Floor, FloorRedis, Still
    <2>4. FloorCommand(F, p, i)'
      <3>1. queue'[p][i].op = "save"
        BY DEF AnswerOf
      <3> QED BY <3>1 DEF FloorCommand
    <2> QED BY <1>2, <1>6, <2>1, <2>3, <2>4, AnswerFloor
  <1>7. \A l \in Gens : store'[l] <= ver
    BY <1>1, <1>4, <1>5 DEF NotNewer
  <1> QED BY <1>5, <1>6, <1>7, AnswerKept

LEMMA NextKept ==
  ASSUME CacheInv, Still, NEW p \in Proc, NEW i \in 1..Len(queue[p]), NEW v \in Nat, AnswerOf(p, i, v),
         queue[p][i].op = "incr", v = gen + 1, gen' = gen + 1, store' = store
  PROVE  CacheInv'
  <1>1. CacheType /\ Queued /\ Places /\ NotNewer /\ Counts /\ ver' = ver
    BY DEF CacheInv, Still
  <1>2. gen \in Gens /\ gen \in Nat \ {0} /\ Gens \subseteq Nat /\ ver \in Nat
    BY <1>1, NumbersFew, NumbersMade DEF CacheType
  <1>3. gen' \in Gens
    <2>1. gen' <= 1 + Cardinality(Begun' \ Unsent')
      BY AnswerCounts DEF Counts
    <2>2. Begun' \ Unsent' \subseteq Readers /\ IsFiniteSet(Readers)
      BY CacheAssumption DEF Begun
    <2>3. /\ Cardinality(Begun' \ Unsent') <= Cardinality(Readers) /\ Cardinality(Readers) \in Nat
          /\ IsFiniteSet(Begun' \ Unsent')
      BY <2>2, FS_Subset, FS_CardinalityType
    <2>4. Cardinality(Begun' \ Unsent') \in Nat
      BY <2>3, FS_CardinalityType
    <2>5. Gens = 1..(1 + Cardinality(Readers))
      BY CountedAlike DEF Gens, C!Gens
    <2> QED BY <1>2, <2>1, <2>3, <2>4, <2>5
  <1>4. PICK r \in Readers : r = queue[p][i].r /\ req[r].at = p /\ req[r].pc \in {"gen", "bump"}
    BY <1>1, CommandOf DEF Sent
  <1>5. req[r].val \in Nat /\ req[r].own \in Nat /\ req[r].all \in Nat /\ req[r].val <= ver
    BY <1>1 DEF CacheType, Task, NotNewer
  <1>6. ASSUME NEW F \in [Gens -> Nat], Floor(F) PROVE \E G \in [Gens -> Nat] : Floor(G)'
    <2>1. PICK w \in Nat : F[gen] <= w /\ w <= ver /\ (req[r].pc = "bump" => req[r].val <= w)
      <3>1. F[gen] \in Nat /\ F[gen] <= ver
        BY <1>2, <1>6 DEF Floor, FloorRedis
      <3>2. CASE req[r].val <= F[gen]
        BY <3>1, <3>2
      <3>3. CASE ~(req[r].val <= F[gen])
        BY <1>5, <3>1, <3>3
      <3> QED BY <3>2, <3>3
    <2>2. PICK G \in [Gens -> Nat] : \A k \in Gens : G[k] = IF k <= gen THEN F[k] ELSE w
      <3>1. [k \in Gens |-> IF k <= gen THEN F[k] ELSE w] \in [Gens -> Nat]
        OBVIOUS
      <3> QED BY <3>1
    <2>3. G[gen'] = w
      BY <1>2, <1>3, <2>2
    <2>4. FloorRedis(G)'
      <3>1. FloorRedis(F)
        BY <1>6 DEF Floor
      <3>2. ASSUME NEW k \in Gens, NEW l \in Gens, k <= l PROVE G[k] <= G[l]
        <4>1. CASE l <= gen
          BY <1>2, <2>2, <3>1, <3>2, <4>1 DEF FloorRedis
        <4>2. CASE ~(l <= gen) /\ k <= gen
          <5>1. F[k] <= F[gen] /\ F[k] \in Nat /\ F[gen] \in Nat
            BY <1>2, <3>1, <4>2 DEF FloorRedis
          <5> QED BY <2>1, <2>2, <4>2, <5>1
        <4>3. CASE ~(l <= gen) /\ ~(k <= gen)
          BY <2>2, <4>3
        <4> QED BY <4>1, <4>2, <4>3
      <3>3. ASSUME NEW k \in Gens PROVE G[k] <= ver /\ (store[k] > 0 => k <= gen' /\ G[k] <= store[k])
        <4>1. F[k] <= ver /\ (store[k] > 0 => k <= gen /\ F[k] <= store[k]) /\ k \in Nat
          BY <1>2, <3>1 DEF FloorRedis
        <4> QED BY <1>2, <2>1, <2>2, <4>1
      <3> QED BY <1>1, <3>2, <3>3 DEF FloorRedis
    <2>5. FloorCommand(G, p, i)'
      <3>1. queue'[p][i].r = r /\ queue'[p][i].op = "incr" /\ queue'[p][i].res = gen'
        BY <1>4 DEF AnswerOf
      <3>2. FloorRequest(F, r) /\ conn[p] /\ F[gen] \in Nat
        BY <1>2, <1>6 DEF Floor, AnswerOf
      <3>3. req[r].own <= w /\ (away = {} => req[r].all <= w)
        <4>1. CASE req[r].pc = "gen"
          BY <1>4, <1>5, <2>1, <3>2, <4>1 DEF FloorRequest
        <4>2. CASE req[r].pc = "bump"
          BY <1>1, <2>1, <4>2 DEF Places
        <4> QED BY <1>4, <4>1, <4>2
      <3> QED BY <1>4, <2>1, <2>3, <3>1, <3>3 DEF FloorCommand, Still
    <2>6. F[gen] <= G[gen'] /\ \A k \in Gens : k <= gen => G[k] = F[k]
      BY <2>1, <2>2, <2>3
    <2>7. Floor(G)'
      BY <1>3, <1>6, <2>2, <2>4, <2>5, <2>6, AnswerFloor
    <2> QED BY <2>2, <2>7
  <1>7. store' \in [Gens -> Nat] /\ \A k \in Gens : store'[k] <= ver
    BY <1>1 DEF CacheType, NotNewer
  <1> QED BY <1>6, <1>7, AnswerKept

LEMMA ExecuteKept == ASSUME CacheInv, NEW p \in Proc, C!Execute(p) PROVE CacheInv'
  <1>1. Still /\ CacheType /\ Queued /\ Places
    BY DEF CacheInv, C!Execute, C!history, Still
  <1> DEFINE Answer(i, v) == queue' = [queue EXCEPT ![p][i].res = v]
             k(i) == req[queue[p][i].r].key
  <1>2. PICK i \in DOMAIN queue[p] :
          /\ queue[p][i].res = -1 /\ \A j \in 1..(i - 1) : queue[p][j].res # -1
          /\ \/ queue[p][i].op = "get" /\ Answer(i, gen) /\ UNCHANGED <<gen, store>>
             \/ queue[p][i].op = "incr" /\ gen' = gen + 1 /\ Answer(i, gen + 1) /\ UNCHANGED store
             \/ queue[p][i].op = "fetch" /\ (Answer(i, store[k(i)]) \/ Answer(i, 0)) /\ UNCHANGED <<gen, store>>
             \/ /\ queue[p][i].op = "save" /\ store' = [store EXCEPT ![k(i)] = req[queue[p][i].r].val]
                /\ Answer(i, 1) /\ UNCHANGED gen
    BY DEF C!Execute
  <1>3. i \in 1..Len(queue[p]) /\ gen \in Nat
    BY <1>1 DEF CacheType
  <1>4. ASSUME NEW v \in Nat, Answer(i, v) PROVE AnswerOf(p, i, v)
    BY <1>1, <1>2, <1>4, ItsAnswer
  <1>5. CASE queue[p][i].op = "get" /\ Answer(i, gen) /\ UNCHANGED <<gen, store>>
    <2>1. AnswerOf(p, i, gen)
      BY <1>3, <1>4, <1>5
    <2> QED BY <1>1, <1>3, <1>5, <2>1, GotKept
  <1>6. CASE queue[p][i].op = "incr" /\ gen' = gen + 1 /\ Answer(i, gen + 1) /\ UNCHANGED store
    <2>1. gen + 1 \in Nat
      BY <1>3
    <2>2. AnswerOf(p, i, gen + 1)
      BY <1>4, <1>6, <2>1
    <2> QED BY <1>1, <1>3, <1>6, <2>1, <2>2, NextKept
  <1>7. CASE queue[p][i].op = "fetch" /\ (Answer(i, store[k(i)]) \/ Answer(i, 0)) /\ UNCHANGED <<gen, store>>
    <2>1. req[queue[p][i].r].pc = "fetch" /\ queue[p][i].r \in Readers
      BY <1>1, <1>3, <1>7, CommandOf DEF Sent
    <2>2. store[k(i)] \in Nat
      BY <1>1, <2>1 DEF Places, CacheType
    <2>3. PICK v \in Nat : v \in {store[k(i)], 0} /\ Answer(i, v)
      BY <1>7, <2>2
    <2>4. AnswerOf(p, i, v)
      BY <1>4, <2>3
    <2> QED BY <1>1, <1>3, <1>7, <2>3, <2>4, SoughtKept
  <1>8. CASE /\ queue[p][i].op = "save" /\ store' = [store EXCEPT ![k(i)] = req[queue[p][i].r].val]
             /\ Answer(i, 1) /\ UNCHANGED gen
    <2>1. AnswerOf(p, i, 1)
      BY <1>4, <1>8
    <2> QED BY <1>1, <1>3, <1>8, <2>1, KeptKept
  <1> QED BY <1>2, <1>5, <1>6, <1>7, <1>8

LEMMA DropKept == ASSUME CacheInv, NEW p \in Proc, C!Drop(p) PROVE CacheInv'
  <1>1. /\ CacheType /\ Queued /\ Places /\ NotNewer /\ Counts /\ OwnKept /\ Floors /\ C!SeesOwn
        /\ conn[p] /\ drops < MaxDrops /\ drops' = drops + 1 /\ away' = away \cup {p} /\ conn' = [conn EXCEPT ![p] = FALSE]
        /\ UNCHANGED <<ver, gen, store, cool, local, pending, memory, inflight, req, returned, tangled, granted>>
    BY DEF CacheInv, C!Drop, C!redis
  <1>2. queue[p] \in Seq(Command) /\ queue \in [Proc -> Seq(Command)] /\ Len(queue[p]) \in Nat
    BY <1>1 DEF CacheType
  <1> DEFINE t == [i \in DOMAIN queue[p] |-> [queue[p][i] EXCEPT !.res = -2]]
  <1>3. queue' = [queue EXCEPT ![p] = t]
    BY <1>2 DEF C!Drop
  <1>4. t \in Seq(Command) /\ Len(t) = Len(queue[p]) /\ \A i \in 1..Len(queue[p]) : t[i].r = queue[p][i].r /\ t[i].op = queue[p][i].op /\ t[i].res = -2
    BY <1>2, CommandsFailed
  <1> HIDE DEF t
  <1>5. queue' \in [Proc -> Seq(Command)] /\ queue'[p] = t /\ \A q \in Proc : q # p => queue'[q] = queue[q]
    BY <1>2, <1>3, <1>4
  <1>6. ASSUME NEW q \in Proc, NEW i \in 1..Len(queue'[q])
        PROVE  /\ i \in 1..Len(queue[q]) /\ queue'[q][i].r = queue[q][i].r /\ queue'[q][i].op = queue[q][i].op
               /\ IF q = p THEN queue'[q][i].res = -2 ELSE queue'[q][i] = queue[q][i]
    BY <1>4, <1>5
  <1>7. conn' \in [Proc -> BOOLEAN] /\ ~conn'[p] /\ \A q \in Proc : q # p => conn'[q] = conn[q]
    BY <1>1 DEF CacheType
  <1>8. CacheType'
    <2>1. drops' \in 0..MaxDrops /\ away' \in SUBSET Proc
      BY <1>1, CacheAssumption DEF CacheType
    <2> QED BY <1>1, <1>5, <1>7, <2>1 DEF CacheType
  <1>9. NotNewer'
    <2>1. ASSUME NEW q \in Proc, NEW i \in 1..Len(queue'[q]), queue'[q][i].op = "fetch" PROVE queue'[q][i].res <= ver
      <3>1. CASE q = p
        BY <1>1, <1>6, <3>1 DEF CacheType
      <3>2. CASE q # p
        BY <1>1, <1>6, <2>1, <3>2 DEF NotNewer
      <3> QED BY <3>1, <3>2
    <2> QED BY <1>1, <2>1 DEF NotNewer
  <1>10. Counts'
    <2>1. Begun' = Begun /\ Written' = Written /\ Begun \subseteq Readers
      BY <1>1 DEF Begun, Written
    <2>2. Unsent' \subseteq Unsent
      BY <1>1, <1>6 DEF Unsent
    <2>3. IsFiniteSet(Begun \ Unsent') /\ Begun \ Unsent \subseteq Begun \ Unsent'
      BY <2>1, <2>2, CacheAssumption, FS_Subset
    <2>4. Cardinality(Begun \ Unsent) <= Cardinality(Begun \ Unsent') /\ IsFiniteSet(Begun \ Unsent)
      BY <2>3, FS_Subset
    <2>5. Cardinality(Begun \ Unsent) \in Nat /\ Cardinality(Begun \ Unsent') \in Nat /\ gen \in Nat
      BY <1>1, <2>3, <2>4, FS_CardinalityType DEF CacheType
    <2>6. gen' <= 1 + Cardinality(Begun' \ Unsent')
      BY <1>1, <2>1, <2>4, <2>5 DEF Counts
    <2>7. ver' <= 1 + Cardinality(Written') /\ \A q \in Proc : local'[q] <= 1 + Cardinality(Begun')
      BY <1>1, <2>1 DEF Counts
    <2> QED BY <2>6, <2>7 DEF Counts
  <1>11. Queued'
    <2>1. ASSUME NEW q \in Proc, NEW i \in 1..Len(queue'[q])
          PROVE  /\ req'[queue'[q][i].r].at = q /\ Sent(queue'[q][i].op, req'[queue'[q][i].r].pc)
                 /\ conn'[q] => queue'[q][i].res >= -1
                 /\ ~conn'[q] => queue'[q][i].res = -2
                 /\ queue'[q][i].op \in {"get", "incr"} /\ queue'[q][i].res >= 0 => queue'[q][i].res \in 1..gen'
      <3>1. req'[queue'[q][i].r].at = q /\ Sent(queue'[q][i].op, req'[queue'[q][i].r].pc)
        <4>1. i \in 1..Len(queue[q]) /\ queue'[q][i].r = queue[q][i].r /\ queue'[q][i].op = queue[q][i].op
          BY <1>6
        <4> QED BY <1>1, <4>1, QueuedAt
      <3>2. CASE q = p
        BY <1>6, <1>7, <3>1, <3>2
      <3>3. CASE q # p
        <4>1. i \in 1..Len(queue[q]) /\ queue'[q][i] = queue[q][i] /\ conn'[q] = conn[q] /\ gen' = gen
          BY <1>1, <1>6, <1>7, <3>3
        <4>2. /\ conn[q] => queue[q][i].res >= -1
              /\ ~conn[q] => queue[q][i].res = -2
              /\ queue[q][i].op \in {"get", "incr"} /\ queue[q][i].res >= 0 => queue[q][i].res \in 1..gen
          BY <1>1, <4>1, QueuedAt
        <4> QED BY <3>1, <4>1, <4>2
      <3> QED BY <3>2, <3>3
    <2>2. ASSUME NEW q \in Proc, NEW i \in 1..Len(queue'[q]), NEW j \in 1..Len(queue'[q]), j < i
          PROVE  /\ queue'[q][i].r # queue'[q][j].r
                 /\ queue'[q][i].res # -1 => queue'[q][j].res # -1
      <3>1. queue'[q][i].r # queue'[q][j].r
        <4>1. i \in 1..Len(queue[q]) /\ j \in 1..Len(queue[q]) /\ queue'[q][i].r = queue[q][i].r /\ queue'[q][j].r = queue[q][j].r
          BY <1>6
        <4> QED BY <1>1, <2>2, <4>1, QueuedApart
      <3>2. CASE q = p
        BY <1>6, <3>1, <3>2
      <3>3. CASE q # p
        <4>1. i \in 1..Len(queue[q]) /\ j \in 1..Len(queue[q]) /\ queue'[q][i] = queue[q][i] /\ queue'[q][j] = queue[q][j]
          BY <1>6, <3>3
        <4> QED BY <1>1, <2>2, <3>1, <4>1, QueuedApart
      <3> QED BY <3>2, <3>3
    <2>3. \A q \in Proc : ~conn'[q] => q \in away'
      BY <1>1, <1>7 DEF Queued
    <2> QED BY <2>1, <2>2, <2>3 DEF Queued
  <1>12. Places'
    BY <1>1 DEF Places
  <1>13. Held' /\ C!SeesAll' /\ away' # {}
    BY <1>1 DEF Held, C!SeesAll
  <1>14. C!SeesOwn'
    BY <1>1 DEF C!SeesOwn, C!Reading, C!Now
  <1>15. \A q \in Proc, k \in Gens, v \in Nat : MayFind(q, k, v)' = MayFind(q, k, v)
    BY <1>1 DEF MayFind
  <1>16. OwnKept'
    <2>1. ASSUME NEW q \in Proc \ tangled PROVE Numbers(q)' /\ Writes(q)'
      <3>1. Numbers(q) /\ Writes(q)
        BY <1>1 DEF OwnKept
      <3>2. Writes(q)'
        BY <1>1, <3>1 DEF Writes, MayFind
      <3>3. CASE q = p
        BY <1>1, <1>7, <1>15, <3>1, <3>2, <3>3 DEF Numbers
      <3>4. CASE q # p
        <4>1. queue'[q] = queue[q] /\ conn'[q] = conn[q] /\ Base(q)' = Base(q)
          BY <1>1, <1>5, <1>7, <3>4 DEF Base
        <4> QED BY <1>1, <1>15, <3>1, <3>2, <4>1 DEF Numbers
      <3> QED BY <3>3, <3>4
    <2> QED BY <1>1, <2>1 DEF OwnKept
  <1>17. Floors'
    <2>1. SUFFICES ASSUME Trusted' PROVE \E F \in [Gens -> Nat] : Floor(F)'
      BY DEF Floors
    <2>2. Trusted
      BY <1>1, <1>13, <2>1 DEF Trusted
    <2>3. PICK F \in [Gens -> Nat] : Floor(F)
      BY <1>1, <2>2 DEF Floors
    <2>4. FloorRedis(F)'
      BY <1>1, <2>3 DEF Floor, FloorRedis
    <2>5. ASSUME NEW q \in Proc, conn'[q]
          PROVE  /\ q \notin away' /\ returned'[q] <= F[gen']
                 /\ \A k \in Gens, v \in Nat : MayFind(q, k, v)' => k <= gen' /\ F[k] <= v
      <3>1. q # p /\ conn[q] /\ FloorProcess(F, q)
        BY <1>7, <2>3, <2>5 DEF Floor
      <3> QED BY <1>1, <1>15, <3>1 DEF FloorProcess
    <2>6. ASSUME NEW q \in Proc, NEW i \in 1..Len(queue'[q]) PROVE FloorCommand(F, q, i)'
      <3>1. CASE q = p
        BY <1>7, <3>1 DEF FloorCommand
      <3>2. CASE q # p
        <4>1. FloorCommand(F, q, i) /\ queue'[q] = queue[q]
          BY <1>5, <1>6, <2>3, <3>2 DEF Floor
        <4> QED BY <1>1, <1>7, <1>13, <3>2, <4>1 DEF FloorCommand
      <3> QED BY <3>1, <3>2
    <2>7. ASSUME NEW r \in Readers PROVE FloorRequest(F, r)'
      <3>1. FloorRequest(F, r)
        BY <2>3 DEF Floor
      <3> QED BY <1>1, <1>7, <1>13, <3>1 DEF FloorRequest
    <2> QED BY <2>4, <2>5, <2>6, <2>7 DEF Floor, FloorProcess
  <1> QED BY <1>8, <1>9, <1>10, <1>11, <1>12, <1>13, <1>14, <1>16, <1>17 DEF CacheInv

LEMMA HealthKept == ASSUME CacheInv, NEW p \in Proc, C!Health(p) PROVE CacheInv'
  <1>1. /\ CacheType /\ Queued /\ Places /\ NotNewer /\ Counts /\ Held
        /\ ~conn[p] /\ queue[p] = <<>> /\ conn' = [conn EXCEPT ![p] = TRUE] /\ tangled' = Proc
        /\ UNCHANGED <<ver, gen, store, cool, local, pending, memory, inflight, queue, req, drops, away, returned, granted>>
    BY DEF CacheInv, C!Health, C!redis
  <1>2. conn' \in [Proc -> BOOLEAN] /\ conn'[p] /\ \A q \in Proc : q # p => conn'[q] = conn[q]
    BY <1>1 DEF CacheType
  <1>3. p \in away /\ away' # {}
    BY <1>1 DEF Queued
  <1>4. CacheType'
    BY <1>1, <1>2 DEF CacheType
  <1>5. NotNewer'
    BY <1>1 DEF NotNewer
  <1>6. Counts'
    <2>1. Begun' = Begun /\ Written' = Written /\ Unsent' = Unsent
      BY <1>1 DEF Begun, Written, Unsent
    <2> QED BY <1>1, <2>1 DEF Counts
  <1>7. Queued'
    <2>1. ASSUME NEW q \in Proc, NEW i \in 1..Len(queue[q])
          PROVE  /\ req'[queue'[q][i].r].at = q /\ Sent(queue'[q][i].op, req'[queue'[q][i].r].pc)
                 /\ conn'[q] => queue'[q][i].res >= -1
                 /\ ~conn'[q] => queue'[q][i].res = -2
                 /\ queue'[q][i].op \in {"get", "incr"} /\ queue'[q][i].res >= 0 => queue'[q][i].res \in 1..gen'
      <3>1. q # p
        BY <1>1
      <3> QED BY <1>1, <1>2, <3>1 DEF Queued
    <2>2. \A q \in Proc : \A i, j \in 1..Len(queue'[q]) : j < i =>
            /\ queue'[q][i].r # queue'[q][j].r
            /\ queue'[q][i].res # -1 => queue'[q][j].res # -1
      BY <1>1 DEF Queued
    <2>3. \A q \in Proc : ~conn'[q] => q \in away'
      BY <1>1, <1>2 DEF Queued
    <2> QED BY <1>1, <2>1, <2>2, <2>3 DEF Queued
  <1>8. Places' /\ Held'
    BY <1>1 DEF Places, Held
  <1>9. OwnKept' /\ Floors' /\ C!SeesAll'
    BY <1>1, <1>3 DEF OwnKept, Floors, Trusted, C!SeesAll
  <1>10. C!SeesOwn'
    BY <1>1 DEF Places, C!SeesOwn, C!Reading, C!Now
  <1> QED BY <1>4, <1>5, <1>6, <1>7, <1>8, <1>9, <1>10 DEF CacheInv

LEMMA CooldownEndsKept == ASSUME CacheInv, C!CooldownEnds PROVE CacheInv'
  <1>1. /\ CacheType /\ Queued /\ Places /\ NotNewer /\ Counts /\ OwnKept /\ Floors /\ C!SeesAll /\ C!SeesOwn
        /\ granted' = {} /\ cool' = None /\ memory' = [p \in Proc |-> [memory[p] EXCEPT !.cool = None]]
        /\ UNCHANGED <<ver, gen, store, conn, local, pending, inflight, queue, req, drops, away, returned, tangled>>
    BY DEF CacheInv, C!CooldownEnds
  <1>2. memory' \in [Proc -> Memory] /\ \A p \in Proc, k \in Gens : memory'[p].read[k] = memory[p].read[k]
    BY <1>1 DEF CacheType, Memory
  <1>3. CacheType'
    BY <1>1, <1>2 DEF CacheType
  <1>4. NotNewer'
    BY <1>1, <1>2 DEF NotNewer
  <1>5. Counts'
    <2>1. Begun' = Begun /\ Written' = Written /\ Unsent' = Unsent
      BY <1>1 DEF Begun, Written, Unsent
    <2> QED BY <1>1, <2>1 DEF Counts
  <1>6. Queued' /\ Places' /\ Held'
    BY <1>1 DEF Queued, Places, Held
  <1>7. C!SeesAll' /\ C!SeesOwn'
    BY <1>1 DEF C!SeesAll, C!SeesOwn, C!Reading, C!Now
  <1>8. \A p \in Proc, k \in Gens, v \in Nat : MayFind(p, k, v)' = MayFind(p, k, v)
    BY <1>1, <1>2 DEF MayFind
  <1>9. OwnKept'
    <2>1. ASSUME NEW p \in Proc \ tangled PROVE Numbers(p)' /\ Writes(p)'
      <3>1. Numbers(p) /\ Writes(p) /\ Base(p)' = Base(p)
        BY <1>1 DEF OwnKept, Base
      <3>2. Numbers(p)'
        BY <1>1, <1>8, <3>1 DEF Numbers
      <3>3. local[p] \in Gens /\ \A r \in Readers : req[r].pc \in Waits => req[r].key \in Gens
        BY <1>1, NumbersFew DEF Places, Waits
      <3>4. \A v \in Nat : MayFind(p, local[p], v)' => MayFind(p, local[p], v)
        BY <1>1, <1>2, <3>3 DEF MayFind
      <3>5. \A r \in Readers, v \in Nat : req[r].pc \in Waits /\ MayFind(p, req[r].key, v)' => MayFind(p, req[r].key, v)
        BY <1>1, <1>2, <3>3 DEF MayFind
      <3>6. Writes(p)'
        BY <1>1, <3>1, <3>4, <3>5 DEF Writes
      <3> QED BY <3>2, <3>6
    <2> QED BY <1>1, <2>1 DEF OwnKept
  <1>10. Floors'
    <2>1. SUFFICES ASSUME Trusted PROVE \E F \in [Gens -> Nat] : Floor(F)'
      BY <1>1 DEF Floors, Trusted
    <2>2. PICK F \in [Gens -> Nat] : Floor(F)
      BY <1>1, <2>1 DEF Floors
    <2>3. FloorRedis(F)' /\ (\A r \in Readers : FloorRequest(F, r)')
      BY <1>1, <2>2 DEF Floor, FloorRedis, FloorRequest
    <2>4. \A p \in Proc : \A i \in 1..Len(queue'[p]) : FloorCommand(F, p, i)'
      BY <1>1, <2>2 DEF Floor, FloorCommand
    <2>5. \A p \in Proc : FloorProcess(F, p)'
      BY <1>1, <1>8, <2>2 DEF Floor, FloorProcess
    <2> QED BY <2>3, <2>4, <2>5 DEF Floor
  <1> QED BY <1>3, <1>4, <1>5, <1>6, <1>7, <1>9, <1>10 DEF CacheInv

LEMMA CacheStays == ASSUME CacheInv, UNCHANGED cache PROVE CacheInv'
  <1>1. UNCHANGED <<ver, gen, store, cool, conn, local, pending, memory, inflight, queue, req, drops, away, returned, tangled, granted>>
    BY DEF cache
  <1>2. CacheType' /\ NotNewer' /\ Queued' /\ Places' /\ Held' /\ C!SeesAll' /\ C!SeesOwn'
    BY <1>1 DEF CacheInv, CacheType, NotNewer, Queued, Places, Held, C!SeesAll, C!SeesOwn, C!Reading, C!Now
  <1>3. Counts'
    BY <1>1 DEF CacheInv, Counts, Begun, Written, Unsent
  <1>4. OwnKept'
    BY <1>1 DEF CacheInv, OwnKept, Numbers, Writes, Base, MayFind
  <1>5. Floors'
    BY <1>1 DEF CacheInv, Floors, Trusted, Floor, FloorRedis, FloorProcess, FloorCommand, FloorRequest, MayFind
  <1> QED BY <1>2, <1>3, <1>4, <1>5 DEF CacheInv

LEMMA CacheBegins == ASSUME C!Init PROVE CacheInv
  <1>1. /\ ver = 1 /\ gen = 1 /\ store = [k \in Gens |-> 0] /\ cool = None /\ conn \in [Proc -> BOOLEAN] /\ away = {p \in Proc : ~conn[p]}
        /\ local = [p \in Proc |-> 1] /\ pending = [p \in Proc |-> FALSE] /\ memory = [p \in Proc |-> C!Empty]
        /\ inflight = [p \in Proc |-> [k \in Gens |-> None]] /\ queue = [p \in Proc |-> <<>>]
        /\ req = [r \in Readers |-> C!Fresh("idle")] /\ drops = 0 /\ returned = [p \in Proc |-> 0] /\ tangled = {} /\ granted = {}
    BY DEF C!Init, Gens
  <1>2. /\ C!Fresh("idle") \in Task /\ C!Fresh("idle").pc = "idle" /\ C!Fresh("idle").val = 0 /\ C!Fresh("idle").own = 0
        /\ C!Fresh("idle").all = 0 /\ C!Fresh("idle").at = None
    BY DEF Task, C!Fresh
  <1>3. C!Empty \in Memory /\ \A k \in Gens : C!Empty.read[k] = 0
    BY DEF Memory, Gens, C!Empty
  <1>4. CacheType
    BY <1>1, <1>2, <1>3, CacheAssumption DEF CacheType
  <1>5. NotNewer
    BY <1>1, <1>2, <1>3 DEF NotNewer
  <1>6. Counts
    <2>1. IsFiniteSet(Written) /\ IsFiniteSet(Begun \ Unsent) /\ IsFiniteSet(Begun)
      BY CacheAssumption, FS_Subset DEF Written, Begun
    <2>2. Cardinality(Written) \in Nat /\ Cardinality(Begun \ Unsent) \in Nat /\ Cardinality(Begun) \in Nat
      BY <2>1, FS_CardinalityType
    <2> QED BY <1>1, <2>2 DEF Counts
  <1>7. Queued
    BY <1>1 DEF Queued
  <1>8. Places /\ Held /\ C!SeesAll /\ C!SeesOwn
    BY <1>1, <1>2 DEF Places, Held, C!SeesAll, C!SeesOwn, C!Reading, C!Now
  <1>9. \A p \in Proc, k \in Gens, v \in Nat : ~MayFind(p, k, v)
    BY <1>1, <1>2, <1>3 DEF MayFind
  <1>10. OwnKept
    <2>1. 1 \in Gens
      BY <1>4, <1>6, <1>1, NumbersFew
    <2> QED BY <1>1, <1>2, <1>9, <2>1 DEF OwnKept, Numbers, Writes, Base, Waits
  <1>11. Floors
    <2>1. PICK F \in [Gens -> Nat] : \A k \in Gens : F[k] = 0
      <3>1. [k \in Gens |-> 0] \in [Gens -> Nat]
        OBVIOUS
      <3> QED BY <3>1
    <2>2. 1 \in Gens
      BY <1>4, <1>6, <1>1, NumbersFew
    <2>3. Floor(F)
      BY <1>1, <1>2, <1>9, <2>1, <2>2 DEF Floor, FloorRedis, FloorProcess, FloorCommand, FloorRequest, Waits
    <2> QED BY <2>3 DEF Floors
  <1> QED BY <1>4, <1>5, <1>6, <1>7, <1>8, <1>10, <1>11 DEF CacheInv

LEMMA CacheSteps == ASSUME CacheInv, C!Next PROVE CacheInv'
  <1>1. ASSUME NEW r \in Readers, C!Step(r) PROVE CacheInv'
    BY <1>1, GenerationKept, LookupKept, FetchedKept, SeenKept, LoadKept, LoadFailsKept, SavedReadKept, DoneKept, LostWriteKept,
       InvalidateKept, BumpedKept DEF C!Step
  <1>2. ASSUME NEW r \in Readers, NEW p \in Proc, C!Read(r, p) \/ C!Write(r, p) \/ C!Claim(r, p) PROVE CacheInv'
    BY <1>2, ReadKept, WriteKept, ClaimKept
  <1>3. ASSUME NEW p \in Proc, C!Execute(p) \/ C!Drop(p) \/ C!Health(p) PROVE CacheInv'
    BY <1>3, ExecuteKept, DropKept, HealthKept
  <1> QED BY <1>1, <1>2, <1>3, ReleaseKept, CooldownEndsKept DEF C!Next

LEMMA CacheInvSound == ASSUME CacheInv PROVE CacheSound
  <1>1. CacheType /\ NotNewer /\ Counts /\ Queued /\ Places /\ Held /\ C!SeesAll /\ C!SeesOwn
    BY DEF CacheInv
  <1>2. gen \in Gens /\ (\A p \in Proc : local[p] \in Gens) /\ ver <= 1 + C!Cardinality(Readers) /\ ver \in Nat \ {0}
    BY <1>1, NumbersFew, CountedAlike DEF CacheType
  <1>3. C!TypeOK
    <2>1. ver \in 1..(1 + C!Cardinality(Readers)) /\ gen \in Gens /\ store \in [Gens -> 0..ver]
      <3>1. C!Cardinality(Readers) \in Nat
        BY CountedAlike, CacheAssumption, FS_CardinalityType
      <3>2. store \in [Gens -> 0..ver]
        BY <1>1, <1>2 DEF CacheType, NotNewer
      <3> QED BY <1>2, <3>1, <3>2
    <2>2. /\ cool \in Readers \cup {None} /\ conn \in [Proc -> BOOLEAN] /\ local \in [Proc -> Gens] /\ pending \in [Proc -> BOOLEAN]
          /\ inflight \in [Proc -> [Gens -> Readers \cup {None}]] /\ drops \in 0..MaxDrops
      BY <1>1, <1>2 DEF CacheType
    <2>3. ASSUME NEW p \in Proc PROVE memory[p].read \in [Gens -> 0..ver] /\ memory[p].cool \in Readers \cup {None}
      <3>1. memory[p] \in Memory /\ \A k \in Gens : memory[p].read[k] <= ver
        BY <1>1 DEF CacheType, NotNewer
      <3> QED BY <1>2, <3>1 DEF Memory
    <2>4. ASSUME NEW p \in Proc, NEW i \in DOMAIN queue[p] PROVE queue[p][i].r \in Readers
      <3>1. queue[p] \in Seq(Command) /\ i \in 1..Len(queue[p])
        BY <1>1 DEF CacheType
      <3> QED BY <1>1, <3>1, CommandOf
    <2>5. \A r \in Readers : req[r].pc \in {"idle", "gen", "key", "fetch", "load", "save", "join", "write", "bump", "claim", "done"}
      BY <1>1 DEF CacheType, Task
    <2>6. returned \in [Proc -> 0..ver]
      BY <1>1, <1>2 DEF CacheType, NotNewer
    <2> QED BY <2>1, <2>2, <2>3, <2>4, <2>5, <2>6 DEF C!TypeOK, Gens
  <1>4. C!CooldownHeld
    <2>1. SUFFICES ASSUME granted \subseteq {cool} PROVE C!Cardinality(granted) <= 1
      BY <1>1 DEF Held, C!CooldownHeld
    <2>2. Cardinality({cool}) = 1 /\ IsFiniteSet({cool})
      BY FS_Singleton
    <2>3. Cardinality(granted) <= 1
      BY <2>1, <2>2, FS_Subset
    <2> QED BY <2>3, CountedAlike
  <1>5. C!LoadsUnderWay
    <2>1. ASSUME NEW p \in Proc, NEW k \in Gens, NEW r \in C!Loading(p, k)
          PROVE  req[r].pc \in {"fetch", "load", "save"} /\ req[r].at = p /\ req[r].key = k
      <3>1. r = inflight[p][k] /\ inflight[p][k] # None
        BY DEF C!Loading
      <3> QED BY <1>1, <3>1 DEF Places
    <2>2. ASSUME NEW r \in Readers, req[r].pc = "join" PROVE inflight[req[r].at][req[req[r].on].key] = req[r].on
      <3>1. req[r].on \in Readers
        BY <1>1, <2>2 DEF CacheType, Task, Places
      <3>2. req[req[r].on].key = req[r].key
        BY <1>1, <2>2, <3>1, JoinedTogether
      <3> QED BY <1>1, <2>2, <3>2 DEF Places
    <2> QED BY <2>1, <2>2 DEF C!LoadsUnderWay, C!Now, Gens
  <1> QED BY <1>1, <1>3, <1>4, <1>5 DEF CacheSound

(* Whatever happens to Redis and to the processes, a read sees the writes  *)
(* that were answered before it began: all of them while every process has *)
(* Redis, and those of its own process as long as the numbers this gives   *)
(* are new; one cooldown at a time is claimed, and nobody waits for a load *)
(* that is not under way (cache.js; cdnfly.js:144).                        *)
THEOREM CacheStaysSound == MCSpec => []CacheSound
  <1>1. MCInit => CacheInv
    BY CacheBegins DEF MCInit
  <1>2. CacheInv /\ [MCNext]_<<caching, vars, cache>> => CacheInv'
    <2>1. ASSUME CacheInv, MCNext PROVE CacheInv'
      BY <2>1, CacheSteps, CacheStays DEF MCNext
    <2>2. ASSUME CacheInv, UNCHANGED cache PROVE CacheInv'
      BY <2>2, CacheStays
    <2> QED BY <2>1, <2>2
  <1>3. CacheInv => CacheSound
    BY CacheInvSound
  <1> QED BY <1>1, <1>2, <1>3, PTL DEF MCSpec

=============================================================================
