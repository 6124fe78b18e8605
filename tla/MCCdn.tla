------------------------------- MODULE MCCdn -------------------------------
(* What the platform knows of the CDN: answers in the cache (Cache), and   *)
(* the rows and groups of a customer's streams, which are made from such   *)
(* answers (Groups and Streams, where the cache is any list that no write  *)
(* has ended).  A behaviour is one of one of them, and the other part      *)
(* stays as it was at the start.                                           *)
EXTENDS Streams, TLC

CONSTANTS Proc, Readers, MaxDrops,
          a, b, f, h, x, y, p1, p2

ASSUME CacheAssumption ==
  /\ IsFiniteSet(Readers) /\ MaxDrops \in Nat /\ IsFiniteSet(Proc) /\ Proc # {}
  /\ None \notin Readers /\ None \notin Proc

VARIABLES caching, ver, gen, store, cool, conn, local, pending, memory, inflight, queue,
          req, drops, away, returned, tangled, granted

cache == <<ver, gen, store, cool, conn, local, pending, memory, inflight, queue,
           req, drops, away, returned, tangled, granted>>

C == INSTANCE Cache WITH Req <- Readers

MCInit ==
  /\ caching \in BOOLEAN
  /\ Init /\ (caching => mapping = NoGroup /\ \A q \in Stream : cdn[q] = None)
  /\ C!Init /\ (~caching => \A p \in Proc : conn[p])

MCNext ==
  \/ caching /\ C!Next /\ UNCHANGED <<caching, vars>>
  \/ ~caching /\ Next /\ UNCHANGED <<caching, cache>>

MCSpec == MCInit /\ [][MCNext]_<<caching, vars, cache>>

(* A read sees the writes that were answered before it began, a cooldown   *)
(* is claimed once, and nobody waits for a load that is not under way      *)
(* (cache.js).                                                             *)
CacheSound == C!TypeOK /\ C!SeesAll /\ C!SeesOwn /\ C!CooldownHeld /\ C!LoadsUnderWay

(* A customer has one group in use, few others, and every stream of a row  *)
(* is in it after a pass; what is billed is what is served                 *)
(* (customer-groups.js, customer-group-reconciliation.js).                 *)
StreamsSound == TypesOK /\ GroupsFew /\ PassGroups /\ BilledFollows

(* Neither the row of a stream the CDN serves nor a group that is used is  *)
(* removed (customer-group-reconciliation.js:78,147).                      *)
NothingLiveRemoved == NoLiveRowRemoved /\ InUseKept

(* Requests, processes and the rest are alike, in either part by itself;   *)
(* since only one of them goes on, they may be exchanged together.         *)
Other == a :> b @@ b :> a @@ p1 :> p2 @@ p2 :> p1 @@ f :> h @@ h :> f @@ x :> y @@ y :> x
Turned(S, turned) == [z \in S |-> IF turned THEN Other[z] ELSE z]
Odd(p) == Cardinality({r \in Readers : p[r] = r}) = 1

Callers == {a, b, Pass}
Streams2 == {f, h}
Ports2 == {x, y}
Symmetry ==
  {Turned({a, b, p1, p2}, i) @@ Turned({f, h}, j) @@ Turned({x, y}, Odd(p)) @@ p :
     i \in BOOLEAN, j \in BOOLEAN, p \in Permutations(Readers)}
=============================================================================
