-------------------------- MODULE OperationsProofs --------------------------
(***************************************************************************)
(* Proofs about module Operations for any number of processes, jobs,       *)
(* backups, failures and crashes.                                          *)
(***************************************************************************)
EXTENDS Operations, FiniteSetTheorems, WellFoundedInduction, TLAPS

Pc == {"idle", "plan", "insert", "pick", "take", "done", "fail",
       "dump", "data", "manifest", "list", "clean", "clean_manifest",
       "rm_data", "rm_manifest", "verify", "upgrade", "drain", "mark",
       "overwrite", "revoke", "cancel", "record", "unmark", "finish", "abort"}

Table == [Job -> JobRow]
Marker == [job : Job, target : Backup, pre : Backup]

ProcRec ==
  [phase : {"down", "boot", "recover", "up", "closing"}, seen : Marker \cup {None},
   restoring : BOOLEAN, stopped : BOOLEAN, started : BOOLEAN, paused : BOOLEAN,
   pass : BOOLEAN, reconciling : BOOLEAN]
WorkRec ==
  [pc : Pc, kind : Kind \cup {None}, job : Job \cup {None}, target : Backup \cup {None},
   id : Backup \cup {None}, todo : SUBSET Backup, ok : BOOLEAN]
BackupRec ==
  [data : BOOLEAN, manifest : BOOLEAN, jobs : Table \cup {<<>>},
   reason : {"manual", "pre_restore", None}]

(* The types that TypeOK leaves to the models that run.                    *)
Typed ==
  /\ marker \in Marker \cup {None}
  /\ s3 \in [Backup -> BackupRec]
  /\ \A b \in Backup : s3[b].reason # None => s3[b].jobs \in Table
  /\ lease \in [shared : SUBSET Node, excl : Node \cup {None}]
  /\ proc \in [Node -> ProcRec]
  /\ work \in [Node -> WorkRec]

-----------------------------------------------------------------------------
(* What the rows of a table of jobs are like, the live one and those in    *)
(* the dumps.                                                              *)
QueuedIn(table) == {j \in Job : table[j].status = "queued"}

RowsSound(table) ==
  /\ \A j \in Job : table[j].status # "none" =>
       /\ table[j].kind \in Kind
       /\ table[j].kind \in {"delete_backup", "restore"} => table[j].target \in Backup
  /\ \A j \in QueuedIn(table) : j <= made
  /\ Cardinality(QueuedIn(table)) <= QueueLimit
  /\ \A j, k \in Job : table[j].status = "running" /\ table[k].status = "running" => j = k

TablesSound ==
  /\ RowsSound(jobs)
  /\ \A b \in Backup : s3[b].reason # None => RowsSound(s3[b].jobs)

(* A process that has recovered serves until it is gone; one that has not  *)
(* does nothing.                                                           *)
Serving(n) == proc[n].phase \in {"up", "closing"}

Quiet(n) ==
  /\ req[n] = "none" /\ work[n] = Idle
  /\ ~proc[n].restoring /\ ~proc[n].stopped /\ ~proc[n].started
  /\ ~proc[n].paused /\ ~proc[n].pass /\ ~proc[n].reconciling

LifeSound(n) ==
  /\ ~Serving(n) => Quiet(n)
  /\ proc[n].phase = "recover" => proc[n].seen \in Marker
  /\ work[n].pc = "idle" => work[n] = Idle

(* The exclusive lock and the maintenance of its holder.                   *)
LeaseSound ==
  /\ lease.excl # None => lease.shared = {lease.excl}
  /\ \A n \in Node : proc[n].restoring => lease.excl = n /\ proc[n].paused

(* What a job works on, by the step that comes next.                       *)
BackupPc == {"dump", "data", "manifest", "list", "clean", "clean_manifest"}
RestorePc == {"verify", "upgrade", "drain", "mark", "overwrite", "revoke", "cancel",
              "record", "unmark", "finish", "abort"}

WorkSound(n) ==
  LET w == work[n]
  IN /\ w.pc \notin {"idle", "plan", "insert", "pick"} => w.job \in Job /\ w.kind \in Kind
     /\ w.pc \in RestorePc => w.kind = "restore"
     /\ w.pc \in BackupPc => w.kind \in {"backup", "restore"}
     /\ w.pc \in {"rm_data", "rm_manifest"} => w.kind = "delete_backup"
     /\ w.pc = "done" => w.kind # "restore"
     /\ w.kind \in {"restore", "delete_backup"} => w.target \in Backup
     /\ w.pc \in {"plan", "insert", "pick", "take"} =>
          /\ w.id = None
          /\ \A j \in Job : jobs[j].status # "running"
     /\ w.pc = "take" => w.job <= made /\ begun[w.job] = 0
     /\ w.pc \notin {"idle", "plan", "insert", "pick"} /\ (w.kind # "restore" \/ w.pc = "take") =>
          jobs[w.job].status # "none"
     /\ w.pc \in {"data", "manifest", "list", "clean", "clean_manifest", "mark",
                 "overwrite", "revoke", "cancel", "record", "unmark"} =>
          w.id \in Backup /\ s3[w.id].reason # None
     /\ w.pc = "clean_manifest" => w.todo # {}
     /\ w.pc \in {"verify", "upgrade", "drain", "dump"} => w.id = None

(* The backups a restore needs, until it has set the marker.               *)
SafetySound(n) ==
  LET w == work[n]
  IN w.kind = "restore" =>
       /\ w.pc \notin {"take", "verify", "fail"} => Complete(w.target)
       /\ w.pc = "manifest" => s3[w.id].data
       /\ w.pc \in {"list", "clean", "clean_manifest", "mark"} => Complete(w.id)
       /\ w.pc \in {"clean", "clean_manifest"} => w.todo \cap {w.id, w.target} = {}

(* A restore that goes on is under the exclusive lock, and from the safety *)
(* backup on in silence.                                                   *)
AloneSound(n) ==
  LET w == work[n]
  IN w.kind = "restore" =>
       /\ w.pc \notin {"take", "verify", "upgrade", "fail"} => proc[n].restoring
       /\ w.pc = "dump" \/ (w.id # None /\ w.pc # "fail") => Drained(n)
       /\ w.pc \in {"overwrite", "revoke", "cancel", "record", "unmark"} => marker # None
       /\ w.pc = "cancel" => ~revived

(* While the marker is there, the process that serves is the one in        *)
(* maintenance.                                                            *)
MarkerSound ==
  marker # None =>
    /\ Complete(marker.pre)
    /\ \A n \in Node : Serving(n) =>
         /\ proc[n].restoring
         /\ work[n].pc \in {"overwrite", "revoke", "cancel", "record", "unmark",
                            "finish", "abort", "fail", "idle"}

(* The tables have been overwritten and nothing is revoked or cancelled    *)
(* yet: then the marker is there, and what serves is about to restart.     *)
Dirty ==
  revived \/ \E j \in Job : begun[j] >= 1 /\ jobs[j].status = "queued"

DirtySealed ==
  Dirty =>
    /\ marker # None
    /\ \A n \in Node : Serving(n) =>
         /\ Drained(n)
         /\ \/ work[n].pc \in {"revoke", "cancel", "finish"}
            \/ work[n].pc \in {"fail", "idle"} /\ proc[n].stopped

(* Whoever has counted the open jobs has room for one, until it inserts.   *)
QueueSound ==
  \A n \in Node :
    /\ req[n] = "counted" =>
         queue = <<n, "http">> /\ made < MaxJobs /\ Cardinality(QueuedIn(jobs)) < QueueLimit
    /\ work[n].pc = "insert" =>
         queue = <<n, "tick">> /\ made < MaxJobs /\ Cardinality(QueuedIn(jobs)) < QueueLimit

BegunSound == \A j \in Job : begun[j] <= 1 /\ (begun[j] = 1 => j <= made)

(* There is a backup for every job that may still make one.                *)
Used == {b \in Backup : s3[b].reason # None}
NotBegun == {j \in Job : begun[j] = 0}
PreDump == \E n \in Node : work[n].pc \in {"dump", "verify", "upgrade", "drain"}

RoomSound ==
  /\ Cardinality(Used) + Cardinality(NotBegun) <= MaxJobs - 1
  /\ PreDump => Cardinality(Used) + Cardinality(NotBegun) <= MaxJobs - 2

(* The inductive invariant.                                                *)
IInv ==
  /\ TypeOK /\ Typed /\ TablesSound /\ LeaseSound /\ MarkerSound /\ DirtySealed
  /\ QueueSound /\ BegunSound /\ RoomSound
  /\ \A n \in Node : LifeSound(n) /\ WorkSound(n) /\ SafetySound(n) /\ AloneSound(n)

-----------------------------------------------------------------------------
(* The choices of the oldest job, the next backup and the newest one are   *)
(* choices out of sets that have such an element.                          *)
LEMMA Least ==
  ASSUME NEW S \in SUBSET Nat, S # {}
  PROVE  \E x \in S : \A y \in S : x <= y
  <1> DEFINE R == OpToRel(<, Nat)
  <1>1. \A x, y \in Nat : y < x => <<y, x>> \in R
    BY DEF OpToRel
  <1>2. IsWellFoundedOn(R, Nat)
    BY NatLessThanWellFounded
  <1> HIDE DEF R
  <1>3. PICK x \in S : \A y \in S : <<y, x>> \notin R
    BY <1>2, WFMin
  <1>4. ASSUME NEW y \in S PROVE x <= y
    <2>1. ~(y < x)
      BY <1>1, <1>3, Zenon
    <2> QED BY <2>1
  <1> QED BY <1>4

LEMMA Oldest ==
  ASSUME NEW S \in SUBSET Nat, S # {}
  PROVE  (CHOOSE j \in S : \A k \in S : j <= k) \in S
  BY Least

LEMMA NewestExists ==
  ASSUME NEW S \in SUBSET Backup, S # {}
  PROVE  Newest(S) \in S
  <1> DEFINE D == {MaxBackups - b : b \in S}
  <1>1. D \in SUBSET Nat /\ D # {}
    BY ConstantsAssumption DEF Backup
  <1>2. PICK d \in D : \A e \in D : d <= e
    <2> HIDE DEF D
    <2> QED BY <1>1, Least
  <1>3. PICK b \in S : d = MaxBackups - b
    BY <1>2
  <1>4. \A c \in S : c <= b
    <2> TAKE c \in S
    <2>1. d <= MaxBackups - c
      BY <1>2
    <2> QED BY <2>1, <1>3, ConstantsAssumption DEF Backup
  <1> QED BY <1>4 DEF Newest

LEMMA FiniteSets ==
  /\ IsFiniteSet(Job) /\ Cardinality(Job) = MaxJobs
  /\ IsFiniteSet(Backup) /\ Cardinality(Backup) = MaxBackups
  <1>1. MaxJobs \in Nat /\ MaxJobs >= 4 /\ MaxBackups \in Nat /\ MaxBackups >= 3
    BY ConstantsAssumption
  <1>2. IsFiniteSet(Job) /\ Cardinality(Job) = MaxJobs - 1 + 1
    BY <1>1, FS_Interval DEF Job
  <1>3. IsFiniteSet(Backup) /\ Cardinality(Backup) = MaxBackups - 1 + 1
    BY <1>1, FS_Interval DEF Backup
  <1> QED BY <1>1, <1>2, <1>3

LEMMA QueuedFinite ==
  ASSUME NEW table
  PROVE  IsFiniteSet(QueuedIn(table)) /\ Cardinality(QueuedIn(table)) \in Nat
  BY FiniteSets, FS_Subset, FS_CardinalityType DEF QueuedIn

(* Fewer jobs wait where no other job does.                                *)
LEMMA FewerQueued ==
  ASSUME NEW t, NEW u, QueuedIn(u) \subseteq QueuedIn(t)
  PROVE  Cardinality(QueuedIn(u)) <= Cardinality(QueuedIn(t))
  BY QueuedFinite, FS_Subset

(* A job that fails, ends or is forgotten leaves the table sound.          *)
LEMMA SoundStays ==
  ASSUME NEW t \in Table, NEW u \in Table, RowsSound(t),
         \A j \in Job : \/ u[j] = t[j]
                        \/ /\ u[j].status \in {"failed", "succeeded"}
                           /\ u[j].kind \in Kind
                           /\ u[j].kind \in {"delete_backup", "restore"} => u[j].target \in Backup
  PROVE  /\ RowsSound(u)
         /\ QueuedIn(u) \subseteq QueuedIn(t)
         /\ Cardinality(QueuedIn(u)) <= Cardinality(QueuedIn(t))
  <1>1. QueuedIn(u) \subseteq QueuedIn(t)
    BY DEF QueuedIn
  <1>2. Cardinality(QueuedIn(u)) <= Cardinality(QueuedIn(t))
    BY <1>1, FewerQueued
  <1>3. Cardinality(QueuedIn(u)) <= QueueLimit
    BY <1>2, QueuedFinite, ConstantsAssumption DEF RowsSound
  <1> QED BY <1>1, <1>2, <1>3 DEF RowsSound

LEMMA InitIInv == Init => IInv
  <1> SUFFICES ASSUME Init PROVE IInv
    OBVIOUS
  <1>0. /\ made = 4 /\ 1 \in Backup /\ {1, 2, 3, 4} \subseteq Job
        /\ MaxJobs \in Nat /\ MaxJobs >= 4 /\ MaxBackups \in Nat /\ MaxFaults \in Nat
        /\ QueueLimit \in Nat /\ QueueLimit >= 2
    BY ConstantsAssumption DEF Init, Job, Backup
  <1>a. None \notin Job /\ None \notin Node /\ None \notin Backup
    BY ConstantsAssumption
  <1>1. PICK job \in {Queued("backup", None), Queued("inspection", None)} :
          jobs = [Earlier("succeeded", "succeeded") EXCEPT ![3] = job, ![4] = Queued("restore", 1)]
    BY DEF Init
  <1>2. /\ NoJob \in JobRow /\ job \in JobRow /\ Queued("restore", 1) \in JobRow
        /\ \A f, g \in Status : Earlier(f, g) \in Table
    BY <1>0 DEF NoJob, JobRow, Queued, Status, Kind, Table, Earlier
  <1>3. jobs \in Table
    BY <1>1, <1>2 DEF Table, Status
  <1>3a. /\ \A j \in Job : jobs[j].status = "queued" => j \in {3, 4}
         /\ \A j \in Job : jobs[j].status # "running"
         /\ \A j \in Job : jobs[j].status # "none" =>
              /\ jobs[j].kind \in {"backup", "inspection", "restore"}
              /\ jobs[j].kind = "restore" => jobs[j].target = 1
    <2> SUFFICES ASSUME NEW j \in Job
                 PROVE  /\ jobs[j].status = "queued" => j \in {3, 4}
                        /\ jobs[j].status # "running"
                        /\ jobs[j].status # "none" =>
                             /\ jobs[j].kind \in {"backup", "inspection", "restore"}
                             /\ jobs[j].kind = "restore" => jobs[j].target = 1
      OBVIOUS
    <2> DEFINE e == Earlier("succeeded", "succeeded")
    <2>1. jobs = [[e EXCEPT ![3] = job] EXCEPT ![4] = Queued("restore", 1)]
      BY <1>1
    <2>2. e \in [Job -> JobRow]
      BY <1>2 DEF Status, Table
    <2>3. e[j] = IF j = 1 THEN [kind |-> "inspection", target |-> None, status |-> "succeeded"]
                 ELSE IF j = 2 THEN [kind |-> "backup", target |-> None, status |-> "succeeded"]
                 ELSE NoJob
      BY DEF Earlier
    <2> HIDE DEF e
    <2>4. jobs[j] = IF j = 4 THEN Queued("restore", 1) ELSE IF j = 3 THEN job ELSE e[j]
      BY <2>1, <2>2
    <2> QED BY <2>3, <2>4 DEF Queued, NoJob
  <1>4. /\ \A j \in Job : begun[j] = IF j <= 2 THEN 1 ELSE 0
        /\ \A n \in Node : req[n] = "none" /\ work[n] = Idle /\ proc[n] = Down
        /\ marker = None /\ revived = FALSE /\ lease = [shared |-> {}, excl |-> None]
        /\ worker = None /\ queue = None /\ faults = 0
    BY DEF Init
  <1>5. TypeOK
    <2>1. \A b \in Backup : s3[b].reason = None => ~s3[b].data /\ ~s3[b].manifest
      BY ConstantsAssumption DEF Init, NoBackup
    <2>2. jobs \in [Job -> JobRow]
      BY <1>3 DEF Table
    <2>3. req \in [Node -> {"none", "in", "counted"}] /\ begun \in [Job -> Nat]
      BY DEF Init
    <2>4. lease.shared = {n \in Node : proc[n].phase # "down"} /\ lease.excl \in {None} \cup lease.shared
      BY <1>4 DEF Down
    <2>5. \A n \in Node : work[n].pc = "idle" /\ proc[n].phase = "down"
      BY <1>4 DEF Idle, Down
    <2>6. made \in 0..MaxJobs /\ faults \in 0..MaxFaults
      BY <1>0, <1>4
    <2> QED BY <1>4, <2>1, <2>2, <2>3, <2>4, <2>5, <2>6 DEF TypeOK
  <1>6. Typed
    <2>1. marker \in Marker \cup {None} /\ lease \in [shared : SUBSET Node, excl : Node \cup {None}]
      BY <1>4
    <2>2. Down \in ProcRec /\ Idle \in WorkRec
      BY DEF Down, Idle, ProcRec, WorkRec, Pc
    <2>3. proc \in [Node -> ProcRec] /\ work \in [Node -> WorkRec]
      BY <2>2 DEF Init
    <2>4. \A b \in Backup : s3[b] = IF b = 1
                                    THEN [data |-> TRUE, manifest |-> TRUE, reason |-> "manual",
                                          jobs |-> Earlier("queued", "running")]
                                    ELSE NoBackup
      BY DEF Init
    <2>a. NoBackup \in BackupRec
      BY DEF NoBackup, BackupRec
    <2>b. \A t \in Table : [data |-> TRUE, manifest |-> TRUE, reason |-> "manual", jobs |-> t]
                           \in BackupRec
      BY DEF BackupRec
    <2>5. s3 \in [Backup -> BackupRec]
      BY <1>2, <2>a, <2>b DEF Init, Status
    <2>6. \A b \in Backup : s3[b].reason # None => s3[b].jobs \in Table
      BY <1>2, <2>4 DEF NoBackup, Status
    <2> QED BY <2>1, <2>2, <2>3, <2>5, <2>6 DEF Typed, Init
  <1>7. TablesSound
    <2>1. ASSUME NEW f \in {"succeeded", "queued"}, NEW g \in {"succeeded", "running"}
          PROVE  /\ \A j \in Job : Earlier(f, g)[j].status # "none" =>
                       Earlier(f, g)[j].kind \in {"backup", "inspection"}
                 /\ \A j \in Job : Earlier(f, g)[j].status = "queued" => j = 1
                 /\ \A j \in Job : Earlier(f, g)[j].status = "running" => j = 2
      BY DEF Earlier, NoJob
    <2>2. RowsSound(Earlier("queued", "running"))
      <3>1. QueuedIn(Earlier("queued", "running")) \subseteq {1}
        BY <2>1 DEF QueuedIn
      <3>2. Cardinality(QueuedIn(Earlier("queued", "running"))) <= 1
        <4>1. IsFiniteSet({1}) /\ Cardinality({1}) = 1
          BY FS_Singleton
        <4> QED BY <3>1, <4>1, FS_Subset
      <3> QED BY <1>0, <2>1, <3>1, <3>2, QueuedFinite DEF RowsSound, Kind
    <2>3. RowsSound(jobs)
      <3>2. QueuedIn(jobs) \subseteq {3} \cup {4}
        BY <1>3a DEF QueuedIn
      <3>3. IsFiniteSet({3} \cup {4}) /\ Cardinality({3} \cup {4}) <= 2
        <4>1. IsFiniteSet({3}) /\ Cardinality({3}) = 1
          BY FS_Singleton
        <4> QED BY <4>1, FS_AddElement
      <3>4. Cardinality(QueuedIn(jobs)) <= 2
        BY <3>2, <3>3, FS_Subset, QueuedFinite, FS_CardinalityType
      <3> QED BY <1>0, <1>3a, <3>2, <3>4, QueuedFinite DEF RowsSound, Kind
    <2> QED BY <2>2, <2>3 DEF TablesSound, Init, NoBackup
  <1>8. LeaseSound /\ MarkerSound /\ QueueSound
    BY <1>4 DEF LeaseSound, MarkerSound, QueueSound, Down, Idle
  <1>9. DirtySealed
    <2>1. \A j \in Job : begun[j] >= 1 => jobs[j].status # "queued"
      BY <1>0, <1>3a, <1>4
    <2> QED BY <1>4, <2>1 DEF DirtySealed, Dirty
  <1>10. BegunSound
    BY <1>0, <1>4 DEF BegunSound, Job
  <1>11. RoomSound
    <2>1. Used = {1}
      BY <1>0, ConstantsAssumption DEF Used, Init, NoBackup
    <2>2. NotBegun = 3..MaxJobs
      BY <1>0, <1>4 DEF NotBegun, Job
    <2>a. Cardinality(Used) = 1
      BY <2>1, FS_Singleton
    <2>3. Cardinality(NotBegun) = MaxJobs - 3 + 1
      BY <1>0, <2>2, FS_Interval
    <2>4. ~PreDump
      BY <1>4 DEF PreDump, Idle
    <2> QED BY <1>0, <2>a, <2>3, <2>4 DEF RoomSound
  <1>12. \A n \in Node : LifeSound(n) /\ WorkSound(n) /\ SafetySound(n) /\ AloneSound(n)
    <2> TAKE n \in Node
    <2>1. None \notin {"restore", "delete_backup"}
      BY ConstantsAssumption DEF Kind
    <2>2. LifeSound(n)
      BY <1>4 DEF LifeSound, Serving, Quiet, Down
    <2>3. WorkSound(n) /\ SafetySound(n) /\ AloneSound(n)
      BY <1>4, <2>1 DEF WorkSound, SafetySound, AloneSound, BackupPc, RestorePc, Idle
    <2> QED BY <2>2, <2>3
  <1> QED BY <1>5, <1>6, <1>7, <1>8, <1>9, <1>10, <1>11, <1>12 DEF IInv

(* The exclusive lock goes with the maintenance of its holder.             *)
LEMMA NextLease == IInv /\ [Next]_vars => LeaseSound'
  <1> SUFFICES ASSUME IInv, [Next]_vars PROVE LeaseSound'
    OBVIOUS
  <1>0. TypeOK /\ Typed /\ LeaseSound
    BY DEF IInv
  <1>1. ASSUME NEW n \in Node, Tick(n) \/ Plan(n) \/ InsertScheduled(n) \/ Pick(n) \/
                          Take(n) \/ JobDone(n) \/ JobFailed(n) \/ Dump(n) \/
                          UploadData(n) \/ UploadManifest(n) \/ List(n) \/
                          CleanData(n)
        PROVE  LeaseSound'
    BY <1>1, <1>0
       DEF LeaseSound, Tick, Plan, InsertScheduled, Pick, Take, JobDone,
           JobFailed, Dump, UploadData, UploadManifest, List, CleanData
  <1>2. ASSUME NEW n \in Node, CleanManifest(n) \/ BackupDone(n) \/ RemoveData(n) \/
                          RemoveManifest(n) \/ Verify(n) \/ Drain(n) \/ Mark(n) \/
                          Overwrite(n) \/ Revoke(n) \/ CancelJobs(n) \/ Record(n) \/
                          Unmark(n)
        PROVE  LeaseSound'
    BY <1>2, <1>0
       DEF LeaseSound, CleanManifest, BackupDone, RemoveData, RemoveManifest,
           Verify, Drain, Mark, Overwrite, Revoke, CancelJobs, Record, Unmark
  <1>3. ASSUME NEW n \in Node, Respond(n) \/ InsertForRequest(n) \/ Admit(n) \/
                          CountForRequest(n) \/ StepFails(n)
        PROVE  LeaseSound'
    BY <1>3, <1>0
       DEF LeaseSound, Respond, InsertForRequest, Admit, CountForRequest,
           StepFails
  <1>4. ASSUME NEW n \in Node, Finish(n) \/ ReconcileDone(n) \/ Sigterm(n) \/ Stop(n) \/
                          PassStart(n) \/ PassEnd(n)
        PROVE  LeaseSound'
    BY <1>4, <1>0
       DEF Listening, Finish, ReconcileDone, Sigterm, Stop, PassStart,
           PassEnd, LeaseSound, TypeOK, Typed, ProcRec
  <1>5. ASSUME NEW n \in Node, Boot(n)
        PROVE  LeaseSound'
    BY <1>5, <1>0 DEF Listening, Boot, LeaseSound, TypeOK, Typed, ProcRec
  <1>6. ASSUME NEW n \in Node, ReadMarker(n)
        PROVE  LeaseSound'
    BY <1>6, <1>0
       DEF Listening, ReadMarker, LeaseSound, TypeOK, Typed, ProcRec
  <1>7. ASSUME NEW n \in Node, Recover(n)
        PROVE  LeaseSound'
    BY <1>7, <1>0 DEF Listening, Recover, LeaseSound, TypeOK, Typed, ProcRec
  <1>8. ASSUME NEW n \in Node, Upgrade(n)
        PROVE  LeaseSound'
    <2>1. CASE Alone(n)
      <3>1. lease' = [lease EXCEPT !.excl = n] /\ lease.shared = {n} /\ lease.excl \in {None, n}
        BY <1>8, <2>1, <1>0 DEF Upgrade, Alone, TypeOK
      <3>2. lease'.excl = n /\ lease'.shared = {n}
        BY <3>1, <1>0 DEF Typed
      <3>3. ASSUME NEW k \in Node, proc'[k].restoring PROVE k = n /\ proc'[k].paused
        <4>1. CASE k = n
          BY <1>8, <2>1, <4>1, <1>0 DEF Upgrade, Typed, ProcRec
        <4>2. CASE k # n
          <5>1. proc[k].restoring
            BY <1>8, <2>1, <3>3, <4>2, <1>0 DEF Upgrade, Typed
          <5> QED BY <5>1, <3>1, <4>2, <1>0, ConstantsAssumption
                     DEF LeaseSound
        <4> QED BY <4>1, <4>2
      <3> QED BY <3>2, <3>3 DEF LeaseSound
    <2>2. CASE ~Alone(n)
      BY <1>8, <2>2, <1>0 DEF Upgrade, LeaseSound
    <2> QED BY <2>1, <2>2
  <1>9. ASSUME NEW n \in Node, Abort(n)
        PROVE  LeaseSound'
    <2>1. proc[n].restoring
      BY <1>9, <1>0 DEF Abort, IInv, WorkSound, AloneSound, RestorePc
    <2>2. lease.excl = n
      BY <2>1, <1>0 DEF LeaseSound
    <2>3. lease'.excl = None
      BY <1>9, <1>0 DEF Abort, Typed
    <2>4. \A k \in Node : ~proc'[k].restoring
      BY <1>9, <2>2, <1>0 DEF Abort, LeaseSound, Typed, ProcRec
    <2> QED BY <2>3, <2>4 DEF LeaseSound
  <1>10. ASSUME NEW n \in Node, Exit(n) \/ Crash(n)
        PROVE  LeaseSound'
    <2>1. n \in lease.shared /\ Gone(n)
      BY <1>10, <1>0 DEF Exit, Crash, TypeOK
    <2>2. lease.excl \in {None, n}
      BY <2>1, <1>0 DEF LeaseSound
    <2>3. lease'.excl = None
      BY <2>1, <2>2 DEF Gone
    <2>4. \A k \in Node : ~proc'[k].restoring
      BY <2>1, <2>2, <1>0, ConstantsAssumption
         DEF Gone, Down, LeaseSound, Typed
    <2> QED BY <2>3, <2>4 DEF LeaseSound
  <1>11. CASE UNCHANGED vars
    BY <1>11, <1>0 DEF vars, LeaseSound
  <1> QED
    BY <1>1, <1>2, <1>3, <1>4, <1>5, <1>6, <1>7, <1>8, <1>9, <1>10, <1>11
       DEF Next, Work, Life, Serve

-----------------------------------------------------------------------------
(* The types, by the variables that change together.                       *)
WorkTyped ==
  /\ work \in [Node -> WorkRec]
  /\ worker \in Node \cup {None} /\ \A n \in Node : work[n].pc # "idle" => worker = n

LifeTyped ==
  /\ proc \in [Node -> ProcRec]
  /\ lease \in [shared : SUBSET Node, excl : Node \cup {None}]
  /\ lease.shared = {n \in Node : proc[n].phase # "down"}
  /\ lease.excl \in {None} \cup lease.shared
  /\ req \in [Node -> {"none", "in", "counted"}]

StoreTyped ==
  /\ s3 \in [Backup -> BackupRec]
  /\ \A b \in Backup : /\ s3[b].reason = None => ~s3[b].data /\ ~s3[b].manifest
                       /\ s3[b].reason # None => s3[b].jobs \in Table

TableTyped ==
  /\ jobs \in Table /\ marker \in Marker \cup {None} /\ revived \in BOOLEAN
  /\ queue \in (Node \X {"http", "tick"}) \cup {None}
  /\ made \in 0..MaxJobs /\ faults \in 0..MaxFaults
  /\ begun \in [Job -> Nat]

LEMMA TypedParts == TypeOK /\ Typed <=> WorkTyped /\ LifeTyped /\ StoreTyped /\ TableTyped
  <1>1. TypeOK /\ Typed => WorkTyped /\ LifeTyped
    BY DEF TypeOK, Typed, WorkTyped, LifeTyped
  <1>2. TypeOK /\ Typed => StoreTyped /\ TableTyped
    BY DEF TypeOK, Typed, StoreTyped, TableTyped, Table, Marker
  <1>3. WorkTyped /\ LifeTyped /\ StoreTyped /\ TableTyped => Typed
    BY DEF Typed, WorkTyped, LifeTyped, StoreTyped, TableTyped
  <1>4. WorkTyped /\ LifeTyped /\ StoreTyped /\ TableTyped => TypeOK
    <2> SUFFICES ASSUME WorkTyped, LifeTyped, StoreTyped, TableTyped PROVE TypeOK
      OBVIOUS
    <2>1. \A n \in Node : proc[n].phase \in {"down", "boot", "recover", "up", "closing"}
      BY DEF LifeTyped, ProcRec
    <2> QED BY <2>1
               DEF TypeOK, WorkTyped, LifeTyped, StoreTyped, TableTyped,
                   Table, Marker
  <1> QED BY <1>1, <1>2, <1>3, <1>4

(* The worker goes on to another step, or its tick ends.                   *)
LEMMA StepTyped ==
  ASSUME WorkTyped, NEW n \in Node, work[n].pc # "idle", worker' = worker,
         work' \in [Node -> WorkRec], \A k \in Node : k # n => work'[k] = work[k]
  PROVE  WorkTyped'
  BY DEF WorkTyped

LEMMA MoveTyped ==
  ASSUME WorkTyped, NEW n \in Node, work[n].pc # "idle", worker' = worker,
         NEW p \in Pc, To(n, p)
  PROVE  WorkTyped'
  BY DEF WorkTyped, WorkRec, To

LEMMA EndTyped ==
  ASSUME WorkTyped, NEW n \in Node, work[n].pc # "idle", EndTick(n)
  PROVE  WorkTyped'
  <1>1. Idle \in WorkRec
    BY DEF Idle, WorkRec, Pc
  <1> QED BY <1>1, ConstantsAssumption DEF WorkTyped, EndTick, Idle

(* There is a backup to make when a job makes one.                         *)
LEMMA NextUnused ==
  ASSUME IInv, NEW n \in Node, work[n].pc = "dump"
  PROVE  LET b == CHOOSE b \in Unused : \A c \in Unused : b <= c
         IN b \in Backup /\ s3[b].reason = None
  <1>1. PreDump
    BY DEF PreDump
  <1>2. Cardinality(Used) + Cardinality(NotBegun) <= MaxJobs - 2
    BY <1>1 DEF IInv, RoomSound
  <1>3. IsFiniteSet(NotBegun) /\ Cardinality(NotBegun) \in Nat
    BY FiniteSets, FS_Subset, FS_CardinalityType DEF NotBegun
  <1>4. IsFiniteSet(Used) /\ Cardinality(Used) \in Nat
    BY FiniteSets, FS_Subset, FS_CardinalityType DEF Used
  <1>5. Cardinality(Used) # Cardinality(Backup)
    BY <1>2, <1>3, <1>4, FiniteSets, ConstantsAssumption
  <1>6. Unused # {}
    BY <1>5 DEF Used, Unused
  <1>7. Unused \in SUBSET Nat
    BY ConstantsAssumption DEF Unused, Backup
  <1>8. (CHOOSE b \in Unused : \A c \in Unused : b <= c) \in Unused
    BY <1>6, <1>7, Oldest
  <1> QED BY <1>8 DEF Unused

LEMMA NextWorkTyped == IInv /\ [Next]_vars => WorkTyped'
  <1> SUFFICES ASSUME IInv, [Next]_vars PROVE WorkTyped'
    OBVIOUS
  <1>0. WorkTyped /\ TableTyped /\ \A n \in Node : WorkSound(n)
    BY TypedParts DEF IInv
  <1>1. ASSUME NEW n \in Node, InsertScheduled(n) \/ UploadData(n) \/ UploadManifest(n) \/
                          CleanData(n) \/ BackupDone(n) \/ RemoveData(n) \/
                          RemoveManifest(n) \/ Verify(n)
        PROVE  WorkTyped'
    BY <1>1, <1>0, MoveTyped
       DEF Pc, InsertScheduled, UploadData, UploadManifest, CleanData,
           BackupDone, RemoveData, RemoveManifest, Verify
  <1>2. ASSUME NEW n \in Node, Upgrade(n) \/ Drain(n) \/ Mark(n) \/ Overwrite(n) \/
                          Revoke(n) \/ CancelJobs(n) \/ Record(n) \/ Unmark(n) \/
                          Abort(n)
        PROVE  WorkTyped'
    BY <1>2, <1>0, MoveTyped
       DEF Pc, Upgrade, Drain, Mark, Overwrite, Revoke, CancelJobs, Record,
           Unmark, Abort
  <1>3. ASSUME NEW n \in Node, Take(n)
        PROVE  WorkTyped'
    <2>1. work[n].kind \in Kind
      BY <1>3, <1>0 DEF Take, WorkSound
    <2>2. FirstStep[work[n].kind] \in Pc
      BY <2>1 DEF FirstStep, Kind, Pc
    <2> QED BY <1>3, <2>2, <1>0, MoveTyped DEF Take
  <1>4. ASSUME NEW n \in Node, JobDone(n) \/ JobFailed(n)
        PROVE  WorkTyped'
    BY <1>4, <1>0, EndTyped DEF JobDone, JobFailed
  <1>5. ASSUME NEW n \in Node, Tick(n)
        PROVE  WorkTyped'
    <2>1. \A k \in Node : work[k].pc = "idle"
      BY <1>5, <1>0, ConstantsAssumption DEF Tick, WorkTyped
    <2> QED BY <1>5, <2>1, <1>0 DEF Tick, WorkTyped, WorkRec, Pc
  <1>6. ASSUME NEW n \in Node, Plan(n)
        PROVE  WorkTyped'
    BY <1>6, <1>0, MoveTyped DEF Plan, Count, Pc
  <1>7. ASSUME NEW n \in Node, Pick(n)
        PROVE  WorkTyped'
    <2> DEFINE queued == {j \in Job : jobs[j].status = "queued"}
               j == CHOOSE i \in queued : \A k \in queued : i <= k
    <2>1. CASE queued = {}
      BY <1>7, <2>1, <1>0, EndTyped DEF Pick
    <2>2. CASE queued # {}
      <3>1. queued \in SUBSET Nat
        BY ConstantsAssumption DEF Job
      <3>2. j \in queued
        <4> HIDE DEF queued
        <4> QED BY <2>2, <3>1, Oldest
      <3>3. j \in Job /\ jobs[j] \in JobRow
        BY <3>2, <1>0 DEF TableTyped, Table
      <3>4. work' = [work EXCEPT ![n].pc = "take", ![n].job = j,
                              ![n].kind = jobs[j].kind, ![n].target = jobs[j].target]
            /\ worker' = worker
        BY <1>7, <2>2 DEF Pick
      <3> HIDE DEF j
      <3> QED BY <1>7, <3>3, <3>4, <1>0
                 DEF Pick, WorkTyped, WorkRec, Pc, JobRow
    <2> QED BY <2>1, <2>2
  <1>8. ASSUME NEW n \in Node, Dump(n)
        PROVE  WorkTyped'
    <2>1. PICK b \in Backup : work' = [work EXCEPT ![n].pc = "data", ![n].id = b]
      BY <1>8, NextUnused DEF Dump
    <2>2. work[n].pc = "dump" /\ worker' = worker
      BY <1>8 DEF Dump
    <2>3. "data" \in Pc /\ "clean" \in Pc
      BY DEF Pc
    <2>4. work \in [Node -> WorkRec]
      BY <1>0 DEF WorkTyped
    <2>5. work' \in [Node -> WorkRec]
      BY <2>1, <2>2, <2>3, <2>4 DEF WorkRec
    <2>6. \A k \in Node : k # n => work'[k] = work[k]
      BY <2>1, <2>2, <2>4
    <2> QED BY <2>2, <2>5, <2>6, <1>0, StepTyped
  <1>9. ASSUME NEW n \in Node, List(n)
        PROVE  WorkTyped'
    <2>1. Expired(n) \in SUBSET Backup
      BY DEF Expired
    <2>2. /\ work' = [work EXCEPT ![n].pc = "clean", ![n].todo = Expired(n)]
          /\ worker' = worker /\ work[n].pc = "list"
      BY <1>9 DEF List
    <2>3. "data" \in Pc /\ "clean" \in Pc
      BY DEF Pc
    <2>4. work \in [Node -> WorkRec]
      BY <1>0 DEF WorkTyped
    <2>5. work' \in [Node -> WorkRec]
      BY <2>1, <2>2, <2>3, <2>4 DEF WorkRec
    <2>6. \A k \in Node : k # n => work'[k] = work[k]
      BY <2>1, <2>2, <2>4
    <2> QED BY <2>2, <2>5, <2>6, <1>0, StepTyped
  <1>10. ASSUME NEW n \in Node, CleanManifest(n)
        PROVE  WorkTyped'
    <2>1. PICK b : work' = [work EXCEPT ![n].pc = "clean", ![n].todo = @ \ {b}]
      BY <1>10 DEF CleanManifest
    <2>2. worker' = worker /\ work[n].pc = "clean_manifest"
      BY <1>10 DEF CleanManifest
    <2>3. "data" \in Pc /\ "clean" \in Pc
      BY DEF Pc
    <2>4. work \in [Node -> WorkRec]
      BY <1>0 DEF WorkTyped
    <2>5. work' \in [Node -> WorkRec]
      BY <2>1, <2>2, <2>3, <2>4 DEF WorkRec
    <2>6. \A k \in Node : k # n => work'[k] = work[k]
      BY <2>1, <2>2, <2>4
    <2> QED BY <2>2, <2>5, <2>6, <1>0, StepTyped
  <1>11. ASSUME NEW n \in Node, Finish(n)
        PROVE  WorkTyped'
    <2>1. CASE work[n].ok
      BY <1>11, <2>1, <1>0, EndTyped DEF Finish
    <2>2. CASE ~work[n].ok
      BY <1>11, <2>2, <1>0, MoveTyped DEF Finish, Pc
    <2> QED BY <2>1, <2>2
  <1>12. ASSUME NEW n \in Node, StepFails(n)
        PROVE  WorkTyped'
    <2> DEFINE next == After(work[n].pc, work[n].kind)
    <2>1. next \in Pc
      BY DEF After, Pc
    <2>2. CASE next = "idle"
      BY <1>12, <2>2, <1>0, EndTyped DEF StepFails
    <2>3. CASE next # "idle"
      <3> HIDE DEF next
      <3>1. work' = [work EXCEPT ![n].pc = next, ![n].todo = {}, ![n].ok = next # "finish"]
            /\ worker' = worker /\ work[n].pc # "idle"
        BY <1>12, <2>3 DEF StepFails, next
      <3>2. PICK ok \in BOOLEAN : ok = (next # "finish")
        OBVIOUS
      <3>3. work' = [work EXCEPT ![n].pc = next, ![n].todo = {}, ![n].ok = ok]
        BY <3>1, <3>2
      <3>4. work \in [Node -> WorkRec]
        BY <1>0 DEF WorkTyped
      <3>5. work' \in [Node -> WorkRec]
        <4> DEFINE w == [[[work[n] EXCEPT !.pc = next] EXCEPT !.todo = {}] EXCEPT !.ok = ok]
        <4>1. work[n] \in WorkRec
          BY <3>4
        <4>2. w \in WorkRec
          BY <2>1, <4>1 DEF WorkRec
        <4>3. work' = [work EXCEPT ![n] = w]
          BY <3>3, <3>4
        <4> HIDE DEF w
        <4> QED BY <3>4, <4>2, <4>3
      <3>6. \A k \in Node : k # n => work'[k] = work[k]
        BY <3>3, <3>4
      <3> QED BY <3>1, <3>5, <3>6, <1>0, StepTyped
    <2> QED BY <2>2, <2>3
  <1>13. ASSUME NEW n \in Node, Crash(n)
        PROVE  WorkTyped'
    <2>1. Idle \in WorkRec /\ Idle.pc = "idle"
      BY DEF Idle, WorkRec, Pc
    <2>2. work' = [work EXCEPT ![n] = Idle] /\ worker' = IF worker = n THEN None ELSE worker
      BY <1>13 DEF Crash
    <2> QED BY <2>1, <2>2, <1>0 DEF WorkTyped
  <1>14. ASSUME NEW n \in Node, ReadMarker(n) \/ Recover(n) \/ ReconcileDone(n) \/ Boot(n) \/
                          Stop(n) \/ Exit(n) \/ Respond(n) \/ InsertForRequest(n) \/
                          Admit(n) \/ CountForRequest(n) \/ PassStart(n) \/
                          PassEnd(n) \/ Sigterm(n)
        PROVE  WorkTyped'
    BY <1>14, <1>0
       DEF WorkTyped, ReadMarker, Recover, ReconcileDone, Boot, Stop, Exit,
           Respond, InsertForRequest, Admit, CountForRequest, PassStart,
           PassEnd, Sigterm
  <1>15. CASE UNCHANGED vars
    BY <1>15, <1>0 DEF vars, WorkTyped
  <1> QED
    BY <1>1, <1>2, <1>3, <1>4, <1>5, <1>6, <1>7, <1>8, <1>9, <1>10, <1>11,
       <1>12, <1>13, <1>14, <1>15
       DEF Next, Work, Life, Serve

(* A process's record changes, and the process stays.                      *)
LEMMA ProcTyped ==
  ASSUME LifeTyped, NEW n \in Node, NEW p \in ProcRec,
         proc' = [proc EXCEPT ![n] = p], p.phase # "down", proc[n].phase # "down",
         lease' = lease, req' = req
  PROVE  LifeTyped'
  BY DEF LifeTyped

LEMMA NextLifeTyped == IInv /\ [Next]_vars => LifeTyped'
  <1> SUFFICES ASSUME IInv, [Next]_vars PROVE LifeTyped'
    OBVIOUS
  <1>0. LifeTyped /\ marker \in Marker \cup {None}
    BY TypedParts DEF IInv, TableTyped
  <1>a. \A n \in Node : LifeSound(n)
    BY DEF IInv
  <1>1. ASSUME NEW n \in Node, Tick(n) \/ Plan(n) \/ InsertScheduled(n) \/ Pick(n) \/
                          Take(n) \/ JobDone(n) \/ JobFailed(n) \/ Dump(n) \/
                          UploadData(n) \/ UploadManifest(n) \/ List(n) \/
                          CleanData(n)
        PROVE  LifeTyped'
    BY <1>1, <1>0
       DEF LifeTyped, Tick, Plan, InsertScheduled, Pick, Take, JobDone,
           JobFailed, Dump, UploadData, UploadManifest, List, CleanData
  <1>2. ASSUME NEW n \in Node, CleanManifest(n) \/ BackupDone(n) \/ RemoveData(n) \/
                          RemoveManifest(n) \/ Verify(n) \/ Drain(n) \/ Mark(n) \/
                          Overwrite(n) \/ Revoke(n) \/ CancelJobs(n) \/ Record(n) \/
                          Unmark(n) \/ StepFails(n)
        PROVE  LifeTyped'
    BY <1>2, <1>0
       DEF LifeTyped, CleanManifest, BackupDone, RemoveData, RemoveManifest,
           Verify, Drain, Mark, Overwrite, Revoke, CancelJobs, Record, Unmark,
           StepFails
  <1>3. ASSUME NEW n \in Node, Respond(n) \/ InsertForRequest(n) \/ Admit(n) \/
                          CountForRequest(n)
        PROVE  LifeTyped'
    BY <1>3, <1>0
       DEF LifeTyped, Respond, InsertForRequest, Admit, CountForRequest
  <1>4. ASSUME NEW n \in Node, Exit(n) \/ Crash(n)
        PROVE  LifeTyped'
    <2>1. Gone(n) /\ Down \in ProcRec
      BY <1>4 DEF Exit, Crash, Down, ProcRec
    <2>2. proc' = [proc EXCEPT ![n] = Down] /\ proc' \in [Node -> ProcRec]
      BY <2>1, <1>0 DEF Gone, LifeTyped
    <2>3. req' \in [Node -> {"none", "in", "counted"}]
      BY <1>4, <1>0 DEF Exit, Crash, LifeTyped
    <2>4. /\ lease' \in [shared : SUBSET Node, excl : Node \cup {None}]
          /\ lease'.shared = lease.shared \ {n}
          /\ lease'.excl = IF lease.excl = n THEN None ELSE lease.excl
      BY <2>1, <1>0 DEF Gone, LifeTyped
    <2>5. lease'.shared = {k \in Node : proc'[k].phase # "down"}
      BY <2>2, <2>4, <1>0 DEF LifeTyped, Down
    <2> QED BY <2>2, <2>3, <2>4, <2>5, <1>0 DEF LifeTyped
  <1>5. ASSUME NEW n \in Node, Boot(n)
        PROVE  LifeTyped'
    BY <1>5, <1>0 DEF Boot, LifeTyped, ProcRec
  <1>6. ASSUME NEW n \in Node, Upgrade(n)
        PROVE  LifeTyped'
    <2> DEFINE p == [proc[n] EXCEPT !.restoring = TRUE, !.paused = TRUE]
    <2>1. proc[n] \in ProcRec /\ Serving(n)
      BY <1>6, <1>0, <1>a DEF Upgrade, LifeTyped, LifeSound, Quiet, Idle
    <2>2. p \in ProcRec /\ p.phase # "down"
      BY <2>1 DEF ProcRec, Serving
    <2>3. proc' = [proc EXCEPT ![n] = p] \/ proc' = proc
      BY <1>6, <1>0 DEF Upgrade, LifeTyped
    <2>4. /\ lease' = [lease EXCEPT !.excl = n] \/ lease' = [lease EXCEPT !.excl = None] \/ lease' = lease
          /\ req' = req
      BY <1>6 DEF Upgrade
    <2>5. n \in lease.shared
      BY <2>1, <1>0 DEF LifeTyped, Serving
    <2> HIDE DEF p
    <2>6. proc' \in [Node -> ProcRec] /\ \A k \in Node : (proc'[k].phase = "down") = (proc[k].phase = "down")
      BY <2>1, <2>2, <2>3, <1>0 DEF LifeTyped, Serving
    <2> QED BY <2>4, <2>5, <2>6, <1>0 DEF LifeTyped
  <1>7. ASSUME NEW n \in Node, Abort(n)
        PROVE  LifeTyped'
    <2> DEFINE p == [proc[n] EXCEPT !.restoring = FALSE, !.paused = FALSE]
    <2>1. proc[n] \in ProcRec /\ Serving(n)
      BY <1>7, <1>0, <1>a DEF Abort, LifeTyped, LifeSound, Quiet, Idle
    <2>2. p \in ProcRec /\ p.phase # "down"
      BY <2>1 DEF ProcRec, Serving
    <2>3. proc' = [proc EXCEPT ![n] = p] \/ proc' = proc
      BY <1>7, <1>0 DEF Abort, LifeTyped
    <2>4. /\ lease' = [lease EXCEPT !.excl = n] \/ lease' = [lease EXCEPT !.excl = None] \/ lease' = lease
          /\ req' = req
      BY <1>7 DEF Abort
    <2>5. n \in lease.shared
      BY <2>1, <1>0 DEF LifeTyped, Serving
    <2> HIDE DEF p
    <2>6. proc' \in [Node -> ProcRec] /\ \A k \in Node : (proc'[k].phase = "down") = (proc[k].phase = "down")
      BY <2>1, <2>2, <2>3, <1>0 DEF LifeTyped, Serving
    <2> QED BY <2>4, <2>5, <2>6, <1>0 DEF LifeTyped
  <1>8. ASSUME NEW n \in Node, PassStart(n)
        PROVE  LifeTyped'
    <2> DEFINE p == [proc[n] EXCEPT !.pass = TRUE]
    <2>1. proc[n] \in ProcRec /\ proc[n].phase # "down"
      BY <1>8, <1>0 DEF PassStart, LifeTyped
    <2>2. p \in ProcRec /\ p.phase # "down"
      BY <1>8, <2>1, <1>0 DEF PassStart, Listening, ProcRec
    <2>3. proc' = [proc EXCEPT ![n] = p] /\ lease' = lease /\ req' = req
      BY <1>8, <1>0 DEF PassStart, Listening, LifeTyped
    <2> HIDE DEF p
    <2> QED BY <2>1, <2>2, <2>3, <1>0, ProcTyped
  <1>9. ASSUME NEW n \in Node, ReadMarker(n)
        PROVE  LifeTyped'
    <2> DEFINE p == IF marker = None THEN Listening(n)
               ELSE [proc[n] EXCEPT !.phase = "recover", !.seen = marker]
    <2>1. proc[n] \in ProcRec /\ proc[n].phase # "down"
      BY <1>9, <1>0 DEF ReadMarker, LifeTyped
    <2>2. p \in ProcRec /\ p.phase # "down"
      BY <1>9, <2>1, <1>0 DEF ReadMarker, Listening, ProcRec
    <2>3. proc' = [proc EXCEPT ![n] = p] /\ lease' = lease /\ req' = req
      BY <1>9, <1>0 DEF ReadMarker, Listening, LifeTyped
    <2> HIDE DEF p
    <2> QED BY <2>1, <2>2, <2>3, <1>0, ProcTyped
  <1>10. ASSUME NEW n \in Node, Recover(n)
        PROVE  LifeTyped'
    <2> DEFINE p == Listening(n)
    <2>1. proc[n] \in ProcRec /\ proc[n].phase # "down"
      BY <1>10, <1>0 DEF Recover, LifeTyped
    <2>2. p \in ProcRec /\ p.phase # "down"
      BY <1>10, <2>1, <1>0 DEF Recover, Listening, ProcRec
    <2>3. proc' = [proc EXCEPT ![n] = p] /\ lease' = lease /\ req' = req
      BY <1>10, <1>0 DEF Recover, Listening, LifeTyped
    <2> HIDE DEF p
    <2> QED BY <2>1, <2>2, <2>3, <1>0, ProcTyped
  <1>11. ASSUME NEW n \in Node, Sigterm(n)
        PROVE  LifeTyped'
    <2> DEFINE p == [proc[n] EXCEPT !.phase = "closing", !.paused = TRUE]
    <2>1. proc[n] \in ProcRec /\ proc[n].phase # "down"
      BY <1>11, <1>0 DEF Sigterm, LifeTyped
    <2>2. p \in ProcRec /\ p.phase # "down"
      BY <1>11, <2>1, <1>0 DEF Sigterm, Listening, ProcRec
    <2>3. proc' = [proc EXCEPT ![n] = p] /\ lease' = lease /\ req' = req
      BY <1>11, <1>0 DEF Sigterm, Listening, LifeTyped
    <2> HIDE DEF p
    <2> QED BY <2>1, <2>2, <2>3, <1>0, ProcTyped
  <1>12. ASSUME NEW n \in Node, Stop(n)
        PROVE  LifeTyped'
    <2> DEFINE p == [proc[n] EXCEPT !.stopped = TRUE]
    <2>1. proc[n] \in ProcRec /\ proc[n].phase # "down"
      BY <1>12, <1>0 DEF Stop, LifeTyped
    <2>2. p \in ProcRec /\ p.phase # "down"
      BY <1>12, <2>1, <1>0 DEF Stop, Listening, ProcRec
    <2>3. proc' = [proc EXCEPT ![n] = p] /\ lease' = lease /\ req' = req
      BY <1>12, <1>0 DEF Stop, Listening, LifeTyped
    <2> HIDE DEF p
    <2> QED BY <2>1, <2>2, <2>3, <1>0, ProcTyped
  <1>13. ASSUME NEW n \in Node, PassEnd(n)
        PROVE  LifeTyped'
    <2> DEFINE p == [proc[n] EXCEPT !.pass = FALSE]
    <2>1. proc[n] \in ProcRec /\ proc[n].phase # "down"
      BY <1>13, <1>0, <1>a
         DEF PassEnd, LifeTyped, LifeSound, Serving, Quiet, Idle
    <2>2. p \in ProcRec /\ p.phase # "down"
      BY <1>13, <2>1, <1>0 DEF PassEnd, Listening, ProcRec
    <2>3. proc' = [proc EXCEPT ![n] = p] /\ lease' = lease /\ req' = req
      BY <1>13, <1>0 DEF PassEnd, Listening, LifeTyped
    <2> HIDE DEF p
    <2> QED BY <2>1, <2>2, <2>3, <1>0, ProcTyped
  <1>14. ASSUME NEW n \in Node, ReconcileDone(n)
        PROVE  LifeTyped'
    <2> DEFINE p == [proc[n] EXCEPT !.reconciling = FALSE, !.started = ~proc[n].stopped]
    <2>1. proc[n] \in ProcRec /\ proc[n].phase # "down"
      BY <1>14, <1>0, <1>a
         DEF ReconcileDone, LifeTyped, LifeSound, Serving, Quiet, Idle
    <2>2. p \in ProcRec /\ p.phase # "down"
      BY <1>14, <2>1, <1>0 DEF ReconcileDone, Listening, ProcRec
    <2>3. proc' = [proc EXCEPT ![n] = p] /\ lease' = lease /\ req' = req
      BY <1>14, <1>0 DEF ReconcileDone, Listening, LifeTyped
    <2> HIDE DEF p
    <2> QED BY <2>1, <2>2, <2>3, <1>0, ProcTyped
  <1>15. ASSUME NEW n \in Node, Finish(n)
        PROVE  LifeTyped'
    <2> DEFINE p == [proc[n] EXCEPT !.stopped = TRUE, !.phase = "closing"]
    <2>1. proc[n] \in ProcRec /\ proc[n].phase # "down"
      BY <1>15, <1>0, <1>a
         DEF Finish, LifeTyped, LifeSound, Serving, Quiet, Idle
    <2>2. p \in ProcRec /\ p.phase # "down"
      BY <1>15, <2>1, <1>0 DEF Finish, Listening, ProcRec
    <2>3. proc' = [proc EXCEPT ![n] = p] /\ lease' = lease /\ req' = req
      BY <1>15, <1>0 DEF Finish, Listening, LifeTyped
    <2> HIDE DEF p
    <2> QED BY <2>1, <2>2, <2>3, <1>0, ProcTyped
  <1>16. CASE UNCHANGED vars
    BY <1>16, <1>0 DEF vars, LifeTyped
  <1> QED
    BY <1>1, <1>2, <1>3, <1>4, <1>5, <1>6, <1>7, <1>8, <1>9, <1>10, <1>11,
       <1>12, <1>13, <1>14, <1>15, <1>16
       DEF Next, Work, Life, Serve

(* A part of a backup is there, or is there no more.                       *)
LEMMA PartMade ==
  ASSUME StoreTyped, NEW b \in Backup, s3[b].reason # None,
         s3' = [s3 EXCEPT ![b].data = TRUE] \/ s3' = [s3 EXCEPT ![b].manifest = TRUE]
  PROVE  StoreTyped'
  BY DEF StoreTyped, BackupRec

LEMMA PartGone ==
  ASSUME StoreTyped, NEW b \in Backup,
         s3' = [s3 EXCEPT ![b].data = FALSE] \/ s3' = [s3 EXCEPT ![b].manifest = FALSE]
  PROVE  StoreTyped'
  BY DEF StoreTyped, BackupRec

LEMMA NextStoreTyped == IInv /\ [Next]_vars => StoreTyped'
  <1> SUFFICES ASSUME IInv, [Next]_vars PROVE StoreTyped'
    OBVIOUS
  <1>0. StoreTyped /\ TableTyped /\ WorkTyped /\ \A n \in Node : WorkSound(n)
    BY TypedParts DEF IInv
  <1>1. ASSUME NEW n \in Node, Tick(n) \/ Plan(n) \/ InsertScheduled(n) \/ Pick(n) \/
                          Take(n) \/ JobDone(n) \/ JobFailed(n) \/ List(n) \/
                          BackupDone(n) \/ Verify(n) \/ Upgrade(n) \/ Drain(n)
        PROVE  StoreTyped'
    BY <1>1, <1>0
       DEF StoreTyped, Tick, Plan, InsertScheduled, Pick, Take, JobDone,
           JobFailed, List, BackupDone, Verify, Upgrade, Drain
  <1>2. ASSUME NEW n \in Node, Mark(n) \/ Overwrite(n) \/ Revoke(n) \/ CancelJobs(n) \/
                          Record(n) \/ Unmark(n) \/ Finish(n) \/ Abort(n) \/ Boot(n) \/
                          ReadMarker(n) \/ Recover(n) \/ ReconcileDone(n)
        PROVE  StoreTyped'
    BY <1>2, <1>0
       DEF StoreTyped, Mark, Overwrite, Revoke, CancelJobs, Record, Unmark,
           Finish, Abort, Boot, ReadMarker, Recover, ReconcileDone
  <1>3. ASSUME NEW n \in Node, Stop(n) \/ Exit(n) \/ Respond(n) \/ InsertForRequest(n) \/
                          Admit(n) \/ CountForRequest(n) \/ PassStart(n) \/
                          PassEnd(n) \/ Sigterm(n) \/ Crash(n) \/ StepFails(n)
        PROVE  StoreTyped'
    BY <1>3, <1>0
       DEF StoreTyped, Stop, Exit, Respond, InsertForRequest, Admit,
           CountForRequest, PassStart, PassEnd, Sigterm, Crash, StepFails
  <1>4. ASSUME NEW n \in Node, UploadData(n) \/ UploadManifest(n)
        PROVE  StoreTyped'
    BY <1>4, <1>0, PartMade DEF UploadData, UploadManifest, WorkSound
  <1>5. ASSUME NEW n \in Node, CleanData(n) \/ CleanManifest(n)
        PROVE  StoreTyped'
    <2>1. work[n].todo \in SUBSET Backup /\ work[n].todo # {}
      BY <1>5, <1>0
         DEF CleanData, CleanManifest, WorkSound, WorkTyped, WorkRec
    <2>2. Newest(work[n].todo) \in Backup
      BY <2>1, NewestExists
    <2> QED BY <1>5, <2>2, <1>0, PartGone DEF CleanData, CleanManifest
  <1>6. ASSUME NEW n \in Node, RemoveData(n) \/ RemoveManifest(n)
        PROVE  StoreTyped'
    <2>1. work[n].target \in Backup
      BY <1>6, <1>0 DEF RemoveData, RemoveManifest, WorkSound
    <2>2. \/ s3' = [s3 EXCEPT ![work[n].target].data = FALSE]
          \/ s3' = [s3 EXCEPT ![work[n].target].manifest = FALSE]
          \/ s3' = s3
      BY <1>6 DEF RemoveData, RemoveManifest
    <2>3. CASE s3' = s3
      BY <2>3, <1>0 DEF StoreTyped
    <2> QED BY <2>1, <2>2, <2>3, <1>0, PartGone
  <1>7. ASSUME NEW n \in Node, Dump(n)
        PROVE  StoreTyped'
    <2>1. PICK b \in Backup, r \in {"manual", "pre_restore"} :
            s3' = [s3 EXCEPT ![b].reason = r, ![b].jobs = jobs]
      BY <1>7, NextUnused DEF Dump
    <2>2. jobs \in Table /\ r # None
      BY <1>0, ConstantsAssumption DEF TableTyped
    <2>3. [[s3[b] EXCEPT !.reason = r] EXCEPT !.jobs = jobs] \in BackupRec
      BY <2>2, <1>0 DEF StoreTyped, BackupRec
    <2>4. s3' = [s3 EXCEPT ![b] = [[s3[b] EXCEPT !.reason = r] EXCEPT !.jobs = jobs]]
      BY <2>1, <1>0 DEF StoreTyped
    <2>5. s3' \in [Backup -> BackupRec]
      BY <2>3, <2>4, <1>0 DEF StoreTyped
    <2>6. s3'[b].reason = r /\ s3'[b].jobs = jobs
      BY <2>1, <1>0 DEF StoreTyped, BackupRec
    <2>7. \A c \in Backup : c # b => s3'[c] = s3[c]
      BY <2>4, <1>0 DEF StoreTyped
    <2> QED BY <2>2, <2>5, <2>6, <2>7, <1>0 DEF StoreTyped
  <1>8. CASE UNCHANGED vars
    BY <1>8, <1>0 DEF vars, StoreTyped
  <1> QED
    BY <1>1, <1>2, <1>3, <1>4, <1>5, <1>6, <1>7, <1>8
       DEF Next, Work, Life, Serve

-----------------------------------------------------------------------------
(* What a step does to the table of jobs: some are given up or done, one   *)
(* is queued, the oldest is taken, or all of them come out of a dump.      *)
Given(row) ==
  /\ row \in JobRow /\ row.status \in Settled /\ row.kind \in Kind
  /\ row.kind \in {"delete_backup", "restore"} => row.target \in Backup

RowsEnd ==
  /\ jobs' \in Table
  /\ \A j \in Job : jobs'[j] = jobs[j] \/ Given(jobs'[j])
  /\ made' = made

RowAdded ==
  \E n \in Node, kind \in Kind, target \in Backup \cup {None} :
    /\ InsertForRequest(n) \/ InsertScheduled(n)
    /\ kind \in {"delete_backup", "restore"} => target \in Backup
    /\ made < MaxJobs /\ made' = made + 1
    /\ Cardinality(QueuedIn(jobs)) < QueueLimit
    /\ jobs' = [jobs EXCEPT ![made + 1] = Queued(kind, target)]

RowTaken ==
  \E n \in Node :
    /\ Take(n)
    /\ work[n].job \in Job /\ jobs[work[n].job].status # "none"
    /\ \A k \in Job : jobs[k].status # "running"
    /\ jobs' = [jobs EXCEPT ![work[n].job].status = "running"]
    /\ made' = made

TableBack ==
  \E n \in Node :
    /\ Overwrite(n) \/ Crash(n)
    /\ work[n].pc = "overwrite" /\ work[n].kind = "restore" /\ work[n].target \in Backup
    /\ s3[work[n].target].reason # None
    /\ jobs' = s3[work[n].target].jobs
    /\ made' = made

TableStep == RowsEnd \/ RowAdded \/ RowTaken \/ TableBack

LEMMA FailedGiven ==
  ASSUME TableTyped, RowsSound(jobs), NEW j \in Job, jobs[j].status # "none"
  PROVE  /\ Given([jobs[j] EXCEPT !.status = "failed"])
         /\ Given([jobs[j] EXCEPT !.status = "succeeded"])
  <1>1. jobs[j] \in JobRow
    BY DEF TableTyped, Table
  <1> QED BY <1>1 DEF RowsSound, Given, JobRow, Status, Settled

LEMMA RowEnds ==
  ASSUME TableTyped, NEW j \in Job, NEW row, Given(row), jobs' = [jobs EXCEPT ![j] = row], made' = made
  PROVE  TableStep
  BY DEF TableTyped, Table, Given, TableStep, RowsEnd

LEMMA CancelledGiven ==
  ASSUME TableTyped, RowsSound(jobs)
  PROVE  /\ Cancelled(jobs) \in Table
         /\ \A j \in Job : Cancelled(jobs)[j] = jobs[j] \/ Given(Cancelled(jobs)[j])
  <1>1. \A j \in Job : jobs[j].status \in Open => Given([jobs[j] EXCEPT !.status = "failed"])
    BY FailedGiven DEF Open
  <1> QED BY <1>1 DEF Cancelled, TableTyped, Table, Given

LEMMA OutcomeGiven ==
  ASSUME NEW b \in Backup, NEW status \in Settled
  PROVE  Given(Outcome(b, status))
  BY DEF Given, Outcome, JobRow, Kind, Status, Settled

LEMMA NextTable == IInv /\ [Next]_vars => TableStep
  <1> SUFFICES ASSUME IInv, [Next]_vars PROVE TableStep
    OBVIOUS
  <1>0. /\ TableTyped /\ StoreTyped /\ RowsSound(jobs) /\ QueueSound
        /\ \A n \in Node : LifeSound(n) /\ WorkSound(n) /\ SafetySound(n)
    BY TypedParts DEF IInv, TablesSound
  <1>1. ASSUME NEW n \in Node, Plan(n) \/ Pick(n) \/ Dump(n) \/ UploadData(n) \/
                          UploadManifest(n) \/ List(n) \/ CleanData(n) \/
                          CleanManifest(n) \/ BackupDone(n) \/ RemoveData(n)
        PROVE  TableStep
    BY <1>1, <1>0
       DEF TableStep, RowsEnd, TableTyped, Plan, Pick, Dump, UploadData,
           UploadManifest, List, CleanData, CleanManifest, BackupDone,
           RemoveData
  <1>2. ASSUME NEW n \in Node, RemoveManifest(n) \/ Verify(n) \/ Upgrade(n) \/ Drain(n) \/
                          Mark(n) \/ Revoke(n) \/ Unmark(n) \/ Finish(n) \/ Abort(n) \/
                          Boot(n)
        PROVE  TableStep
    BY <1>2, <1>0
       DEF TableStep, RowsEnd, TableTyped, RemoveManifest, Verify, Upgrade,
           Drain, Mark, Revoke, Unmark, Finish, Abort, Boot
  <1>3. ASSUME NEW n \in Node, ReadMarker(n) \/ ReconcileDone(n) \/ Stop(n) \/ Exit(n) \/
                          Respond(n) \/ Admit(n) \/ CountForRequest(n) \/
                          PassStart(n) \/ PassEnd(n) \/ Sigterm(n) \/ StepFails(n)
        PROVE  TableStep
    BY <1>3, <1>0
       DEF TableStep, RowsEnd, TableTyped, Count, ReadMarker, ReconcileDone,
           Stop, Exit, Respond, Admit, CountForRequest, PassStart, PassEnd,
           Sigterm, StepFails
  <1>4. ASSUME NEW n \in Node, InsertScheduled(n)
        PROVE  TableStep
    <2>1. made < MaxJobs /\ Cardinality(QueuedIn(jobs)) < QueueLimit
      BY <1>4, <1>0 DEF InsertScheduled, QueueSound
    <2>2. "backup" \in Kind
      BY DEF Kind
    <2> QED BY <1>4, <2>1, <2>2
               DEF InsertScheduled, Add, TableStep, RowAdded, Queued
  <1>5. ASSUME NEW n \in Node, InsertForRequest(n)
        PROVE  TableStep
    <2>1. made < MaxJobs /\ Cardinality(QueuedIn(jobs)) < QueueLimit
      BY <1>5, <1>0 DEF InsertForRequest, QueueSound
    <2>2. PICK kind \in Asked, b \in Backup \cup {None} :
            Add(kind, b) /\ (kind \in {"delete_backup", "restore"} => b \in Backup)
      BY <1>5 DEF InsertForRequest
    <2>3. kind \in Kind
      BY ConstantsAssumption
    <2> QED BY <1>5, <2>1, <2>2, <2>3 DEF Add, TableStep, RowAdded, Queued
  <1>6. ASSUME NEW n \in Node, Tick(n)
        PROVE  TableStep
    <2>1. jobs' = [j \in Job |-> IF jobs[j].status = "running"
                                 THEN [jobs[j] EXCEPT !.status = "failed"] ELSE jobs[j]]
          /\ made' = made
      BY <1>6 DEF Tick
    <2>2. \A j \in Job : jobs[j].status = "running" => Given([jobs[j] EXCEPT !.status = "failed"])
      BY <1>0, FailedGiven
    <2>3. \A j \in Job : jobs'[j] = jobs[j] \/ Given(jobs'[j])
      BY <2>1, <2>2
    <2>4. jobs' \in Table
      BY <2>1, <2>2, <1>0 DEF TableTyped, Table, Given
    <2> QED BY <2>1, <2>3, <2>4 DEF TableStep, RowsEnd
  <1>7. ASSUME NEW n \in Node, JobDone(n) \/ JobFailed(n)
        PROVE  TableStep
    <2>1. work[n].job \in Job
      BY <1>7, <1>0 DEF JobDone, JobFailed, WorkSound
    <2>2. CASE JobDone(n)
      <3>1. jobs[work[n].job].status # "none"
        BY <2>2, <1>0 DEF JobDone, WorkSound
      <3>2. Given([jobs[work[n].job] EXCEPT !.status = "succeeded"])
        BY <2>1, <3>1, FailedGiven, <1>0
      <3>3. /\ jobs' = [jobs EXCEPT ![work[n].job] = [jobs[work[n].job] EXCEPT !.status = "succeeded"]]
            /\ made' = made
        BY <2>2, <1>0 DEF JobDone, TableTyped, Table
      <3> QED BY <2>1, <3>2, <3>3, <1>0, RowEnds
    <2>3. CASE JobFailed(n)
      <3>1. CASE jobs[work[n].job].status = "none"
        BY <2>3, <3>1, <1>0 DEF JobFailed, TableStep, RowsEnd, TableTyped
      <3>2. CASE jobs[work[n].job].status # "none"
        <4>1. Given([jobs[work[n].job] EXCEPT !.status = "failed"])
          BY <2>1, <3>2, FailedGiven, <1>0
        <4>2. /\ jobs' = [jobs EXCEPT ![work[n].job] = [jobs[work[n].job] EXCEPT !.status = "failed"]]
              /\ made' = made
          BY <2>3, <3>2, <1>0 DEF JobFailed, TableTyped, Table
        <4> QED BY <2>1, <4>1, <4>2, <1>0, RowEnds
      <3> QED BY <3>1, <3>2
    <2> QED BY <1>7, <2>2, <2>3
  <1>8. ASSUME NEW n \in Node, Take(n)
        PROVE  TableStep
    <2>1. work[n].job \in Job /\ jobs[work[n].job].status # "none" /\ \A k \in Job : jobs[k].status # "running"
      BY <1>8, <1>0 DEF Take, WorkSound
    <2> QED BY <1>8, <2>1 DEF Take, TableStep, RowTaken
  <1>9. ASSUME NEW n \in Node, Overwrite(n) \/ Crash(n)
        PROVE  TableStep
    <2>1. jobs' = jobs \/ (work[n].pc = "overwrite" /\ jobs' = s3[work[n].target].jobs)
      BY <1>9 DEF Overwrite, Crash, Restored
    <2>2. made' = made
      BY <1>9 DEF Overwrite, Crash
    <2>3. CASE jobs' = jobs
      BY <2>2, <2>3, <1>0 DEF TableStep, RowsEnd, TableTyped
    <2>4. CASE work[n].pc = "overwrite" /\ jobs' = s3[work[n].target].jobs
      <3>1. work[n].kind = "restore" /\ work[n].target \in Backup
        BY <2>4, <1>0 DEF WorkSound, RestorePc
      <3>2. s3[work[n].target].reason # None
        BY <2>4, <3>1, <1>0 DEF SafetySound, Complete, StoreTyped
      <3> QED BY <1>9, <2>2, <2>4, <3>1, <3>2 DEF TableStep, TableBack
    <2> QED BY <2>1, <2>3, <2>4
  <1>10. ASSUME NEW n \in Node, CancelJobs(n)
        PROVE  TableStep
    <2>1. jobs' = Cancelled(jobs) /\ made' = made
      BY <1>10 DEF CancelJobs
    <2> QED BY <2>1, CancelledGiven, <1>0 DEF TableStep, RowsEnd
  <1>11. ASSUME NEW n \in Node, Record(n)
        PROVE  TableStep
    <2>1. work[n].job \in Job /\ work[n].target \in Backup
      BY <1>11, <1>0 DEF Record, WorkSound, RestorePc
    <2>2. jobs' = [jobs EXCEPT ![work[n].job] = Outcome(work[n].target, "succeeded")] /\ made' = made
      BY <1>11 DEF Record
    <2>3. Given(Outcome(work[n].target, "succeeded"))
      BY <2>1, OutcomeGiven DEF Settled
    <2> QED BY <2>1, <2>2, <2>3, <1>0
               DEF TableStep, RowsEnd, TableTyped, Table, Given
  <1>12. ASSUME NEW n \in Node, Recover(n)
        PROVE  TableStep
    <2> DEFINE seen == proc[n].seen
    <2>1. seen.job \in Job /\ seen.target \in Backup
      BY <1>12, <1>0 DEF Recover, LifeSound, Marker
    <2>2. jobs' = [Cancelled(jobs) EXCEPT ![seen.job] = Outcome(seen.target, "failed")] /\ made' = made
      BY <1>12 DEF Recover
    <2>3. Given(Outcome(seen.target, "failed"))
      BY <2>1, OutcomeGiven DEF Settled
    <2>4. Cancelled(jobs) \in Table /\ \A j \in Job : Cancelled(jobs)[j] = jobs[j] \/ Given(Cancelled(jobs)[j])
      BY CancelledGiven, <1>0
    <2> HIDE DEF seen
    <2> QED BY <2>1, <2>2, <2>3, <2>4 DEF TableStep, RowsEnd, Table, Given
  <1>13. CASE UNCHANGED vars
    BY <1>13, <1>0 DEF vars, TableStep, RowsEnd, TableTyped
  <1> QED
    BY <1>1, <1>2, <1>3, <1>4, <1>5, <1>6, <1>7, <1>8, <1>9, <1>10, <1>11,
       <1>12, <1>13
       DEF Next, Work, Life, Serve

Rest ==
  /\ marker \in Marker \cup {None} /\ revived \in BOOLEAN
  /\ queue \in (Node \X {"http", "tick"}) \cup {None}
  /\ faults \in 0..MaxFaults /\ begun \in [Job -> Nat]

LEMMA NextRest == IInv /\ [Next]_vars => Rest'
  <1> SUFFICES ASSUME IInv, [Next]_vars PROVE Rest'
    OBVIOUS
  <1>0. Rest
    BY TypedParts DEF IInv, TableTyped, Rest
  <1>a. \A n \in Node : WorkSound(n)
    BY DEF IInv
  <1>1. ASSUME NEW n \in Node, Tick(n) \/ Pick(n) \/ JobDone(n) \/ JobFailed(n) \/
                          Dump(n) \/ UploadData(n) \/ UploadManifest(n) \/ List(n) \/
                          CleanData(n) \/ CleanManifest(n) \/ BackupDone(n) \/
                          RemoveData(n)
        PROVE  Rest'
    BY <1>1, <1>0
       DEF Rest, Add, Count, EndTick, To, Tick, Pick, JobDone, JobFailed,
           Dump, UploadData, UploadManifest, List, CleanData, CleanManifest,
           BackupDone, RemoveData
  <1>2. ASSUME NEW n \in Node, RemoveManifest(n) \/ Verify(n) \/ Upgrade(n) \/ Drain(n) \/
                          Overwrite(n) \/ Revoke(n) \/ CancelJobs(n) \/ Record(n) \/
                          Unmark(n) \/ Finish(n) \/ Abort(n) \/ Boot(n)
        PROVE  Rest'
    BY <1>2, <1>0
       DEF Rest, Restored, RemoveManifest, Verify, Upgrade, Drain, Overwrite,
           Revoke, CancelJobs, Record, Unmark, Finish, Abort, Boot
  <1>3. ASSUME NEW n \in Node, ReadMarker(n) \/ Recover(n) \/ ReconcileDone(n) \/ Stop(n) \/
                          Exit(n) \/ Respond(n) \/ Admit(n) \/ PassStart(n) \/
                          PassEnd(n)
        PROVE  Rest'
    BY <1>3, <1>0
       DEF Rest, Add, Count, Gone, ReadMarker, Recover, ReconcileDone, Stop,
           Exit, Respond, Admit, PassStart, PassEnd
  <1>4. ASSUME NEW n \in Node, Mark(n)
        PROVE  Rest'
    <2>1. work[n].job \in Job /\ work[n].target \in Backup /\ work[n].id \in Backup
      BY <1>4, <1>a DEF Mark, WorkSound, RestorePc
    <2> QED BY <1>4, <2>1, <1>0 DEF Rest, Mark, Marker
  <1>5. ASSUME NEW n \in Node, Take(n)
        PROVE  Rest'
    BY <1>5, <1>0, <1>a DEF Rest, Take, WorkSound
  <1>6. ASSUME NEW n \in Node, Plan(n) \/ CountForRequest(n)
        PROVE  Rest'
    BY <1>6, <1>0 DEF Rest, Plan, CountForRequest, Count
  <1>7. ASSUME NEW n \in Node, InsertScheduled(n)
        PROVE  Rest'
    BY <1>7, <1>0 DEF Rest, InsertScheduled, Add
  <1>8. ASSUME NEW n \in Node, InsertForRequest(n)
        PROVE  Rest'
    BY <1>8, <1>0 DEF Rest, InsertForRequest, Add
  <1>9. ASSUME NEW n \in Node, Crash(n) \/ StepFails(n) \/ Sigterm(n)
        PROVE  Rest'
    <2>1. faults' \in 0..MaxFaults
      BY <1>9, <1>0, ConstantsAssumption DEF Rest, Crash, StepFails, Sigterm
    <2> QED BY <1>9, <2>1, <1>0 DEF Rest, Crash, StepFails, Sigterm, Restored
  <1>10. CASE UNCHANGED vars
    BY <1>10, <1>0 DEF vars, Rest
  <1> QED
    BY <1>1, <1>2, <1>3, <1>4, <1>5, <1>6, <1>7, <1>8, <1>9, <1>10
       DEF Next, Work, Life, Serve

LEMMA NextTableTyped == IInv /\ [Next]_vars => TableTyped'
  <1> SUFFICES ASSUME IInv, [Next]_vars PROVE TableTyped'
    OBVIOUS
  <1>0. TableTyped /\ StoreTyped
    BY TypedParts DEF IInv
  <1>1. jobs' \in Table /\ made' \in 0..MaxJobs
    <2>1. CASE RowsEnd
      BY <2>1, <1>0 DEF RowsEnd, TableTyped
    <2>2. CASE RowAdded
      <3>1. PICK n \in Node, kind \in Kind, target \in Backup \cup {None} :
              /\ made < MaxJobs /\ made' = made + 1
              /\ jobs' = [jobs EXCEPT ![made + 1] = Queued(kind, target)]
        BY <2>2 DEF RowAdded
      <3>2. Queued(kind, target) \in JobRow
        BY DEF Queued, JobRow, Status
      <3>3. jobs' \in Table
        BY <3>1, <3>2, <1>0 DEF TableTyped, Table
      <3> QED BY <3>1, <3>3, <1>0, ConstantsAssumption DEF TableTyped
    <2>3. CASE RowTaken
      BY <2>3, <1>0 DEF RowTaken, TableTyped, Table, JobRow, Status
    <2>4. CASE TableBack
      BY <2>4, <1>0 DEF TableBack, StoreTyped, TableTyped
    <2> QED BY <2>1, <2>2, <2>3, <2>4, NextTable DEF TableStep
  <1> QED BY <1>1, NextRest DEF Rest, TableTyped

(* A dump that is there stays as it was made.                              *)
DumpStep ==
  \A b \in Backup : s3'[b].reason # None =>
    \/ s3[b].reason # None /\ s3'[b].jobs = s3[b].jobs
    \/ s3'[b].jobs = jobs

LEMMA NextDump == IInv /\ [Next]_vars => DumpStep
  <1> SUFFICES ASSUME IInv, [Next]_vars PROVE DumpStep
    OBVIOUS
  <1>0. StoreTyped
    BY TypedParts DEF IInv
  <1>1. ASSUME NEW n \in Node, Tick(n) \/ Plan(n) \/ InsertScheduled(n) \/ Pick(n) \/
                          Take(n) \/ JobDone(n) \/ JobFailed(n) \/ List(n) \/
                          BackupDone(n) \/ Verify(n) \/ Upgrade(n) \/ Drain(n)
        PROVE  DumpStep
    BY <1>1, <1>0
       DEF DumpStep, Tick, Plan, InsertScheduled, Pick, Take, JobDone,
           JobFailed, List, BackupDone, Verify, Upgrade, Drain
  <1>2. ASSUME NEW n \in Node, Mark(n) \/ Overwrite(n) \/ Revoke(n) \/ CancelJobs(n) \/
                          Record(n) \/ Unmark(n) \/ Finish(n) \/ Abort(n) \/ Boot(n) \/
                          ReadMarker(n) \/ Recover(n) \/ ReconcileDone(n)
        PROVE  DumpStep
    BY <1>2, <1>0
       DEF DumpStep, Mark, Overwrite, Revoke, CancelJobs, Record, Unmark,
           Finish, Abort, Boot, ReadMarker, Recover, ReconcileDone
  <1>3. ASSUME NEW n \in Node, Stop(n) \/ Exit(n) \/ Respond(n) \/ InsertForRequest(n) \/
                          Admit(n) \/ CountForRequest(n) \/ PassStart(n) \/
                          PassEnd(n) \/ Sigterm(n) \/ Crash(n) \/ StepFails(n)
        PROVE  DumpStep
    BY <1>3, <1>0
       DEF DumpStep, Stop, Exit, Respond, InsertForRequest, Admit,
           CountForRequest, PassStart, PassEnd, Sigterm, Crash, StepFails
  <1>4. ASSUME NEW n \in Node, UploadData(n) \/ UploadManifest(n) \/ CleanData(n) \/
                          CleanManifest(n) \/ RemoveData(n) \/ RemoveManifest(n)
        PROVE  DumpStep
    BY <1>4, <1>0
       DEF DumpStep, StoreTyped, BackupRec, UploadData, UploadManifest,
           CleanData, CleanManifest, RemoveData, RemoveManifest
  <1>5. ASSUME NEW n \in Node, Dump(n)
        PROVE  DumpStep
    BY <1>5, <1>0 DEF DumpStep, StoreTyped, BackupRec, Dump
  <1>6. CASE UNCHANGED vars
    BY <1>6, <1>0 DEF vars, DumpStep
  <1> QED
    BY <1>1, <1>2, <1>3, <1>4, <1>5, <1>6
       DEF Next, Work, Life, Serve

LEMMA NextTables == IInv /\ [Next]_vars => TablesSound'
  <1> SUFFICES ASSUME IInv, [Next]_vars PROVE TablesSound'
    OBVIOUS
  <1>0. TableTyped /\ StoreTyped /\ TablesSound /\ made \in Nat
    BY TypedParts, ConstantsAssumption DEF IInv, TableTyped
  <1>1. made' \in Nat /\ made <= made'
    <2>1. made' = made \/ made' = made + 1
      BY NextTable DEF TableStep, RowsEnd, RowAdded, RowTaken, TableBack
    <2> QED BY <2>1, <1>0
  <1>2. ASSUME NEW t, RowsSound(t) PROVE RowsSound(t)'
    BY <1>0, <1>1, <1>2 DEF RowsSound, QueuedIn, Job
  <1>3. RowsSound(jobs)'
    <2>1. CASE RowsEnd
      <3>1. RowsSound(jobs')
        BY <2>1, <1>0, SoundStays
           DEF RowsEnd, TablesSound, TableTyped, Given, Settled
      <3> QED BY <3>1, <1>0, <1>1 DEF RowsSound, QueuedIn, Job
    <2>2. CASE RowAdded
      <3>1. PICK n \in Node, kind \in Kind, target \in Backup \cup {None} :
              /\ kind \in {"delete_backup", "restore"} => target \in Backup
              /\ made < MaxJobs /\ made' = made + 1
              /\ Cardinality(QueuedIn(jobs)) < QueueLimit
              /\ jobs' = [jobs EXCEPT ![made + 1] = Queued(kind, target)]
        BY <2>2 DEF RowAdded
      <3>2. made + 1 \in Job
        BY <3>1, <1>0, ConstantsAssumption DEF Job
      <3>3. /\ jobs'[made + 1] = Queued(kind, target)
            /\ \A j \in Job : j # made + 1 => jobs'[j] = jobs[j]
        BY <3>1, <3>2, <1>0 DEF TableTyped, Table
      <3>4. QueuedIn(jobs') \subseteq QueuedIn(jobs) \cup {made + 1}
        BY <3>3 DEF QueuedIn
      <3>5. Cardinality(QueuedIn(jobs')) <= QueueLimit
        <4>1. /\ IsFiniteSet(QueuedIn(jobs) \cup {made + 1})
              /\ Cardinality(QueuedIn(jobs) \cup {made + 1}) <= Cardinality(QueuedIn(jobs)) + 1
          <5>1. IsFiniteSet(QueuedIn(jobs)) /\ Cardinality(QueuedIn(jobs)) \in Nat
            BY QueuedFinite
          <5>2. /\ IsFiniteSet(QueuedIn(jobs) \cup {made + 1})
                /\ Cardinality(QueuedIn(jobs) \cup {made + 1}) =
                     IF made + 1 \in QueuedIn(jobs) THEN Cardinality(QueuedIn(jobs))
                     ELSE Cardinality(QueuedIn(jobs)) + 1
            BY <5>1, FS_AddElement, Zenon
          <5> QED BY <5>1, <5>2
        <4>2. Cardinality(QueuedIn(jobs')) <= Cardinality(QueuedIn(jobs) \cup {made + 1})
          BY <4>1, <3>4, FS_Subset
        <4>3. /\ Cardinality(QueuedIn(jobs)) \in Nat /\ Cardinality(QueuedIn(jobs')) \in Nat
              /\ Cardinality(QueuedIn(jobs) \cup {made + 1}) \in Nat
          BY <4>1, QueuedFinite, FS_CardinalityType
        <4> QED BY <3>1, <4>1, <4>2, <4>3, ConstantsAssumption
      <3>6. \A j \in QueuedIn(jobs') : j <= made'
        BY <3>1, <3>4, <1>0 DEF TablesSound, RowsSound, QueuedIn, Job
      <3> QED BY <3>1, <3>2, <3>3, <3>5, <3>6, <1>0
                 DEF TablesSound, RowsSound, Queued, QueuedIn
    <2>3. CASE RowTaken
      <3>1. PICK j \in Job : /\ jobs[j].status # "none" /\ made' = made
                             /\ \A k \in Job : jobs[k].status # "running"
                             /\ jobs' = [jobs EXCEPT ![j].status = "running"]
        BY <2>3 DEF RowTaken
      <3>2. /\ jobs'[j].status = "running" /\ jobs'[j].kind = jobs[j].kind /\ jobs'[j].target = jobs[j].target
            /\ \A k \in Job : k # j => jobs'[k] = jobs[k]
        BY <3>1, <1>0 DEF TableTyped, Table, JobRow
      <3>3. QueuedIn(jobs') \subseteq QueuedIn(jobs)
        BY <3>2 DEF QueuedIn
      <3>4. Cardinality(QueuedIn(jobs')) <= QueueLimit
        BY <3>3, FewerQueued, QueuedFinite, <1>0, ConstantsAssumption
           DEF TablesSound, RowsSound
      <3> QED BY <3>1, <3>2, <3>3, <3>4, <1>0
                 DEF TablesSound, RowsSound, QueuedIn
    <2>4. CASE TableBack
      BY <2>4, <1>0, <1>2 DEF TableBack, TablesSound, RowsSound, QueuedIn
    <2> QED BY <2>1, <2>2, <2>3, <2>4, NextTable DEF TableStep
  <1>4. ASSUME NEW b \in Backup, s3'[b].reason # None PROVE RowsSound(s3[b].jobs)'
    <2>1. RowsSound(s3'[b].jobs)
      BY <1>4, <1>0, NextDump DEF DumpStep, TablesSound
    <2> QED BY <2>1, <1>0, <1>1 DEF RowsSound, QueuedIn, Job
  <1> QED BY <1>3, <1>4 DEF TablesSound

-----------------------------------------------------------------------------
(* A job is begun when it is taken, and by nothing else.                   *)
LEMMA BegunByTake == IInv /\ [Next]_vars => begun' = begun \/ \E k \in Node : Take(k)
  <1> SUFFICES ASSUME IInv, [Next]_vars PROVE begun' = begun \/ \E k \in Node : Take(k)
    OBVIOUS
  <1>1. ASSUME NEW n \in Node, Tick(n) \/ Plan(n) \/ InsertScheduled(n) \/ Pick(n) \/
                          JobDone(n) \/ JobFailed(n) \/ Dump(n) \/ UploadData(n) \/
                          UploadManifest(n) \/ List(n) \/ CleanData(n) \/
                          CleanManifest(n) \/ BackupDone(n)
        PROVE  begun' = begun \/ \E k \in Node : Take(k)
    BY <1>1
       DEF Tick, Plan, InsertScheduled, Pick, JobDone, JobFailed, Dump,
           UploadData, UploadManifest, List, CleanData, CleanManifest,
           BackupDone
  <1>2. ASSUME NEW n \in Node, RemoveData(n) \/ RemoveManifest(n) \/ Verify(n) \/
                          Upgrade(n) \/ Drain(n) \/ Mark(n) \/ Overwrite(n) \/
                          Revoke(n) \/ CancelJobs(n) \/ Record(n) \/ Unmark(n) \/
                          Finish(n) \/ Abort(n) \/ Boot(n)
        PROVE  begun' = begun \/ \E k \in Node : Take(k)
    BY <1>2
       DEF RemoveData, RemoveManifest, Verify, Upgrade, Drain, Mark,
           Overwrite, Revoke, CancelJobs, Record, Unmark, Finish, Abort, Boot
  <1>3. ASSUME NEW n \in Node, ReadMarker(n) \/ Recover(n) \/ ReconcileDone(n) \/ Stop(n) \/
                          Exit(n) \/ Respond(n) \/ InsertForRequest(n) \/ Admit(n) \/
                          CountForRequest(n) \/ PassStart(n) \/ PassEnd(n) \/
                          Sigterm(n) \/ Crash(n) \/ StepFails(n)
        PROVE  begun' = begun \/ \E k \in Node : Take(k)
    BY <1>3
       DEF ReadMarker, Recover, ReconcileDone, Stop, Exit, Respond,
           InsertForRequest, Admit, CountForRequest, PassStart, PassEnd,
           Sigterm, Crash, StepFails
  <1>4. ASSUME NEW n \in Node, Take(n)
        PROVE  begun' = begun \/ \E k \in Node : Take(k)
    BY <1>4
  <1>5. CASE UNCHANGED vars
    BY <1>5 DEF vars
  <1> QED
    BY <1>1, <1>2, <1>3, <1>4, <1>5
       DEF Next, Work, Life, Serve

LEMMA MadeGrows == IInv /\ [Next]_vars => made \in Nat /\ made' \in Nat /\ made <= made'
  <1> SUFFICES ASSUME IInv, [Next]_vars PROVE made \in Nat /\ made' \in Nat /\ made <= made'
    OBVIOUS
  <1>1. made \in Nat
    BY TypedParts, ConstantsAssumption DEF IInv, TableTyped
  <1>2. made' = made \/ made' = made + 1
    BY NextTable DEF TableStep, RowsEnd, RowAdded, RowTaken, TableBack
  <1> QED BY <1>1, <1>2

LEMMA NextBegun == IInv /\ [Next]_vars => BegunSound'
  <1> SUFFICES ASSUME IInv, [Next]_vars PROVE BegunSound'
    OBVIOUS
  <1>0. BegunSound /\ made \in Nat /\ made' \in Nat /\ made <= made' /\ begun \in [Job -> Nat]
    BY TypedParts, MadeGrows DEF IInv, TableTyped
  <1>1. CASE begun' = begun
    BY <1>1, <1>0 DEF BegunSound, Job
  <1>2. ASSUME NEW n \in Node, Take(n) PROVE BegunSound'
    <2>1. work[n].job \in Job /\ work[n].job <= made /\ begun[work[n].job] = 0
      BY <1>2 DEF IInv, WorkSound, Take
    <2>2. begun' = [begun EXCEPT ![work[n].job] = @ + 1]
      BY <1>2 DEF Take
    <2> QED BY <2>1, <2>2, <1>0 DEF BegunSound, Job
  <1> QED BY <1>1, <1>2, BegunByTake

(* A backup is begun by a dump, and by nothing else.                       *)
LEMMA UsedByDump == IInv /\ [Next]_vars => Used' = Used \/ \E k \in Node : Dump(k)
  <1> SUFFICES ASSUME IInv, [Next]_vars PROVE Used' = Used \/ \E k \in Node : Dump(k)
    OBVIOUS
  <1>0. StoreTyped
    BY TypedParts DEF IInv
  <1>1. ASSUME NEW n \in Node, Tick(n) \/ Plan(n) \/ InsertScheduled(n) \/ Pick(n) \/
                          Take(n) \/ JobDone(n) \/ JobFailed(n) \/ List(n) \/
                          BackupDone(n) \/ Verify(n) \/ Upgrade(n)
        PROVE  Used' = Used \/ \E k \in Node : Dump(k)
    BY <1>1
       DEF Used, Tick, Plan, InsertScheduled, Pick, Take, JobDone, JobFailed,
           List, BackupDone, Verify, Upgrade
  <1>2. ASSUME NEW n \in Node, Drain(n) \/ Mark(n) \/ Overwrite(n) \/ Revoke(n) \/
                          CancelJobs(n) \/ Record(n) \/ Unmark(n) \/ Finish(n) \/
                          Abort(n) \/ Boot(n) \/ ReadMarker(n) \/ Recover(n)
        PROVE  Used' = Used \/ \E k \in Node : Dump(k)
    BY <1>2
       DEF Used, Drain, Mark, Overwrite, Revoke, CancelJobs, Record, Unmark,
           Finish, Abort, Boot, ReadMarker, Recover
  <1>3. ASSUME NEW n \in Node, ReconcileDone(n) \/ Stop(n) \/ Exit(n) \/ Respond(n) \/
                          InsertForRequest(n) \/ Admit(n) \/ CountForRequest(n) \/
                          PassStart(n) \/ PassEnd(n) \/ Sigterm(n) \/ Crash(n) \/
                          StepFails(n)
        PROVE  Used' = Used \/ \E k \in Node : Dump(k)
    BY <1>3
       DEF Used, ReconcileDone, Stop, Exit, Respond, InsertForRequest, Admit,
           CountForRequest, PassStart, PassEnd, Sigterm, Crash, StepFails
  <1>4. ASSUME NEW n \in Node, UploadData(n) \/ UploadManifest(n) \/ CleanData(n) \/
                          CleanManifest(n) \/ RemoveData(n) \/ RemoveManifest(n)
        PROVE  Used' = Used \/ \E k \in Node : Dump(k)
    BY <1>4, <1>0
       DEF Used, StoreTyped, BackupRec, UploadData, UploadManifest, CleanData,
           CleanManifest, RemoveData, RemoveManifest
  <1>5. ASSUME NEW n \in Node, Dump(n)
        PROVE  Used' = Used \/ \E k \in Node : Dump(k)
    BY <1>5
  <1>6. CASE UNCHANGED vars
    BY <1>6 DEF vars, Used
  <1> QED
    BY <1>1, <1>2, <1>3, <1>4, <1>5, <1>6
       DEF Next, Work, Life, Serve

(* Who is about to make a backup has taken a job before.                   *)
LEMMA PcMoves ==
  ASSUME WorkTyped, NEW n \in Node, NEW pc, To(n, pc),
         pc \in {"dump", "verify", "upgrade", "drain"} => work[n].pc \in {"dump", "verify", "upgrade", "drain"}
  PROVE  PreDump' => PreDump
  BY DEF WorkTyped, WorkRec, To, PreDump

LEMMA PreDumpByTake == IInv /\ [Next]_vars => (PreDump' => PreDump) \/ \E k \in Node : Take(k)
  <1> SUFFICES ASSUME IInv, [Next]_vars PROVE (PreDump' => PreDump) \/ \E k \in Node : Take(k)
    OBVIOUS
  <1>0. WorkTyped
    BY TypedParts DEF IInv
  <1>1. ASSUME NEW n \in Node, Boot(n) \/ ReadMarker(n) \/ Recover(n) \/ ReconcileDone(n) \/
                          Stop(n) \/ Exit(n) \/ Respond(n)
        PROVE  (PreDump' => PreDump) \/ \E k \in Node : Take(k)
    BY <1>1
       DEF PreDump, Boot, ReadMarker, Recover, ReconcileDone, Stop, Exit,
           Respond
  <1>2. ASSUME NEW n \in Node, InsertForRequest(n) \/ Admit(n) \/ CountForRequest(n) \/
                          PassStart(n) \/ PassEnd(n) \/ Sigterm(n)
        PROVE  (PreDump' => PreDump) \/ \E k \in Node : Take(k)
    BY <1>2
       DEF PreDump, InsertForRequest, Admit, CountForRequest, PassStart,
           PassEnd, Sigterm
  <1>3. ASSUME NEW n \in Node, Plan(n) \/ InsertScheduled(n) \/ UploadData(n) \/
                          UploadManifest(n) \/ CleanData(n) \/ BackupDone(n) \/
                          RemoveData(n) \/ RemoveManifest(n) \/ Verify(n)
        PROVE  (PreDump' => PreDump) \/ \E k \in Node : Take(k)
    BY <1>3, <1>0, PcMoves
       DEF Plan, InsertScheduled, UploadData, UploadManifest, CleanData,
           BackupDone, RemoveData, RemoveManifest, Verify
  <1>4. ASSUME NEW n \in Node, Upgrade(n) \/ Drain(n) \/ Mark(n) \/ Overwrite(n) \/
                          Revoke(n) \/ CancelJobs(n) \/ Record(n) \/ Unmark(n) \/
                          Abort(n)
        PROVE  (PreDump' => PreDump) \/ \E k \in Node : Take(k)
    BY <1>4, <1>0, PcMoves
       DEF Upgrade, Drain, Mark, Overwrite, Revoke, CancelJobs, Record,
           Unmark, Abort
  <1>5. ASSUME NEW n \in Node, JobDone(n) \/ JobFailed(n) \/ Crash(n)
        PROVE  (PreDump' => PreDump) \/ \E k \in Node : Take(k)
    BY <1>5, <1>0
       DEF PreDump, EndTick, Idle, WorkTyped, JobDone, JobFailed, Crash
  <1>6. ASSUME NEW n \in Node, Finish(n)
        PROVE  (PreDump' => PreDump) \/ \E k \in Node : Take(k)
    BY <1>6, <1>0, PcMoves DEF PreDump, EndTick, Idle, WorkTyped, Finish
  <1>7. ASSUME NEW n \in Node, Tick(n)
        PROVE  (PreDump' => PreDump) \/ \E k \in Node : Take(k)
    BY <1>7, <1>0 DEF PreDump, WorkTyped, WorkRec, Tick
  <1>8. ASSUME NEW n \in Node, Pick(n)
        PROVE  (PreDump' => PreDump) \/ \E k \in Node : Take(k)
    <2>1. \A k \in Node : work'[k].pc = work[k].pc \/ work'[k].pc \in {"idle", "take"}
      <3>1. \/ work' = [work EXCEPT ![n] = Idle]
            \/ \E j : work' = [work EXCEPT ![n].pc = "take", ![n].job = j,
                                ![n].kind = jobs[j].kind, ![n].target = jobs[j].target]
        BY <1>8 DEF Pick, EndTick
      <3>2. CASE work' = [work EXCEPT ![n] = Idle]
        BY <3>2, <1>0 DEF WorkTyped, Idle
      <3>3. ASSUME NEW j, work' = [work EXCEPT ![n].pc = "take", ![n].job = j,
                                     ![n].kind = jobs[j].kind, ![n].target = jobs[j].target]
            PROVE  \A k \in Node : work'[k].pc = work[k].pc \/ work'[k].pc \in {"idle", "take"}
        BY <3>3, <1>0 DEF WorkTyped, WorkRec
      <3> QED BY <3>1, <3>2, <3>3
    <2> QED BY <2>1 DEF PreDump
  <1>9. ASSUME NEW n \in Node, Dump(n)
        PROVE  (PreDump' => PreDump) \/ \E k \in Node : Take(k)
    BY <1>9, <1>0 DEF PreDump, WorkTyped, WorkRec, Dump
  <1>10. ASSUME NEW n \in Node, List(n) \/ CleanManifest(n)
        PROVE  (PreDump' => PreDump) \/ \E k \in Node : Take(k)
    <2>1. \A k \in Node : work'[k].pc = work[k].pc \/ work'[k].pc = "clean"
      BY <1>10, <1>0 DEF List, CleanManifest, WorkTyped, WorkRec
    <2> QED BY <2>1 DEF PreDump
  <1>11. ASSUME NEW n \in Node, Take(n)
        PROVE  (PreDump' => PreDump) \/ \E k \in Node : Take(k)
    BY <1>11
  <1>12. ASSUME NEW n \in Node, StepFails(n)
        PROVE  (PreDump' => PreDump) \/ \E k \in Node : Take(k)
    <2> DEFINE next == After(work[n].pc, work[n].kind)
    <2>1. next \in {"idle", "clean", "finish", "abort", "fail"}
      BY DEF After
    <2>2. \A k \in Node : work'[k].pc = work[k].pc \/ work'[k].pc = next
      <3> HIDE DEF next
      <3>1. \/ next = "idle" /\ work' = [work EXCEPT ![n] = Idle]
            \/ work' = [work EXCEPT ![n].pc = next, ![n].todo = {}, ![n].ok = next # "finish"]
        BY <1>12 DEF StepFails, EndTick, next
      <3> QED BY <3>1, <1>0 DEF WorkTyped, WorkRec, Idle
    <2> QED BY <2>1, <2>2 DEF PreDump
  <1>13. CASE UNCHANGED vars
    BY <1>13 DEF vars, PreDump
  <1> QED
    BY <1>1, <1>2, <1>3, <1>4, <1>5, <1>6, <1>7, <1>8, <1>9, <1>10, <1>11,
       <1>12, <1>13
       DEF Next, Work, Life, Serve

LEMMA CountsTyped == Cardinality(Used) \in Nat /\ Cardinality(NotBegun) \in Nat
                       /\ IsFiniteSet(Used) /\ IsFiniteSet(NotBegun)
  BY FiniteSets, FS_Subset, FS_CardinalityType DEF Used, NotBegun

LEMMA NextRoom == IInv /\ [Next]_vars => RoomSound'
  <1> SUFFICES ASSUME IInv, [Next]_vars PROVE RoomSound'
    OBVIOUS
  <1>0. RoomSound /\ WorkTyped /\ begun \in [Job -> Nat] /\ StoreTyped
    BY TypedParts DEF IInv, TableTyped
  <1>a. MaxJobs \in Nat /\ MaxJobs >= 4
    BY ConstantsAssumption
  <1>1. ASSUME NEW n \in Node, Take(n) PROVE RoomSound'
    <2>1. work[n].job \in Job /\ begun[work[n].job] = 0
      BY <1>1 DEF IInv, WorkSound, Take
    <2>2. Used' = Used
      BY <1>1 DEF Take, Used
    <2>3. NotBegun' = NotBegun \ {work[n].job} /\ work[n].job \in NotBegun
      BY <1>1, <2>1, <1>0 DEF Take, NotBegun
    <2>4. Cardinality(NotBegun') = Cardinality(NotBegun) - 1
      BY <2>3, CountsTyped, FS_RemoveElement
    <2> QED BY <2>2, <2>4, <1>0, <1>a, CountsTyped DEF RoomSound
  <1>2. ASSUME NEW n \in Node, Dump(n) PROVE RoomSound'
    <2>1. PICK b \in Backup, r \in {"manual", "pre_restore"} : r # None /\ s3[b].reason = None
                                 /\ s3' = [s3 EXCEPT ![b].reason = r, ![b].jobs = jobs]
      BY <1>2, NextUnused, ConstantsAssumption DEF Dump
    <2>2. Used' = Used \cup {b} /\ b \notin Used
      BY <2>1, <1>0 DEF Used, StoreTyped, BackupRec
    <2>3. NotBegun' = NotBegun
      BY <1>2 DEF Dump, NotBegun
    <2>4. Cardinality(Used') = Cardinality(Used) + 1
      BY <2>2, CountsTyped, FS_AddElement
    <2>5. PreDump /\ ~PreDump'
      BY <1>2, <1>0 DEF Dump, PreDump, WorkTyped, WorkRec
    <2> QED BY <2>3, <2>4, <2>5, <1>0, <1>a, CountsTyped DEF RoomSound
  <1>3. CASE ~ \E n \in Node : Take(n) \/ Dump(n)
    <2>1. Used' = Used
      BY <1>3, UsedByDump
    <2>2. begun' = begun
      BY <1>3, BegunByTake
    <2>3. NotBegun' = NotBegun
      BY <2>2 DEF NotBegun
    <2>4. PreDump' => PreDump
      BY <1>3, PreDumpByTake
    <2> QED BY <2>1, <2>3, <2>4, <1>0 DEF RoomSound
  <1> QED BY <1>1, <1>2, <1>3

-----------------------------------------------------------------------------
(* From the safety backup on, nothing is asked of anybody.                 *)
LEMMA Silence ==
  ASSUME IInv, NEW n \in Node, work[n].pc \in {"overwrite", "revoke", "cancel", "record", "unmark"}
  PROVE  /\ work[n].kind = "restore" /\ proc[n].restoring /\ lease.shared = {n}
         /\ \A k \in Node : req[k] = "none" /\ ~proc[k].pass
         /\ \A k \in Node : k # n => ~Serving(k) /\ work[k] = Idle
  <1>1. /\ work[n].kind = "restore" /\ proc[n].restoring
    BY DEF IInv, WorkSound, AloneSound, RestorePc
  <1>2. lease.excl = n
    BY <1>1 DEF IInv, LeaseSound
  <1>3. lease.shared = {n}
    BY <1>2, ConstantsAssumption DEF IInv, LeaseSound
  <1>4. \A k \in Node : k # n => proc[k].phase = "down"
    BY <1>3 DEF IInv, TypeOK
  <1>5. \A k \in Node : k # n => ~Serving(k)
    BY <1>4 DEF Serving
  <1>6. \A k \in Node : k # n => Quiet(k)
    BY <1>5 DEF IInv, LifeSound
  <1>7. Drained(n)
    BY <1>1, ConstantsAssumption DEF IInv, AloneSound, WorkSound
  <1> QED BY <1>1, <1>3, <1>5, <1>6, <1>7 DEF Quiet, Drained

(* The lock on the queue is taken by who counts, and nobody else comes to  *)
(* be between counting and inserting.                                      *)
QueueKept ==
  /\ queue' = queue
  /\ \A k \in Node : req'[k] = "counted" => req[k] = "counted"
  /\ \A k \in Node : work'[k].pc = "insert" => work[k].pc = "insert"

Counts(k) ==
  Plan(k) \/ CountForRequest(k) \/ InsertScheduled(k) \/ InsertForRequest(k) \/ StepFails(k) \/ Crash(k)

LEMMA PcKept ==
  ASSUME WorkTyped, NEW n \in Node, NEW pc, To(n, pc), pc # "insert"
  PROVE  \A k \in Node : work'[k].pc = "insert" => work[k].pc = "insert"
  BY DEF WorkTyped, WorkRec, To

LEMMA QueueByCount == IInv /\ [Next]_vars => QueueKept \/ \E k \in Node : Counts(k)
  <1> SUFFICES ASSUME IInv, [Next]_vars PROVE QueueKept \/ \E k \in Node : Counts(k)
    OBVIOUS
  <1>0. WorkTyped /\ LifeTyped
    BY TypedParts DEF IInv
  <1>1. ASSUME NEW n \in Node, Boot(n) \/ ReadMarker(n) \/ Recover(n) \/ ReconcileDone(n) \/
                          Stop(n) \/ Exit(n)
        PROVE  QueueKept \/ \E k \in Node : Counts(k)
    BY <1>1, <1>0
       DEF QueueKept, LifeTyped, Boot, ReadMarker, Recover, ReconcileDone,
           Stop, Exit
  <1>2. ASSUME NEW n \in Node, Respond(n) \/ Admit(n) \/ PassStart(n) \/ PassEnd(n) \/
                          Sigterm(n)
        PROVE  QueueKept \/ \E k \in Node : Counts(k)
    BY <1>2, <1>0
       DEF QueueKept, LifeTyped, Respond, Admit, PassStart, PassEnd, Sigterm
  <1>3. ASSUME NEW n \in Node, UploadData(n) \/ UploadManifest(n) \/ CleanData(n) \/
                          BackupDone(n) \/ RemoveData(n) \/ RemoveManifest(n) \/
                          Verify(n) \/ Upgrade(n)
        PROVE  QueueKept \/ \E k \in Node : Counts(k)
    BY <1>3, <1>0, PcKept
       DEF QueueKept, UploadData, UploadManifest, CleanData, BackupDone,
           RemoveData, RemoveManifest, Verify, Upgrade
  <1>4. ASSUME NEW n \in Node, Drain(n) \/ Mark(n) \/ Overwrite(n) \/ Revoke(n) \/
                          CancelJobs(n) \/ Record(n) \/ Unmark(n) \/ Abort(n)
        PROVE  QueueKept \/ \E k \in Node : Counts(k)
    BY <1>4, <1>0, PcKept
       DEF QueueKept, Drain, Mark, Overwrite, Revoke, CancelJobs, Record,
           Unmark, Abort
  <1>5. ASSUME NEW n \in Node, JobDone(n) \/ JobFailed(n)
        PROVE  QueueKept \/ \E k \in Node : Counts(k)
    BY <1>5, <1>0 DEF QueueKept, EndTick, Idle, WorkTyped, JobDone, JobFailed
  <1>6. ASSUME NEW n \in Node, Finish(n)
        PROVE  QueueKept \/ \E k \in Node : Counts(k)
    BY <1>6, <1>0, PcKept DEF QueueKept, EndTick, Idle, WorkTyped, Finish
  <1>7. ASSUME NEW n \in Node, Take(n)
        PROVE  QueueKept \/ \E k \in Node : Counts(k)
    <2>1. FirstStep[work[n].kind] # "insert"
      <3>1. work[n].kind \in Kind
        BY <1>7 DEF IInv, WorkSound, Take
      <3> QED BY <3>1 DEF FirstStep, Kind
    <2> QED BY <1>7, <2>1, <1>0, PcKept DEF QueueKept, Take
  <1>8. ASSUME NEW n \in Node, Tick(n)
        PROVE  QueueKept \/ \E k \in Node : Counts(k)
    BY <1>8, <1>0 DEF QueueKept, WorkTyped, WorkRec, Tick
  <1>9. ASSUME NEW n \in Node, Pick(n)
        PROVE  QueueKept \/ \E k \in Node : Counts(k)
    <2>1. \A k \in Node : work'[k].pc = work[k].pc \/ work'[k].pc \in {"idle", "take"}
      <3>1. \/ work' = [work EXCEPT ![n] = Idle]
            \/ \E j : work' = [work EXCEPT ![n].pc = "take", ![n].job = j,
                                ![n].kind = jobs[j].kind, ![n].target = jobs[j].target]
        BY <1>9 DEF Pick, EndTick
      <3>2. CASE work' = [work EXCEPT ![n] = Idle]
        BY <3>2, <1>0 DEF WorkTyped, Idle
      <3>3. ASSUME NEW j, work' = [work EXCEPT ![n].pc = "take", ![n].job = j,
                                     ![n].kind = jobs[j].kind, ![n].target = jobs[j].target]
            PROVE  \A k \in Node : work'[k].pc = work[k].pc \/ work'[k].pc \in {"idle", "take"}
        BY <3>3, <1>0 DEF WorkTyped, WorkRec
      <3> QED BY <3>1, <3>2, <3>3
    <2>2. queue' = queue /\ req' = req
      BY <1>9 DEF Pick
    <2> QED BY <2>1, <2>2 DEF QueueKept
  <1>10. ASSUME NEW n \in Node, Dump(n)
        PROVE  QueueKept \/ \E k \in Node : Counts(k)
    BY <1>10, <1>0 DEF QueueKept, WorkTyped, WorkRec, Dump
  <1>11. ASSUME NEW n \in Node, List(n) \/ CleanManifest(n)
        PROVE  QueueKept \/ \E k \in Node : Counts(k)
    <2>1. \A k \in Node : work'[k].pc = work[k].pc \/ work'[k].pc = "clean"
      BY <1>11, <1>0 DEF List, CleanManifest, WorkTyped, WorkRec
    <2>2. queue' = queue /\ req' = req
      BY <1>11 DEF List, CleanManifest
    <2> QED BY <2>1, <2>2 DEF QueueKept
  <1>12. ASSUME NEW n \in Node, Plan(n) \/ CountForRequest(n) \/ InsertScheduled(n) \/
                          InsertForRequest(n) \/ StepFails(n) \/ Crash(n)
        PROVE  QueueKept \/ \E k \in Node : Counts(k)
    BY <1>12 DEF Counts
  <1>13. CASE UNCHANGED vars
    BY <1>13 DEF vars, QueueKept
  <1> QED
    BY <1>1, <1>2, <1>3, <1>4, <1>5, <1>6, <1>7, <1>8, <1>9, <1>10, <1>11,
       <1>12, <1>13
       DEF Next, Work, Life, Serve

LEMMA RoomToQueue ==
  Cardinality(QueuedIn(jobs)) <= Cardinality(Pending) /\ Cardinality(Pending) \in Nat
  <1>1. IsFiniteSet(Pending) /\ QueuedIn(jobs) \subseteq Pending
    BY FiniteSets, FS_Subset DEF Pending, QueuedIn, Open
  <1> QED BY <1>1, FS_Subset, FS_CardinalityType

LEMMA NextQueue == IInv /\ [Next]_vars => QueueSound'
  <1> SUFFICES ASSUME IInv, [Next]_vars PROVE QueueSound'
    OBVIOUS
  <1>0. QueueSound /\ WorkTyped /\ LifeTyped /\ TableTyped /\ RowsSound(jobs)
    BY TypedParts DEF IInv, TablesSound
  <1>a. \A n \in Node, who \in {"http", "tick"} : <<n, who>> # None
    BY ConstantsAssumption
  <1>b. QueueLimit \in Nat
    BY ConstantsAssumption
  <1>c. RowsEnd \/ RowTaken =>
          made' = made /\ Cardinality(QueuedIn(jobs')) <= Cardinality(QueuedIn(jobs))
    <2>1. ASSUME RowsEnd
          PROVE  Cardinality(QueuedIn(jobs')) <= Cardinality(QueuedIn(jobs))
      BY <2>1, <1>0, SoundStays DEF RowsEnd, TableTyped, Given, Settled
    <2>2. ASSUME RowTaken
          PROVE  Cardinality(QueuedIn(jobs')) <= Cardinality(QueuedIn(jobs))
      <3>1. QueuedIn(jobs') \subseteq QueuedIn(jobs)
        BY <2>2, <1>0 DEF RowTaken, QueuedIn, TableTyped, Table, JobRow
      <3> QED BY <3>1, FewerQueued
    <2> QED BY <2>1, <2>2 DEF RowsEnd, RowTaken
  <1>d. /\ Cardinality(QueuedIn(jobs)) \in Nat /\ Cardinality(QueuedIn(jobs')) \in Nat
    BY QueuedFinite
  <1>e. ASSUME NEW n \in Node, work[n].pc = "overwrite", Overwrite(n) \/ Crash(n)
        PROVE  \A k \in Node : req'[k] # "counted" /\ work'[k].pc # "insert"
    <2>1. \A k \in Node : req[k] = "none" /\ (k # n => work[k] = Idle)
      BY <1>e, Silence
    <2> QED BY <1>e, <2>1, <1>0
               DEF Overwrite, Crash, To, Idle, WorkTyped, WorkRec, LifeTyped
  <1>1. CASE QueueKept
    <2>1. CASE RowsEnd \/ RowTaken
      BY <1>1, <2>1, <1>0, <1>b, <1>c, <1>d DEF QueueKept, QueueSound
    <2>2. CASE RowAdded
      <3>1. PICK n \in Node : InsertForRequest(n) \/ InsertScheduled(n)
        BY <2>2 DEF RowAdded
      <3>2. queue' = None
        BY <3>1 DEF InsertForRequest, InsertScheduled, Add
      <3>3. \A k \in Node : req'[k] # "counted" /\ work'[k].pc # "insert"
        BY <3>2, <1>1, <1>0, <1>a DEF QueueKept, QueueSound
      <3> QED BY <3>3 DEF QueueSound
    <2>3. CASE TableBack
      BY <2>3, <1>e DEF TableBack, QueueSound
    <2> QED BY <2>1, <2>2, <2>3, NextTable DEF TableStep
  <1>2. ASSUME NEW n \in Node, Plan(n) \/ CountForRequest(n) PROVE QueueSound'
    <2>1. CASE queue' = queue /\ To(n, "pick") /\ Plan(n)
      <3>1. \A k \in Node : work'[k].pc = "insert" => work[k].pc = "insert"
        BY <2>1, <1>0, PcKept
      <3> QED BY <2>1, <3>1, <1>0 DEF Plan, QueueSound
    <2>2. CASE Count(n, "tick") /\ To(n, "insert") /\ Plan(n)
      <3>1. \A k \in Node : req[k] # "counted" /\ work[k].pc # "insert"
        BY <2>2, <1>0, <1>a DEF Count, QueueSound
      <3>2. \A k \in Node : work'[k].pc = "insert" => k = n
        BY <2>2, <3>1, <1>0 DEF To, WorkTyped, WorkRec
      <3>3. Cardinality(QueuedIn(jobs)) < QueueLimit
        BY <2>2, <1>b, <1>d, RoomToQueue DEF Count
      <3> QED BY <2>2, <3>1, <3>2, <3>3 DEF Plan, Count, QueueSound
    <2>3. CASE CountForRequest(n)
      <3>1. \A k \in Node : req[k] # "counted" /\ work[k].pc # "insert"
        BY <2>3, <1>0, <1>a DEF CountForRequest, Count, QueueSound
      <3>2. \A k \in Node : req'[k] = "counted" => k = n
        BY <2>3, <3>1, <1>0 DEF CountForRequest, LifeTyped
      <3>3. Cardinality(QueuedIn(jobs)) < QueueLimit
        BY <2>3, <1>b, <1>d, RoomToQueue DEF CountForRequest, Count
      <3> QED BY <2>3, <3>1, <3>2, <3>3 DEF CountForRequest, Count, QueueSound
    <2> QED BY <1>2, <2>1, <2>2, <2>3 DEF Plan
  <1>3. ASSUME NEW n \in Node, InsertScheduled(n) PROVE QueueSound'
    <2>1. queue = <<n, "tick">>
      BY <1>3, <1>0 DEF InsertScheduled, QueueSound
    <2>2. \A k \in Node : req[k] # "counted" /\ (k # n => work[k].pc # "insert")
      BY <2>1, <1>0 DEF QueueSound
    <2> QED BY <1>3, <2>2, <1>0
               DEF InsertScheduled, To, WorkTyped, WorkRec, QueueSound
  <1>4. ASSUME NEW n \in Node, InsertForRequest(n) PROVE QueueSound'
    <2>1. queue = <<n, "http">>
      BY <1>4, <1>0 DEF InsertForRequest, QueueSound
    <2>2. \A k \in Node : work[k].pc # "insert" /\ (k # n => req[k] # "counted")
      BY <2>1, <1>0 DEF QueueSound
    <2> QED BY <1>4, <2>2, <1>0 DEF InsertForRequest, LifeTyped, QueueSound
  <1>5. ASSUME NEW n \in Node, StepFails(n) PROVE QueueSound'
    <2> DEFINE next == After(work[n].pc, work[n].kind)
    <2>1. next # "insert"
      BY DEF After
    <2>2. \A k \in Node : k # n => work'[k] = work[k]
      BY <1>5, <1>0 DEF StepFails, EndTick, WorkTyped
    <2>3. work'[n].pc # "insert"
      <3> HIDE DEF next
      <3>1. \/ work' = [work EXCEPT ![n] = Idle]
            \/ work' = [work EXCEPT ![n].pc = next, ![n].todo = {}, ![n].ok = next # "finish"]
        BY <1>5 DEF StepFails, EndTick, next
      <3> QED BY <2>1, <3>1, <1>0 DEF WorkTyped, WorkRec, Idle
    <2>4. /\ jobs' = jobs /\ made' = made /\ req' = req
          /\ queue' = IF work[n].pc = "insert" THEN None ELSE queue
      BY <1>5 DEF StepFails
    <2>5. CASE work[n].pc = "insert"
      <3>1. queue = <<n, "tick">>
        BY <2>5, <1>0 DEF QueueSound
      <3>2. \A k \in Node : req[k] # "counted" /\ (k # n => work[k].pc # "insert")
        BY <3>1, <1>0 DEF QueueSound
      <3> QED BY <2>2, <2>3, <2>4, <3>2 DEF QueueSound
    <2>6. CASE work[n].pc # "insert"
      BY <2>2, <2>3, <2>4, <2>6, <1>0 DEF QueueSound
    <2> QED BY <2>5, <2>6
  <1>6. ASSUME NEW n \in Node, Crash(n) PROVE QueueSound'
    <2>1. CASE work[n].pc = "overwrite"
      BY <1>6, <2>1, <1>e DEF QueueSound
    <2>2. CASE work[n].pc # "overwrite"
      <3>1. /\ jobs' = jobs /\ made' = made /\ req' = [req EXCEPT ![n] = "none"]
            /\ work' = [work EXCEPT ![n] = Idle]
            /\ queue' = IF queue \in {<<n, "http">>, <<n, "tick">>} THEN None ELSE queue
        BY <1>6, <2>2 DEF Crash
      <3>2. \A k \in Node : /\ req'[k] = "counted" => k # n /\ req[k] = "counted"
                            /\ work'[k].pc = "insert" => k # n /\ work[k].pc = "insert"
        BY <3>1, <1>0 DEF LifeTyped, WorkTyped, Idle
      <3> QED BY <3>1, <3>2, <1>0 DEF QueueSound
    <2> QED BY <2>1, <2>2
  <1> QED BY <1>1, <1>2, <1>3, <1>4, <1>5, <1>6, QueueByCount DEF Counts

-----------------------------------------------------------------------------
(* One process acts at a time.                                             *)
Act(n) ==
  \/ Work(n) \/ Life(n) \/ Serve(n)
  \/ Admit(n) \/ CountForRequest(n)
  \/ PassStart(n) \/ PassEnd(n)
  \/ Sigterm(n) \/ Crash(n) \/ StepFails(n)

LEMMA OthersStay ==
  ASSUME WorkTyped, LifeTyped, NEW n \in Node, Act(n), NEW k \in Node, k # n
  PROVE  work'[k] = work[k] /\ proc'[k] = proc[k] /\ req'[k] = req[k]
  <1>1. CASE Tick(n) \/ Plan(n) \/ InsertScheduled(n) \/ Pick(n) \/
             Take(n) \/ JobDone(n) \/ JobFailed(n)
    BY <1>1
       DEF WorkTyped, LifeTyped, To, EndTick, Tick, Plan, InsertScheduled,
           Pick, Take, JobDone, JobFailed
  <1>2. CASE Dump(n) \/ UploadData(n) \/ UploadManifest(n) \/ List(n) \/
             CleanData(n) \/ CleanManifest(n) \/ BackupDone(n)
    BY <1>2
       DEF WorkTyped, LifeTyped, To, EndTick, Dump, UploadData,
           UploadManifest, List, CleanData, CleanManifest, BackupDone
  <1>3. CASE RemoveData(n) \/ RemoveManifest(n) \/ Verify(n) \/
             Drain(n) \/ Mark(n) \/ Overwrite(n) \/ Revoke(n)
    BY <1>3
       DEF WorkTyped, LifeTyped, To, EndTick, RemoveData, RemoveManifest,
           Verify, Drain, Mark, Overwrite, Revoke
  <1>4. CASE CancelJobs(n) \/ Record(n) \/ Unmark(n) \/ Boot(n) \/
             ReadMarker(n) \/ Recover(n) \/ ReconcileDone(n)
    BY <1>4
       DEF WorkTyped, LifeTyped, To, EndTick, CancelJobs, Record, Unmark,
           Boot, ReadMarker, Recover, ReconcileDone
  <1>5. CASE Stop(n) \/ Respond(n) \/ InsertForRequest(n) \/ Admit(n) \/
             CountForRequest(n) \/ PassStart(n) \/ PassEnd(n)
    BY <1>5
       DEF WorkTyped, LifeTyped, To, EndTick, Stop, Respond, InsertForRequest,
           Admit, CountForRequest, PassStart, PassEnd
  <1>6. CASE Sigterm(n) \/ StepFails(n)
    BY <1>6 DEF WorkTyped, LifeTyped, To, EndTick, Sigterm, StepFails
  <1>7. CASE Upgrade(n) \/ Finish(n) \/ Abort(n)
    BY <1>7 DEF WorkTyped, LifeTyped, To, EndTick, Upgrade, Finish, Abort
  <1>8. CASE Exit(n) \/ Crash(n)
    BY <1>8 DEF WorkTyped, LifeTyped, Gone, Exit, Crash
  <1> QED
    BY <1>1, <1>2, <1>3, <1>4, <1>5, <1>6, <1>7, <1>8
       DEF Act, Work, Life, Serve

LEMMA Sole ==
  ASSUME IInv, NEW n \in Node, proc[n].restoring
  PROVE  /\ lease.excl = n /\ lease.shared = {n} /\ proc[n].paused
         /\ \A k \in Node : k # n => proc[k].phase = "down" /\ Quiet(k)
  <1>1. lease.excl = n /\ proc[n].paused
    BY DEF IInv, LeaseSound
  <1>2. lease.shared = {n}
    BY <1>1, ConstantsAssumption DEF IInv, LeaseSound
  <1>3. \A k \in Node : k # n => proc[k].phase = "down"
    BY <1>2 DEF IInv, TypeOK
  <1> QED BY <1>1, <1>2, <1>3 DEF IInv, LifeSound, Serving

LEMMA SoleActs ==
  ASSUME IInv, NEW n \in Node, Act(n), NEW k \in Node, proc[k].restoring
  PROVE  n = k
  <1> SUFFICES ASSUME n # k PROVE FALSE
    OBVIOUS
  <1>0. proc[n].phase = "down" /\ Quiet(n) /\ lease.excl = k
    BY Sole
  <1>1. CASE Plan(n) \/ InsertScheduled(n) \/ Pick(n) \/ Take(n) \/
             JobDone(n) \/ JobFailed(n) \/ Dump(n) \/ UploadData(n) \/
             UploadManifest(n)
    BY <1>1, <1>0
       DEF Quiet, Idle, Plan, InsertScheduled, Pick, Take, JobDone, JobFailed,
           Dump, UploadData, UploadManifest
  <1>2. CASE List(n) \/ CleanData(n) \/ CleanManifest(n) \/
             BackupDone(n) \/ RemoveData(n) \/ RemoveManifest(n) \/
             Verify(n) \/ Upgrade(n) \/ Drain(n)
    BY <1>2, <1>0
       DEF Quiet, Idle, List, CleanData, CleanManifest, BackupDone,
           RemoveData, RemoveManifest, Verify, Upgrade, Drain
  <1>3. CASE Mark(n) \/ Overwrite(n) \/ Revoke(n) \/ CancelJobs(n) \/
             Record(n) \/ Unmark(n) \/ Finish(n) \/ Abort(n) \/
             StepFails(n)
    BY <1>3, <1>0
       DEF Quiet, Idle, Mark, Overwrite, Revoke, CancelJobs, Record, Unmark,
           Finish, Abort, StepFails
  <1>4. CASE Tick(n)
    BY <1>4, <1>0 DEF Quiet, Tick
  <1>5. CASE ReadMarker(n) \/ Recover(n) \/ Exit(n) \/ Stop(n) \/
             Crash(n) \/ Sigterm(n) \/ Admit(n) \/ PassStart(n)
    BY <1>5, <1>0
       DEF ReadMarker, Recover, Exit, Stop, Crash, Sigterm, Admit, PassStart
  <1>6. CASE Respond(n) \/ InsertForRequest(n) \/ CountForRequest(n) \/
             PassEnd(n) \/ ReconcileDone(n)
    BY <1>6, <1>0
       DEF Quiet, Respond, InsertForRequest, CountForRequest, PassEnd,
           ReconcileDone
  <1>7. CASE Boot(n)
    BY <1>7, <1>0, ConstantsAssumption DEF Boot
  <1> QED
    BY <1>1, <1>2, <1>3, <1>4, <1>5, <1>6, <1>7
       DEF Act, Work, Life, Serve

(* Whoever works or fails serves.                                          *)
LEMMA WorksServes ==
  ASSUME IInv, NEW n \in Node, work[n] # Idle \/ proc[n].restoring \/ proc[n].started
  PROVE  Serving(n)
  BY DEF IInv, LifeSound, Quiet

LEMMA Busy ==
  ASSUME IInv, NEW n \in Node, work[n].pc # "idle"
  PROVE  Serving(n) /\ \A k \in Node : k # n => work[k] = Idle
  <1>1. work[n] # Idle
    BY DEF Idle
  <1>2. worker = n /\ \A k \in Node : k # n => work[k].pc = "idle"
    BY TypedParts DEF IInv, WorkTyped
  <1> QED BY <1>1, <1>2, WorksServes DEF IInv, LifeSound

(* The fields of a worker that goes on to another step.                    *)
LEMMA Fields ==
  ASSUME WorkTyped, NEW n \in Node, NEW p, To(n, p)
  PROVE  /\ work'[n].pc = p /\ work'[n].kind = work[n].kind /\ work'[n].job = work[n].job
         /\ work'[n].target = work[n].target /\ work'[n].id = work[n].id
         /\ work'[n].todo = work[n].todo /\ work'[n].ok = work[n].ok
  BY DEF To, WorkTyped, WorkRec

LEMMA Ends ==
  ASSUME WorkTyped, NEW n \in Node, EndTick(n)
  PROVE  work'[n] = Idle
  BY DEF EndTick, WorkTyped

LEMMA FailFields ==
  ASSUME WorkTyped, NEW n \in Node, StepFails(n)
  PROVE  \/ work'[n] = Idle
         \/ /\ work'[n].pc = After(work[n].pc, work[n].kind) /\ work'[n].pc # "idle"
            /\ work'[n].kind = work[n].kind /\ work'[n].job = work[n].job
            /\ work'[n].target = work[n].target /\ work'[n].id = work[n].id
            /\ work'[n].todo = {}
  <1> DEFINE next == After(work[n].pc, work[n].kind)
  <1>1. CASE next = "idle"
    BY <1>1, Ends DEF StepFails
  <1>2. CASE next # "idle"
    <2>1. work' = [work EXCEPT ![n].pc = next, ![n].todo = {}, ![n].ok = next # "finish"]
      BY <1>2 DEF StepFails
    <2> HIDE DEF next
    <2>2. /\ work'[n].pc = next /\ work'[n].kind = work[n].kind /\ work'[n].job = work[n].job
          /\ work'[n].target = work[n].target /\ work'[n].id = work[n].id
          /\ work'[n].todo = {}
      BY <2>1 DEF WorkTyped, WorkRec
    <2> QED BY <1>2, <2>2 DEF next
  <1> QED BY <1>1, <1>2

LEMMA PickFields ==
  ASSUME WorkTyped, NEW n \in Node, Pick(n)
  PROVE  \/ work'[n] = Idle
         \/ \E j \in QueuedIn(jobs) :
              /\ work'[n].pc = "take" /\ work'[n].kind = jobs[j].kind
              /\ work'[n].target = jobs[j].target /\ work'[n].job = j
              /\ work'[n].id = work[n].id
  <1> DEFINE queued == {j \in Job : jobs[j].status = "queued"}
             oldest == CHOOSE i \in queued : \A k \in queued : i <= k
  <1>1. CASE queued = {}
    BY <1>1, Ends DEF Pick
  <1>2. CASE queued # {}
    <2>1. oldest \in queued
      <3> HIDE DEF queued
      <3>1. queued \in SUBSET Nat
        BY ConstantsAssumption DEF queued, Job
      <3> QED BY <1>2, <3>1, Oldest
    <2>2. work' = [work EXCEPT ![n].pc = "take", ![n].job = oldest,
                     ![n].kind = jobs[oldest].kind, ![n].target = jobs[oldest].target]
      BY <1>2 DEF Pick
    <2> HIDE DEF oldest
    <2>3. /\ work'[n].pc = "take" /\ work'[n].kind = jobs[oldest].kind
          /\ work'[n].target = jobs[oldest].target /\ work'[n].job = oldest
          /\ work'[n].id = work[n].id
      BY <2>2 DEF WorkTyped, WorkRec
    <2> QED BY <2>1, <2>3 DEF QueuedIn
  <1> QED BY <1>1, <1>2

LEMMA ActLife ==
  ASSUME IInv, NEW n \in Node, Act(n)
  PROVE  LifeSound(n)'
  <1>0. WorkTyped /\ LifeTyped /\ marker \in Marker \cup {None}
    BY TypedParts DEF IInv, TableTyped
  <1>b. work[n].pc # "idle" => Serving(n)
    BY Busy
  <1>c. LifeSound(n) /\ WorkSound(n)
    BY DEF IInv
  <1>1. CASE Plan(n) \/ InsertScheduled(n) \/ UploadData(n) \/
             UploadManifest(n)
    BY <1>1, <1>0, <1>b, Fields
       DEF Plan, InsertScheduled, UploadData, UploadManifest, LifeSound,
           Serving
  <1>2. CASE CleanData(n) \/ BackupDone(n) \/ RemoveData(n) \/
             RemoveManifest(n)
    BY <1>2, <1>0, <1>b, Fields
       DEF CleanData, BackupDone, RemoveData, RemoveManifest, LifeSound,
           Serving
  <1>3. CASE Verify(n) \/ Drain(n) \/ Mark(n) \/ Overwrite(n)
    BY <1>3, <1>0, <1>b, Fields
       DEF Verify, Drain, Mark, Overwrite, LifeSound, Serving
  <1>4. CASE Revoke(n) \/ CancelJobs(n) \/ Record(n) \/ Unmark(n)
    BY <1>4, <1>0, <1>b, Fields
       DEF Revoke, CancelJobs, Record, Unmark, LifeSound, Serving
  <1>5. CASE Take(n)
    <2>a. work[n].kind \in Kind
      BY <1>5, <1>c DEF Take, WorkSound
    <2>1. FirstStep[work[n].kind] # "idle"
      BY <2>a DEF FirstStep, Kind
    <2> QED BY <1>5, <2>1, <1>0, <1>b, Fields DEF Take, LifeSound, Serving
  <1>6. CASE JobDone(n) \/ JobFailed(n)
    BY <1>6, <1>0, <1>b, Ends DEF JobDone, JobFailed, LifeSound, Serving, Idle
  <1>7. CASE Tick(n)
    <2>1. Serving(n) /\ proc' = proc /\ work'[n].pc = "plan"
      BY <1>7, <1>0, WorksServes DEF Tick, WorkTyped
    <2> QED BY <2>1 DEF LifeSound, Serving
  <1>8. CASE Pick(n)
    BY <1>8, <1>0, <1>b, PickFields DEF Pick, LifeSound, Serving
  <1>9. CASE Dump(n)
    <2>1. PICK b : work' = [work EXCEPT ![n].pc = "data", ![n].id = b]
      BY <1>9 DEF Dump
    <2>2. work'[n].pc = "data"
      BY <2>1, <1>0 DEF WorkTyped
    <2> QED BY <1>9, <2>2, <1>b DEF Dump, LifeSound, Serving
  <1>10. CASE List(n) \/ CleanManifest(n)
    <2>1. PICK todo : work' = [work EXCEPT ![n].pc = "clean", ![n].todo = todo]
      BY <1>10 DEF List, CleanManifest
    <2>a. work'[n].pc = "clean"
      BY <2>1, <1>0 DEF WorkTyped, WorkRec
    <2> QED BY <1>10, <2>a, <1>b DEF List, CleanManifest, LifeSound, Serving
  <1>11. CASE StepFails(n)
    BY <1>11, <1>0, <1>b, FailFields DEF StepFails, LifeSound, Serving
  <1>12. CASE Upgrade(n) \/ Abort(n)
    <2>1. Serving(n)' 
      BY <1>12, <1>0, <1>b DEF Upgrade, Abort, LifeTyped, ProcRec, Serving
    <2>2. work'[n].pc # "idle" 
      BY <1>12, <1>0, Fields DEF Upgrade, Abort
    <2> QED BY <2>1, <2>2 DEF LifeSound, Serving
  <1>13. CASE Finish(n)
    <2>1. Serving(n)' 
      BY <1>13, <1>0, <1>b DEF Finish, LifeTyped, Serving
    <2>2. work'[n].pc # "idle" \/ work'[n] = Idle
      BY <1>13, <1>0, Fields, Ends DEF Finish
    <2> QED BY <2>1, <2>2 DEF LifeSound, Serving
  <1>14. CASE Exit(n) \/ Crash(n)
    <2>1. proc'[n] = Down
      BY <1>14, <1>0 DEF Exit, Crash, Gone, LifeTyped
    <2>2. work'[n] = Idle /\ req'[n] = "none"
      BY <1>14, <1>0, <1>c DEF Exit, Crash, WorkTyped, LifeTyped, LifeSound
    <2> QED BY <2>1, <2>2 DEF LifeSound, Serving, Quiet, Down, Idle
  <1>15. CASE Boot(n)
    <2>1. Quiet(n) /\ work' = work /\ req' = req
      BY <1>15, <1>c DEF Boot, LifeSound, Serving
    <2>2. proc'[n] = [proc[n] EXCEPT !.phase = "boot"]
      BY <1>15, <1>0 DEF Boot, LifeTyped
    <2> QED BY <2>1, <2>2, <1>0
               DEF LifeSound, Serving, Quiet, LifeTyped, ProcRec
  <1>16. CASE ReadMarker(n)
    <2>1. Quiet(n) /\ work' = work /\ req' = req
      BY <1>16, <1>c DEF ReadMarker, LifeSound, Serving
    <2>2. CASE marker = None
      <3>1. proc'[n].phase = "up"
        BY <1>16, <2>2, <1>0 DEF ReadMarker, Listening, LifeTyped, ProcRec
      <3> QED BY <2>1, <3>1, <1>c DEF LifeSound, Serving
    <2>3. CASE marker # None
      <3>1. proc'[n] = [proc[n] EXCEPT !.phase = "recover", !.seen = marker]
        BY <1>16, <2>3, <1>0 DEF ReadMarker, LifeTyped
      <3> QED BY <2>1, <2>3, <3>1, <1>0
                 DEF LifeSound, Serving, Quiet, LifeTyped, ProcRec
    <2> QED BY <2>2, <2>3
  <1>17. CASE Recover(n)
    <2>1. proc'[n].phase = "up" /\ work' = work
      BY <1>17, <1>0 DEF Recover, Listening, LifeTyped, ProcRec
    <2> QED BY <2>1, <1>c DEF LifeSound, Serving
  <1>18. CASE ReconcileDone(n) \/ PassStart(n) \/ PassEnd(n)
    <2>1. Serving(n) /\ work' = work
      BY <1>18, <1>c
         DEF ReconcileDone, PassStart, PassEnd, LifeSound, Serving, Quiet
    <2>2. proc'[n].phase = proc[n].phase
      BY <1>18, <1>0 DEF ReconcileDone, PassStart, PassEnd, LifeTyped, ProcRec
    <2> QED BY <2>1, <2>2, <1>c DEF LifeSound, Serving
  <1>19. CASE Stop(n) \/ Sigterm(n)
    <2>1. proc'[n].phase = "closing" /\ work' = work
      BY <1>19, <1>0 DEF Stop, Sigterm, LifeTyped, ProcRec
    <2> QED BY <2>1, <1>c DEF LifeSound, Serving
  <1>20. CASE Respond(n) \/ InsertForRequest(n) \/ Admit(n) \/
              CountForRequest(n)
    <2>1. Serving(n) /\ work' = work /\ proc' = proc
      BY <1>20, <1>c
         DEF Respond, InsertForRequest, Admit, CountForRequest, LifeSound,
             Quiet, Serving
    <2> QED BY <2>1, <1>c DEF LifeSound, Serving
  <1> QED
    BY <1>1, <1>2, <1>3, <1>4, <1>5, <1>6, <1>7, <1>8, <1>9, <1>10, <1>11,
       <1>12, <1>13, <1>14, <1>15, <1>16, <1>17, <1>18, <1>19, <1>20
       DEF Act, Work, Life, Serve


LEMMA ActOrStutter == [Next]_vars => UNCHANGED vars \/ \E n \in Node : Act(n)
  BY DEF Next, Act

LEMMA ActNext == (\E n \in Node : Act(n)) => [Next]_vars
  BY DEF Next, Act

LEMMA NextLife == IInv /\ [Next]_vars => \A k \in Node : LifeSound(k)'
  <1> SUFFICES ASSUME IInv, [Next]_vars, NEW k \in Node PROVE LifeSound(k)'
    OBVIOUS
  <1>0. LifeSound(k) /\ WorkTyped /\ LifeTyped
    BY TypedParts DEF IInv
  <1>1. CASE UNCHANGED vars
    BY <1>1, <1>0 DEF vars, LifeSound, Serving, Quiet
  <1>2. ASSUME NEW n \in Node, Act(n) PROVE LifeSound(k)'
    <2>1. CASE k = n
      BY <1>2, <2>1, ActLife
    <2>2. CASE k # n
      <3>1. work'[k] = work[k] /\ proc'[k] = proc[k] /\ req'[k] = req[k]
        BY <1>0, <1>2, <2>2, OthersStay
      <3> QED BY <3>1, <1>0 DEF LifeSound, Serving, Quiet
    <2> QED BY <2>1, <2>2
  <1> QED BY <1>1, <1>2, ActOrStutter

(* While the marker is there nobody but the process that acts serves.      *)
LEMMA Marked ==
  ASSUME IInv, NEW n \in Node, Act(n), marker # None
  PROVE  /\ Serving(n) => proc[n].restoring /\ proc[n].paused
         /\ \A k \in Node : k # n => ~Serving(k) /\ ~Serving(k)'
  <1>1. \A k \in Node : Serving(k) => proc[k].restoring
    BY DEF IInv, MarkerSound
  <1>2. \A k \in Node : k # n => ~Serving(k)
    BY <1>1, SoleActs
  <1>3. WorkTyped /\ LifeTyped
    BY TypedParts DEF IInv
  <1>4. \A k \in Node : k # n => proc'[k] = proc[k]
    BY <1>3, OthersStay
  <1> QED BY <1>1, <1>2, <1>4, Sole DEF Serving

(* A step of a process in maintenance, or of one that does not serve yet,  *)
(* while the marker is there.                                              *)
LEMMA MarkedMoves ==
  ASSUME IInv, NEW n \in Node, Act(n), marker # None, marker' # None
  PROVE  /\ marker' = marker /\ s3' = s3
         /\ Serving(n)' => /\ proc'[n].restoring
                           /\ work'[n].pc \in {"overwrite", "revoke", "cancel", "record",
                                               "unmark", "finish", "abort", "fail", "idle"}
  <1>0. WorkTyped /\ LifeTyped /\ MarkerSound
    BY TypedParts DEF IInv
  <1>a. /\ Serving(n) => proc[n].restoring /\ proc[n].paused
        /\ Serving(n) => work[n].pc \in {"overwrite", "revoke", "cancel", "record",
                                         "unmark", "finish", "abort", "fail", "idle"}
    BY <1>0, Marked DEF MarkerSound
  <1>b. work[n].pc # "idle" => Serving(n)
    BY Busy
  <1>c. ~Serving(n) => Quiet(n)
    BY DEF IInv, LifeSound
  <1>1. CASE Plan(n) \/ InsertScheduled(n) \/ Pick(n) \/ Take(n) \/
             JobDone(n) \/ Dump(n) \/ UploadData(n) \/
             UploadManifest(n) \/ List(n)
    BY <1>1, <1>a, <1>b
       DEF Plan, InsertScheduled, Pick, Take, JobDone, Dump, UploadData,
           UploadManifest, List
  <1>2. CASE CleanData(n) \/ CleanManifest(n) \/ BackupDone(n) \/
             RemoveData(n) \/ RemoveManifest(n) \/ Verify(n) \/
             Upgrade(n) \/ Drain(n)
    BY <1>2, <1>a, <1>b
       DEF CleanData, CleanManifest, BackupDone, RemoveData, RemoveManifest,
           Verify, Upgrade, Drain
  <1>3. CASE Unmark(n) \/ Abort(n) \/ Recover(n)
    BY <1>3 DEF Unmark, Abort, Recover
  <1>4. CASE Tick(n) \/ Admit(n) \/ PassStart(n)
    BY <1>4, <1>a, <1>c DEF Tick, Admit, PassStart, Serving, Quiet
  <1>5. CASE Mark(n)
    BY <1>5, <1>a, <1>b DEF Mark
  <1>6. CASE Overwrite(n) \/ Revoke(n) \/ CancelJobs(n) \/ Record(n)
    BY <1>6, <1>0, <1>a, <1>b, Fields
       DEF Overwrite, Revoke, CancelJobs, Record
  <1>7. CASE JobFailed(n)
    BY <1>7, <1>0, <1>a, <1>b, Ends DEF JobFailed, Idle
  <1>8. CASE Finish(n)
    <2>1. proc'[n].restoring = proc[n].restoring
      BY <1>8, <1>0 DEF Finish, LifeTyped, ProcRec
    <2> QED BY <1>8, <2>1, <1>0, <1>a, <1>b, Ends, Fields DEF Finish, Idle
  <1>9. CASE StepFails(n)
    <2>1. Serving(n) /\ work[n].pc \in {"overwrite", "revoke", "cancel", "record", "unmark", "abort", "fail"}
      BY <1>9, <1>a, <1>b DEF StepFails
    <2>3. proc' = proc /\ s3' = s3 /\ marker' = marker
      BY <1>9 DEF StepFails
    <2>2. After(work[n].pc, work[n].kind) \in {"finish", "abort", "fail", "idle"}
      BY <2>1 DEF After
    <2>4. work'[n].pc \in {"finish", "abort", "fail", "idle"}
      BY <1>9, <2>2, <1>0, FailFields DEF Idle
    <2> QED BY <2>1, <2>3, <2>4, <1>a
  <1>10. CASE Exit(n) \/ Crash(n)
    <2>1. proc'[n] = Down
      BY <1>10, <1>0 DEF Exit, Crash, Gone, LifeTyped
    <2> QED BY <1>10, <2>1 DEF Exit, Crash, Serving, Down
  <1>11. CASE Boot(n) \/ ReadMarker(n)
    <2>a. \/ proc' = [proc EXCEPT ![n].phase = "boot"]
          \/ proc' = [proc EXCEPT ![n] = [proc[n] EXCEPT !.phase = "recover", !.seen = marker]]
      BY <1>11 DEF Boot, ReadMarker
    <2>b. proc[n] \in ProcRec
      BY <1>0 DEF LifeTyped
    <2>c. \/ proc'[n] = [proc[n] EXCEPT !.phase = "boot"]
          \/ proc'[n] = [proc[n] EXCEPT !.phase = "recover", !.seen = marker]
      BY <2>a, <1>0 DEF LifeTyped
    <2>1. proc'[n].phase \in {"boot", "recover"}
      BY <2>b, <2>c DEF ProcRec
    <2> QED BY <1>11, <2>1 DEF Boot, ReadMarker, Serving
  <1>12. CASE ReconcileDone(n) \/ PassEnd(n) \/ Stop(n) \/ Sigterm(n)
    <2>1. proc'[n].restoring = proc[n].restoring /\ work' = work /\ Serving(n)
      BY <1>12, <1>0, <1>c
         DEF ReconcileDone, PassEnd, Stop, Sigterm, LifeTyped, ProcRec,
             Serving, Quiet
    <2> QED BY <1>12, <2>1, <1>a DEF ReconcileDone, PassEnd, Stop, Sigterm
  <1>13. CASE Respond(n) \/ InsertForRequest(n) \/ CountForRequest(n)
    BY <1>13, <1>a, <1>c
       DEF Respond, InsertForRequest, CountForRequest, Quiet, Serving
  <1> QED
    BY <1>1, <1>2, <1>3, <1>4, <1>5, <1>6, <1>7, <1>8, <1>9, <1>10, <1>11,
       <1>12, <1>13
       DEF Act, Work, Life, Serve

(* The marker is set by a restore that is alone and has its safety backup. *)
LEMMA MarkerComes ==
  ASSUME IInv, NEW n \in Node, Act(n), marker = None, marker' # None
  PROVE  Mark(n)
  <1>1. CASE Tick(n) \/ Plan(n) \/ InsertScheduled(n) \/ Pick(n) \/
             Take(n) \/ JobDone(n) \/ JobFailed(n) \/ Dump(n) \/
             UploadData(n) \/ UploadManifest(n) \/ List(n) \/
             CleanData(n) \/ CleanManifest(n) \/ BackupDone(n)
    BY <1>1
       DEF Tick, Plan, InsertScheduled, Pick, Take, JobDone, JobFailed, Dump,
           UploadData, UploadManifest, List, CleanData, CleanManifest,
           BackupDone
  <1>2. CASE RemoveData(n) \/ RemoveManifest(n) \/ Verify(n) \/
             Upgrade(n) \/ Drain(n) \/ Overwrite(n) \/ Revoke(n) \/
             CancelJobs(n) \/ Record(n) \/ Unmark(n) \/ Finish(n) \/
             Abort(n) \/ Boot(n) \/ ReadMarker(n)
    BY <1>2
       DEF RemoveData, RemoveManifest, Verify, Upgrade, Drain, Overwrite,
           Revoke, CancelJobs, Record, Unmark, Finish, Abort, Boot, ReadMarker
  <1>3. CASE Recover(n) \/ ReconcileDone(n) \/ Stop(n) \/ Exit(n) \/
             Respond(n) \/ InsertForRequest(n) \/ Admit(n) \/
             CountForRequest(n) \/ PassStart(n) \/ PassEnd(n) \/
             Sigterm(n) \/ Crash(n) \/ StepFails(n)
    BY <1>3
       DEF Recover, ReconcileDone, Stop, Exit, Respond, InsertForRequest,
           Admit, CountForRequest, PassStart, PassEnd, Sigterm, Crash,
           StepFails
  <1>4. CASE Mark(n)
    BY <1>4
  <1> QED
    BY <1>1, <1>2, <1>3, <1>4
       DEF Act, Work, Life, Serve

LEMMA NextMarker == IInv /\ [Next]_vars => MarkerSound'
  <1> SUFFICES ASSUME IInv, [Next]_vars PROVE MarkerSound'
    OBVIOUS
  <1>0. WorkTyped /\ LifeTyped /\ MarkerSound
    BY TypedParts DEF IInv
  <1>1. CASE UNCHANGED vars
    BY <1>1, <1>0 DEF vars, MarkerSound, Complete, Serving
  <1>2. ASSUME NEW n \in Node, Act(n), marker' # None PROVE MarkerSound'
    <2>1. CASE marker # None
      <3>1. \A k \in Node : k # n => ~Serving(k)'
        BY <1>2, <2>1, Marked
      <3>2. marker' = marker /\ s3' = s3
        BY <1>2, <2>1, MarkedMoves
      <3>3. Complete(marker.pre)'
        BY <2>1, <3>2, <1>0 DEF MarkerSound, Complete
      <3>4. Serving(n)' => /\ proc'[n].restoring
                           /\ work'[n].pc \in {"overwrite", "revoke", "cancel", "record",
                                               "unmark", "finish", "abort", "fail", "idle"}
        BY <1>2, <2>1, MarkedMoves
      <3> QED BY <3>1, <3>3, <3>4 DEF MarkerSound
    <2>2. CASE marker = None
      <3>1. Mark(n)
        BY <1>2, <2>2, MarkerComes
      <3>2. work[n].kind = "restore" /\ proc[n].restoring /\ Complete(work[n].id)
        BY <3>1 DEF Mark, IInv, WorkSound, RestorePc, AloneSound, SafetySound
      <3>3. \A k \in Node : k # n => ~Serving(k)
        BY <3>2, Sole DEF Serving
      <3>4. /\ marker'.pre = work[n].id /\ s3' = s3 /\ proc' = proc
            /\ work'[n].pc = "overwrite"
        BY <3>1, <1>0, Fields DEF Mark
      <3>5. Complete(marker.pre)'
        BY <3>2, <3>4 DEF Complete
      <3> QED BY <3>2, <3>3, <3>4, <3>5 DEF MarkerSound, Serving
    <2> QED BY <2>1, <2>2
  <1> QED BY <1>1, <1>2, ActOrStutter DEF MarkerSound

-----------------------------------------------------------------------------
(* The tables hold what is to be revoked or cancelled only after they were *)
(* overwritten.                                                            *)
LEMMA RevivedComes ==
  ASSUME NEW n \in Node, Act(n), revived', ~revived
  PROVE  work[n].pc = "overwrite" /\ (Overwrite(n) \/ Crash(n))
  <1>1. CASE Tick(n) \/ Plan(n) \/ InsertScheduled(n) \/ Pick(n) \/
             Take(n) \/ JobDone(n) \/ JobFailed(n) \/ Dump(n) \/
             UploadData(n) \/ UploadManifest(n) \/ List(n) \/
             CleanData(n) \/ CleanManifest(n)
    BY <1>1
       DEF Tick, Plan, InsertScheduled, Pick, Take, JobDone, JobFailed, Dump,
           UploadData, UploadManifest, List, CleanData, CleanManifest
  <1>2. CASE BackupDone(n) \/ RemoveData(n) \/ RemoveManifest(n) \/
             Verify(n) \/ Upgrade(n) \/ Drain(n) \/ Mark(n) \/
             CancelJobs(n) \/ Record(n) \/ Unmark(n) \/ Finish(n) \/
             Abort(n) \/ Boot(n)
    BY <1>2
       DEF BackupDone, RemoveData, RemoveManifest, Verify, Upgrade, Drain,
           Mark, CancelJobs, Record, Unmark, Finish, Abort, Boot
  <1>3. CASE ReadMarker(n) \/ ReconcileDone(n) \/ Stop(n) \/ Exit(n) \/
             Respond(n) \/ InsertForRequest(n) \/ Admit(n) \/
             CountForRequest(n) \/ PassStart(n) \/ PassEnd(n) \/
             Sigterm(n) \/ StepFails(n)
    BY <1>3
       DEF ReadMarker, ReconcileDone, Stop, Exit, Respond, InsertForRequest,
           Admit, CountForRequest, PassStart, PassEnd, Sigterm, StepFails
  <1>4. CASE Overwrite(n) \/ Crash(n) \/ Revoke(n) \/ Recover(n)
    BY <1>4 DEF Overwrite, Crash, Revoke, Recover
  <1> QED
    BY <1>1, <1>2, <1>3, <1>4
       DEF Act, Work, Life, Serve

LEMMA DirtyComes ==
  ASSUME IInv, NEW n \in Node, Act(n), Dirty', ~Dirty
  PROVE  work[n].pc = "overwrite" /\ (Overwrite(n) \/ Crash(n))
  <1>0. /\ TableTyped /\ BegunSound /\ begun \in [Job -> Nat] /\ WorkTyped
        /\ \A k \in Node : WorkSound(k)
    BY TypedParts DEF IInv, TableTyped
  <1>1. CASE revived'
    BY <1>1, RevivedComes DEF Dirty
  <1>2. ASSUME NEW j \in Job, begun'[j] >= 1, jobs'[j].status = "queued"
        PROVE  work[n].pc = "overwrite" /\ (Overwrite(n) \/ Crash(n))
    <2>1. ASSUME NEW k \in Node, Take(k) PROVE begun'[j] = begun[j]
      <3>1. work[k].job \in Job
        BY <2>1, <1>0 DEF Take, WorkSound
      <3>2. jobs'[work[k].job].status = "running"
        BY <2>1, <3>1, <1>0 DEF Take, TableTyped, Table, JobRow
      <3> QED BY <2>1, <3>1, <3>2, <1>0, <1>2 DEF Take
    <2>2. begun'[j] = begun[j]
      BY <2>1, BegunByTake, ActNext
    <2>3. jobs[j].status # "queued"
      BY <2>2, <1>2 DEF Dirty
    <2>4. CASE RowsEnd
      BY <2>3, <2>4, <1>2 DEF RowsEnd, Given, Settled
    <2>5. CASE RowAdded
      <3>1. j = made + 1
        BY <2>3, <2>5, <1>0, <1>2 DEF RowAdded, TableTyped, Table
      <3>2. begun[j] = 0
        BY <3>1, <1>0, ConstantsAssumption DEF BegunSound, TableTyped, Job
      <3> QED BY <2>2, <3>2, <1>2
    <2>6. CASE RowTaken
      BY <2>3, <2>6, <1>0, <1>2 DEF RowTaken, TableTyped, Table, JobRow
    <2>7. CASE TableBack
      <3>1. PICK k \in Node : (Overwrite(k) \/ Crash(k)) /\ work[k].pc = "overwrite"
        BY <2>7 DEF TableBack
      <3>2. work[k] # Idle /\ proc[k].restoring
        BY <3>1, Silence DEF Idle
      <3>3. k = n
        BY <3>2, SoleActs
      <3> QED BY <3>1, <3>3
    <2> QED BY <2>4, <2>5, <2>6, <2>7, NextTable, ActNext DEF TableStep
  <1> QED BY <1>1, <1>2 DEF Dirty

LEMMA DirtyMoves ==
  ASSUME IInv, NEW n \in Node, Act(n), Dirty, Dirty'
  PROVE  /\ marker' # None
         /\ Serving(n)' => /\ Drained(n)'
                           /\ \/ work'[n].pc \in {"revoke", "cancel", "finish"}
                              \/ work'[n].pc \in {"fail", "idle"} /\ proc'[n].stopped
  <1>0. WorkTyped /\ LifeTyped /\ marker # None /\ WorkSound(n) /\ AloneSound(n)
    BY TypedParts DEF IInv, DirtySealed
  <1>a. /\ Serving(n) => proc[n].restoring /\ proc[n].paused
        /\ Serving(n) => /\ Drained(n)
                         /\ \/ work[n].pc \in {"revoke", "cancel", "finish"}
                            \/ work[n].pc \in {"fail", "idle"} /\ proc[n].stopped
    BY <1>0, Marked DEF IInv, DirtySealed
  <1>b. work[n].pc # "idle" => Serving(n)
    BY Busy
  <1>c. ~Serving(n) => Quiet(n) /\ (proc[n].phase = "recover" => proc[n].seen \in Marker)
    BY DEF IInv, LifeSound
  <1>1. CASE Plan(n) \/ InsertScheduled(n) \/ Pick(n) \/ Take(n) \/
             JobDone(n) \/ Dump(n) \/ UploadData(n) \/
             UploadManifest(n) \/ List(n) \/ CleanData(n) \/
             CleanManifest(n)
    BY <1>1, <1>a, <1>b
       DEF Plan, InsertScheduled, Pick, Take, JobDone, Dump, UploadData,
           UploadManifest, List, CleanData, CleanManifest
  <1>2. CASE BackupDone(n) \/ RemoveData(n) \/ RemoveManifest(n) \/
             Verify(n) \/ Upgrade(n) \/ Drain(n) \/ Mark(n) \/
             Overwrite(n) \/ Record(n) \/ Unmark(n) \/ Abort(n)
    BY <1>2, <1>a, <1>b
       DEF BackupDone, RemoveData, RemoveManifest, Verify, Upgrade, Drain,
           Mark, Overwrite, Record, Unmark, Abort
  <1>3. CASE Tick(n) \/ Admit(n) \/ PassStart(n)
    BY <1>3, <1>a, <1>c DEF Tick, Admit, PassStart, Serving, Quiet
  <1>4. CASE Revoke(n)
    BY <1>4, <1>0, <1>a, <1>b, Fields DEF Revoke, Drained
  <1>5. CASE CancelJobs(n)
    <2>1. ~revived /\ revived' = revived
      BY <1>5, <1>0 DEF CancelJobs, WorkSound, RestorePc, AloneSound
    <2>2. \A j \in Job : jobs'[j].status # "queued"
      <3>1. jobs \in Table
        BY TypedParts DEF IInv, TableTyped
      <3> QED BY <1>5, <3>1 DEF CancelJobs, Cancelled, Open, Table, JobRow
    <2> QED BY <2>1, <2>2 DEF Dirty
  <1>6. CASE Recover(n)
    <2>1. ~revived'
      BY <1>6 DEF Recover
    <2>2. \A j \in Job : jobs'[j].status # "queued"
      <3>1. jobs \in Table
        BY TypedParts DEF IInv, TableTyped
      <3>2. proc[n].seen.job \in Job
        BY <1>6, <1>c DEF Recover, Serving, Marker
      <3>3. \A j \in Job : Cancelled(jobs)[j].status # "queued"
        BY <3>1 DEF Cancelled, Open, Table, JobRow
      <3>4. jobs' = [Cancelled(jobs) EXCEPT ![proc[n].seen.job] = Outcome(proc[n].seen.target, "failed")]
        BY <1>6 DEF Recover
      <3>5. DOMAIN Cancelled(jobs) = Job
        BY DEF Cancelled
      <3>6. Outcome(proc[n].seen.target, "failed").status = "failed"
        BY DEF Outcome
      <3> HIDE DEF Cancelled, Outcome
      <3> QED BY <3>3, <3>4, <3>5, <3>6
    <2> QED BY <2>1, <2>2 DEF Dirty
  <1>7. CASE JobFailed(n)
    BY <1>7, <1>0, <1>a, <1>b, Ends DEF JobFailed, Idle, Drained
  <1>8. CASE Finish(n)
    <2>1. /\ proc'[n].stopped /\ proc'[n].pass = proc[n].pass
          /\ proc'[n].reconciling = proc[n].reconciling /\ req' = req
      BY <1>8, <1>0 DEF Finish, LifeTyped, ProcRec
    <2>2. work'[n].pc \in {"fail", "idle"}
      BY <1>8, <1>0, Ends, Fields DEF Finish, Idle
    <2>3. Serving(n) /\ marker' = marker
      BY <1>8, <1>b DEF Finish
    <2> QED BY <2>1, <2>2, <2>3, <1>0, <1>a DEF Drained
  <1>9. CASE StepFails(n)
    <2>1. \/ work[n].pc \in {"revoke", "cancel"}
          \/ work[n].pc = "fail" /\ proc[n].stopped
      BY <1>9, <1>a, <1>b DEF StepFails
    <2>2. proc' = proc /\ marker' = marker /\ req' = req /\ Serving(n)
      BY <1>9, <1>b DEF StepFails
    <2>3. \/ work[n].pc \in {"revoke", "cancel"} /\ After(work[n].pc, work[n].kind) = "finish"
          \/ proc[n].stopped /\ After(work[n].pc, work[n].kind) = "idle"
      BY <2>1 DEF After
    <2>4. work'[n].pc = "finish" \/ (work'[n].pc = "idle" /\ proc[n].stopped) 
      <3>1. CASE work[n].pc = "fail" /\ proc[n].stopped
        BY <1>9, <2>3, <3>1, <1>0, FailFields DEF Idle
      <3>2. CASE work[n].pc \in {"revoke", "cancel"}
        <4>1. After(work[n].pc, work[n].kind) = "finish"
          BY <3>2 DEF After
        <4>2. work' = [work EXCEPT ![n].pc = "finish", ![n].todo = {}, ![n].ok = FALSE]
          BY <1>9, <4>1 DEF StepFails
        <4> QED BY <4>2, <1>0 DEF WorkTyped, WorkRec
      <3> QED BY <2>1, <3>1, <3>2
    <2> QED BY <2>2, <2>4, <1>0, <1>a DEF Drained
  <1>10. CASE Exit(n) \/ Crash(n)
    <2>1. proc'[n] = Down
      BY <1>10, <1>0 DEF Exit, Crash, Gone, LifeTyped
    <2> QED BY <1>10, <2>1, <1>0 DEF Exit, Crash, Serving, Down
  <1>11. CASE Boot(n) \/ ReadMarker(n)
    <2>a. \/ proc' = [proc EXCEPT ![n].phase = "boot"]
          \/ proc' = [proc EXCEPT ![n] = [proc[n] EXCEPT !.phase = "recover", !.seen = marker]]
      BY <1>11, <1>0 DEF Boot, ReadMarker
    <2>b. proc[n] \in ProcRec
      BY <1>0 DEF LifeTyped
    <2>c. \/ proc'[n] = [proc[n] EXCEPT !.phase = "boot"]
          \/ proc'[n] = [proc[n] EXCEPT !.phase = "recover", !.seen = marker]
      BY <2>a, <1>0 DEF LifeTyped
    <2>1. proc'[n].phase \in {"boot", "recover"}
      BY <2>b, <2>c DEF ProcRec
    <2> QED BY <1>11, <2>1, <1>0 DEF Boot, ReadMarker, Serving
  <1>12. CASE ReconcileDone(n) \/ PassEnd(n) \/ Stop(n) \/ Sigterm(n)
    <2>1. /\ Serving(n) /\ work' = work /\ marker' = marker
          /\ proc[n].stopped => proc'[n].stopped
          /\ (proc'[n].pass => proc[n].pass) /\ (proc'[n].reconciling => proc[n].reconciling)
          /\ req' = req
      BY <1>12, <1>0, <1>c
         DEF ReconcileDone, PassEnd, Stop, Sigterm, LifeTyped, ProcRec,
             Serving, Quiet
    <2> QED BY <2>1, <1>0, <1>a DEF Drained
  <1>13. CASE Respond(n) \/ InsertForRequest(n) \/ CountForRequest(n)
    <2>1. Serving(n) /\ req[n] # "none"
      BY <1>13, <1>c
         DEF Respond, InsertForRequest, CountForRequest, Quiet, Serving
    <2> QED BY <2>1, <1>a DEF Drained
  <1> QED
    BY <1>1, <1>2, <1>3, <1>4, <1>5, <1>6, <1>7, <1>8, <1>9, <1>10, <1>11,
       <1>12, <1>13
       DEF Act, Work, Life, Serve

LEMMA NextDirty == IInv /\ [Next]_vars => DirtySealed'
  <1> SUFFICES ASSUME IInv, [Next]_vars PROVE DirtySealed'
    OBVIOUS
  <1>0. WorkTyped /\ LifeTyped /\ DirtySealed /\ \A k \in Node : AloneSound(k)
    BY TypedParts DEF IInv
  <1>1. CASE UNCHANGED vars
    BY <1>1, <1>0 DEF vars, DirtySealed, Dirty, Serving, Drained
  <1>2. ASSUME NEW n \in Node, Act(n), Dirty' PROVE DirtySealed'
    <2>1. CASE Dirty
      <3>1. marker # None
        BY <2>1, <1>0 DEF DirtySealed
      <3>2. \A k \in Node : k # n => ~Serving(k)'
        BY <1>2, <3>1, Marked
      <3>3. /\ marker' # None
            /\ Serving(n)' => /\ Drained(n)'
                              /\ \/ work'[n].pc \in {"revoke", "cancel", "finish"}
                                 \/ work'[n].pc \in {"fail", "idle"} /\ proc'[n].stopped
        BY <1>2, <2>1, DirtyMoves
      <3> QED BY <3>2, <3>3 DEF DirtySealed
    <2>2. CASE ~Dirty
      <3>1. work[n].pc = "overwrite" /\ (Overwrite(n) \/ Crash(n))
        BY <1>2, <2>2, DirtyComes
      <3>2. marker # None
        BY <3>1, <1>0, Silence DEF AloneSound
      <3>3. \A k \in Node : k # n => ~Serving(k)'
        BY <1>2, <3>2, Marked
      <3>4. CASE Overwrite(n)
        <4>1. marker' = marker /\ work'[n].pc = "revoke" /\ proc' = proc /\ req' = req
          BY <3>4, <1>0, Fields DEF Overwrite
        <4>2. Drained(n)
          BY <3>1, ConstantsAssumption
             DEF IInv, WorkSound, AloneSound, RestorePc
        <4> QED BY <3>2, <3>3, <4>1, <4>2 DEF DirtySealed, Drained
      <3>5. CASE Crash(n)
        <4>1. marker' = marker /\ proc'[n] = Down
          BY <3>5, <1>0 DEF Crash, Gone, LifeTyped
        <4>2. ~Serving(n)'
          BY <4>1 DEF Serving, Down
        <4> QED BY <3>2, <3>3, <4>1, <4>2 DEF DirtySealed
      <3> QED BY <3>1, <3>4, <3>5
    <2> QED BY <2>1, <2>2
  <1> QED BY <1>1, <1>2, ActOrStutter DEF DirtySealed

-----------------------------------------------------------------------------
(* The steps that are no work on a job leave the work alone.               *)
Calm(n) ==
  \/ Life(n) \/ Serve(n) \/ Admit(n) \/ CountForRequest(n)
  \/ PassStart(n) \/ PassEnd(n) \/ Sigterm(n)

LEMMA CalmStep ==
  ASSUME IInv, NEW n \in Node, Calm(n)
  PROVE  /\ work' = work /\ s3' = s3 /\ begun' = begun
         /\ RowsEnd \/ RowAdded
  <1>0. /\ WorkTyped /\ LifeTyped /\ begun \in [Job -> Nat]
        /\ \A k \in Node : WorkSound(k) /\ LifeSound(k)
    BY TypedParts DEF IInv, TableTyped
  <1>1. work' = work /\ s3' = s3 /\ begun' = begun
    BY
       DEF Calm, Life, Serve, Boot, ReadMarker, Recover, ReconcileDone, Stop,
           Exit, Respond, InsertForRequest, Admit, CountForRequest, PassStart,
           PassEnd, Sigterm
  <1>2. Act(n)
    BY DEF Calm, Act
  <1>3. ASSUME RowTaken PROVE FALSE
    <2>1. PICK k \in Node : Take(k) /\ work[k].job \in Job
      BY <1>3 DEF RowTaken
    <2>2. begun'[work[k].job] = begun[work[k].job] + 1
      BY <2>1, <1>0 DEF Take
    <2> QED BY <1>0, <1>1, <2>1, <2>2
  <1>4. ASSUME TableBack PROVE FALSE
    <2>1. PICK k \in Node : (Overwrite(k) \/ Crash(k)) /\ work[k].pc = "overwrite"
      BY <1>4 DEF TableBack
    <2>2. work'[k].pc # "overwrite"
      BY <2>1, <1>0, Fields DEF Overwrite, Crash, WorkTyped, Idle
    <2> QED BY <1>1, <2>1, <2>2
  <1> QED BY <1>1, <1>2, <1>3, <1>4, NextTable, ActNext DEF TableStep

LEMMA IdleWork ==
  ASSUME NEW n \in Node, work'[n] = Idle
  PROVE  WorkSound(n)' /\ SafetySound(n)' /\ AloneSound(n)'
  <1>1. None \notin {"backup", "delete_backup", "restore", "inspection"}
    BY ConstantsAssumption DEF Kind
  <1> QED BY <1>1
             DEF WorkSound, SafetySound, AloneSound, Idle, RestorePc, BackupPc

(* The work of a process is as sound as it was if others do what may be    *)
(* done next to it.                                                        *)
LEMMA WorkStays ==
  ASSUME WorkTyped, TableTyped, BegunSound, NEW k \in Node, WorkSound(k), work'[k] = work[k],
         s3' = s3, begun' = begun, RowsEnd \/ RowAdded \/ (jobs' = jobs /\ made' = made)
  PROVE  WorkSound(k)'
  <1>1. made \in Nat /\ made' \in Nat /\ made <= made'
    BY ConstantsAssumption DEF TableTyped, RowsEnd, RowAdded
  <1>2. \A j \in Job : /\ jobs[j].status # "none" => jobs'[j].status # "none"
                       /\ jobs[j].status # "running" => jobs'[j].status # "running"
    <2>1. CASE RowsEnd
      BY <2>1 DEF RowsEnd, Given, Settled
    <2>2. CASE RowAdded
      BY <2>2 DEF RowAdded, Queued, TableTyped, Table
    <2> QED BY <2>1, <2>2
  <1>3. work[k].pc \notin {"idle", "plan", "insert", "pick"} => work[k].job \in Job
    BY DEF WorkSound
  <1>4. work[k].pc = "take" => work[k].job <= made'
    BY <1>1, <1>3 DEF WorkSound, Job
  <1> QED BY <1>1, <1>2, <1>3, <1>4 DEF WorkSound

(* While one process works on a job, the others do nothing to jobs.        *)
LEMMA OthersCalm ==
  ASSUME IInv, NEW n \in Node, Act(n), NEW k \in Node, k # n, work[k].pc # "idle"
  PROVE  work[n] = Idle /\ (Calm(n) \/ Crash(n))
  <1>1. work[n] = Idle /\ worker # None
    <2>1. work[n] = Idle /\ worker = k
      BY TypedParts, Busy DEF IInv, WorkTyped
    <2> QED BY <2>1, ConstantsAssumption
  <1>2. Calm(n) \/ Crash(n)
    <2>1. ~(Plan(n) \/ InsertScheduled(n) \/ Pick(n) \/ Take(n) \/ JobDone(n) \/
            JobFailed(n) \/ Dump(n) \/ UploadData(n) \/ UploadManifest(n))
      BY <1>1
         DEF Idle, Plan, InsertScheduled, Pick, Take, JobDone, JobFailed,
             Dump, UploadData, UploadManifest
    <2>2. ~(List(n) \/ CleanData(n) \/ CleanManifest(n) \/ BackupDone(n) \/
            RemoveData(n) \/ RemoveManifest(n) \/ Verify(n) \/ Upgrade(n) \/
            Drain(n))
      BY <1>1
         DEF Idle, List, CleanData, CleanManifest, BackupDone, RemoveData,
             RemoveManifest, Verify, Upgrade, Drain
    <2>3. ~(Mark(n) \/ Overwrite(n) \/ Revoke(n) \/ CancelJobs(n) \/ Record(n) \/
            Unmark(n) \/ Finish(n) \/ Abort(n) \/ StepFails(n))
      BY <1>1
         DEF Idle, Mark, Overwrite, Revoke, CancelJobs, Record, Unmark,
             Finish, Abort, StepFails
    <2>4. ~Tick(n)
      BY <1>1 DEF Tick
    <2> QED BY <2>1, <2>2, <2>3, <2>4 DEF Act, Work, Calm
  <1> QED BY <1>1, <1>2

LEMMA WorkOthers ==
  ASSUME IInv, NEW n \in Node, Act(n), NEW k \in Node, k # n
  PROVE  WorkSound(k)'
  <1>0. WorkTyped /\ LifeTyped /\ TableTyped /\ BegunSound /\ WorkSound(k) /\ LifeSound(k)
    BY TypedParts DEF IInv
  <1>1. work'[k] = work[k]
    BY <1>0, OthersStay
  <1>2. CASE work[k].pc = "idle"
    BY <1>0, <1>1, <1>2, IdleWork DEF LifeSound
  <1>3. CASE work[k].pc # "idle"
    <2>1. work[n] = Idle /\ (Calm(n) \/ Crash(n))
      BY <1>3, OthersCalm
    <2>3. CASE Calm(n)
      BY <1>0, <1>1, <2>3, CalmStep, WorkStays
    <2>4. CASE Crash(n)
      BY <1>0, <1>1, <2>1, <2>4, WorkStays DEF Crash, Idle
    <2> QED BY <2>1, <2>3, <2>4
  <1> QED BY <1>2, <1>3

(* A step of the work that goes on to p.                                   *)
LEMMA MoveSound ==
  ASSUME WorkTyped, NEW n \in Node, NEW p, WorkSound(n), To(n, p),
         work[n].pc \notin {"idle", "plan", "insert", "pick"},
         p \notin {"idle", "plan", "insert", "pick", "take"},
         \A b \in Backup : s3[b].reason # None => s3'[b].reason # None,
         \/ work[n].kind = "restore"
         \/ \A j \in Job : jobs[j].status # "none" => jobs'[j].status # "none",
         p \in RestorePc => work[n].kind = "restore",
         p \in BackupPc => work[n].kind \in {"backup", "restore"},
         p \in {"rm_data", "rm_manifest"} => work[n].kind = "delete_backup",
         p = "done" => work[n].kind # "restore",
         p \in {"data", "manifest", "list", "clean", "clean_manifest", "mark",
                "overwrite", "revoke", "cancel", "record", "unmark"} =>
           work[n].pc \in {"data", "manifest", "list", "clean", "clean_manifest", "mark",
                           "overwrite", "revoke", "cancel", "record", "unmark"},
         p = "clean_manifest" => work[n].todo # {},
         p \in {"verify", "upgrade", "drain", "dump"} =>
           work[n].pc \in {"take", "verify", "upgrade", "drain", "dump"}
  PROVE  WorkSound(n)'
  <1>1. /\ work'[n].pc = p /\ work'[n].kind = work[n].kind /\ work'[n].job = work[n].job
        /\ work'[n].target = work[n].target /\ work'[n].id = work[n].id
        /\ work'[n].todo = work[n].todo
    BY Fields
  <1>2. work[n].job \in Job /\ work[n].kind \in Kind
    BY DEF WorkSound
  <1>3. work'[n].kind # "restore" => jobs'[work[n].job].status # "none"
    BY <1>1, <1>2 DEF WorkSound
  <1> QED BY <1>1, <1>2, <1>3 DEF WorkSound

LEMMA ActWork ==
  ASSUME IInv, NEW n \in Node, Act(n)
  PROVE  WorkSound(n)'
  <1>0. WorkTyped /\ LifeTyped /\ TableTyped /\ StoreTyped /\ BegunSound
    BY TypedParts DEF IInv
  <1>a. WorkSound(n) /\ LifeSound(n) /\ RowsSound(jobs) /\ DirtySealed
    BY DEF IInv, TablesSound
  <1>b. \A k \in Node : k # n /\ work[n].pc # "idle" => work[k] = Idle
    BY Busy
  <1>c. None \notin {"backup", "delete_backup", "restore", "inspection"}
    BY ConstantsAssumption DEF Kind
  <1>1. CASE Boot(n) \/ ReadMarker(n) \/ Recover(n) \/ ReconcileDone(n) \/
             Stop(n) \/ Exit(n) \/ Respond(n) \/ InsertForRequest(n) \/
             Admit(n) \/ CountForRequest(n) \/ PassStart(n) \/
             PassEnd(n) \/ Sigterm(n)
    BY <1>1, <1>0, <1>a, CalmStep, WorkStays DEF Calm, Life, Serve
  <1>2. CASE Crash(n)
    <2>1. work'[n] = Idle
      BY <1>2, <1>0 DEF Crash, WorkTyped
    <2> QED BY <2>1, IdleWork
  <1>3. CASE JobDone(n) \/ JobFailed(n)
    BY <1>3, <1>0, Ends, IdleWork DEF JobDone, JobFailed
  <1>4. CASE Tick(n)
    <2>1. work[n] = Idle
      BY <1>4, <1>a DEF Tick, LifeSound
    <2>2. work'[n] = [Idle EXCEPT !.pc = "plan"]
      BY <1>4, <2>1, <1>0 DEF Tick, WorkTyped
    <2>3. \A j \in Job : jobs'[j].status # "running"
      BY <1>4, <1>0 DEF Tick, TableTyped, Table, JobRow
    <2> QED BY <2>2, <2>3, <1>c DEF WorkSound, Idle, RestorePc, BackupPc
  <1>5. CASE Plan(n)
    <2>1. jobs' = jobs /\ work[n].pc = "plan"
      BY <1>5 DEF Plan
    <2>2. PICK p \in {"insert", "pick"} : To(n, p)
      BY <1>5 DEF Plan
    <2>3. /\ work'[n].pc = p /\ work'[n].kind = work[n].kind
          /\ work'[n].target = work[n].target /\ work'[n].id = work[n].id
      BY <1>0, <2>2, Fields
    <2> QED BY <2>1, <2>3, <1>a DEF WorkSound, RestorePc, BackupPc
  <1>6. CASE InsertScheduled(n)
    <2>1. \A j \in Job : jobs[j].status # "running" => jobs'[j].status # "running"
      BY <1>6, <1>0 DEF InsertScheduled, Add, TableTyped, Table
    <2>2. /\ work'[n].pc = "pick" /\ work'[n].kind = work[n].kind
          /\ work'[n].target = work[n].target /\ work'[n].id = work[n].id
      BY <1>6, <1>0, Fields DEF InsertScheduled
    <2>3. work[n].pc = "insert"
      BY <1>6 DEF InsertScheduled
    <2> QED BY <2>1, <2>2, <2>3, <1>a DEF WorkSound, RestorePc, BackupPc
  <1>7. CASE Pick(n)
    <2>1. CASE work'[n] = Idle
      BY <2>1, IdleWork
    <2>2. ASSUME NEW j \in QueuedIn(jobs), work'[n].pc = "take", work'[n].kind = jobs[j].kind,
                 work'[n].target = jobs[j].target, work'[n].job = j, work'[n].id = work[n].id
          PROVE  WorkSound(n)'
      <3>1. jobs' = jobs /\ made' = made /\ begun' = begun /\ work[n].pc = "pick"
        BY <1>7 DEF Pick
      <3>2. j \in Job /\ jobs[j].status = "queued" /\ j <= made
        BY <1>a DEF RowsSound, QueuedIn
      <3>3. jobs[j].kind \in Kind /\ (jobs[j].kind \in {"delete_backup", "restore"} => jobs[j].target \in Backup)
        BY <3>2, <1>a DEF RowsSound
      <3>4. begun[j] = 0
        <4>1. Serving(n)
          BY <3>1, Busy
        <4>2. ~Dirty
          BY <3>1, <4>1, <1>a DEF DirtySealed
        <4> QED BY <3>2, <4>2, <1>0 DEF Dirty, TableTyped
      <3>5. work[n].id = None /\ \A i \in Job : jobs[i].status # "running"
        BY <3>1, <1>a DEF WorkSound
      <3> QED BY <2>2, <3>1, <3>2, <3>3, <3>4, <3>5
                 DEF WorkSound, RestorePc, BackupPc
    <2> QED BY <1>7, <2>1, <2>2, <1>0, PickFields
  <1>8. CASE Take(n)
    <2>1. work[n].pc = "take" /\ work[n].job \in Job /\ work[n].kind \in Kind
      BY <1>8, <1>a DEF Take, WorkSound
    <2>2. jobs'[work[n].job].status = "running" /\ s3' = s3
      BY <1>8, <2>1, <1>0 DEF Take, TableTyped, Table, JobRow
    <2>3. /\ work'[n].pc = FirstStep[work[n].kind] /\ work'[n].kind = work[n].kind
          /\ work'[n].job = work[n].job /\ work'[n].target = work[n].target
          /\ work'[n].id = work[n].id
      BY <1>8, <1>0, Fields DEF Take
    <2>4. work[n].id = None /\ (work[n].kind \in {"restore", "delete_backup"} => work[n].target \in Backup)
      BY <2>1, <1>a DEF WorkSound
    <2>5. \/ work[n].kind = "backup" /\ work'[n].pc = "dump"
          \/ work[n].kind = "delete_backup" /\ work'[n].pc = "rm_data"
          \/ work[n].kind = "restore" /\ work'[n].pc = "verify"
          \/ work[n].kind = "inspection" /\ work'[n].pc = "done"
      BY <2>1, <2>3 DEF FirstStep, Kind
    <2> QED BY <2>1, <2>2, <2>3, <2>4, <2>5 DEF WorkSound, RestorePc, BackupPc
  <1>9. CASE Dump(n)
    <2> DEFINE b == CHOOSE b \in Unused : \A c \in Unused : b <= c
    <2>1. b \in Backup
      BY <1>9, NextUnused DEF Dump
    <2>2. /\ work' = [work EXCEPT ![n].pc = "data", ![n].id = b]
          /\ s3' = [s3 EXCEPT ![b].reason = IF work[n].kind = "restore" THEN "pre_restore" ELSE "manual",
                              ![b].jobs = jobs]
          /\ jobs' = jobs /\ work[n].pc = "dump"
      BY <1>9 DEF Dump
    <2> HIDE DEF b
    <2>3. s3'[b].reason # None
      BY <2>1, <2>2, <1>0, ConstantsAssumption DEF StoreTyped, BackupRec
    <2>4. /\ work'[n].pc = "data" /\ work'[n].kind = work[n].kind /\ work'[n].job = work[n].job
          /\ work'[n].target = work[n].target /\ work'[n].id = b
      BY <2>2, <1>0 DEF WorkTyped, WorkRec
    <2> QED BY <2>1, <2>2, <2>3, <2>4, <1>a DEF WorkSound, RestorePc, BackupPc
  <1>10. CASE List(n)
    <2>1. PICK todo : work' = [work EXCEPT ![n].pc = "clean", ![n].todo = todo]
      BY <1>10 DEF List
    <2>2. /\ work'[n].pc = "clean" /\ work'[n].kind = work[n].kind /\ work'[n].job = work[n].job
          /\ work'[n].target = work[n].target /\ work'[n].id = work[n].id
      BY <2>1, <1>0 DEF WorkTyped, WorkRec
    <2>3. jobs' = jobs /\ s3' = s3 /\ work[n].pc = "list"
      BY <1>10 DEF List
    <2> QED BY <2>2, <2>3, <1>a DEF WorkSound, RestorePc, BackupPc
  <1>11. CASE CleanManifest(n)
    <2>1. PICK todo : work' = [work EXCEPT ![n].pc = "clean", ![n].todo = todo]
      BY <1>11 DEF CleanManifest
    <2>2. /\ work'[n].pc = "clean" /\ work'[n].kind = work[n].kind /\ work'[n].job = work[n].job
          /\ work'[n].target = work[n].target /\ work'[n].id = work[n].id
      BY <2>1, <1>0 DEF WorkTyped, WorkRec
    <2>3. jobs' = jobs /\ work[n].pc = "clean_manifest"
      BY <1>11 DEF CleanManifest
    <2>4. PICK c : s3' = [s3 EXCEPT ![c].manifest = FALSE]
      BY <1>11 DEF CleanManifest
    <2>5. \A b \in Backup : s3[b].reason # None => s3'[b].reason # None
      BY <2>4, <1>0 DEF StoreTyped, BackupRec
    <2> QED BY <2>2, <2>3, <2>5, <1>a DEF WorkSound, RestorePc, BackupPc
  <1>12. CASE UploadData(n) \/ UploadManifest(n) \/ CleanData(n)
    <2>1. \A b \in Backup : s3[b].reason # None => s3'[b].reason # None
      BY <1>12, <1>0
         DEF UploadData, UploadManifest, CleanData, StoreTyped, BackupRec
    <2>2. jobs' = jobs /\ work[n].kind \in {"backup", "restore"}
      BY <1>12, <1>a
         DEF UploadData, UploadManifest, CleanData, WorkSound, BackupPc
    <2> QED BY <1>12, <2>1, <2>2, <1>0, <1>a, MoveSound
               DEF UploadData, UploadManifest, CleanData, RestorePc, BackupPc
  <1>13. CASE BackupDone(n)
    <2>1. s3' = s3 /\ jobs' = jobs /\ work[n].pc = "clean"
      BY <1>13 DEF BackupDone
    <2>2. CASE work[n].kind = "restore"
      BY <1>13, <2>1, <2>2, <1>0, <1>a, MoveSound
         DEF BackupDone, RestorePc, BackupPc
    <2>3. CASE work[n].kind # "restore"
      BY <1>13, <2>1, <2>3, <1>0, <1>a, MoveSound
         DEF BackupDone, RestorePc, BackupPc
    <2> QED BY <2>2, <2>3
  <1>14. CASE RemoveData(n) \/ RemoveManifest(n)
    <2>1. \A b \in Backup : s3[b].reason # None => s3'[b].reason # None
      BY <1>14, <1>0 DEF RemoveData, RemoveManifest, StoreTyped, BackupRec
    <2>2. /\ jobs' = jobs /\ work[n].kind = "delete_backup"
          /\ work[n].pc \in {"rm_data", "rm_manifest"}
      BY <1>14, <1>a DEF RemoveData, RemoveManifest, WorkSound
    <2>3. PICK p \in {"rm_manifest", "done", "fail"} : To(n, p)
      BY <1>14 DEF RemoveData, RemoveManifest
    <2> QED BY <2>1, <2>2, <2>3, <1>0, <1>a, MoveSound DEF RestorePc, BackupPc
  <1>15. CASE Verify(n) \/ Upgrade(n) \/ Drain(n)
    <2>1. s3' = s3 /\ jobs' = jobs
      BY <1>15 DEF Verify, Upgrade, Drain
    <2>2. work[n].kind = "restore" /\ work[n].pc \in {"verify", "upgrade", "drain"}
      BY <1>15, <1>a DEF Verify, Upgrade, Drain, WorkSound, RestorePc
    <2>3. PICK p \in {"upgrade", "drain", "dump", "abort", "fail"} : To(n, p)
      BY <1>15 DEF Verify, Upgrade, Drain
    <2> QED BY <2>1, <2>2, <2>3, <1>0, <1>a, MoveSound DEF RestorePc, BackupPc
  <1>16. CASE Mark(n) \/ Overwrite(n) \/ Revoke(n) \/ CancelJobs(n) \/
              Record(n) \/ Unmark(n) \/ Abort(n)
    <2>1. s3' = s3
      BY <1>16 DEF Mark, Overwrite, Revoke, CancelJobs, Record, Unmark, Abort
    <2>2. work[n].kind = "restore"
      BY <1>16, <1>a
         DEF Mark, Overwrite, Revoke, CancelJobs, Record, Unmark, Abort,
             WorkSound, RestorePc
    <2>3. PICK p \in {"overwrite", "revoke", "cancel", "record", "unmark", "finish", "fail"} :
            /\ To(n, p)
            /\ p \in {"finish", "fail"} \/ work[n].pc \in {"mark", "overwrite", "revoke", "cancel", "record"}
            /\ work[n].pc \notin {"idle", "plan", "insert", "pick"}
      BY <1>16 DEF Mark, Overwrite, Revoke, CancelJobs, Record, Unmark, Abort
    <2> QED BY <2>1, <2>2, <2>3, <1>0, <1>a, MoveSound DEF RestorePc, BackupPc
  <1>17. CASE Finish(n)
    <2>1. CASE work[n].ok
      BY <1>17, <2>1, <1>0, Ends, IdleWork DEF Finish
    <2>2. CASE ~work[n].ok
      BY <1>17, <2>2, <1>0, <1>a, MoveSound DEF Finish, RestorePc, BackupPc
    <2> QED BY <2>1, <2>2
  <1>18. CASE StepFails(n)
    <2> DEFINE next == After(work[n].pc, work[n].kind)
    <2>1. CASE work'[n] = Idle
      BY <2>1, IdleWork
    <2>2. ASSUME work'[n].pc = next, next # "idle", work'[n].kind = work[n].kind,
                 work'[n].job = work[n].job, work'[n].target = work[n].target,
                 work'[n].id = work[n].id
          PROVE  WorkSound(n)'
      <3>1. s3' = s3 /\ jobs' = jobs /\ work[n].pc # "idle"
        BY <1>18 DEF StepFails
      <3>2. /\ work[n].pc \notin {"idle", "plan", "insert", "pick", "take"}
            /\ \/ next \in {"abort", "finish"} /\ work[n].kind = "restore"
               \/ next = "fail"
               \/ next = "clean" /\ work[n].pc \in {"list", "clean", "clean_manifest"}
        BY <2>2, <3>1, <1>a DEF After, WorkSound, RestorePc
      <3> HIDE DEF next
      <3> QED BY <2>2, <3>1, <3>2, <1>a DEF WorkSound, RestorePc, BackupPc
    <2> QED BY <1>18, <2>1, <2>2, <1>0, FailFields
  <1> QED
    BY <1>1, <1>2, <1>3, <1>4, <1>5, <1>6, <1>7, <1>8, <1>9, <1>10, <1>11,
       <1>12, <1>13, <1>14, <1>15, <1>16, <1>17, <1>18
       DEF Act, Work, Life, Serve

LEMMA NextWork == IInv /\ [Next]_vars => \A k \in Node : WorkSound(k)'
  <1> SUFFICES ASSUME IInv, [Next]_vars, NEW k \in Node PROVE WorkSound(k)'
    OBVIOUS
  <1>1. CASE UNCHANGED vars
    <2>1. WorkSound(k)
      BY DEF IInv
    <2> QED BY <1>1, <2>1 DEF vars, WorkSound
  <1> QED BY <1>1, ActWork, WorkOthers, ActOrStutter

-----------------------------------------------------------------------------
(* The work of the other processes: nothing happens to their backups, and  *)
(* if one of them restores, nobody else acts.                              *)
LEMMA SafetyOthers ==
  ASSUME IInv, NEW n \in Node, Act(n), NEW k \in Node, k # n
  PROVE  SafetySound(k)' /\ AloneSound(k)'
  <1>0. /\ WorkTyped /\ LifeTyped /\ LifeSound(k)
        /\ WorkSound(k) /\ SafetySound(k) /\ AloneSound(k)
    BY TypedParts DEF IInv
  <1>1. work'[k] = work[k]
    BY <1>0, OthersStay
  <1>2. CASE work[k].pc = "idle"
    BY <1>0, <1>1, <1>2, IdleWork DEF LifeSound
  <1>3. CASE work[k].pc # "idle"
    <2>1. s3' = s3
      BY <1>3, OthersCalm, CalmStep DEF Crash
    <2>2. SafetySound(k)'
      BY <1>0, <1>1, <2>1 DEF SafetySound, Complete
    <2>3. ~proc[k].restoring
      BY SoleActs
    <2>4. work[k].kind = "restore" => work[k].pc \in {"take", "verify", "upgrade", "fail"}
      BY <1>0, <2>3 DEF AloneSound
    <2>5. work[k].pc \in {"take", "verify", "upgrade"} => work[k].id = None
      BY <1>0 DEF WorkSound
    <2>6. AloneSound(k)'
      BY <1>1, <2>4, <2>5 DEF AloneSound
    <2> QED BY <2>2, <2>6
  <1> QED BY <1>2, <1>3

LEMMA ActSafety ==
  ASSUME IInv, NEW n \in Node, Act(n)
  PROVE  SafetySound(n)'
  <1>0. WorkTyped /\ LifeTyped /\ StoreTyped /\ WorkSound(n) /\ SafetySound(n)
    BY TypedParts DEF IInv
  <1>c. None \notin {"backup", "delete_backup", "restore", "inspection"}
    BY ConstantsAssumption DEF Kind
  <1>1. CASE Boot(n) \/ ReadMarker(n) \/ Recover(n) \/ ReconcileDone(n) \/
             Stop(n) \/ Exit(n) \/ Respond(n) \/ InsertForRequest(n) \/
             Admit(n) \/ CountForRequest(n) \/ PassStart(n) \/
             PassEnd(n) \/ Sigterm(n)
    BY <1>1, <1>0, CalmStep DEF Calm, Life, Serve, SafetySound, Complete
  <1>2. CASE Crash(n)
    <2>1. work'[n] = Idle
      BY <1>2, <1>0 DEF Crash, WorkTyped
    <2> QED BY <2>1, IdleWork
  <1>3. CASE JobDone(n) \/ JobFailed(n)
    BY <1>3, <1>0, Ends, IdleWork DEF JobDone, JobFailed
  <1>4. CASE Tick(n)
    <2>1. work[n] = Idle
      BY <1>4 DEF Tick, IInv, LifeSound
    <2>2. work'[n] = [Idle EXCEPT !.pc = "plan"]
      BY <1>4, <2>1, <1>0 DEF Tick, WorkTyped
    <2> QED BY <2>2, <1>c DEF SafetySound, Idle
  <1>5. CASE Plan(n) \/ InsertScheduled(n)
    <2>1. s3' = s3 /\ work[n].pc \in {"plan", "insert"}
      BY <1>5 DEF Plan, InsertScheduled
    <2>2. PICK p \in {"insert", "pick"} : To(n, p)
      BY <1>5 DEF Plan, InsertScheduled
    <2> QED BY <2>1, <2>2, <1>0, Fields DEF SafetySound, Complete
  <1>6. CASE Pick(n)
    <2>1. CASE work'[n] = Idle
      BY <2>1, IdleWork
    <2>2. CASE work'[n].pc = "take"
      BY <2>2 DEF SafetySound
    <2> QED BY <1>6, <2>1, <2>2, <1>0, PickFields
  <1>7. CASE Take(n)
    <2>1. work'[n].kind = work[n].kind /\ work'[n].pc = FirstStep[work[n].kind]
      BY <1>7, <1>0, Fields DEF Take
    <2>2. work'[n].kind = "restore" => work'[n].pc = "verify"
      BY <2>1 DEF FirstStep
    <2> QED BY <2>2 DEF SafetySound
  <1>8. CASE Dump(n)
    <2> DEFINE b == CHOOSE b \in Unused : \A c \in Unused : b <= c
    <2>1. b \in Backup
      BY <1>8, NextUnused DEF Dump
    <2>2. /\ work' = [work EXCEPT ![n].pc = "data", ![n].id = b]
          /\ s3' = [s3 EXCEPT ![b].reason = IF work[n].kind = "restore" THEN "pre_restore" ELSE "manual",
                              ![b].jobs = jobs]
          /\ work[n].pc = "dump"
      BY <1>8 DEF Dump
    <2> HIDE DEF b
    <2>3. \A c \in Backup : s3'[c].data = s3[c].data /\ s3'[c].manifest = s3[c].manifest
      BY <2>1, <2>2, <1>0 DEF StoreTyped, BackupRec
    <2>4. /\ work'[n].pc = "data" /\ work'[n].kind = work[n].kind
          /\ work'[n].target = work[n].target
      BY <2>2, <1>0 DEF WorkTyped, WorkRec
    <2>5. work[n].kind = "restore" => work[n].target \in Backup
      BY <1>0 DEF WorkSound
    <2> QED BY <2>2, <2>3, <2>4, <2>5, <1>0 DEF SafetySound, Complete
  <1>9. CASE UploadData(n) \/ UploadManifest(n)
    <2>1. /\ work[n].id \in Backup
          /\ work[n].kind = "restore" => work[n].target \in Backup
      BY <1>9, <1>0 DEF UploadData, UploadManifest, WorkSound
    <2>2. \/ To(n, "manifest") /\ s3' = [s3 EXCEPT ![work[n].id].data = TRUE]
          \/ To(n, "list") /\ s3' = [s3 EXCEPT ![work[n].id].manifest = TRUE] /\ work[n].pc = "manifest"
      BY <1>9 DEF UploadData, UploadManifest
    <2>3. \A c \in Backup : s3[c] \in BackupRec
      BY <1>0 DEF StoreTyped
    <2>5. \A c \in Backup : /\ s3[c].data => s3'[c].data
                            /\ s3[c].manifest => s3'[c].manifest
      BY <2>1, <2>2, <2>3, <1>0 DEF StoreTyped, BackupRec
    <2>6. \/ To(n, "manifest") /\ s3'[work[n].id].data
          \/ To(n, "list") /\ s3'[work[n].id].manifest /\ work[n].pc = "manifest"
      BY <2>1, <2>2, <2>3, <1>0 DEF StoreTyped, BackupRec
    <2>4. work[n].pc \in {"data", "manifest"}
      BY <1>9 DEF UploadData, UploadManifest
    <2> QED BY <2>1, <2>4, <2>5, <2>6, <1>0, Fields DEF SafetySound, Complete
  <1>10. CASE List(n)
    <2>1. work' = [work EXCEPT ![n].pc = "clean", ![n].todo = Expired(n)]
      BY <1>10 DEF List
    <2>2. work[n].kind = "restore" => Expired(n) \cap {work[n].id, work[n].target} = {}
      BY DEF Expired
    <2> HIDE DEF Expired
    <2>3. /\ work'[n].pc = "clean" /\ work'[n].kind = work[n].kind /\ work'[n].todo = Expired(n)
          /\ work'[n].target = work[n].target /\ work'[n].id = work[n].id
      BY <2>1, <1>0 DEF WorkTyped, WorkRec
    <2>4. s3' = s3 /\ work[n].pc = "list"
      BY <1>10 DEF List
    <2> QED BY <2>2, <2>3, <2>4, <1>0 DEF SafetySound, Complete
  <1>11. CASE CleanData(n) \/ CleanManifest(n)
    <2> DEFINE b == Newest(work[n].todo)
    <2>1. work[n].todo # {} /\ work[n].todo \in SUBSET Backup /\ work[n].pc \in {"clean", "clean_manifest"}
      BY <1>11, <1>0
         DEF CleanData, CleanManifest, WorkSound, WorkTyped, WorkRec
    <2>2. b \in work[n].todo
      BY <2>1, NewestExists
    <2>3. /\ s3' = [s3 EXCEPT ![b].data = FALSE] \/ s3' = [s3 EXCEPT ![b].manifest = FALSE]
          /\ \/ work' = [work EXCEPT ![n].pc = "clean_manifest"]
             \/ work' = [work EXCEPT ![n].pc = "clean", ![n].todo = @ \ {b}]
      BY <1>11 DEF CleanData, CleanManifest, To
    <2> HIDE DEF b
    <2>4. \A c \in Backup \ {b} : Complete(c) => s3'[c].data /\ s3'[c].manifest
      BY <2>3, <1>0 DEF StoreTyped, Complete
    <2>5. /\ work'[n].pc \in {"clean", "clean_manifest"} /\ work'[n].kind = work[n].kind
          /\ work'[n].todo \subseteq work[n].todo
          /\ work'[n].target = work[n].target /\ work'[n].id = work[n].id
      BY <2>3, <1>0 DEF WorkTyped, WorkRec
    <2>6. /\ work[n].id \in Backup
          /\ work[n].kind = "restore" => work[n].target \in Backup
      BY <2>1, <1>0 DEF WorkSound
    <2>7. work[n].kind = "restore" => /\ Complete(work[n].target) /\ Complete(work[n].id)
                                      /\ b # work[n].target /\ b # work[n].id
                                      /\ work[n].todo \cap {work[n].id, work[n].target} = {}
      BY <2>1, <2>2, <1>0 DEF SafetySound
    <2>8. work[n].kind = "restore" =>
            /\ s3'[work[n].target].data /\ s3'[work[n].target].manifest
            /\ s3'[work[n].id].data /\ s3'[work[n].id].manifest
      BY <2>4, <2>6, <2>7
    <2> QED BY <2>5, <2>7, <2>8 DEF SafetySound, Complete
  <1>12. CASE BackupDone(n)
    <2>1. PICK p \in {"mark", "done"} : To(n, p)
      BY <1>12 DEF BackupDone
    <2>2. s3' = s3 /\ work[n].pc = "clean"
      BY <1>12 DEF BackupDone
    <2> QED BY <2>1, <2>2, <1>0, Fields DEF SafetySound, Complete
  <1>13. CASE RemoveData(n) \/ RemoveManifest(n)
    <2>1. PICK p : To(n, p)
      BY <1>13 DEF RemoveData, RemoveManifest
    <2>2. work[n].kind = "delete_backup"
      BY <1>13, <1>0 DEF RemoveData, RemoveManifest, WorkSound
    <2> QED BY <2>1, <2>2, <1>0, Fields DEF SafetySound
  <1>14. CASE Verify(n) \/ Upgrade(n) \/ Drain(n) \/ Mark(n) \/
              Overwrite(n) \/ Revoke(n) \/ CancelJobs(n) \/ Record(n) \/
              Unmark(n) \/ Abort(n)
    <2>1. s3' = s3
      BY <1>14
         DEF Verify, Upgrade, Drain, Mark, Overwrite, Revoke, CancelJobs,
             Record, Unmark, Abort
    <2>2. PICK p \in {"upgrade", "drain", "dump", "overwrite", "revoke", "cancel", "record", "unmark",
                      "finish", "abort", "fail"} :
            To(n, p) /\ (work[n].pc = "verify" => p = "fail" \/ Complete(work[n].target))
      BY <1>14
         DEF Verify, Upgrade, Drain, Mark, Overwrite, Revoke, CancelJobs,
             Record, Unmark, Abort
    <2>3. work[n].pc \notin {"take", "fail"}
      BY <1>14
         DEF Verify, Upgrade, Drain, Mark, Overwrite, Revoke, CancelJobs,
             Record, Unmark, Abort
    <2> QED BY <2>1, <2>2, <2>3, <1>0, Fields DEF SafetySound, Complete
  <1>15. CASE Finish(n)
    <2>1. CASE work[n].ok
      BY <1>15, <2>1, <1>0, Ends, IdleWork DEF Finish
    <2>2. CASE ~work[n].ok
      BY <1>15, <2>2, <1>0, Fields DEF Finish, SafetySound
    <2> QED BY <2>1, <2>2
  <1>16. CASE StepFails(n)
    <2> DEFINE next == After(work[n].pc, work[n].kind)
    <2>1. CASE work'[n] = Idle
      BY <2>1, IdleWork
    <2>2. ASSUME work'[n].pc = next, next # "idle", work'[n].kind = work[n].kind,
                 work'[n].job = work[n].job, work'[n].target = work[n].target,
                 work'[n].id = work[n].id, work'[n].todo = {}
          PROVE  SafetySound(n)'
      <3>1. s3' = s3 /\ work[n].pc # "idle"
        BY <1>16 DEF StepFails
      <3>2. \/ next \in {"abort", "finish"} /\ work[n].pc \notin {"take", "verify", "fail"}
            \/ next = "fail"
            \/ next = "clean" /\ work[n].pc \in {"list", "clean", "clean_manifest"}
        BY <2>2, <3>1 DEF After
      <3> HIDE DEF next
      <3> QED BY <2>2, <3>1, <3>2, <1>0 DEF SafetySound, Complete
    <2> QED BY <1>16, <2>1, <2>2, <1>0, FailFields
  <1> QED
    BY <1>1, <1>2, <1>3, <1>4, <1>5, <1>6, <1>7, <1>8, <1>9, <1>10, <1>11,
       <1>12, <1>13, <1>14, <1>15, <1>16
       DEF Act, Work, Life, Serve

LEMMA ActAlone ==
  ASSUME IInv, NEW n \in Node, Act(n)
  PROVE  AloneSound(n)'
  <1>0. /\ WorkTyped /\ LifeTyped /\ WorkSound(n) /\ AloneSound(n)
        /\ proc[n].restoring => proc[n].paused
    BY TypedParts DEF IInv, LeaseSound
  <1>b. work[n].pc # "idle" => Serving(n)
    BY Busy
  <1>c. None \notin {"backup", "delete_backup", "restore", "inspection"}
    BY ConstantsAssumption DEF Kind
  <1>d. /\ work[n].kind = "restore" /\ work[n].pc \notin {"take", "verify", "upgrade", "fail"} =>
             proc[n].restoring
        /\ work[n].kind = "restore" /\ (work[n].pc = "dump" \/ (work[n].id # None /\ work[n].pc # "fail")) =>
             Drained(n) /\ proc[n].restoring
    BY <1>0 DEF AloneSound, WorkSound
  <1>1. CASE Boot(n) \/ ReadMarker(n) \/ Recover(n) \/ Exit(n)
    <2>1. work[n].pc = "idle"
      BY <1>1, <1>b DEF Boot, ReadMarker, Recover, Exit, Serving
    <2>2. work'[n] = Idle
      BY <1>1, <2>1, CalmStep DEF Calm, Life, IInv, LifeSound
    <2> QED BY <2>2, IdleWork
  <1>2. CASE ReconcileDone(n) \/ Stop(n) \/ PassEnd(n) \/ Sigterm(n)
    <2>1. /\ work' = work /\ req' = req /\ marker' = marker /\ revived' = revived
          /\ proc'[n].restoring = proc[n].restoring
          /\ proc'[n].pass => proc[n].pass
          /\ proc'[n].reconciling => proc[n].reconciling
      BY <1>2, <1>0
         DEF ReconcileDone, Stop, PassEnd, Sigterm, LifeTyped, ProcRec
    <2> QED BY <2>1, <1>0 DEF AloneSound, Drained
  <1>3. CASE PassStart(n)
    <2>1. /\ work' = work /\ req' = req /\ marker' = marker /\ revived' = revived
          /\ proc'[n].restoring = proc[n].restoring
          /\ proc'[n].reconciling = proc[n].reconciling
      BY <1>3, <1>0 DEF PassStart, LifeTyped, ProcRec
    <2>2. ~proc[n].restoring
      BY <1>3, <1>0 DEF PassStart
    <2> QED BY <2>1, <2>2, <1>0, <1>d DEF AloneSound
  <1>4. CASE Respond(n) \/ InsertForRequest(n)
    <2>1. /\ work' = work /\ proc' = proc /\ marker' = marker /\ revived' = revived
          /\ req[n] # "none"
      BY <1>4 DEF Respond, InsertForRequest
    <2> QED BY <2>1, <1>0, <1>d DEF AloneSound, Drained
  <1>5. CASE Admit(n) \/ CountForRequest(n)
    <2>1. /\ work' = work /\ proc' = proc /\ marker' = marker /\ revived' = revived
          /\ ~proc[n].restoring \/ req[n] # "none"
      BY <1>5 DEF Admit, CountForRequest
    <2> QED BY <2>1, <1>0, <1>d DEF AloneSound, Drained
  <1>6. CASE Crash(n)
    <2>1. work'[n] = Idle
      BY <1>6, <1>0 DEF Crash, WorkTyped
    <2> QED BY <2>1, IdleWork
  <1>7. CASE JobDone(n) \/ JobFailed(n)
    BY <1>7, <1>0, Ends, IdleWork DEF JobDone, JobFailed
  <1>8. CASE Tick(n)
    <2>1. work[n] = Idle
      BY <1>8 DEF Tick, IInv, LifeSound
    <2>2. work'[n] = [Idle EXCEPT !.pc = "plan"]
      BY <1>8, <2>1, <1>0 DEF Tick, WorkTyped
    <2> QED BY <2>2, <1>c DEF AloneSound, Idle
  <1>9. CASE Plan(n) \/ InsertScheduled(n)
    <2>1. /\ proc' = proc /\ marker' = marker /\ req' = req /\ revived' = revived
          /\ work[n].pc \in {"plan", "insert"}
      BY <1>9 DEF Plan, InsertScheduled
    <2>2. PICK p \in {"insert", "pick"} : To(n, p)
      BY <1>9 DEF Plan, InsertScheduled
    <2> QED BY <2>1, <2>2, <1>0, Fields DEF AloneSound, Drained
  <1>10. CASE Pick(n)
    <2>1. CASE work'[n] = Idle
      BY <2>1, IdleWork
    <2>2. CASE work'[n].pc = "take" /\ work'[n].id = work[n].id
      <3>1. work[n].id = None
        BY <1>10, <1>0 DEF Pick, WorkSound
      <3> QED BY <2>2, <3>1 DEF AloneSound
    <2> QED BY <1>10, <2>1, <2>2, <1>0, PickFields
  <1>11. CASE Take(n)
    <2>1. /\ work'[n].kind = work[n].kind /\ work'[n].pc = FirstStep[work[n].kind]
          /\ work'[n].id = work[n].id /\ work[n].id = None
      BY <1>11, <1>0, Fields DEF Take, WorkSound
    <2>2. work'[n].kind = "restore" => work'[n].pc = "verify"
      BY <2>1 DEF FirstStep
    <2> QED BY <2>1, <2>2 DEF AloneSound
  <1>12. CASE Dump(n)
    <2>1. PICK b : work' = [work EXCEPT ![n].pc = "data", ![n].id = b]
      BY <1>12 DEF Dump
    <2>2. work'[n].pc = "data" /\ work'[n].kind = work[n].kind
      BY <2>1, <1>0 DEF WorkTyped, WorkRec
    <2>3. work[n].pc = "dump" /\ proc' = proc /\ req' = req
      BY <1>12 DEF Dump
    <2> QED BY <2>2, <2>3, <1>d DEF AloneSound, Drained
  <1>13. CASE List(n) \/ CleanManifest(n)
    <2>1. PICK todo : work' = [work EXCEPT ![n].pc = "clean", ![n].todo = todo]
      BY <1>13 DEF List, CleanManifest
    <2>2. work'[n].pc = "clean" /\ work'[n].kind = work[n].kind /\ work'[n].id = work[n].id
      BY <2>1, <1>0 DEF WorkTyped, WorkRec
    <2>3. work[n].pc \in {"list", "clean_manifest"} /\ proc' = proc /\ req' = req
      BY <1>13 DEF List, CleanManifest
    <2> QED BY <2>2, <2>3, <1>d DEF AloneSound, Drained
  <1>14. CASE UploadData(n) \/ UploadManifest(n) \/ CleanData(n) \/
              BackupDone(n)
    <2>1. PICK p \in {"manifest", "list", "clean_manifest", "mark", "done"} : To(n, p)
      BY <1>14 DEF UploadData, UploadManifest, CleanData, BackupDone
    <2>2. work[n].pc \in {"data", "manifest", "clean"} /\ proc' = proc /\ req' = req
      BY <1>14 DEF UploadData, UploadManifest, CleanData, BackupDone
    <2> QED BY <2>1, <2>2, <1>0, <1>d, Fields DEF AloneSound, Drained
  <1>15. CASE RemoveData(n) \/ RemoveManifest(n)
    <2>1. PICK p : To(n, p)
      BY <1>15 DEF RemoveData, RemoveManifest
    <2>2. work[n].kind = "delete_backup"
      BY <1>15, <1>0 DEF RemoveData, RemoveManifest, WorkSound
    <2> QED BY <2>1, <2>2, <1>0, Fields DEF AloneSound
  <1>16. CASE Verify(n)
    <2>1. PICK p \in {"upgrade", "fail"} : To(n, p)
      BY <1>16 DEF Verify
    <2>2. work[n].id = None
      BY <1>16, <1>0 DEF Verify, WorkSound
    <2> QED BY <2>1, <2>2, <1>0, Fields DEF AloneSound
  <1>17. CASE Upgrade(n)
    <2>1. \/ To(n, "drain") /\ proc'[n].restoring
          \/ To(n, "fail")
      BY <1>17, <1>0 DEF Upgrade, LifeTyped, ProcRec
    <2>2. work[n].id = None
      BY <1>17, <1>0 DEF Upgrade, WorkSound
    <2> QED BY <2>1, <2>2, <1>0, Fields DEF AloneSound
  <1>18. CASE Drain(n)
    <2>1. \/ To(n, "dump") /\ Drained(n)
          \/ To(n, "abort")
      BY <1>18 DEF Drain
    <2>2. work[n].id = None /\ work[n].pc = "drain" /\ proc' = proc /\ req' = req
      BY <1>18, <1>0 DEF Drain, WorkSound
    <2> QED BY <2>1, <2>2, <1>0, <1>d, Fields DEF AloneSound, Drained
  <1>19. CASE Mark(n) \/ Overwrite(n) \/ Revoke(n) \/ CancelJobs(n) \/
              Record(n) \/ Unmark(n)
    <2>1. PICK p \in {"overwrite", "revoke", "cancel", "record", "unmark", "finish"} :
            /\ To(n, p)
            /\ p = "cancel" => ~revived'
            /\ p # "finish" => marker' # None
      <3>1. CASE Mark(n)
        <4>1. work[n].job \in Job /\ work[n].target \in Backup /\ work[n].id \in Backup
          BY <3>1, <1>0 DEF Mark, WorkSound, RestorePc
        <4>2. marker' \in Marker
          BY <3>1, <4>1 DEF Mark, Marker
        <4> QED BY <3>1, <4>2, ConstantsAssumption DEF Mark, Marker
      <3>2. CASE Overwrite(n) \/ Revoke(n) \/ CancelJobs(n) \/ Record(n)
        <4>1. work[n].kind = "restore" /\ marker # None
          BY <3>2, <1>0
             DEF Overwrite, Revoke, CancelJobs, Record, WorkSound, RestorePc,
                 AloneSound
        <4> QED BY <3>2, <4>1 DEF Overwrite, Revoke, CancelJobs, Record
      <3>3. CASE Unmark(n)
        BY <3>3 DEF Unmark
      <3> QED BY <1>19, <3>1, <3>2, <3>3
    <2>2. /\ work[n].pc \in {"mark", "overwrite", "revoke", "cancel", "record", "unmark"}
          /\ proc' = proc /\ req' = req
      BY <1>19 DEF Mark, Overwrite, Revoke, CancelJobs, Record, Unmark
    <2> QED BY <2>1, <2>2, <1>0, <1>d, Fields DEF AloneSound, Drained
  <1>20. CASE Finish(n)
    <2>1. CASE work[n].ok
      BY <1>20, <2>1, <1>0, Ends, IdleWork DEF Finish
    <2>2. CASE ~work[n].ok
      BY <1>20, <2>2, <1>0, Fields DEF Finish, AloneSound
    <2> QED BY <2>1, <2>2
  <1>21. CASE Abort(n)
    BY <1>21, <1>0, Fields DEF Abort, AloneSound
  <1>22. CASE StepFails(n)
    <2> DEFINE next == After(work[n].pc, work[n].kind)
    <2>1. CASE work'[n] = Idle
      BY <2>1, IdleWork
    <2>2. ASSUME work'[n].pc = next, next # "idle", work'[n].kind = work[n].kind,
                 work'[n].id = work[n].id
          PROVE  AloneSound(n)'
      <3>1. proc' = proc /\ req' = req /\ work[n].pc # "idle"
        BY <1>22 DEF StepFails
      <3>2. \/ next \in {"abort", "finish", "clean"} /\ work[n].pc \notin {"take", "verify", "upgrade", "fail"}
            \/ next = "fail"
        BY <2>2, <3>1 DEF After
      <3> HIDE DEF next
      <3> QED BY <2>2, <3>1, <3>2, <1>d DEF AloneSound, Drained
    <2> QED BY <1>22, <2>1, <2>2, <1>0, FailFields
  <1> QED
    BY <1>1, <1>2, <1>3, <1>4, <1>5, <1>6, <1>7, <1>8, <1>9, <1>10, <1>11,
       <1>12, <1>13, <1>14, <1>15, <1>16, <1>17, <1>18, <1>19, <1>20, <1>21,
       <1>22
       DEF Act, Work, Life, Serve

LEMMA NextSafety == IInv /\ [Next]_vars => \A k \in Node : SafetySound(k)' /\ AloneSound(k)'
  <1> SUFFICES ASSUME IInv, [Next]_vars, NEW k \in Node PROVE SafetySound(k)' /\ AloneSound(k)'
    OBVIOUS
  <1>1. CASE UNCHANGED vars
    <2>1. SafetySound(k) /\ AloneSound(k)
      BY DEF IInv
    <2> QED BY <1>1, <2>1 DEF vars, SafetySound, AloneSound, Complete, Drained
  <1> QED BY <1>1, ActSafety, ActAlone, SafetyOthers, ActOrStutter

-----------------------------------------------------------------------------
LEMMA InductiveStep == IInv /\ [Next]_vars => IInv'
  <1> SUFFICES ASSUME IInv, [Next]_vars PROVE IInv'
    OBVIOUS
  <1>1. (TypeOK /\ Typed)'
    <2>1. WorkTyped' /\ LifeTyped' /\ StoreTyped' /\ TableTyped'
      BY NextWorkTyped, NextLifeTyped, NextStoreTyped, NextTableTyped
    <2> QED BY <2>1, TypedParts, PTL
  <1>2. TablesSound' /\ LeaseSound' /\ MarkerSound' /\ DirtySealed'
    BY NextTables, NextLease, NextMarker, NextDirty
  <1>3. QueueSound' /\ BegunSound' /\ RoomSound'
    BY NextQueue, NextBegun, NextRoom
  <1>4. \A n \in Node : LifeSound(n)' /\ WorkSound(n)' /\ SafetySound(n)' /\ AloneSound(n)'
    BY NextLife, NextWork, NextSafety
  <1> QED BY <1>1, <1>2, <1>3, <1>4 DEF IInv

THEOREM Invariance == Spec => []IInv
  <1>1. Init => IInv
    BY InitIInv
  <1>2. IInv /\ [Next]_vars => IInv'
    BY InductiveStep
  <1> QED BY <1>1, <1>2, PTL DEF Spec

(* While sessions and keys out of a dump are good, the marker is there and *)
(* no process serves a request or a billing pass, in any number of         *)
(* processes and whatever fails or crashes                                 *)
(* (operations-service.js:12-22,92-102, server.js:20,43).                  *)
THEOREM RevivedStaysUnserved == Spec => []RevivedUnserved
  <1>1. IInv => RevivedUnserved
    <2> SUFFICES ASSUME IInv, revived
                 PROVE  marker # None /\ \A n \in Node : req[n] = "none" /\ ~proc[n].pass
      BY DEF RevivedUnserved
    <2>1. marker # None
      BY DEF IInv, DirtySealed, Dirty
    <2>2. ASSUME NEW n \in Node PROVE req[n] = "none" /\ ~proc[n].pass
      <3>1. CASE ~Serving(n)
        BY <3>1 DEF IInv, LifeSound, Quiet
      <3>2. CASE Serving(n)
        BY <3>2 DEF IInv, DirtySealed, Dirty, Drained
      <3> QED BY <3>1, <3>2
    <2> QED BY <2>1, <2>2
  <1> QED BY <1>1, Invariance, PTL

(* A restore that goes on is alone from its safety backup to the restart,  *)
(* and the backups it needs outlast it: the retention of its own safety    *)
(* backup, and whatever runs at that time, spares them                     *)
(* (operations-service.js:83-106, s3-backups.js:122).                      *)
THEOREM RestoreStaysSound == Spec => []RestoreSound
  <1>1. IInv => RestoreAlone
    <2> SUFFICES ASSUME IInv, NEW n \in Node,
                        work[n].kind = "restore", work[n].id # None, work[n].pc # "fail"
                 PROVE  /\ lease.shared = {n}
                        /\ \A k \in Node : req[k] = "none" /\ ~proc[k].pass /\ ~proc[k].reconciling
      BY DEF RestoreAlone
    <2>1. work[n].pc \notin {"take", "verify", "upgrade"}
      BY DEF IInv, WorkSound
    <2>2. proc[n].restoring /\ Drained(n)
      BY <2>1 DEF IInv, AloneSound
    <2>3. lease.shared = {n} /\ \A k \in Node : k # n => Quiet(k)
      BY <2>2, Sole
    <2> QED BY <2>2, <2>3 DEF Drained, Quiet
  <1>2. IInv => BackupsKept
    BY DEF IInv, MarkerSound, SafetySound, BackupsKept
  <1> QED BY <1>1, <1>2, Invariance, PTL DEF RestoreSound

(* Every job is started at most once in its life, crashes and restores     *)
(* included; one runs at a time, and no more wait than the limit says      *)
(* (operations-service.js:9,34-36,50).                                     *)
THEOREM JobsStaySound == Spec => []JobsSound
  <1>1. IInv => TypeOK /\ RunsOnce
    BY DEF IInv, BegunSound, RunsOnce
  <1>2. IInv => QueueBounded
    <2> SUFFICES ASSUME IInv PROVE QueueBounded
      OBVIOUS
    <2>1. RowsSound(jobs)
      BY DEF IInv, TablesSound
    <2> QED BY <2>1 DEF RowsSound, QueueBounded, QueuedIn
  <1> QED BY <1>1, <1>2, Invariance, PTL DEF JobsSound

-----------------------------------------------------------------------------
(* What tells of a restore.  The marker is that of the restore under way,  *)
(* whose row is there but for the time between the overwrite and the       *)
(* record, and that of who recovers by it.                                 *)
MarkerPc == {"overwrite", "revoke", "cancel", "record", "unmark", "abort"}
RowPc == {"verify", "upgrade", "drain", "dump", "data", "manifest", "list", "clean",
          "clean_manifest", "mark", "overwrite", "unmark", "abort"}

AccountSound(n) ==
  /\ marker # None /\ work[n].pc \in MarkerPc => marker.job = work[n].job
  /\ work[n].kind = "restore" /\ work[n].pc \in RowPc => jobs[work[n].job].status # "none"
  /\ marker # None /\ proc[n].phase = "recover" => proc[n].seen = marker

AInv == \A n \in Node : AccountSound(n)

(* No step but the overwrite removes a row.                                *)
LEMMA RowsStay ==
  ASSUME IInv, NEW n \in Node, Act(n), ~(work[n].pc = "overwrite" /\ (Overwrite(n) \/ Crash(n)))
  PROVE  \A j \in Job : jobs[j].status # "none" => jobs'[j].status # "none"
  <1>0. TableTyped
    BY TypedParts DEF IInv
  <1>1. CASE RowsEnd
    BY <1>1 DEF RowsEnd, Given, Settled
  <1>2. CASE RowAdded
    BY <1>2, <1>0 DEF RowAdded, Queued, TableTyped, Table
  <1>3. CASE RowTaken
    BY <1>3, <1>0 DEF RowTaken, TableTyped, Table, JobRow
  <1>4. CASE TableBack
    <2>1. PICK k \in Node : (Overwrite(k) \/ Crash(k)) /\ work[k].pc = "overwrite"
      BY <1>4 DEF TableBack
    <2>2. k = n
      BY <2>1, Silence, SoleActs
    <2> QED BY <2>1, <2>2
  <1> QED BY <1>1, <1>2, <1>3, <1>4, NextTable, ActNext DEF TableStep

LEMMA AccountOthers ==
  ASSUME IInv, AInv, NEW n \in Node, Act(n), NEW k \in Node, k # n
  PROVE  AccountSound(k)'
  <1>0. WorkTyped /\ LifeTyped /\ LifeSound(k) /\ WorkSound(k) /\ AccountSound(k)
    BY TypedParts DEF IInv, AInv
  <1>1. work'[k] = work[k] /\ proc'[k] = proc[k]
    BY <1>0, OthersStay
  <1>2. marker' # None /\ marker' # marker => Mark(n) /\ proc[k].phase = "down" /\ work[k] = Idle
    <2> SUFFICES ASSUME marker' # None, marker' # marker
                 PROVE  Mark(n) /\ proc[k].phase = "down" /\ work[k] = Idle
      OBVIOUS
    <2>1. marker = None
      BY MarkedMoves
    <2>2. Mark(n)
      BY <2>1, MarkerComes
    <2>3. proc[n].restoring
      BY <2>2 DEF Mark, IInv, WorkSound, AloneSound, RestorePc
    <2> QED BY <2>2, <2>3, Sole DEF Quiet
  <1>3. work[k].kind = "restore" /\ work[k].pc \in RowPc => jobs'[work[k].job].status # "none"
    <2> SUFFICES ASSUME work[k].kind = "restore", work[k].pc \in RowPc
                 PROVE  jobs'[work[k].job].status # "none"
      OBVIOUS
    <2>1. work[k].job \in Job /\ jobs[work[k].job].status # "none" /\ work[k].pc # "idle"
      BY <1>0 DEF AccountSound, WorkSound, RowPc
    <2>2. ~(work[n].pc = "overwrite")
      BY <2>1, OthersCalm DEF Idle
    <2> QED BY <2>1, <2>2, RowsStay
  <1> QED BY <1>0, <1>1, <1>2, <1>3 DEF AccountSound, Idle, MarkerPc

LEMMA IdleAccount ==
  ASSUME NEW n \in Node, work'[n].pc \in {"idle", "plan", "insert", "pick", "take", "done", "fail", "finish"},
         marker' # None => proc'[n].phase # "recover"
  PROVE  AccountSound(n)'
  BY DEF AccountSound, MarkerPc, RowPc

LEMMA ActAccount ==
  ASSUME IInv, AInv, NEW n \in Node, Act(n)
  PROVE  AccountSound(n)'
  <1>0. /\ WorkTyped /\ LifeTyped /\ WorkSound(n) /\ AccountSound(n) /\ MarkerSound
        /\ ~Serving(n) => Quiet(n)
    BY TypedParts DEF IInv, AInv, LifeSound
  <1>a. ~(work[n].pc = "overwrite" /\ (Overwrite(n) \/ Crash(n))) =>
          \A j \in Job : jobs[j].status # "none" => jobs'[j].status # "none"
    BY RowsStay
  <1>b. work[n].pc # "idle" => Serving(n)
    BY Busy
  <1>c. /\ Serving(n) => proc[n].phase # "recover"
        /\ marker # None /\ Serving(n) => work[n].pc \in MarkerPc \cup {"finish", "fail", "idle"}
    BY <1>0 DEF Serving, MarkerSound, MarkerPc
  <1>1. CASE Boot(n) \/ ReadMarker(n)
    <2>a. \/ Boot(n) /\ proc' = [proc EXCEPT ![n].phase = "boot"]
          \/ ReadMarker(n) /\ marker # None
             /\ proc' = [proc EXCEPT ![n] = [proc[n] EXCEPT !.phase = "recover", !.seen = marker]]
          \/ ReadMarker(n) /\ marker = None
      BY <1>1 DEF Boot, ReadMarker
    <2>b. proc[n] \in ProcRec
      BY <1>0 DEF LifeTyped
    <2>c. \/ Boot(n) /\ proc'[n] = [proc[n] EXCEPT !.phase = "boot"]
          \/ ReadMarker(n) /\ proc'[n] = [proc[n] EXCEPT !.phase = "recover", !.seen = marker]
          \/ marker = None
      BY <2>a, <1>0 DEF LifeTyped
    <2>1. proc'[n].phase = "recover" /\ marker # None => proc'[n].seen = marker
      BY <2>b, <2>c DEF ProcRec
    <2>2. work'[n].pc = "idle" /\ marker' = marker
      BY <1>1, <1>b DEF Boot, ReadMarker, Serving
    <2> QED BY <2>1, <2>2 DEF AccountSound, MarkerPc, RowPc
  <1>2. CASE Recover(n)
    <2>1. work'[n].pc = "idle" /\ marker' = None
      BY <1>2, <1>b DEF Recover, Serving
    <2> QED BY <2>1, IdleAccount
  <1>3. CASE Exit(n) \/ Crash(n)
    <2>1. work'[n].pc = "idle" /\ proc'[n] = Down
      BY <1>3, <1>0 DEF Exit, Crash, Gone, WorkTyped, LifeTyped, Idle
    <2> QED BY <2>1, IdleAccount DEF Down
  <1>4. CASE ReconcileDone(n) \/ Stop(n) \/ PassStart(n) \/ PassEnd(n) \/
             Sigterm(n) \/ Respond(n) \/ InsertForRequest(n) \/
             Admit(n) \/ CountForRequest(n)
    <2>1. work' = work /\ marker' = marker /\ Serving(n) /\ proc'[n].phase # "recover"
      BY <1>4, <1>0
         DEF ReconcileDone, Stop, PassStart, PassEnd, Sigterm, Respond,
             InsertForRequest, Admit, CountForRequest, LifeTyped, ProcRec,
             Serving, Quiet
    <2>2. work[n].pc \in RowPc /\ work[n].kind = "restore" => jobs'[work[n].job].status # "none"
      <3>1. ~Overwrite(n) /\ ~Crash(n)
        BY <1>4, <2>1, <1>0, Fields
           DEF ReconcileDone, Stop, PassStart, PassEnd, Sigterm, Respond,
               InsertForRequest, Admit, CountForRequest, Overwrite, Crash,
               WorkTyped, Idle, LifeTyped, Gone, Down
      <3>2. work[n].pc \in RowPc => work[n].job \in Job
        BY <1>0 DEF WorkSound, RowPc
      <3> QED BY <3>1, <3>2, <1>0, <1>a DEF AccountSound
    <2> QED BY <2>1, <2>2, <1>0 DEF AccountSound
  <1>5. CASE JobDone(n) \/ JobFailed(n)
    <2>1. work'[n].pc \in {"idle", "take"}
      BY <1>5, <1>0, Ends DEF JobDone, JobFailed, Idle
    <2>2. proc'[n].phase # "recover"
      BY <1>5, <1>b, <1>c DEF JobDone, JobFailed
    <2> QED BY <2>1, <2>2, IdleAccount
  <1>6. CASE Pick(n)
    <2>1. work'[n].pc \in {"idle", "take"}
      BY <1>6, <1>0, PickFields DEF Idle
    <2>2. proc'[n].phase # "recover"
      BY <1>6, <1>b, <1>c DEF Pick
    <2> QED BY <2>1, <2>2, IdleAccount
  <1>7. CASE Tick(n) \/ Plan(n) \/ InsertScheduled(n)
    <2>1. PICK p \in {"plan", "insert", "pick"} : To(n, p)
      BY <1>7 DEF Tick, Plan, InsertScheduled, To
    <2>2. Serving(n) /\ proc' = proc
      BY <1>7, <1>b, WorksServes DEF Tick, Plan, InsertScheduled
    <2>3. work'[n].pc = p
      BY <2>1, <1>0, Fields
    <2> QED BY <2>2, <2>3, <1>c, IdleAccount
  <1>8. CASE Take(n)
    <2>1. /\ work[n].pc = "take" /\ work[n].job \in Job /\ jobs[work[n].job].status # "none"
          /\ proc' = proc /\ marker' = marker
      BY <1>8, <1>0 DEF Take, WorkSound
    <2>2. jobs'[work[n].job].status # "none"
      BY <2>1, <1>a
    <2>3. work'[n].job = work[n].job /\ marker' = None /\ proc'[n].phase # "recover"
      BY <1>8, <2>1, <1>0, <1>b, <1>c, Fields DEF Take, MarkerPc
    <2> QED BY <2>2, <2>3 DEF AccountSound
  <1>9. CASE UploadData(n) \/ UploadManifest(n) \/ CleanData(n) \/
             BackupDone(n) \/ RemoveData(n) \/ RemoveManifest(n) \/
             Verify(n) \/ Drain(n)
    <2>1. PICK p : To(n, p)
      BY <1>9
         DEF UploadData, UploadManifest, CleanData, BackupDone, RemoveData,
             RemoveManifest, Verify, Drain
    <2>2. /\ work[n].pc \in {"data", "manifest", "clean", "rm_data", "rm_manifest", "verify", "drain"}
          /\ proc' = proc /\ marker' = marker
      BY <1>9
         DEF UploadData, UploadManifest, CleanData, BackupDone, RemoveData,
             RemoveManifest, Verify, Drain
    <2>3. work[n].job \in Job /\ (work[n].kind = "restore" => work[n].pc \in RowPc)
      BY <2>2, <1>0 DEF WorkSound, RowPc
    <2>4. work[n].kind = "restore" => jobs'[work[n].job].status # "none"
      BY <2>2, <2>3, <1>0, <1>a DEF AccountSound
    <2>5. work'[n].kind = work[n].kind /\ work'[n].job = work[n].job
      BY <2>1, <1>0, Fields
    <2>6. marker' = None /\ proc'[n].phase # "recover"
      BY <2>2, <1>b, <1>c DEF MarkerPc
    <2> QED BY <2>4, <2>5, <2>6 DEF AccountSound
  <1>10. CASE Dump(n) \/ List(n) \/ CleanManifest(n)
    <2>1. /\ work[n].pc \in {"dump", "list", "clean_manifest"}
          /\ proc' = proc /\ marker' = marker
      BY <1>10 DEF Dump, List, CleanManifest
    <2>2. \/ \E b : work' = [work EXCEPT ![n].pc = "data", ![n].id = b]
          \/ \E todo : work' = [work EXCEPT ![n].pc = "clean", ![n].todo = todo]
      BY <1>10 DEF Dump, List, CleanManifest
    <2>3. work[n].job \in Job /\ (work[n].kind = "restore" => work[n].pc \in RowPc)
      BY <2>1, <1>0 DEF WorkSound, RowPc
    <2>4. work[n].kind = "restore" => jobs'[work[n].job].status # "none"
      BY <2>1, <2>3, <1>0, <1>a DEF AccountSound
    <2>5. work'[n].kind = work[n].kind /\ work'[n].job = work[n].job
      BY <2>2, <1>0 DEF WorkTyped, WorkRec
    <2>6. marker' = None /\ proc'[n].phase # "recover"
      BY <2>1, <1>b, <1>c DEF MarkerPc
    <2> QED BY <2>4, <2>5, <2>6 DEF AccountSound
  <1>11. CASE Upgrade(n)
    <2>1. PICK p : To(n, p)
      BY <1>11 DEF Upgrade
    <2>2. work[n].pc = "upgrade" /\ marker' = marker /\ proc'[n].phase = proc[n].phase
      BY <1>11, <1>0 DEF Upgrade, LifeTyped, ProcRec
    <2>3. work[n].job \in Job /\ work[n].kind = "restore"
      BY <2>2, <1>0 DEF WorkSound, RestorePc
    <2>4. jobs'[work[n].job].status # "none"
      BY <2>2, <2>3, <1>0, <1>a DEF AccountSound, RowPc
    <2>5. work'[n].job = work[n].job
      BY <2>1, <1>0, Fields
    <2>6. marker' = None /\ proc'[n].phase # "recover"
      BY <2>2, <1>b, <1>c DEF MarkerPc
    <2> QED BY <2>4, <2>5, <2>6 DEF AccountSound
  <1>12. CASE Mark(n)
    <2>1. /\ work[n].pc = "mark" /\ proc' = proc /\ marker'.job = work[n].job
          /\ work'[n].job = work[n].job
      BY <1>12, <1>0, Fields DEF Mark
    <2>2. work[n].kind = "restore" /\ work[n].job \in Job
      BY <2>1, <1>0 DEF WorkSound, RestorePc
    <2>3. jobs'[work[n].job].status # "none"
      BY <2>1, <2>2, <1>0, <1>a DEF AccountSound, RowPc
    <2> QED BY <2>1, <2>3, <1>b, <1>c DEF AccountSound
  <1>13. CASE Overwrite(n) \/ Revoke(n) \/ CancelJobs(n)
    <2>1. PICK p \in {"revoke", "cancel", "record"} : To(n, p)
      BY <1>13 DEF Overwrite, Revoke, CancelJobs
    <2>2. work[n].pc \in {"overwrite", "revoke", "cancel"} /\ proc' = proc /\ marker' = marker
      BY <1>13 DEF Overwrite, Revoke, CancelJobs
    <2>3. work'[n].pc = p /\ work'[n].job = work[n].job
      BY <2>1, <1>0, Fields
    <2> QED BY <2>2, <2>3, <1>0, <1>b, <1>c DEF AccountSound, MarkerPc, RowPc
  <1>14. CASE Record(n)
    <2>1. /\ work[n].pc = "record" /\ proc' = proc /\ marker' = marker
          /\ work'[n].job = work[n].job
      BY <1>14, <1>0, Fields DEF Record
    <2>2. jobs'[work[n].job].status # "none"
      <3>1. work[n].job \in Job
        BY <2>1, <1>0 DEF WorkSound
      <3>2. jobs \in [Job -> JobRow]
        BY DEF IInv, TypeOK
      <3> QED BY <1>14, <3>1, <3>2 DEF Record, Outcome
    <2> QED BY <2>1, <2>2, <1>0, <1>b, <1>c DEF AccountSound, MarkerPc
  <1>15. CASE Unmark(n) \/ Finish(n) \/ Abort(n)
    <2>1. work'[n].pc \in {"finish", "fail", "idle"}
      BY <1>15, <1>0, Fields, Ends DEF Unmark, Finish, Abort, Idle
    <2>2. proc'[n].phase # "recover"
      BY <1>15, <1>0, <1>b, <1>c DEF Unmark, Finish, Abort, LifeTyped, ProcRec
    <2> QED BY <2>1, <2>2, IdleAccount
  <1>16. CASE StepFails(n)
    <2> DEFINE next == After(work[n].pc, work[n].kind)
    <2>0. /\ proc' = proc /\ marker' = marker /\ jobs' = jobs /\ work[n].pc # "idle"
          /\ proc'[n].phase # "recover"
      BY <1>16, <1>b, <1>c DEF StepFails
    <2>1. CASE work'[n] = Idle
      BY <2>0, <2>1, IdleAccount DEF Idle
    <2>2. ASSUME work'[n].pc = next, next # "idle", work'[n].kind = work[n].kind,
                 work'[n].job = work[n].job
          PROVE  AccountSound(n)'
      <3>1. \/ next = "abort" /\ work[n].pc \in {"mark", "overwrite", "dump", "data", "manifest"}
            \/ next \in {"fail", "finish"}
            \/ next = "clean" /\ work[n].pc \in {"list", "clean", "clean_manifest"}
        BY <2>0, <2>2 DEF After
      <3> HIDE DEF next
      <3>2. CASE next \in {"fail", "finish"}
        BY <2>0, <2>2, <3>2, IdleAccount
      <3>3. CASE next \in {"abort", "clean"}
        BY <2>0, <2>2, <3>1, <3>3, <1>0, <1>b, <1>c
           DEF AccountSound, MarkerPc, RowPc
      <3> QED BY <3>1, <3>2, <3>3
    <2> QED BY <1>16, <2>1, <2>2, <1>0, FailFields
  <1> QED
    BY <1>1, <1>2, <1>3, <1>4, <1>5, <1>6, <1>7, <1>8, <1>9, <1>10, <1>11,
       <1>12, <1>13, <1>14, <1>15, <1>16
       DEF Act, Work, Life, Serve

LEMMA InitAInv == Init => AInv
  <1>1. None \notin {"backup", "delete_backup", "restore", "inspection"}
    BY ConstantsAssumption DEF Kind
  <1> QED BY <1>1 DEF Init, AInv, AccountSound, Idle, Down

LEMMA NextAInv == IInv /\ AInv /\ [Next]_vars => AInv'
  <1> SUFFICES ASSUME IInv, AInv, [Next]_vars, NEW k \in Node PROVE AccountSound(k)'
    BY DEF AInv
  <1>1. CASE UNCHANGED vars
    BY <1>1 DEF vars, AInv, AccountSound
  <1> QED BY <1>1, ActAccount, AccountOthers, ActOrStutter

LEMMA MarkerGoes ==
  ASSUME IInv, AInv, NEW n \in Node, Act(n), marker # None, marker' # marker
  PROVE  jobs'[marker.job].status # "none"
  <1>0. /\ TableTyped /\ WorkSound(n) /\ AccountSound(n) /\ MarkerSound
        /\ proc[n].phase = "recover" => proc[n].seen \in Marker
    BY TypedParts DEF IInv, AInv, LifeSound
  <1>1. CASE Unmark(n) \/ Abort(n)
    <2>1. /\ work[n].pc \in {"unmark", "abort"} /\ work[n].kind = "restore" /\ work[n].job \in Job
          /\ jobs' = jobs
      BY <1>1, <1>0 DEF Unmark, Abort, WorkSound, RestorePc
    <2> QED BY <2>1, <1>0 DEF AccountSound, MarkerPc, RowPc
  <1>2. CASE Recover(n)
    <2>1. proc[n].seen = marker /\ marker.job \in Job
      BY <1>2, <1>0 DEF Recover, AccountSound, Marker
    <2>2. DOMAIN Cancelled(jobs) = Job
      BY DEF Cancelled
    <2> QED BY <1>2, <2>1, <2>2 DEF Recover, Outcome
  <1>3. ~(Mark(n))
    <2> SUFFICES ASSUME Mark(n) PROVE FALSE
      OBVIOUS
    <2>1. work[n].pc = "mark" /\ Serving(n)
      BY Busy DEF Mark
    <2> QED BY <2>1, <1>0 DEF MarkerSound
  <1>4. ~(Tick(n) \/ Plan(n) \/ InsertScheduled(n) \/ Pick(n) \/
         Take(n) \/ JobDone(n) \/ JobFailed(n) \/ Dump(n) \/
         UploadData(n) \/ UploadManifest(n) \/ List(n) \/
         CleanData(n) \/ CleanManifest(n))
    BY
       DEF Tick, Plan, InsertScheduled, Pick, Take, JobDone, JobFailed, Dump,
           UploadData, UploadManifest, List, CleanData, CleanManifest
  <1>5. ~(BackupDone(n) \/ RemoveData(n) \/ RemoveManifest(n) \/
         Verify(n) \/ Upgrade(n) \/ Drain(n) \/ Overwrite(n) \/
         Revoke(n) \/ CancelJobs(n) \/ Record(n) \/ Finish(n) \/
         Boot(n) \/ ReadMarker(n))
    BY
       DEF BackupDone, RemoveData, RemoveManifest, Verify, Upgrade, Drain,
           Overwrite, Revoke, CancelJobs, Record, Finish, Boot, ReadMarker
  <1>6. ~(ReconcileDone(n) \/ Stop(n) \/ Exit(n) \/ Respond(n) \/
         InsertForRequest(n) \/ Admit(n) \/ CountForRequest(n) \/
         PassStart(n) \/ PassEnd(n) \/ Sigterm(n) \/ Crash(n) \/
         StepFails(n))
    BY
       DEF ReconcileDone, Stop, Exit, Respond, InsertForRequest, Admit,
           CountForRequest, PassStart, PassEnd, Sigterm, Crash, StepFails
  <1> QED BY <1>1, <1>2, <1>3, <1>4, <1>5, <1>6 DEF Act, Work, Life, Serve

(* The marker of a restore only goes in a step after which the table of    *)
(* jobs there is then has a row that tells of that restore, whether it     *)
(* succeeded, was given up, or was interrupted and recovered from          *)
(* (operations-service.js:12-22,100-106).                                  *)
THEOREM MarkerIsAccounted == Spec => MarkerAccounted
  <1>1. Init => IInv /\ AInv
    BY InitIInv, InitAInv
  <1>2. IInv /\ AInv /\ [Next]_vars => IInv' /\ AInv'
    BY InductiveStep, NextAInv
  <1>3. IInv /\ AInv /\ [Next]_vars =>
          [marker # None /\ marker' # marker => jobs'[marker.job].status # "none"]_vars
    <2> SUFFICES ASSUME IInv, AInv, [Next]_vars, marker # None, marker' # marker
                 PROVE  jobs'[marker.job].status # "none"
      OBVIOUS
    <2>1. ~UNCHANGED vars
      BY DEF vars
    <2> QED BY <2>1, MarkerGoes, ActOrStutter
  <1> QED BY <1>1, <1>2, <1>3, PTL DEF Spec, MarkerAccounted

=============================================================================
