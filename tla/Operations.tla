------------------------------ MODULE Operations ------------------------------
(***************************************************************************)
(* The job queue of src/src/operations-service.js with the backups of      *)
(* s3-backups.js, the instance lease of operations-lease.js and the        *)
(* process that holds them (server.js): jobs are queued by requests and by *)
(* the schedule, executed by one worker of all processes, and one of them, *)
(* restore, overwrites the database while nothing else may run.            *)
(*                                                                         *)
(* A backup is two objects in S3, the data and a signed manifest; what a   *)
(* dump holds is reduced to the jobs table and to the fact that it holds   *)
(* sessions and keys that were good when it was made.                      *)
(***************************************************************************)
EXTENDS Integers, FiniteSets

CONSTANTS
  Node,        (* Processes of the application.                            *)
  QueueLimit,  (* Jobs queued or running at the same time.                 *)
  Retention,   (* settings.retention.                                      *)
  MaxJobs,     (* Bound: jobs ever queued.                                 *)
  MaxBackups,  (* Bound: backups ever made.                                *)
  MaxFaults,   (* Bound: failed statements and calls, crashes, SIGTERMs.   *)
  Asked,       (* The kinds of jobs that requests ask for.                 *)
  None

Job == 1..MaxJobs
Backup == 1..MaxBackups

(* An inspection's effect on sites is the subject of module Quota.         *)
Kind == {"backup", "delete_backup", "restore", "inspection"}

ASSUME ConstantsAssumption ==
  /\ QueueLimit \in Nat \ 0..1 /\ Retention \in Nat \ {0}
  /\ MaxJobs \in Nat \ 0..3 /\ MaxBackups \in Nat /\ MaxBackups >= MaxJobs - 1
  /\ MaxFaults \in Nat /\ Asked \subseteq Kind
  /\ None \notin Node \cup Job \cup Backup
  /\ None \notin Kind \cup {"manual", "pre_restore"}
  /\ None \notin Node \X {"http", "tick"}
  /\ None \notin [job : Job, target : Backup, pre : Backup]

VARIABLES
  jobs,     (* operations_jobs; the status none is a row that is not there. *)
  marker,   (* operations_restore_state.                                   *)
  revived,  (* The tables hold sessions and keys out of a dump.            *)
  s3,       (* The backups in S3.                                          *)
  lease,    (* The session locks on the instance key.                      *)
  worker,   (* Who holds operations-worker.                                *)
  queue,    (* Who holds operations-queue.                                 *)
  proc,     (* The processes.                                              *)
  req,      (* A request each process is serving.                          *)
  work,     (* Where each process is in tick.                              *)
  made,     (* Jobs ever queued: identifiers are never used again.         *)
  begun,    (* History: how often each job was started.                    *)
  faults

vars == <<jobs, marker, revived, s3, lease, worker, queue, proc, req, work,
          made, begun, faults>>

NoJob == [kind |-> None, target |-> None, status |-> "none"]
NoBackup == [data |-> FALSE, manifest |-> FALSE, reason |-> None, jobs |-> <<>>]

Status == {"none", "queued", "running", "succeeded", "failed"}
JobRow == [kind : Kind \cup {None}, target : Backup \cup {None}, status : Status]

(* phase: down, boot (lease taken, before recoverInterruptedRestore),      *)
(* recover (it has read a marker), up, closing (shutdown was called).      *)
Down == [phase |-> "down", seen |-> None, restoring |-> FALSE, stopped |-> FALSE,
         started |-> FALSE, paused |-> FALSE, pass |-> FALSE, reconciling |-> FALSE]

Idle == [pc |-> "idle", kind |-> None, job |-> None, target |-> None,
         id |-> None, todo |-> {}, ok |-> TRUE]

(* The backup there is was made by job 2 while job 1 was queued.  Both have *)
(* ended since, and two jobs are waiting.                                  *)
Earlier(first, second) ==
  [j \in Job |-> CASE j = 1 -> [kind |-> "inspection", target |-> None, status |-> first]
                   [] j = 2 -> [kind |-> "backup", target |-> None, status |-> second]
                   [] OTHER -> NoJob]

Queued(kind, target) == [kind |-> kind, target |-> target, status |-> "queued"]

Init ==
  /\ \E job \in {Queued("backup", None), Queued("inspection", None)} :
       jobs = [Earlier("succeeded", "succeeded") EXCEPT ![3] = job, ![4] = Queued("restore", 1)]
  /\ marker = None /\ revived = FALSE
  /\ s3 = [b \in Backup |-> IF b = 1
                            THEN [data |-> TRUE, manifest |-> TRUE, reason |-> "manual",
                                  jobs |-> Earlier("queued", "running")]
                            ELSE NoBackup]
  /\ lease = [shared |-> {}, excl |-> None]
  /\ worker = None /\ queue = None
  /\ proc = [n \in Node |-> Down]
  /\ req = [n \in Node |-> "none"]
  /\ work = [n \in Node |-> Idle]
  /\ made = 4 /\ begun = [j \in Job |-> IF j <= 2 THEN 1 ELSE 0] /\ faults = 0

-----------------------------------------------------------------------------
Open == {"queued", "running"}
Settled == {"succeeded", "failed"}

Pending == {j \in Job : jobs[j].status \in Open}

NoCancelBug(table) == table

(* revokeRestoredAuthentication and tick: open jobs are given up.          *)
Cancelled(table) ==
  [j \in Job |-> IF table[j].status \in Open THEN [table[j] EXCEPT !.status = "failed"]
                 ELSE table[j]]

Complete(b) == s3[b].data /\ s3[b].manifest

Add(kind, target) ==
  /\ jobs' = [jobs EXCEPT ![made + 1] = [kind |-> kind, target |-> target, status |-> "queued"]]
  /\ made' = made + 1
  /\ queue' = None

FullIgnoredBug(n, who) ==
  /\ made < MaxJobs
  /\ queue = None
  /\ Cardinality(Pending) <= QueueLimit
  /\ queue' = <<n, who>>

(* enqueue: under the lock operations-queue the open jobs are counted, and *)
(* one is inserted if there is room.                                       *)
Count(n, who) ==
  /\ made < MaxJobs
  /\ queue = None
  /\ Cardinality(Pending) < QueueLimit
  /\ queue' = <<n, who>>

-----------------------------------------------------------------------------
(* Requests.  Any of them may read and write the database; only the        *)
(* operations API queues jobs.                                             *)
Admit(n) ==
  /\ proc[n].phase = "up" /\ ~proc[n].restoring /\ req[n] = "none"
  /\ req' = [req EXCEPT ![n] = "in"]
  /\ UNCHANGED <<jobs, marker, revived, s3, lease, worker, queue, proc, work, made, begun, faults>>

Respond(n) ==
  /\ req[n] = "in"
  /\ req' = [req EXCEPT ![n] = "none"]
  /\ UNCHANGED <<jobs, marker, revived, s3, lease, worker, queue, proc, work, made, begun, faults>>

CountForRequest(n) ==
  /\ req[n] = "in" /\ Count(n, "http")
  /\ req' = [req EXCEPT ![n] = "counted"]
  /\ UNCHANGED <<jobs, marker, revived, s3, lease, worker, proc, work, made, begun, faults>>

InsertForRequest(n) ==
  /\ req[n] = "counted"
  /\ \E kind \in Asked :
       IF kind \in {"delete_backup", "restore"}
       THEN \E b \in {b \in Backup : s3[b].manifest} : Add(kind, b)
       ELSE Add(kind, None)
  /\ req' = [req EXCEPT ![n] = "in"]
  /\ UNCHANGED <<marker, revived, s3, lease, worker, proc, work, begun, faults>>

(* The billing scheduler, and the reconciliation of upstream groups that   *)
(* startup leaves running; operations.start follows it.                    *)
PassStart(n) ==
  /\ proc[n].phase \in {"up", "closing"} /\ ~proc[n].paused /\ ~proc[n].pass
  /\ proc' = [proc EXCEPT ![n].pass = TRUE]
  /\ UNCHANGED <<jobs, marker, revived, s3, lease, worker, queue, req, work, made, begun, faults>>

PassEnd(n) ==
  /\ proc[n].pass
  /\ proc' = [proc EXCEPT ![n].pass = FALSE]
  /\ UNCHANGED <<jobs, marker, revived, s3, lease, worker, queue, req, work, made, begun, faults>>

ReconcileDone(n) ==
  /\ proc[n].reconciling
  /\ proc' = [proc EXCEPT ![n].reconciling = FALSE, ![n].started = ~proc[n].stopped]
  /\ UNCHANGED <<jobs, marker, revived, s3, lease, worker, queue, req, work, made, begun, faults>>

-----------------------------------------------------------------------------
KeepsRunningBug(n) ==
  /\ work[n].pc = "idle" /\ worker = None
  /\ proc[n].started /\ ~proc[n].stopped /\ ~proc[n].restoring
  /\ worker' = n
  /\ work' = [work EXCEPT ![n].pc = "plan"]
  /\ UNCHANGED <<jobs, marker, revived, s3, lease, queue, proc, req, made, begun, faults>>

(* tick: who has the worker lock knows that no job is being executed.      *)
Tick(n) ==
  /\ work[n].pc = "idle" /\ worker = None
  /\ proc[n].started /\ ~proc[n].stopped /\ ~proc[n].restoring
  /\ worker' = n
  /\ jobs' = [j \in Job |-> IF jobs[j].status = "running"
                            THEN [jobs[j] EXCEPT !.status = "failed"] ELSE jobs[j]]
  /\ work' = [work EXCEPT ![n].pc = "plan"]
  /\ UNCHANGED <<marker, revived, s3, lease, queue, proc, req, made, begun, faults>>

To(n, pc) == work' = [work EXCEPT ![n].pc = pc]

EndTick(n) ==
  /\ work' = [work EXCEPT ![n] = Idle]
  /\ worker' = None

(* A backup may be due; a busy or full queue is no obstacle.               *)
Plan(n) ==
  /\ work[n].pc = "plan"
  /\ \/ Count(n, "tick") /\ To(n, "insert")
     \/ To(n, "pick") /\ UNCHANGED queue
  /\ UNCHANGED <<jobs, marker, revived, s3, lease, worker, proc, req, made, begun, faults>>

InsertScheduled(n) ==
  /\ work[n].pc = "insert"
  /\ Add("backup", None)
  /\ To(n, "pick")
  /\ UNCHANGED <<marker, revived, s3, lease, worker, proc, req, begun, faults>>

(* The oldest job that is queued.                                          *)
Pick(n) ==
  LET queued == {j \in Job : jobs[j].status = "queued"}
  IN /\ work[n].pc = "pick"
     /\ IF queued = {}
        THEN EndTick(n)
        ELSE /\ LET j == CHOOSE j \in queued : \A k \in queued : j <= k
                IN work' = [work EXCEPT ![n].pc = "take", ![n].job = j,
                              ![n].kind = jobs[j].kind, ![n].target = jobs[j].target]
             /\ UNCHANGED worker
     /\ UNCHANGED <<jobs, marker, revived, s3, lease, queue, proc, req, made, begun, faults>>

FirstStep == [backup |-> "dump", delete_backup |-> "rm_data", restore |-> "verify",
              inspection |-> "done"]

Take(n) ==
  LET j == work[n].job
  IN /\ work[n].pc = "take"
     /\ jobs' = [jobs EXCEPT ![j].status = "running"]
     /\ begun' = [begun EXCEPT ![j] = @ + 1]
     /\ To(n, FirstStep[work[n].kind])
     /\ UNCHANGED <<marker, revived, s3, lease, worker, queue, proc, req, made, faults>>

JobDone(n) ==
  /\ work[n].pc = "done"
  /\ jobs' = [jobs EXCEPT ![work[n].job].status = "succeeded"]
  /\ EndTick(n)
  /\ UNCHANGED <<marker, revived, s3, lease, queue, proc, req, made, begun, faults>>

(* The UPDATE of tick's catch; after an overwrite the row may be gone.     *)
JobFailed(n) ==
  LET j == work[n].job
  IN /\ work[n].pc = "fail"
     /\ jobs' = IF jobs[j].status = "none" THEN jobs ELSE [jobs EXCEPT ![j].status = "failed"]
     /\ EndTick(n)
     /\ UNCHANGED <<marker, revived, s3, lease, queue, proc, req, made, begun, faults>>

-----------------------------------------------------------------------------
(* S3Backups.backup: dump, upload of the data, then of the manifest, then  *)
(* the retention, whose failure does not fail the backup.                  *)
Unused == {b \in Backup : s3[b].reason = None}

Dump(n) ==
  LET b == CHOOSE b \in Unused : \A c \in Unused : b <= c
  IN /\ work[n].pc = "dump"
     /\ s3' = [s3 EXCEPT ![b].reason = IF work[n].kind = "restore" THEN "pre_restore" ELSE "manual",
                         ![b].jobs = jobs]
     /\ work' = [work EXCEPT ![n].pc = "data", ![n].id = b]
     /\ UNCHANGED <<jobs, marker, revived, lease, worker, queue, proc, req, made, begun, faults>>

UploadData(n) ==
  /\ work[n].pc = "data"
  /\ s3' = [s3 EXCEPT ![work[n].id].data = TRUE]
  /\ To(n, "manifest")
  /\ UNCHANGED <<jobs, marker, revived, lease, worker, queue, proc, req, made, begun, faults>>

UploadManifest(n) ==
  /\ work[n].pc = "manifest"
  /\ s3' = [s3 EXCEPT ![work[n].id].manifest = TRUE]
  /\ To(n, "list")
  /\ UNCHANGED <<jobs, marker, revived, lease, worker, queue, proc, req, made, begun, faults>>

UnprotectedBug(n) ==
  LET listed == {b \in Backup : s3[b].manifest /\ s3[b].reason # "pre_restore"}
  IN {b \in listed : Cardinality({c \in listed : c > b}) >= Retention} \ {work[n].id}

(* The listed backups beyond the newest ones, pre_restore left out; never  *)
(* the source of the restore (protectedIds) nor the backup just made.      *)
Expired(n) ==
  LET listed == {b \in Backup : s3[b].manifest /\ s3[b].reason # "pre_restore"}
  IN {b \in listed : Cardinality({c \in listed : c > b}) >= Retention}
       \ {work[n].id, IF work[n].kind = "restore" THEN work[n].target ELSE None}

List(n) ==
  /\ work[n].pc = "list"
  /\ work' = [work EXCEPT ![n].pc = "clean", ![n].todo = Expired(n)]
  /\ UNCHANGED <<jobs, marker, revived, s3, lease, worker, queue, proc, req, made, begun, faults>>

Newest(S) == CHOOSE b \in S : \A c \in S : c <= b

(* remove, for the next one: its data, then its manifest.                  *)
CleanData(n) ==
  /\ work[n].pc = "clean" /\ work[n].todo # {}
  /\ s3' = [s3 EXCEPT ![Newest(work[n].todo)].data = FALSE]
  /\ To(n, "clean_manifest")
  /\ UNCHANGED <<jobs, marker, revived, lease, worker, queue, proc, req, made, begun, faults>>

CleanManifest(n) ==
  LET b == Newest(work[n].todo)
  IN /\ work[n].pc = "clean_manifest"
     /\ s3' = [s3 EXCEPT ![b].manifest = FALSE]
     /\ work' = [work EXCEPT ![n].pc = "clean", ![n].todo = @ \ {b}]
     /\ UNCHANGED <<jobs, marker, revived, lease, worker, queue, proc, req, made, begun, faults>>

BackupDone(n) ==
  /\ work[n].pc = "clean" /\ work[n].todo = {}
  /\ To(n, IF work[n].kind = "restore" THEN "mark" ELSE "done")
  /\ UNCHANGED <<jobs, marker, revived, s3, lease, worker, queue, proc, req, made, begun, faults>>

(* A job delete_backup: remove, which reads the manifest first.            *)
RemoveData(n) ==
  /\ work[n].pc = "rm_data"
  /\ IF s3[work[n].target].manifest
     THEN s3' = [s3 EXCEPT ![work[n].target].data = FALSE] /\ To(n, "rm_manifest")
     ELSE UNCHANGED s3 /\ To(n, "fail")
  /\ UNCHANGED <<jobs, marker, revived, lease, worker, queue, proc, req, made, begun, faults>>

RemoveManifest(n) ==
  /\ work[n].pc = "rm_manifest"
  /\ s3' = [s3 EXCEPT ![work[n].target].manifest = FALSE]
  /\ To(n, "done")
  /\ UNCHANGED <<jobs, marker, revived, lease, worker, queue, proc, req, made, begun, faults>>

-----------------------------------------------------------------------------
(* restore.  The download is verified before anything is touched.          *)
Verify(n) ==
  /\ work[n].pc = "verify"
  /\ To(n, IF Complete(work[n].target) THEN "upgrade" ELSE "fail")
  /\ UNCHANGED <<jobs, marker, revived, s3, lease, worker, queue, proc, req, made, begun, faults>>

NotAloneBug(n) == TRUE

(* pg_try_advisory_lock succeeds if no other session holds the key.        *)
Alone(n) == lease.shared = {n}

Upgrade(n) ==
  /\ work[n].pc = "upgrade"
  /\ IF Alone(n)
     THEN /\ lease' = [lease EXCEPT !.excl = n]
          /\ proc' = [proc EXCEPT ![n].restoring = TRUE, ![n].paused = TRUE]
          /\ To(n, "drain")
     ELSE UNCHANGED <<lease, proc>> /\ To(n, "fail")
  /\ UNCHANGED <<jobs, marker, revived, s3, worker, queue, req, made, begun, faults>>

Drained(n) == req[n] = "none" /\ ~proc[n].pass /\ ~proc[n].reconciling

(* The wait ends when all is quiet, or after 60 seconds.                   *)
Drain(n) ==
  /\ work[n].pc = "drain"
  /\ To(n, IF Drained(n) THEN "dump" ELSE "abort")
  /\ UNCHANGED <<jobs, marker, revived, s3, lease, worker, queue, proc, req, made, begun, faults>>

Mark(n) ==
  /\ work[n].pc = "mark"
  /\ marker' = [job |-> work[n].job, target |-> work[n].target, pre |-> work[n].id]
  /\ To(n, "overwrite")
  /\ UNCHANGED <<jobs, revived, s3, lease, worker, queue, proc, req, made, begun, faults>>

Restored(b) == jobs' = s3[b].jobs /\ revived' = TRUE

(* pg_restore in one transaction.  The marker's table is in no dump.       *)
Overwrite(n) ==
  /\ work[n].pc = "overwrite"
  /\ Restored(work[n].target)
  /\ To(n, "revoke")
  /\ UNCHANGED <<marker, s3, lease, worker, queue, proc, req, made, begun, faults>>

Revoke(n) ==
  /\ work[n].pc = "revoke"
  /\ revived' = FALSE
  /\ To(n, "cancel")
  /\ UNCHANGED <<jobs, marker, s3, lease, worker, queue, proc, req, made, begun, faults>>

CancelJobs(n) ==
  /\ work[n].pc = "cancel"
  /\ jobs' = Cancelled(jobs)
  /\ To(n, "record")
  /\ UNCHANGED <<marker, revived, s3, lease, worker, queue, proc, req, made, begun, faults>>

Outcome(b, status) == [kind |-> "restore", target |-> b, status |-> status]

Record(n) ==
  /\ work[n].pc = "record"
  /\ jobs' = [jobs EXCEPT ![work[n].job] = Outcome(work[n].target, "succeeded")]
  /\ To(n, "unmark")
  /\ UNCHANGED <<marker, revived, s3, lease, worker, queue, proc, req, made, begun, faults>>

Unmark(n) ==
  /\ work[n].pc = "unmark"
  /\ marker' = None
  /\ To(n, "finish")
  /\ UNCHANGED <<jobs, revived, s3, lease, worker, queue, proc, req, made, begun, faults>>

(* finally, once pg_restore has succeeded: maintenance and the exclusive   *)
(* lock are kept, and the process restarts.                                *)
Finish(n) ==
  /\ work[n].pc = "finish"
  /\ proc' = [proc EXCEPT ![n].stopped = TRUE, ![n].phase = "closing"]
  /\ IF work[n].ok THEN EndTick(n) ELSE To(n, "fail") /\ UNCHANGED worker
  /\ UNCHANGED <<jobs, marker, revived, s3, lease, queue, req, made, begun, faults>>

(* finally, when it has not.                                               *)
Abort(n) ==
  /\ work[n].pc = "abort"
  /\ marker' = None
  /\ proc' = [proc EXCEPT ![n].restoring = FALSE, ![n].paused = FALSE]
  /\ lease' = [lease EXCEPT !.excl = None]
  /\ To(n, "fail")
  /\ UNCHANGED <<jobs, revived, s3, worker, queue, req, made, begun, faults>>

-----------------------------------------------------------------------------
(* The process (server.js).  The lease comes before everything else; while *)
(* a restore holds the key exclusively it is waited for.                   *)
Boot(n) ==
  /\ proc[n].phase = "down" /\ lease.excl = None
  /\ lease' = [lease EXCEPT !.shared = @ \cup {n}]
  /\ proc' = [proc EXCEPT ![n].phase = "boot"]
  /\ UNCHANGED <<jobs, marker, revived, s3, worker, queue, req, work, made, begun, faults>>

Listening(n) == [proc[n] EXCEPT !.phase = "up", !.reconciling = TRUE, !.seen = None]

OnlyUpdatesBug(n) ==
  LET seen == proc[n].seen
  IN /\ proc[n].phase = "recover"
     /\ revived' = FALSE
     /\ jobs' = IF jobs[seen.job].status = "none" THEN Cancelled(jobs)
                ELSE [Cancelled(jobs) EXCEPT ![seen.job] = Outcome(seen.target, "failed")]
     /\ marker' = None
     /\ proc' = [proc EXCEPT ![n] = Listening(n)]
     /\ UNCHANGED <<s3, lease, worker, queue, req, work, made, begun, faults>>

(* recoverInterruptedRestore reads the marker, then recovers in one        *)
(* transaction by what it has read.                                        *)
ReadMarker(n) ==
  /\ proc[n].phase = "boot"
  /\ proc' = [proc EXCEPT ![n] = IF marker = None THEN Listening(n)
                                 ELSE [@ EXCEPT !.phase = "recover", !.seen = marker]]
  /\ UNCHANGED <<jobs, marker, revived, s3, lease, worker, queue, req, work, made, begun, faults>>

Recover(n) ==
  LET seen == proc[n].seen
  IN /\ proc[n].phase = "recover"
     /\ revived' = FALSE
     /\ jobs' = [Cancelled(jobs) EXCEPT ![seen.job] = Outcome(seen.target, "failed")]
     /\ marker' = None
     /\ proc' = [proc EXCEPT ![n] = Listening(n)]
     /\ UNCHANGED <<s3, lease, worker, queue, req, work, made, begun, faults>>

(* shutdown: no new requests; when those under way have ended, the worker  *)
(* is waited for.                                                          *)
Sigterm(n) ==
  /\ proc[n].phase = "up" /\ faults < MaxFaults
  /\ faults' = faults + 1
  /\ proc' = [proc EXCEPT ![n].phase = "closing", ![n].paused = TRUE]
  /\ UNCHANGED <<jobs, marker, revived, s3, lease, worker, queue, req, work, made, begun>>

Stop(n) ==
  /\ proc[n].phase = "closing" /\ req[n] = "none" /\ ~proc[n].stopped
  /\ proc' = [proc EXCEPT ![n].stopped = TRUE]
  /\ UNCHANGED <<jobs, marker, revived, s3, lease, worker, queue, req, work, made, begun, faults>>

LeaseKeptBug(n) ==
  /\ proc' = [proc EXCEPT ![n] = Down]
  /\ UNCHANGED lease

Gone(n) ==
  /\ proc' = [proc EXCEPT ![n] = Down]
  /\ lease' = [shared |-> lease.shared \ {n}, excl |-> IF lease.excl = n THEN None ELSE lease.excl]

Exit(n) ==
  /\ proc[n].phase = "closing" /\ proc[n].stopped
  /\ req[n] = "none" /\ work[n].pc = "idle"
  /\ Gone(n)
  /\ UNCHANGED <<jobs, marker, revived, s3, worker, queue, req, work, made, begun, faults>>

(* The process dies, PostgreSQL frees what its sessions held.  A           *)
(* pg_restore under way has committed or has not.                          *)
Crash(n) ==
  /\ proc[n].phase # "down" /\ faults < MaxFaults
  /\ faults' = faults + 1
  /\ Gone(n)
  /\ req' = [req EXCEPT ![n] = "none"]
  /\ work' = [work EXCEPT ![n] = Idle]
  /\ worker' = IF worker = n THEN None ELSE worker
  /\ queue' = IF queue \in {<<n, "http">>, <<n, "tick">>} THEN None ELSE queue
  /\ \/ UNCHANGED <<jobs, revived>>
     \/ work[n].pc = "overwrite" /\ Restored(work[n].target)
  /\ UNCHANGED <<marker, s3, made, begun>>

CommittedLateBug(pc, kind) ==
  CASE pc \in {"plan", "insert", "pick", "take", "fail"} -> "idle"
    [] pc \in {"list", "clean", "clean_manifest"} -> "clean"
    [] pc \in {"mark", "overwrite", "revoke", "cancel", "record", "unmark"} -> "abort"
    [] pc \in {"dump", "data", "manifest"} /\ kind = "restore" -> "abort"
    [] OTHER -> "fail"

(* Where a failed step leads.  In a restore an error before the overwrite  *)
(* goes to the finally that gives up, one after it to the finally that     *)
(* restarts.  An error in the UPDATE of the catch, or before a job is      *)
(* taken, ends the tick.                                                   *)
After(pc, kind) ==
  CASE pc \in {"plan", "insert", "pick", "take", "fail"} -> "idle"
    [] pc \in {"list", "clean", "clean_manifest"} -> "clean"
    [] pc \in {"revoke", "cancel", "record", "unmark"} -> "finish"
    [] pc \in {"mark", "overwrite"} -> "abort"
    [] pc \in {"dump", "data", "manifest"} /\ kind = "restore" -> "abort"
    [] OTHER -> "fail"

(* A statement or a call fails, without effect.  When it is the DELETE of  *)
(* the finally that gives up, the rest of it is not reached.               *)
StepFails(n) ==
  LET next == After(work[n].pc, work[n].kind)
  IN /\ work[n].pc \notin {"idle", "finish", "drain"} /\ faults < MaxFaults
     /\ faults' = faults + 1
     /\ IF next = "idle"
        THEN EndTick(n)
        ELSE /\ work' = [work EXCEPT ![n].pc = next, ![n].todo = {}, ![n].ok = next # "finish"]
             /\ UNCHANGED worker
     /\ queue' = IF work[n].pc = "insert" THEN None ELSE queue
     /\ UNCHANGED <<jobs, marker, revived, s3, lease, proc, req, made, begun>>

-----------------------------------------------------------------------------
Work(n) ==
  \/ Tick(n) \/ Plan(n) \/ InsertScheduled(n) \/ Pick(n) \/ Take(n)
  \/ JobDone(n) \/ JobFailed(n)
  \/ Dump(n) \/ UploadData(n) \/ UploadManifest(n) \/ List(n)
  \/ CleanData(n) \/ CleanManifest(n) \/ BackupDone(n)
  \/ RemoveData(n) \/ RemoveManifest(n)
  \/ Verify(n) \/ Upgrade(n) \/ Drain(n) \/ Mark(n) \/ Overwrite(n)
  \/ Revoke(n) \/ CancelJobs(n) \/ Record(n) \/ Unmark(n) \/ Finish(n) \/ Abort(n)

Life(n) ==
  \/ Boot(n) \/ ReadMarker(n) \/ Recover(n) \/ ReconcileDone(n)
  \/ Stop(n) \/ Exit(n)

Serve(n) == Respond(n) \/ InsertForRequest(n)

Next ==
  \E n \in Node :
    \/ Work(n) \/ Life(n) \/ Serve(n)
    \/ Admit(n) \/ CountForRequest(n)
    \/ PassStart(n) \/ PassEnd(n)
    \/ Sigterm(n) \/ Crash(n) \/ StepFails(n)

Spec == Init /\ [][Next]_vars

(* Timers tick, calls end or time out, and a supervisor starts a process   *)
(* that has ended.                                                         *)
FairSpec ==
  /\ Spec
  /\ \A n \in Node : WF_vars(Work(n)) /\ WF_vars(Life(n)) /\ WF_vars(Serve(n))
                       /\ WF_vars(PassEnd(n))

-----------------------------------------------------------------------------
TypeOK ==
  /\ jobs \in [Job -> JobRow]
  /\ marker \in [job : Job, target : Backup, pre : Backup] \cup {None}
  /\ revived \in BOOLEAN
  /\ \A b \in Backup : s3[b].reason = None => ~s3[b].data /\ ~s3[b].manifest
  /\ lease.shared = {n \in Node : proc[n].phase # "down"}
  /\ lease.excl \in {None} \cup lease.shared
  /\ worker \in Node \cup {None} /\ \A n \in Node : work[n].pc # "idle" => worker = n
  /\ queue \in (Node \X {"http", "tick"}) \cup {None}
  /\ \A n \in Node : proc[n].phase \in {"down", "boot", "recover", "up", "closing"}
  /\ req \in [Node -> {"none", "in", "counted"}]
  /\ made \in 0..MaxJobs /\ faults \in 0..MaxFaults
  /\ begun \in [Job -> Nat]

(* While sessions and keys out of a dump are good, whatever crashed or     *)
(* failed since pg_restore, the marker is there and no process serves a    *)
(* request (doc/BACKUPS_AND_INSPECTION.md:23, server.js:20,43).            *)
RevivedUnserved ==
  revived => marker # None /\ \A n \in Node : req[n] = "none" /\ ~proc[n].pass

(* From the safety backup to the restart no process has a request, a       *)
(* billing pass or a reconciliation under way: what they wrote would be    *)
(* in neither database (operations-service.js:83-91).                      *)
RestoreAlone ==
  \A n \in Node :
    work[n].kind = "restore" /\ work[n].id # None /\ work[n].pc # "fail" =>
      /\ lease.shared = {n}
      /\ \A k \in Node : req[k] = "none" /\ ~proc[k].pass /\ ~proc[k].reconciling

(* A job is started once: a crash gives it up, and one that a dump holds   *)
(* as queued or running is not started again after a restore               *)
(* (operations-service.js:9,50, test/operations.test.js:179).              *)
RunsOnce == \A j \in Job : begun[j] <= 1

(* The way back exists as long as the marker names it, and the retention   *)
(* of the safety backup spares the backup that is being restored           *)
(* (s3-backups.js:122, doc/BACKUPS_AND_INSPECTION.md:13).                  *)
BackupsKept ==
  /\ marker # None => Complete(marker.pre)
  /\ \A n \in Node :
       work[n].kind = "restore" /\ work[n].pc \notin {"take", "verify", "fail"} =>
         Complete(work[n].target)

(* The jobs that wait never exceed the limit, whoever queues them, and one *)
(* runs at a time (operations-service.js:34-36,50).  Together they may be  *)
(* one more than the limit: two processes that start from one marker each  *)
(* cancel what is open, the second also what the first has queued since    *)
(* and is about to run, and in its place another job is queued.            *)
QueueBounded ==
  /\ Cardinality({j \in Job : jobs[j].status = "queued"}) <= QueueLimit
  /\ \A j, k \in Job : jobs[j].status = "running" /\ jobs[k].status = "running" => j = k

(* A restore has given up, and the DELETE of its finally has failed: the   *)
(* process stays in maintenance until somebody restarts it                 *)
(* (operations-service.js:106).                                            *)
Stuck(n) == proc[n].restoring /\ ~proc[n].stopped /\ work[n].pc = "idle"

(* The queue is worked off, whatever crashed in between, or a process is   *)
(* stuck.                                                                  *)
QueueDrains == (Pending # {}) ~> (Pending = {} \/ \E n \in Node : Stuck(n))

(* The marker only goes when the database there is then has a row that     *)
(* tells of that restore (operations-service.js:12-22,100-101).            *)
MarkerAccounted ==
  [][marker # None /\ marker' # marker => jobs'[marker.job].status # "none"]_vars

(* It does, and the credentials that a committed restore brought back are  *)
(* revoked in the end (operations-service.js:12-22,97-102).                *)
RestoreAccounted == (revived ~> ~revived) /\ MarkerAccounted

(* Nothing else runs in a restore, and the backups it needs outlast it.    *)
RestoreSound == RestoreAlone /\ BackupsKept
(* The rows of the jobs are what they say: each is started once, and they  *)
(* wait or run in no greater number than the code allows.                  *)
JobsSound == TypeOK /\ RunsOnce /\ QueueBounded
=============================================================================
