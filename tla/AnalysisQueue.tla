--------------------------- MODULE AnalysisQueue ---------------------------
(***************************************************************************)
(* The durable analysis queue of Augura: one analysis_jobs row per video   *)
(* or image asset, claimed, leased and settled by worker processes         *)
(* (app/worker.py), while HTTP handlers upload, delete, re-analyse and     *)
(* retry the same rows.                                                    *)
(*                                                                         *)
(* A transaction is one step, except where the code reads a row, decides,  *)
(* and writes it back without a lock: the settling transaction of          *)
(* _execute_job and the retry endpoint are a read step and a commit step,  *)
(* and, as the ORM does, the commit writes only the columns whose new      *)
(* value differs from the value that was READ.                             *)
(*                                                                         *)
(* Clock time is abstracted: a lease is "live" until a Lapse step, a       *)
(* backoff is pending until BackoffElapses.  The free-text columns (stage, *)
(* error_code, error_message, status_message) guard nothing and are left   *)
(* out.                                                                    *)
(*                                                                         *)
(* RetryableWithDone, the variants of Requeued, ReapAtStartupOnly,         *)
(* RecoverWithoutOrphans, FailSilently, VerdictOfAsset, RetryUnchecked and *)
(* SyncEndsSilently are the bugs the properties are known to catch:        *)
(* nothing below uses them.                                                *)
(***************************************************************************)
EXTENDS Naturals, FiniteSets

CONSTANTS
    Assets,       \* asset ids, video or image (an excel asset gets no job)
    Workers,      \* worker processes, by worker_id
    Threads,      \* slots of each worker's pool: settings.analysis_concurrency
    Requests,     \* POST /jobs/{asset_id}/retry handlers open at once
    MaxAttempts,  \* analysis_jobs.max_attempts
    Budget,       \* bound on each kind of fault, see Faults
    NoAsset, NoWorker

Slots == Workers \X Threads
WorkerOf(s) == s[1]

(* What the environment may do at most Budget[k] times: kill a worker,     *)
(* starve a live lease of heartbeats, lose a write, call POST /analysis,   *)
(* call the retry endpoint.                                                *)
Faults == {"crash", "lapse", "loss", "sync", "retry"}

ASSUME AssetsAssumption == IsFiniteSet(Assets) /\ NoAsset \notin Assets
ASSUME WorkersAssumption == NoWorker \notin Workers \cup Slots
ASSUME AttemptsAssumption == MaxAttempts \in Nat \ {0}
ASSUME BudgetAssumption == Budget \in [Faults -> Nat]

----------------------------------------------------------------------------
(* Rows and statuses. *)

Settled == {"done", "failed", "dead", "cancelled", "waiting_user"}
RetryableWithDone == {"failed", "dead", "cancelled", "waiting_user", "done"}
Retryable == {"failed", "dead", "cancelled", "waiting_user"}
JobStatus == {"none", "queued", "running"} \cup Settled
AssetStatus ==
    {"absent", "pending", "processing", "completed", "failed", "deleted"}
Lease == {"none", "live", "lapsed"}

(* An analysis_jobs row; status "none" is no row.  due is the test         *)
(* available_at <= now.                                                    *)
Row == [status : JobStatus, attempt : Nat, lease : Lease,
        worker : Workers \cup {NoWorker}, due : BOOLEAN]

NewRow(status) == [status |-> status, attempt |-> 0, lease |-> "none",
                   worker |-> NoWorker, due |-> TRUE]
NoJob == NewRow("none")
QueuedRow == NewRow("queued")

(* What a read-then-commit handler holds between its two steps. *)
Snapshot == [row : Row, asset : AssetStatus]
NoSnapshot == [row |-> NoJob, asset |-> "absent"]

(* classify_error's verdicts, "denied" being auth and quota, which differ   *)
(* only in their wording; and "ok" for a run that raised nothing.          *)
FailureKinds == {"denied", "retryable", "fatal"}
Outcomes == FailureKinds \cup {"ok"}

(* A unit-of-work commit: the column keeps its current value unless the    *)
(* handler changed it from the value it read.                              *)
Write(current, read, new) == IF new = read THEN current ELSE new

----------------------------------------------------------------------------
VARIABLES
    asset,     \* creative_assets.analysis_status, per asset
    job,       \* the asset's analysis_jobs row
    created,   \* rank of the row's created_at, 0 while there was never a row
    up,        \* the workers whose main loop runs
    pc,        \* where each pool thread is in _execute_job
    work,      \* the asset whose job it executes
    outcome,   \* the exception class it holds, or "ok"
    seen,      \* the row its settling transaction has read
    request,   \* per retry handler: the asset it holds, or NoAsset
    asked,     \* per retry handler: the rows it has read
    sync,      \* per asset: the POST /analysis run on it
    spent,     \* faults used so far
    marks      \* history, per asset: what interfered with its job

executors == <<pc, work, outcome, seen>>
requests == <<request, asked>>
vars == <<asset, job, created, up, pc, work, outcome, seen, request, asked,
          sync, spent, marks>>

(* "overrun": the job was requeued while a thread still executed it.       *)
(* "stale":   a read-then-commit handler committed over a row that had     *)
(*            changed since it read it.                                    *)
(* "sync":    POST /analysis ran on the asset.                             *)
(* "lost":    a status write failed and was only logged.                   *)
Marks == {"overrun", "stale", "sync", "lost"}

Stages == {"idle", "claimed", "analysing", "completed", "settling",
           "committing"}

Mark(a, m) == marks' = [marks EXCEPT ![a] = @ \cup {m}]
Spend(k) == spent[k] < Budget[k] /\ spent' = [spent EXCEPT ![k] = @ + 1]

Exists(a) == asset[a] \notin {"absent", "deleted"}
Executing(s, a) == pc[s] # "idle" /\ work[s] = a
Executed(a) == \E s \in Slots : Executing(s, a)
Heartbeating(s) == pc[s] \in {"analysing", "completed"}

(* The slot's thread returns to the pool. *)
Release(s) ==
    /\ pc' = [pc EXCEPT ![s] = "idle"]
    /\ work' = [work EXCEPT ![s] = NoAsset]
    /\ outcome' = [outcome EXCEPT ![s] = "ok"]
    /\ seen' = [seen EXCEPT ![s] = NoSnapshot]

(* A new row's created_at follows every earlier one's; rows inserted by    *)
(* one transaction share its now().                                        *)
NewestRank == 1 + Cardinality({a \in Assets : created[a] # 0})
StampNew(new) ==
    created' = [a \in Assets |-> IF a \in new THEN NewestRank ELSE created[a]]

----------------------------------------------------------------------------
(* The library may hold pending or processing assets from before the queue *)
(* existed: they have no row until a worker starts.                        *)
Init ==
    /\ asset \in [Assets -> {"absent", "pending", "processing"}]
    /\ job = [a \in Assets |-> NoJob]
    /\ created = [a \in Assets |-> 0]
    /\ up = {}
    /\ pc = [s \in Slots |-> "idle"]
    /\ work = [s \in Slots |-> NoAsset]
    /\ outcome = [s \in Slots |-> "ok"]
    /\ seen = [s \in Slots |-> NoSnapshot]
    /\ request = [r \in Requests |-> NoAsset]
    /\ asked = [r \in Requests |-> NoSnapshot]
    /\ sync = [a \in Assets |-> "idle"]
    /\ spent = [k \in Faults |-> 0]
    /\ marks = [a \in Assets |-> {}]

(* POST /upload: the asset and its queued row in one transaction. *)
Upload(a) ==
    /\ asset[a] = "absent"
    /\ asset' = [asset EXCEPT ![a] = "pending"]
    /\ job' = [job EXCEPT ![a] = QueuedRow]
    /\ StampNew({a})
    /\ UNCHANGED <<up, executors, requests, sync, spent, marks>>

(* DELETE /assets/{id}: the row goes with the asset (ON DELETE CASCADE). *)
DeleteAsset(a) ==
    /\ Exists(a)
    /\ asset' = [asset EXCEPT ![a] = "deleted"]
    /\ job' = [job EXCEPT ![a] = NoJob]
    /\ UNCHANGED <<created, up, executors, requests, sync, spent, marks>>

----------------------------------------------------------------------------
(* The worker's main loop. *)

(* Another transaction may hold the row's lock just now, and SKIP LOCKED   *)
(* passes over it: a thread or a retry handler busy with the same row.     *)
MayBeLocked(a) == Executed(a) \/ \E r \in Requests : request[r] = a
Claimable(a) == job[a].status = "queued" /\ job[a].due

ClaimedRow(row, w) ==
    [row EXCEPT !.status = "running", !.lease = "live", !.worker = w]

ClaimNext(w, s, a) ==
    /\ w \in up /\ WorkerOf(s) = w /\ pc[s] = "idle"
    /\ Claimable(a)
    /\ \A b \in Assets : Claimable(b) /\ ~MayBeLocked(b)
                            => created[a] <= created[b]
    /\ job' = [job EXCEPT ![a] = ClaimedRow(@, w)]
    /\ pc' = [pc EXCEPT ![s] = "claimed"]
    /\ work' = [work EXCEPT ![s] = a]
    /\ UNCHANGED <<asset, created, up, outcome, seen, requests, sync, spent,
                   marks>>

Expired(row) == row.status = "running" /\ row.lease = "lapsed"

RequeuedAsFailed == [a \in Assets |->
    IF Expired(job[a])
    THEN [job[a] EXCEPT !.status = "failed", !.lease = "none",
                        !.worker = NoWorker]
    ELSE job[a]]
RequeuedAsTried == [a \in Assets |->
    IF Expired(job[a])
    THEN [job[a] EXCEPT !.status = "queued", !.lease = "none",
                        !.worker = NoWorker, !.attempt = @ + 1]
    ELSE job[a]]

(* JobRepository.requeue_expired_leases: one UPDATE over every expired row. *)
Requeued == [a \in Assets |->
    IF Expired(job[a])
    THEN [job[a] EXCEPT !.status = "queued", !.lease = "none",
                        !.worker = NoWorker]
    ELSE job[a]]
MarkOverruns == marks' = [a \in Assets |->
    IF Expired(job[a]) /\ Executed(a) THEN marks[a] \cup {"overrun"}
                                      ELSE marks[a]]

ReapAtStartupOnly(w) == FALSE /\ UNCHANGED vars

ReapExpiredLeases(w) ==
    /\ w \in up
    /\ \E a \in Assets : Expired(job[a])
    /\ job' = Requeued
    /\ MarkOverruns
    /\ UNCHANGED <<asset, created, up, executors, requests, sync, spent>>

(* The status recover_on_startup gives a processing asset whose row, once  *)
(* expired leases are requeued, is row.                                    *)
Aligned(row) ==
    CASE row.status \in {"none", "queued"} -> "pending"
      [] row.status = "done" -> "completed"
      [] row.status \in Retryable -> "failed"
      [] OTHER -> "processing"

RecoverWithoutOrphans(w) ==
    /\ w \notin up
    /\ up' = up \cup {w}
    /\ asset' = [a \in Assets |-> IF asset[a] = "processing"
                                  THEN Aligned(Requeued[a]) ELSE asset[a]]
    /\ job' = Requeued
    /\ MarkOverruns
    /\ UNCHANGED <<created, executors, requests, sync, spent>>

(* A worker starts: one transaction requeues, aligns the processing assets *)
(* and gives a row to every pending asset that has none; then it serves.   *)
RecoverOnStartup(w) ==
    LET orphans == {a \in Assets : /\ asset[a] \in {"pending", "processing"}
                                   /\ job[a].status = "none"}
    IN
    /\ w \notin up
    /\ up' = up \cup {w}
    /\ asset' = [a \in Assets |-> IF asset[a] = "processing"
                                  THEN Aligned(Requeued[a]) ELSE asset[a]]
    /\ job' = [a \in Assets |-> IF a \in orphans THEN QueuedRow
                                                 ELSE Requeued[a]]
    /\ StampNew(orphans)
    /\ MarkOverruns
    /\ UNCHANGED <<executors, requests, sync, spent>>

(* The process dies (kill, OOM, docker restart): its threads and their     *)
(* heartbeats are gone, the rows stay as committed.                        *)
Crash(w) ==
    LET lost == {s \in Slots : WorkerOf(s) = w} IN
    /\ w \in up
    /\ Spend("crash")
    /\ up' = up \ {w}
    /\ pc' = [s \in Slots |-> IF s \in lost THEN "idle" ELSE pc[s]]
    /\ work' = [s \in Slots |-> IF s \in lost THEN NoAsset ELSE work[s]]
    /\ outcome' = [s \in Slots |-> IF s \in lost THEN "ok" ELSE outcome[s]]
    /\ seen' = [s \in Slots |-> IF s \in lost THEN NoSnapshot ELSE seen[s]]
    /\ UNCHANGED <<asset, job, created, requests, sync, marks>>

----------------------------------------------------------------------------
(* Time. *)

LeaseRunsOut(a) ==
    /\ job[a].lease = "live"
    /\ job' = [job EXCEPT ![a].lease = "lapsed"]
    /\ UNCHANGED <<asset, created, up, executors, requests, sync, marks>>

(* Nobody executes the job any more, so nobody renews its lease. *)
OrphanedLapse(a) == LeaseRunsOut(a) /\ ~Executed(a) /\ UNCHANGED spent

(* A thread executes it, but no heartbeat got through for LEASE_SECONDS.   *)
StarvedLapse(a) == LeaseRunsOut(a) /\ Executed(a) /\ Spend("lapse")

(* _LeaseHeartbeat: renews by job id and status, whoever holds the lease.  *)
RenewLease(s) ==
    LET a == work[s] IN
    /\ Heartbeating(s)
    /\ job[a].status = "running" /\ job[a].lease # "live"
    /\ job' = [job EXCEPT ![a].lease = "live"]
    /\ UNCHANGED <<asset, created, up, executors, requests, sync, spent,
                   marks>>

BackoffElapses(a) ==
    /\ job[a].status = "queued" /\ ~job[a].due
    /\ job' = [job EXCEPT ![a].due = TRUE]
    /\ UNCHANGED <<asset, created, up, executors, requests, sync, spent,
                   marks>>

----------------------------------------------------------------------------
(* _execute_job on a pool thread. *)

(* The job may be gone already; else the pipeline marks its asset. *)
StartAnalysis(s) ==
    LET a == work[s] IN
    /\ pc[s] = "claimed"
    /\ IF job[a].status = "none"
       THEN Release(s) /\ UNCHANGED asset
       ELSE /\ asset' = [asset EXCEPT ![a] = "processing"]
            /\ pc' = [pc EXCEPT ![s] = "analysing"]
            /\ UNCHANGED <<work, outcome, seen>>
    /\ UNCHANGED <<job, created, up, requests, sync, spent, marks>>

(* Frames, vision and clustering went through: result and status commit    *)
(* together.  A deleted asset violates a foreign key instead.              *)
CompleteAnalysis(s) ==
    LET a == work[s] IN
    /\ pc[s] = "analysing" /\ Exists(a)
    /\ asset' = [asset EXCEPT ![a] = "completed"]
    /\ pc' = [pc EXCEPT ![s] = "completed"]
    /\ UNCHANGED <<job, created, up, work, outcome, seen, requests, sync,
                   spent, marks>>

(* The pipeline raises, before or after its completed commit: the asset,   *)
(* if it is still there, is failed, and the exception goes to the settling *)
(* transaction.                                                            *)
RaiseIn(s, kind) ==
    /\ pc[s] \in {"analysing", "completed"}
    /\ pc' = [pc EXCEPT ![s] = "settling"]
    /\ outcome' = [outcome EXCEPT ![s] = kind]
    /\ UNCHANGED <<job, created, up, work, seen, requests, sync>>

FailSilently(s, kind) ==
    /\ RaiseIn(s, kind)
    /\ UNCHANGED <<asset, spent, marks>>

FailAnalysis(s, kind) ==
    LET a == work[s] IN
    /\ RaiseIn(s, kind)
    /\ asset' = IF Exists(a) THEN [asset EXCEPT ![a] = "failed"] ELSE asset
    /\ UNCHANGED <<spent, marks>>

(* ... and the write of that failure fails too: it is only logged. *)
LoseFailure(s, kind) ==
    /\ RaiseIn(s, kind)
    /\ Exists(work[s])
    /\ Spend("loss") /\ Mark(work[s], "lost")
    /\ UNCHANGED asset

(* The rest of the pipeline and the judge phase, which never raises. *)
FinishAnalysis(s) ==
    /\ pc[s] = "completed"
    /\ pc' = [pc EXCEPT ![s] = "settling"]
    /\ UNCHANGED <<asset, job, created, up, work, outcome, seen, requests,
                   sync, spent, marks>>

(* The heartbeat has stopped.  The settling transaction reads its row; it  *)
(* compares neither worker_id nor status with what this thread claimed.    *)
SettleRead(s) ==
    LET a == work[s] IN
    /\ pc[s] = "settling"
    /\ IF job[a].status = "none"
       THEN Release(s)
       ELSE /\ seen' = [seen EXCEPT ![s] = [row |-> job[a], asset |-> asset[a]]]
            /\ pc' = [pc EXCEPT ![s] = "committing"]
            /\ UNCHANGED <<work, outcome>>
    /\ UNCHANGED <<asset, job, created, up, requests, sync, spent, marks>>

(* The attempt a retryable failure brings the job to, and what each        *)
(* outcome makes of the row.                                               *)
Tried(row) == row.attempt + 1
Requeues(row, o) == o = "retryable" /\ Tried(row) < MaxAttempts
VerdictOfAsset(row, o) == IF o = "ok" THEN "completed" ELSE "failed"
Verdict(row, o) ==
    CASE o = "ok" -> "done"
      [] o = "denied" -> "waiting_user"
      [] o = "retryable" -> IF Requeues(row, o) THEN "queued" ELSE "dead"
      [] o = "fatal" -> "failed"

SettledRow(current, read, o) ==
    [status  |-> Write(current.status, read.status, Verdict(read, o)),
     attempt |-> IF o = "retryable" THEN Tried(read) ELSE current.attempt,
     lease   |-> IF read.lease = "none" THEN current.lease ELSE "none",
     worker  |-> Write(current.worker, read.worker, NoWorker),
     due     |-> current.due /\ ~Requeues(read, o)]

(* The row is not the one the handler read, apart from its clock. *)
Moved(current, read) ==
    \/ current.status # read.status
    \/ current.attempt # read.attempt
    \/ current.worker # read.worker
    \/ (current.lease = "none") # (read.lease = "none")
MarkStale(a, read) ==
    IF Moved(job[a], read) THEN Mark(a, "stale") ELSE UNCHANGED marks

SettleCommit(s) ==
    LET a == work[s]
        read == seen[s].row
    IN
    /\ pc[s] = "committing"
    /\ IF job[a].status = "none"
       THEN UNCHANGED <<asset, job, marks>>
       ELSE /\ job' = [job EXCEPT ![a] = SettledRow(@, read, outcome[s])]
            /\ asset' = IF Requeues(read, outcome[s])
                        THEN [asset EXCEPT ![a] =
                                Write(@, seen[s].asset, "pending")]
                        ELSE asset
            /\ MarkStale(a, read)
    /\ Release(s)
    /\ UNCHANGED <<created, up, requests, sync, spent>>

(* The settling transaction fails: the future's exception is only logged.  *)
SettleLost(s) ==
    /\ pc[s] \in {"settling", "committing"}
    /\ Spend("loss")
    /\ Release(s)
    /\ UNCHANGED <<asset, job, created, up, requests, sync, marks>>

----------------------------------------------------------------------------
(* HTTP handlers on the same rows. *)

RetryUnchecked(r, a) ==
    /\ request[r] = NoAsset
    /\ job[a].status # "none"
    /\ Spend("retry")
    /\ request' = [request EXCEPT ![r] = a]
    /\ asked' = [asked EXCEPT ![r] = [row |-> job[a], asset |-> asset[a]]]
    /\ UNCHANGED <<asset, job, created, up, executors, sync, marks>>

(* POST /jobs/{asset_id}/retry reads and checks the job ... *)
RetryRead(r, a) ==
    /\ request[r] = NoAsset
    /\ job[a].status \in Retryable
    /\ Spend("retry")
    /\ request' = [request EXCEPT ![r] = a]
    /\ asked' = [asked EXCEPT ![r] = [row |-> job[a], asset |-> asset[a]]]
    /\ UNCHANGED <<asset, job, created, up, executors, sync, marks>>

RetriedRow(current, read) ==
    [status  |-> Write(current.status, read.status, "queued"),
     attempt |-> Write(current.attempt, read.attempt, 0),
     lease   |-> IF read.lease = "none" THEN current.lease ELSE "none",
     worker  |-> Write(current.worker, read.worker, NoWorker),
     due     |-> TRUE]

(* ... and resets it, if the row is still there. *)
RetryCommit(r) ==
    LET a == request[r]
        read == asked[r].row
    IN
    /\ a # NoAsset
    /\ IF job[a].status = "none"
       THEN UNCHANGED <<asset, job, marks>>
       ELSE /\ job' = [job EXCEPT ![a] = RetriedRow(@, read)]
            /\ asset' = [asset EXCEPT ![a] = Write(@, asked[r].asset, "pending")]
            /\ MarkStale(a, read)
    /\ request' = [request EXCEPT ![r] = NoAsset]
    /\ asked' = [asked EXCEPT ![r] = NoSnapshot]
    /\ UNCHANGED <<created, up, executors, sync, spent>>

(* POST /analysis runs the same pipeline inside the API process, on an     *)
(* asset whose job it never looks at.                                      *)
SyncStart(a) ==
    /\ sync[a] = "idle" /\ Exists(a)
    /\ Spend("sync") /\ Mark(a, "sync")
    /\ sync' = [sync EXCEPT ![a] = "analysing"]
    /\ asset' = [asset EXCEPT ![a] = "processing"]
    /\ UNCHANGED <<job, created, up, executors, requests>>

SyncComplete(a) ==
    /\ sync[a] = "analysing" /\ Exists(a)
    /\ sync' = [sync EXCEPT ![a] = "completed"]
    /\ asset' = [asset EXCEPT ![a] = "completed"]
    /\ UNCHANGED <<job, created, up, executors, requests, spent, marks>>

SyncEndsSilently(a) ==
    /\ sync[a] # "idle"
    /\ sync' = [sync EXCEPT ![a] = "idle"]
    /\ UNCHANGED <<asset, job, created, up, executors, requests, spent, marks>>

(* The run ends: after its completed commit, or by an exception it         *)
(* swallows after failing the asset.                                       *)
SyncEnd(a) ==
    /\ sync[a] # "idle"
    /\ sync' = [sync EXCEPT ![a] = "idle"]
    /\ \/ sync[a] = "completed" /\ UNCHANGED asset
       \/ asset' = IF Exists(a) THEN [asset EXCEPT ![a] = "failed"] ELSE asset
    /\ UNCHANGED <<job, created, up, executors, requests, spent, marks>>

(* The API process dies under it, or the write of its failure fails. *)
SyncLost(a) ==
    /\ sync[a] # "idle"
    /\ Spend("loss") /\ Mark(a, "lost")
    /\ sync' = [sync EXCEPT ![a] = "idle"]
    /\ UNCHANGED <<asset, job, created, up, executors, requests>>

----------------------------------------------------------------------------
Execute(s) ==
    \/ StartAnalysis(s)
    \/ CompleteAnalysis(s)
    \/ \E kind \in FailureKinds : FailAnalysis(s, kind)
    \/ FinishAnalysis(s)
    \/ SettleRead(s)
    \/ SettleCommit(s)

Claim(w) == \E s \in Slots, a \in Assets : ClaimNext(w, s, a)

Next ==
    \/ \E a \in Assets : Upload(a)
    \/ \E a \in Assets : DeleteAsset(a)
    \/ \E w \in Workers : Claim(w)
    \/ \E w \in Workers : ReapExpiredLeases(w)
    \/ \E w \in Workers : RecoverOnStartup(w)
    \/ \E w \in Workers : Crash(w)
    \/ \E a \in Assets : OrphanedLapse(a)
    \/ \E a \in Assets : StarvedLapse(a)
    \/ \E a \in Assets : BackoffElapses(a)
    \/ \E s \in Slots : RenewLease(s)
    \/ \E s \in Slots : Execute(s)
    \/ \E s \in Slots, kind \in FailureKinds : LoseFailure(s, kind)
    \/ \E s \in Slots : SettleLost(s)
    \/ \E r \in Requests, a \in Assets : RetryRead(r, a)
    \/ \E r \in Requests : RetryCommit(r)
    \/ \E a \in Assets : SyncStart(a)
    \/ \E a \in Assets : SyncComplete(a)
    \/ \E a \in Assets : SyncEnd(a)
    \/ \E a \in Assets : SyncLost(a)

Spec == Init /\ [][Next]_vars

(* The main loop and the pool threads keep running while the process       *)
(* lives; docker restarts a dead worker (restart: unless-stopped); time    *)
(* passes; an open HTTP handler returns.  Nothing is assumed of users or   *)
(* of faults.                                                              *)
Fairness ==
    /\ \A w \in Workers : /\ WF_vars(Claim(w))
                          /\ WF_vars(ReapExpiredLeases(w))
                          /\ WF_vars(RecoverOnStartup(w))
    /\ \A s \in Slots : WF_vars(Execute(s))
    /\ \A a \in Assets : /\ WF_vars(OrphanedLapse(a))
                         /\ WF_vars(BackoffElapses(a))
                         /\ WF_vars(SyncComplete(a) \/ SyncEnd(a))
    /\ \A r \in Requests : WF_vars(RetryCommit(r))

FairSpec == Spec /\ Fairness

----------------------------------------------------------------------------
(* Correctness. *)

(* Every variable stays in its declared domain, through every handler. *)
TypeOK ==
    /\ asset \in [Assets -> AssetStatus]
    /\ job \in [Assets -> Row]
    /\ created \in [Assets -> Nat]
    /\ up \in SUBSET Workers
    /\ pc \in [Slots -> Stages]
    /\ work \in [Slots -> Assets \cup {NoAsset}]
    /\ outcome \in [Slots -> Outcomes]
    /\ seen \in [Slots -> Snapshot]
    /\ request \in [Requests -> Assets \cup {NoAsset}]
    /\ asked \in [Requests -> Snapshot]
    /\ sync \in [Assets -> {"idle", "analysing", "completed"}]
    /\ spent \in [Faults -> Nat]
    /\ marks \in [Assets -> SUBSET Marks]

(* The claim was neither requeued under its thread nor written over by a   *)
(* handler holding an outdated row.                                        *)
Undisturbed(a) == marks[a] \cap {"overrun", "stale"} = {}

(* SKIP LOCKED, the lease, the reaper and startup recovery together: as    *)
(* long as no live execution was overrun and no outdated row was written   *)
(* back, a job is never executed by two pool threads, of one worker or of  *)
(* two.                                                                    *)
ExclusiveExecution ==
    \A a \in Assets : Undisturbed(a) =>
        \A s, t \in Slots : Executing(s, a) /\ Executing(t, a) => s = t

(* A thread that executes a job finds its row running and leased until it  *)
(* settles it, unless the asset was deleted: so neither Claim nor retry    *)
(* nor startup recovery can give the work to somebody else.                *)
ExecutionHoldsRow ==
    \A s \in Slots : \A a \in Assets : Executing(s, a) /\ Undisturbed(a) =>
        \/ job[a].status = "none"
        \/ /\ job[a].status = "running"
           /\ job[a].worker = WorkerOf(s)
           /\ job[a].lease # "none"

(* The retry budget: a queued or running job has an attempt left, and a    *)
(* dead one has used them all; a boundary that _execute_job (attempt <     *)
(* max_attempts), the reaper and the retry reset must keep together.       *)
AttemptBudget ==
    \A a \in Assets : Undisturbed(a) =>
        /\ job[a].status \in {"queued", "running"} => job[a].attempt < MaxAttempts
        /\ job[a].status = "dead" => job[a].attempt = MaxAttempts

(* A running job carries a lease: the reaper only sees rows whose lease    *)
(* is set, so a running row without one would be stranded for good.        *)
RunningIsReapable ==
    \A a \in Assets : Undisturbed(a) /\ job[a].status = "running"
        => job[a].lease # "none"

(* What makes the four invariants above inductive: a row belongs to an     *)
(* asset that exists, a thread without a row works for a deleted asset, a  *)
(* settling thread has read the row as it still is, and a retry handler    *)
(* holds a retryable verdict.                                              *)
RowHasAsset == \A a \in Assets : job[a].status # "none" => Exists(a)
RowlessIsDeleted ==
    \A s \in Slots : \A a \in Assets :
        Executing(s, a) /\ job[a].status = "none" => asset[a] = "deleted"
ReadRowIsCurrent ==
    \A s \in Slots : \A a \in Assets :
        Executing(s, a) /\ pc[s] = "committing" /\ Undisturbed(a)
          /\ job[a].status # "none"
        => ~Moved(job[a], seen[s].row)
AskedIsRetryable ==
    \A r \in Requests :
        request[r] # NoAsset => asked[r].row.status \in Retryable

ClaimInv ==
    /\ ExclusiveExecution
    /\ ExecutionHoldsRow
    /\ AttemptBudget
    /\ RunningIsReapable
    /\ RowHasAsset
    /\ RowlessIsDeleted
    /\ ReadRowIsCurrent
    /\ AskedIsRetryable

(* What the library shows agrees with the queue: once a job is settled,    *)
(* done means a completed asset and every other verdict a failed one,      *)
(* unless POST /analysis ran on the asset or a status write was lost.      *)
SettledAgreement ==
    \A a \in Assets : marks[a] = {} =>
        /\ job[a].status = "done" => asset[a] = "completed"
        /\ job[a].status \in Retryable => asset[a] = "failed"

(* No upload is forgotten: a video or image asset that waits or is being   *)
(* processed has a row in the queue as soon as any worker has started,     *)
(* unless POST /analysis ran on it: that may complete an asset from before *)
(* the queue existed, which then never gets a row, and start it again.     *)
EveryAssetQueued ==
    up # {} => \A a \in Assets :
        asset[a] \in {"pending", "processing"} /\ "sync" \notin marks[a]
            => job[a].status # "none"

(* A settled job leaves its verdict only through the retry endpoint, which *)
(* resets the attempts and the asset, and only a retryable verdict; done   *)
(* is final.                                                               *)
VerdictIsFinal ==
    [][\A a \in Assets :
        job[a].status \in Settled /\ job'[a].status # job[a].status
            => \/ asset'[a] = "deleted"
               \/ {"overrun", "stale"} \cap marks'[a] # {}
               \/ /\ job[a].status # "done"
                  /\ job'[a].status = "queued" /\ job'[a].attempt = 0
                  /\ asset'[a] = "pending" \/ "sync" \in marks[a]]_vars

(* A thread settles the attempt it executed: nobody else's transaction     *)
(* settles a running job, unless the claim was disturbed.                  *)
SettledByItsThread ==
    [][\A a \in Assets :
        job[a].status = "running" /\ job'[a].status \in Settled /\ Undisturbed(a)
            => \E s \in Slots : /\ Executing(s, a) /\ pc[s] = "committing"
                                /\ pc'[s] = "idle"
                                /\ (outcome[s] = "ok") <=> (job'[a].status = "done")]_vars

----------------------------------------------------------------------------
(* Progress. *)

(* Every job that is queued or running is settled in the end, whatever     *)
(* crashes, overruns and lost commits happen on the way (finitely many).   *)
(* Only an outdated row written back can strand one: it may clear the      *)
(* lease of a row somebody has claimed meanwhile, and requeue_expired_     *)
(* leases never sees a lease that is NULL.                                 *)
EveryJobSettles ==
    \A a \in Assets : job[a].status \in {"queued", "running"}
        ~> \/ job[a].status \in Settled \cup {"none"}
           \/ "stale" \in marks[a]

(* Every asset that waits for its analysis is shown completed or failed in *)
(* the end, POST /analysis runs on it included, unless its job was requeued *)
(* under a live thread, an outdated row was written over it or a status     *)
(* write was lost: the thread that was overrun settles the job of the one   *)
(* that executes it, and what the asset showed last stays.                  *)
EveryAssetShownSettled ==
    \A a \in Assets : asset[a] \in {"pending", "processing"}
        ~> \/ asset[a] \in {"completed", "failed", "deleted"}
           \/ {"overrun", "stale", "lost"} \cap marks[a] # {}

----------------------------------------------------------------------------
(* What the code's comments say and a run refutes. *)

(* routes/jobs.py: "queued / running / done are always a 409": no retry    *)
(* handler resets a job that is queued, running or done.                   *)
BusyJobsRefuseRetry ==
    [][\A r \in Requests : request[r] # NoAsset /\ request'[r] = NoAsset =>
        \/ job[request[r]].status \in Retryable \cup {"none"}
        \/ UNCHANGED job]_vars

(* repositories/jobs.py: "Heartbeat: extend the lease of a job still owned  *)
(* and running": a lease that had run out is renewed by a thread of the     *)
(* worker that holds the job.                                              *)
HeartbeatByOwner ==
    [][\A a \in Assets :
        /\ job[a].status = "running" /\ job'[a].status = "running"
        /\ job[a].lease = "lapsed" /\ job'[a].lease = "live"
        => \E s \in Slots : Executing(s, a) /\ WorkerOf(s) = job[a].worker]_vars
=============================================================================
