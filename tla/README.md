# Augura: TLA+ models, checks and proofs

Augura analyses advertising creatives. Videos and images are uploaded, a
worker process analyses each with a vision model and clusters it into a
creative; people and an automatic judge then curate creatives into families,
and imported performance data decides what is done with them.
This directory holds TLA+ models of the backend (`src/apps/api/app`) and of its
merge experiment (`src/apps/api/scripts`), the TLC configurations that check
them and the TLAPS proofs about them. Source paths below are relative to
`src/apps/api/app` unless they say otherwise.

## 1. The system and its parts

Processes: the API (FastAPI, a thread per request, background threads for
reviews), one or more workers (`worker.py`, a main loop and a pool of threads),
PostgreSQL, Neo4j, an object store and external model endpoints. Everything
shared goes through PostgreSQL (READ COMMITTED, unit-of-work sessions that
write only changed columns) or Neo4j (single statements, no transaction in
common with PostgreSQL). Some state is per process: the cache of similar pairs,
the classifier's tables, the cards of the judging threads, the consolidation
lock.

| Component | State it keeps | Where it is hard | What makes it correct | Modules |
|---|---|---|---|---|
| Analysis queue and worker (`worker.py`, `repositories/jobs.py`, `api/routes/jobs.py`, `api/routes/analysis.py`) | `analysis_jobs` row per asset, `analysis_status` | crashes anywhere, leases that expire under a live thread, reads written back later | one execution at a time, budgeted attempts, nothing forgotten, verdicts only retry reopens | `AnalysisQueue`, `JobLifecycle`, `AnalysisQueueRefinement`, `AnalysisQueue_proofs` |
| Observation pairs (`services/observation_*.py`) | `observation_pairs`, `split_rulings`, `SIMILAR_TO` edges, a cache per process | stores without a common transaction, stale caches, compensation | row, edge and ruling agree; a verdict leaves only by reopening; the verdict follows from the evidence | `ObservationPairs`, `PairLifecycle`, `ObservationPairsRefinement`, `ObservationPolicy`, `ObservationPairs_proofs`, `MC_Judging_proofs` |
| Creatives and their copies (`services/pipeline.py`, `ingest.py`, `merge_ops.py`, `graph_sync.py`, `repositories/graph_mirror.py`, `main.py`) | creatives, variants, competitor marks, Neo4j nodes and edges, SQL mirror | copies written best effort, cleanups that counted before, rebuilds side by side, automatic merges after every analysis, a death between a commit and its rebuild | the mirror equals the rows at rest; a competitor's video marked in time stays alone | `CreativeGraph`, `MC_Curation_proofs` |
| Automatic merging (`services/judge_pipeline.py`, `missed_merge_scan.py`, `merge_guard.py`, `merge_ops.py`) | one session per phase, row locks, candidate lists | rescans inside merges inside rescans, candidates older than rulings, lock cycles | the survivor survives, rulings win, every phase ends | `MergeScan`, `MergeScan_proofs` |
| Cards (`services/fingerprint_card.py`) | a shared bounded cache, a cache per batch | rules and their replay, evictions, builds side by side | the rules agree, one piece of evidence has one card | `FingerprintCards`, `SharedCards`, `MC_Judging_proofs` |
| Judge calibration and brake (`services/judge_calibration.py`) | suggestions, `edit_logs`, gates | a log whose entries carry the start of their transaction, overlapping calibrations that count, then read the gates, then write them | an outcome stands once no older transaction is open; a gate opens on more decisions than its closing counted | `JudgeOutcomes`, `JudgeBrake`, `MC_Judging_proofs` |
| Rule words and thresholds (`services/rule_feedback.py`, `dna_classifier.py`, `threshold_calibration.py`) | keyword lists, suggested words, suggested threshold | corrections of corrections, ties, a grid of floats that is rounded when suggested | corrections count once, words are new, no other threshold of the grid does better | `RuleWords`, `ThresholdCalibration`, `MC_Operations_proofs` |
| Consolidation (`services/consolidation.py`) | a counter, the time of the last run, an in-process lock | lost counter updates, a lock held for hours, crashes | one at a time, the lock always becomes free | `Consolidation`, `Consolidation_proofs` |
| DNA families (`services/family_ops.py`, `idempotency.py`, `family_bootstrap.py`) | families, codes, membership, proposals, idempotency keys | numbering side by side, deactivation during assignment, repeated requests, arbitrary model answers | a key takes effect once, numbers conflict only for two others, no creative in two proposals | `DnaFamilies`, `FamilyProposals`, `MC_Operations_proofs` |
| Derivations (`services/derivation_review.py`, `variant_diff.py`, `api/routes/derivations.py`) | links, their copy in Neo4j, suggestions, open reviews | a person decides during minutes of measuring; frames that almost align | the machine only measures; what was added is found | `Derivations`, `VariantDiff`, `MC_Operations_proofs` |
| Merge inbox (`services/review.py`) | nothing but reads of names, rulings, suggestions, a stale cache | three channels, renames, bands and caps, a request that reads table by table while people act | each open pair once, nothing closed under these names, nothing hidden from people that the judge sees | `MergeInbox`, `MC_Judging_proofs` |
| Verdicts and lifecycle (`services/recommendation_rules.py`, `daily_brief.py`, `creative_score.py`, `lifecycle.py`, `verdict_snapshots.py`) | lifecycle state, snapshots | order of rules, thin samples, refreshes side by side, idle days | less is not judged more kindly; a refresh of unchanged data writes nothing | `Recommendation`, `CreativeRefresh`, `MC_Operations_proofs` |
| Merge experiment (`src/apps/api/scripts/run_merge_family_experiment.py`) | files of a work directory: universe, manifest, sample, ledger, results, lock | crashes between any two files, resumes with other inputs, two processes, a client that resends | calls within the limit over all runs; completed means one context; even samples | `MergeExperiment`, `ExperimentSample`, `MC_Judging_proofs` |

The components meet in four places: the worker's pool threads run the
pipeline and then the judge phase of the same asset; every curation step writes
SQL first and Neo4j after it, or the reverse; human decisions (rulings,
archiving, factors, gates) must win over automatic ones that started earlier;
and the audit log that people and machines write is what the calibrations read.

## 2. The analysis queue: `AnalysisQueue.tla`

State: `asset` is `analysis_status` (with `absent` before the upload and
`deleted` after it), `job` the `analysis_jobs` row (status, attempt, lease,
worker, `due` for `available_at <= now`), `created` the order of `created_at`,
`up` the workers whose main loop runs; `pc`, `work`, `outcome`, `seen` are the
program counter, the asset, the exception class and the row read of each pool
thread; `request`, `asked` the same for open retry handlers; `sync` a
`POST /analysis` run; `spent` the bounded faults; `marks` is history.

| Action | Code |
|---|---|
| `Upload`, `DeleteAsset` | the transactions of `ingest_files` and `delete_asset` (the job goes by ON DELETE CASCADE) |
| `ClaimNext` | `_claim` with `claim_next`: oldest due queued row, `FOR UPDATE SKIP LOCKED`; any row a thread or handler may be holding can be skipped |
| `ReapExpiredLeases`, `RecoverOnStartup` | `reap_expired_leases`, `recover_on_startup` (requeue, align, queue orphans: one transaction) |
| `Crash` | the process dies between any two steps |
| `OrphanedLapse`, `StarvedLapse`, `RenewLease` | `LEASE_SECONDS` pass without a heartbeat; `renew_lease` |
| `BackoffElapses` | `available_at` is reached |
| `StartAnalysis` | `_execute_job` finds its job, the pipeline commits `processing` |
| `CompleteAnalysis` | the pipeline commits result and `completed` |
| `FailAnalysis`, `LoseFailure` | the `except` of `_run_analysis_pipeline`, before or after `completed`; the second when writing the failure fails too |
| `FinishAnalysis` | graph sync, mirror and judge phase end |
| `SettleRead`, `SettleCommit`, `SettleLost` | the last transaction of `_execute_job`: read, commit, or an exception nobody handles |
| `RetryRead`, `RetryCommit` | `POST /jobs/{asset_id}/retry`: read and check, write |
| `SyncStart`, `SyncComplete`, `SyncEnd`, `SyncLost` | `POST /analysis` running the same pipeline in the API process |

A transaction is one step unless the code reads a row, decides, and writes it
back without a lock; then reading and committing are two steps, and `Write`
keeps the current value of every column whose new value equals the value that
was read, because the ORM emits only changed columns. That is how a second retry
takes a row that runs by now back to `queued` and yet leaves its lease and its
worker as they are: it read both as NULL and so does not write them.

Abstractions. Clock time is the three steps above. The text columns (stage,
error_code, messages) guard nothing. `auth` and `quota` are one class,
`denied`: both lead to `waiting_user`. What the pipeline does between
`processing` and `completed` (frames, vision, cluster) is one step, since the
queue sees only its commit. `completed` covers graph sync, mirror and judge
phase. Recovery is one transaction and one step. The periodic observation cycle
of the main loop is in `ObservationPairs`.

The marks name the interferences the code admits, so that a property can say
exactly when it holds: `overrun` (a job was requeued under a live thread),
`stale` (a handler committed over a row that had changed since it was read),
`sync` (`POST /analysis` ran on the asset), `lost` (a status write failed and
was only logged). No property excludes crashes. `EveryJobSettles` excludes
neither overruns nor lost commits, only `stale`; `EveryAssetShownSettled` excludes
what `overrun`, `stale` and `lost` say happened to the asset's own job, but not
`sync`: it holds beside runs of `POST /analysis`.

`EveryAssetQueued` speaks of assets `POST /analysis` never ran on. Such a run
may complete an asset from before the queue existed, which recovery then never
gives a row, and a second run starts it again: it is `processing` without a row
while that run lasts, and for good when the run dies.

`JobLifecycle.tla` is what the queue promises of one job in nine steps;
`AnalysisQueueRefinement.tla` maps a row and the thread that executes it to it
and states that every step of the queue is a step of the lifecycle or a
stutter (`ImplementsLifecycle`).

### Finding

* `routes/jobs.py:3-4` says queued, running and done jobs always get a 409; run
  `doubleretry` shows the second of two concurrent requests resetting a job the
  first one has queued, also after a worker claimed it. The claimed row is then
  `queued` under the lease and worker of its claim, so that a second worker can
  take it while the first still runs it: the mark `stale` stands for that case.

`renew_lease` says it extends "a job still owned and running"
(`repositories/jobs.py:93`) but tests only `running`: a thread that lost its
claim renews its successor's lease. `HeartbeatByOwner` states the claim, and TLC
refutes it; `ClaimInv` holds in spite of it.

A job whose analysis kills the worker is requeued without using an attempt, so
the queue promises progress only if crashes stop; the model bounds them.

## 3. Observation pairs: `ObservationPairs.tla`

A pair of creatives kept apart until performance tells lives in three places
without a common transaction: the `observation_pairs` row (`row`: status and
`auto_disabled`), the `split_rulings` row (`ruling`) and the Neo4j `SIMILAR_TO`
edge (`edge`). `request` holds what each HTTP handler is doing and what it has
read, `cycle` where each worker is in `run_observation_cycle`, `object` the
rows in that cycle's session (as loaded, as changed), `cached` each worker's
`_similar_pairs_cache`.

| Action | Code |
|---|---|
| `Read` | a handler's checks up to the first effect: `get_or_create_pair`, the 409 of registration, the ruling check of bulk, the checks of reopen |
| `ChangeEdge`, `GraphFails` | `link_similar` or `unlink_similar` |
| `Commit`, `Abort` | `db.commit()` of the routes; it waits for the row lock of a cycle; a close that lost a race fails on `uq_split_ruling_pair` |
| `Undo`, `Die` | the compensation of the reopen route; the compensation fails or the process dies |
| `BeginCycle` | `sync_graph_pairs` and the list query of `run_observation_evaluations` |
| `TakePair` | `SELECT ... FOR UPDATE`; it does not refresh an object the session holds |
| `Evaluate`, `AutoClose`, `AutoCloseFails` | the two branches of the evaluation; the edge is gone or Neo4j fails |
| `CommitPair`, `PairFails` | `db.commit()`, or the rollback of the whole session |
| `Compensate`, `CompensationFails` | the edge is put back, or not |
| `EndCycle`, `LoseCycle` | the last commit of the cycle; the worker dies |
| `CacheExpires` | the TTL of 300 s |

The session runs with `autoflush=False` and `expire_on_commit=False`
(`database.py:17-22`), so what the sync changes is written by the first commit
of the evaluations or by the last of the cycle, and lost in a rollback before.
An INSERT of a row waits for another one that is not committed
(`uq_observation_pair`): a handler or a sync that would lose that wait fails
without an effect, so the model lets it read only when nobody is inserting.

Left open: which pairs are due, what the policy decides, when the cache expires,
whether bulk takes a pair for registered because of the API's own cache (it
then does nothing). A bulk request is one request per pair. The edge check and
the unlinking of an automatic close are one step. A pair's creatives are not
deleted. When two workers' commits wait for each other's rows, the database
ends one of them: that is `PairFails`.

The marks: `raced` (somebody moved the pair between two steps of an operation
on it), `lost` (a fault left the edge changed and the rows not: only a close
whose commit failed, a compensation that failed too, or a process that died
between the two stores can do that),
`overruled` (a single registration ignored a ruling). `StoresAgree` is stated
for unmarked pairs, so it says exactly which races and which single faults the
order of the writes and the compensations do not survive.

`PairLifecycle` is what observation promises of one pair: it is watched, a
person or the policy splits it, only the policy's verdict is taken back, and that
bars the policy, which so splits a pair at most once. A cycle that finds a new
edge may write the pair's first row as split already. `ObservationPairsRefinement`
maps the row's status to the pair's phase and the source of its ruling to the
verdict; `ImplementsPairs` says that every step which leaves a pair unmarked is
one step of its lifecycle or does not show. Whether a watched pair is observed or
waits for a person, and what happens to edges, does not show.

### Finding

* `pair_oneway`: a pair a person closes during a cycle turns actionable again,
  because the cycle writes back the row it loaded before. `FOR UPDATE` and the
  check for `resolved_split` after it (`observation_runner.py:74-79`) do not
  help. `models/ruling.py:5` says closing must be one-way.

A registration that read the open row can re-create the edge of a pair that was
closed meanwhile, which no later cycle looks at (`ClosedPairHasNoEdge`); so
can the compensation of an automatic close that found the edge gone.

Single registration also ignores a ruling older than the table of rows, which
bulk respects though `observation_ops.py:3` says both share one semantics; the
mark `overruled` stands for it.

`ReopenedNeverAutoClosed` is checked with one worker, as `docker-compose.yml`
runs it: with two, a cycle of the second worker may hold the row from before
the automatic close, and the bar set by the reopen is not seen.

## 4. Creatives: `CreativeGraph.tla` and `MergeScan.tla`

`CreativeGraph` has the creatives and their variants three times: rows
(`family`: the creative of each asset's variant, `rows`), Neo4j (`neo`) and the
mirror (`mirror`), each with nodes and the edges that place a variant. `proc`
is what every pool thread, handler and the API's startup is doing and what it
has read.

| Action | Code |
|---|---|
| `Upload`, `MarkReference` | the transactions of ingest and of the Lab's upload route |
| `Start`, `ReadTags`, `WriteTags`, `Cluster`, `Attach`, `SyncAsset`, `Fails` | the steps of `_run_analysis_pipeline`; an asset may be analysed by several threads at once, as a worker and `POST /analysis` may |
| `CountVariants`, `Cleanup`, `Unlist` | `cleanup_creative_if_empty` |
| `AutoMerge`, `AutoMirror`, `AutoCommit`, `AutoEnds` | the merges of `run_post_analysis` (`merge_creatives` with `commit=False`): Neo4j and the mirror first, the rows with the commit of the phase or never |
| `Request`, `Merge`, `NeoMerge`, `Split`, `NeoSplit`, `Delete`, `Edit` and their commits | the routes of `merge_ops.py` and `routes/assets.py` |
| `Rebuild` | the mirror under its advisory lock |
| `Stops` | the process dies, or an exception ends what it does: what it has committed stays, the rebuild that should follow does not come (`owed`) |
| `ReconcileRead`, `ReconcilePrune` | the startup of `main.py` |

A Neo4j call may fail at any time: it is logged and the work goes on. Which
creatives are similar, and what guards, models and measurements say of a pair, is
any choice: `AutoMerge` so allows every merge the code can make and more. The
locks of an uncommitted merge (`Free`, `Unlocked`) make others wait; what it has
written of the mirror in its own transaction is `copy`. A merge that is rolled
back leaves Neo4j merged. The rescans a merge starts are left to `MergeScan`.

`MirrorNodesAtRest` excludes states in which somebody stopped between a commit
and its rebuild and nobody has rebuilt since. `EarlyMarksKeepApart` is about the
creative of the marked material itself; the automatic merges ask nobody about
competitors:

* `mixed`: `CompetitorsApart`, the comment of `pipeline.py` that competitors'
  material "must never join (or anchor) own production clusters", is violated by
  an automatic merge after both were clustered apart. Recall and pairs of
  `missed_merge_scan.py:203-215` exclude no competitors.

`MergeScan` is the judge phase and the missed-merge scan as stacks: a frame per
scan, one on top of another when a merge rescans its survivor. `live` and
`ruled` are committed; `th` holds each phase's uncommitted writes and locks.
`TakePair`, `Answered`, `Missed`, `Guarded` are one pair's way through model
call, missed-merge check and guard; `Rescan`, `RescanEnds`, `LoopEnds`
the recursion; `DeadlockVictim` is the database ending one of two transactions
that wait for each other; `Rule` and `MergeByHand` are people, `Decay` is the 90
days after which a ruling (`old`) binds the guard no more.

## 5. Judging

* `ObservationPolicy`: `evaluate_observation_policy` over rows that arrive in
  any order, with window, objective and market checks, the stability of halves
  and the sequential test in exact integers (the header gives the closed form of
  its mixture integral).
* `FingerprintCards`: parsing of an answer, `match_cards`, its replay in the
  experiment's diagnosis and the recheck point. `SharedCards`: `get_card` with its
  two caches and its lock.
* `JudgeOutcomes`: override counts and suggestion outcomes over a log, one
  operator per kind of event. `Begin` opens a transaction; `Record`, `Suggest` and
  `Forget` commit one under the time at which it began, since `created_at` is
  `now()` of PostgreSQL: what is committed later may come earlier in the log.
  An outcome is `Settled` when no transaction is open that began before the entry
  that decided it.
* `JudgeBrake`: runs that read a gate once, overrides, and calibrations in the
  code's order: `Count` (the decisions, then the overrides of each: one made
  meanwhile is seen or missed), `ReadGates` when all is counted, `SetGates` with
  the commit. `BrakeStep` says on which numbers a gate may open again; it excludes
  a gate that was closed while the calibration that opens it was under way.
* `MergeInbox`: one action per thing that changes what the page is computed
  from, and the request table by table: `LookUp` and `Remember` (the pairs of Neo4j
  and their cache), `ReadRulings`, `ReadFiles`, `ReadCreatives`, `Answer`. `touched`
  are the creatives and pairs something happened to meanwhile: of the others the
  page promises something. Names and identities are told apart.
* `MergeExperiment`: `prepare`, `freeze`, `sample`, `run` and `report` over the
  files of a work directory; `Counted`, `Send`, `Failed`, `Answered`, `Write` are
  the steps of one call and its record; `Crash` may come between any two. A call
  is up to `PerCall` requests, since the client of `llm_judge.py:31` resends by
  itself (`Resends`, 2 by the SDK's default) and the ledger counts calls.
  `Meanwhile` is an analysis or the model's name that changes between runs.
  `ExperimentSample`: strata, turns, quotas, backfill and the union-find.

## 6. Operations

* `DnaFamilies`: every request is one transaction of several steps with what it
  has staged; locks on families and unique keys make others wait. `Begin` to
  `Commit` or `Fails`; `Number`, `Taken`, `Insert` are the numbering with its one
  retry; `KeyTaken`, `KeyExpires`, `Release` are the idempotency keys.
  `sure` remembers the families for whose code an undisturbed batch found
  members. `FamilyProposals`: batches, the cleaning of answers, which are lists of
  new families and of attachments that may name anything, and the rescue of what
  is left; `written` is what `judge_suggestions` holds, and a pass in which nothing
  is worth proposing leaves the old ones.
* `RuleWords`: mining corrections, confirming a word (read and write are two
  steps), the classifier's cache; of what is mined the `MaxWords` best are kept.
  `ThresholdCalibration`: labels, grid and suggestion. A threshold is a hundredth,
  which the code suggests, and a float near it, which the code tries: 0.20 + i *
  0.01 may lie just above (`Float`, `Value`). A suggestion is all that comes of it:
  the threshold in force is a constant of the code.
* `Derivations`: a link's row, its Neo4j copy, the suggestion and up to two
  reviews in flight, whose reading and writing are two steps. What is measured is
  written to the link, what the judge says becomes a suggestion whatever it says.
  `VariantDiff`:
  alignment and classification as functions of two frame sequences.
* `Recommendation`: the rule list, gates and labels, as a table of the rules'
  conditions in the code's order. What it promises has three parts: who earns
  less is stopped at least as hard, who overpays for the market is stopped, and
  what is blamed for its cost is not labelled cheap. The settings keep every line
  positive but not their order (the defaults are 60, 120 and 180), so the last
  part needs efficient <= red <= pause. `CreativeRefresh`: import, refresh in
  `Read`, `Select`, `Flush` and `Commit`, and archiving by hand; `context` is all
  else that goes into a snapshot's hash (observed partners, thresholds,
  derivations, the market, the number of variants), which `Elsewhere` changes.
* `Consolidation`: `ReadCount` and `WriteCount` (the unlocked counter), `Check`
  (trigger, lock, deferral), `BeginScan`, `EndScan`, `Stage`, `Release`, `Crash`.

## 7. Runs

Components with state of their own and nothing in common are checked side by
side in one run: the variable `part` says which component a behaviour is about
and stays, the others rest. The state space of such a run is the sum of its
components', not their product. Each of these MC modules EXTENDS one component,
whose variables and constants keep their names (`MergeScan` in `MC_Curation`,
`MergeExperiment` in `MC_Judging`, `DnaFamilies` in `MC_Operations`,
`Consolidation` in `MC_Background`), and instantiates the others: over variables
named as in the component in `MC_Curation` and `MC_Background`, over `v1`, `v2`,
... in the order the component declares them in the other two. The sizes and
limits of the components the theorems speak of are constants of the MC modules;
the .cfg files give them.

| Run | Instance | Checks | Shows |
|---|---|---|---|
| `storm` | 1 asset, 2 workers, 2 retry handlers; 1 crash, 1 starved lease, 2 retries | `TypeOK`, `ClaimInv`, `SettledAgreement` | every interleaving of claim, lease, reaper, recovery, settle and retry on one row |
| `refine` | 1 asset, 2 workers, 1 retry handler; 2 crashes, 1 lost write, 2 retries, 2 synchronous runs | `EveryAssetQueued`, `ImplementsLifecycle`, `VerdictIsFinal`, `SettledByItsThread`, `EveryAssetShownSettled` | refinement; rows, verdicts and progress under lost writes and `POST /analysis` |
| `live` | 1 asset, 2 workers; one fault of each kind but `sync` | `EveryJobSettles`, `EveryAssetShownSettled` | progress |
| `pair_stores` | 1 pair, perhaps with an old ruling or edge; 2 requests, 1 worker, 1 fault, 2 rulings | `StoresAgree`, `VerdictLeavesByReopen`, `ReopenedNeverAutoClosed`, `ImplementsPairs` | all interleavings on one pair; refinement |
| `pair_live` | 2 pairs, 1 closing request, 1 worker, 1 fault | `EveryEdgeGetsRow` | progress of the sync over a shared session and its rollbacks |
| `curation` | 2 assets (one the Lab's), 3 creatives, 2 pool threads, 1 handler, 2 analyses; 3 creatives under a phase and a sweep; 1 human act each | `MirrorNodesAtRest`, `EarlyMarksKeepApart`, `SurvivorSurvives`, `RulingBeatsAnswer` | copies of the rows; merging against people |
| `judging` | the eight components of section 5; see `MC_Judging` | `EvidenceDecides`, `CardRulesHold`, `OneCardPerKey`, `InboxIsOpen`, `JudgementsStand`, `BrakeHolds`, `CallsWithinLimit`, `OneContext`, `SampledEvenly` | judgements follow from evidence and are counted once |
| `operations` | the eight components of section 6 but consolidation, 3 creatives, 2 proposals, 2 handlers, 3 families, 3 requests (creatives, proposals and handlers symmetric); see `MC_Operations` | `FamilyRequestsHold`, `BatchFamilyHasMembers`, `FamiliesDisjoint`, `MinedFairly`, `CalibrationSettles`, `MachineOnlyMeasures`, `EditsAreFound`, `DearerIsNotKinder`, `QuietRefreshIsSilent` | curation, learning and verdicts |
| `background` | a phase and a sweep over 4 creatives without people; a process with 2 consolidation threads, 1 crash | `OneAtATime`, `SurvivorSurvives`, `EveryPhaseEnds` | what must come to an end does, and deep rescans lose no survivor |
| `doubleretry`, `pair_oneway`, `mixed` | the findings | one property each | violated |

The constant `Parts` of an MC module says which components a run covers: all of
them but in `mixed`, which covers the graph.

Bounds and why they are enough. Rows of different assets interact only through
the claim order and the pool; everything else happens on one row, hence one
asset in the queue's runs. Workers with one thread each are the worst case for
the row: the code tells threads of one worker from those of two only by the
`worker_id` it writes. MaxAttempts is 2 (the default is 3): one value below the
limit and the limit. Requests on different pairs meet only in a cycle's session,
which `pair_live` covers; one fault is enough to fail any single call, commit or
process in any state, and two rulings are the first number that lets a reopened
pair be closed again. Four creatives are the fewest with a merge inside the
rescan of a merge inside a scan (`background`); with three, people's acts and aging
rulings fit beside them (`curation`). The copies of the rows need a thread that
merges and one that attaches, an own creative and a competitor's, and a third for
what is split off. States that differ in Neo4j only are one there (`VIEW
BesidesNeo`): nothing reads it back into the rows and no property is about it.
Three creatives give the inbox a pair for each channel, two acts something before
a request and something in its middle. The log has three points in time: a
transaction, a later one that commits first, and what they decide. Two calibrations
are the fewest that overlap, two decisions per kind the fewest whose rate can both
break the limit and keep it. Two processes and five calls let the experiment run
out in the middle of a pair. Three families are needed for a number to conflict
twice. The grid has one threshold whose float lies above it. Two contexts are a
change in what verdicts take in and back. Money is in small whole units on both sides of every threshold. Scores of
`Recommendation` and rows of `ObservationPolicy` are listed in the MC modules;
the listed values cover each guard's two sides.

Deadlock is checked in the runs of the pairs only: the other systems may stop
when their bounds are used up or nothing is left to do.

Fairness. `live`: the main loop keeps claiming and reaping while the process
lives ("the main loop never exits", `worker.py:331`); docker restarts a dead
worker (`restart: unless-stopped`); pool threads and open handlers go on; leases
of jobs nobody executes expire; backoffs elapse. `pair_live`: an open request
goes on, the main loop starts a cycle every 300 s and works through it
(`worker.py:327-331`), the cache expires. `background`: a thread of a phase or of
a consolidation takes its next step when it can; a dead process releases its
lock by dying. Nothing is assumed of users, models, faults or heartbeats.

Every property has a mutant: a plausible bug in one mapped definition, written
next to it, under which TLC finds the property violated.

### What the code does not keep

Three disagreements are shown by runs: `doubleretry` (section 2), `pair_oneway`
(section 3) and `mixed` (section 4).

Others are stated in the modules as definitions with the line that claims them,
and no run checks them; TLC refuted each when it was run on it (the MC modules
hold them under names a .cfg can use):

| Definition | Claim | What happens |
|---|---|---|
| `Derivations!HumanFactorStands` | `models/derivation.py:62-63` | a review that read the link before a person decided writes after it |
| `RuleWords!KnownWordsApply` | `services/rule_feedback.py:131-132` | the first confirmed word of a table replaces the shipped ones, which are not suggested again |
| `Recommendation!InstallsGoByTheMarket` | `services/recommendation_rules.py:19-23` | an install creative with one or two payers is held back as a thin sample |
| `DnaFamilies!ArchivedIsEmpty` | `services/family_ops.py:86` | an assignment that checked before the deactivation writes after it |
| `AnalysisQueue!HeartbeatByOwner` | `repositories/jobs.py:93` | see section 2 |
| `CreativeGraph!MarkedInTime` | `api/routes/lab.py:92`, `services/pipeline.py:256` | the job is queued a transaction before the mark |
| `MergeInbox!RuledStaysAway` | `services/review.py:247` | the channels compare the two current names (`:291`, `:327`, `:387`): a renamed creative brings a closed pair back, although the ids of the ruling are collected too |
| `MergeInbox!CaseRulingsStayAway` | `services/review.py:310-311` | only one of the three channels asks the case book |
| `JudgeBrake!RateFellBack` | `services/judge_calibration.py:356` | the gates are read after the counts (`:382`, `:389`): a calibration that began before another closed the gate opens it on the same decisions |
| `JudgeOutcomes!AnswersFollow` | `services/judge_calibration.py:10` | a new verdict keeps `created_at` (`judge_suggestions.py:42`), so what people did before it counts as their answer to it |
| `MergeExperiment!SentWithinLimit` | `scripts/run_merge_family_experiment.py:917-918` | the client resends by itself (`llm_judge.py:31`) and nothing counts it |
| `ThresholdCalibration!GainStep` (four pairs, four rulings to begin with) | `services/threshold_calibration.py:174` | the gain is that of the float which was tried; the rounded threshold that is suggested (`:193`) may gain less |
| `CreativeGraph!VariantKept` | `models/creative.py:60` | a cleanup that counted before a variant was attached deletes both |
| `MergeScan!NoCallAcrossWrites` | `services/merge_ops.py:128` | a merge with `commit=False` rescans, calling the model, over its uncommitted rows |
| `ObservationPairs!ClosedPairHasNoEdge` | `services/observation_ops.py:55` | see section 3 |
| `CreativeRefresh!ArchivedStays` | `services/lifecycle.py:12` | a refresh that selected the creative before it was archived writes its state back |

Read while modelling and left as remarks: two confirmations of rule words that
overlap lose one word; two confirmations of one proposal make two families;
the automatic assignment writes a family without looking again, and a batch's
new family can be empty when another request commits in between; two refreshes
that overlap can write a snapshot twice; a link deleted during a review comes
back in Neo4j; the classifier's tables are up to a minute old where a comment
says immediately; a paused creative can carry the label of a potential winner;
lost updates of the consolidation counter only delay a scan; a factor that the
machine measures is logged without the prefix "auto:" (`derivation_review.py:166-186`)
and so passes for a human's; deleting a link deletes its suggestion
(`derivations.py:181-186`), which then counts for neither outcome.

## 8. Proofs

The theorems below hold for every value of the constants under the named ASSUMEs
of the modules; TLAPS checks every leaf. What TLC checks on the instances of
section 7 is stated by the same definitions. Every proof has the same shape: an
inductive invariant, a conjunction of named parts (the larger ones were checked
by TLC on the run before they were proved), a lemma that `Init` implies it,
lemmas for the operators the steps are built from, one step per action, and the
theorems the invariant carries. Every safety property and every action property
that a run expects to hold is stated by one of the theorems. The modules that
check several components side by side have their proofs about the
components in that setting: the invariant of a part is `part = "..." => ...`.

### The analysis queue: `AnalysisQueue_proofs`

| Theorem | What it establishes |
|---|---|
| `TypeCorrect` | `[]TypeOK`, strengthened by `WorkOK`: a busy slot holds an asset |
| `ClaimsAreSafe` | `[]ClaimInv`: exclusive execution, the attempt budget, reapable rows |
| `VerdictsAreShown`, `NoUploadIsForgotten` | `[]SettledAgreement`, `[]EveryAssetQueued` |
| `VerdictsAreFinal`, `JobsAreSettledByTheirThreads` | the action properties `VerdictIsFinal`, `SettledByItsThread` |

`QueueInv` is `TypeOK`, `WorkOK`, `ClaimInv` and `LibraryInv`. Exclusive
execution is not inductive alone: it needs that a thread holds a running, leased
row; that needs the attempt budget, that a thread without a row works for a
deleted asset, that rows belong to existing assets, that a settling thread has
read the row as it is, and that a retry handler holds a retryable row.
`LibraryInv` adds what the library shows: a run of `POST /analysis` is marked
(`SyncIsMarked`), the outcome a thread carries is what its run raised
(`OutcomeIsRaised`) and is what the asset shows (`ThreadIsShown`), and an asset
whose analysis started is not pending (`StartedIsNotPending`).

Its refinement is proved in the same module:

* `UndisturbedJobsFollowTheLifecycle`: with any faults, a step that leaves a job
  undisturbed is one step of `JobLifecycle` for that job or does not show.
* `QueueImplementsLifecycle`: `Spec => ImplementsLifecycle` under `Orderly` (no
  starved lease in the budget, at most one retry request open), which is when
  nothing disturbs a job. Crashes, lost writes and synchronous runs stay.

`RefinementInv` adds that an asset without a row holds nothing of an earlier one;
`OrderlyInv` that no job is disturbed, that the lease of a live thread has not
run out and that a retry handler has read the row as it is. The mapping names
the thread that executes a job with CHOOSE; lemmas (`HolderIs`, `NoHolderIs`) say
which one it is. `LifecycleStep` has one step per action, which maps it to a step
of the lifecycle or to none (`UnseenStep`).

### Observation pairs: `ObservationPairs_proofs`

`SessionsStayInOrder` and `TypesHold` are the structure: what a request and a
cycle hold at each stage, and the domains of the variables (`TypeOK`, which no run
repeats). On it rest `StoresTellOneStory` (`StoresAgree`: row,
ruling and edge of an unmarked pair agree whenever nobody is between the stores),
`OnlyReopeningUndoesAVerdict` and `ReopeningLasts`. The last is stated under
`OneWorker`, because with two it is false (section 3). `SessionInv` says what
the stages hold; `AgreeInv` that row and ruling agree at every moment, that the
edge does unless somebody is about to put it right, and that only due rows get
inserted; `ReopenInv` that what a session would still close was not reopened
since it was loaded.

`PairsFollowTheLifecycle` is the refinement, `Spec => ImplementsPairs`, with any
number of workers and any faults: a handler that found the pair as it still is
commits one step of the lifecycle (`CommittedFollows`), and so does a session
that writes a row nobody has changed since it was loaded (`WrittenFollows`). It
rests on `AgreeInv`: a row that is inserted has no ruling, a verdict that is
reopened is the policy's.

### Merging: `MergeScan_proofs`

`ScansStayInOrder`, `ScansTyped`, `SurvivorsSurvive` (a merge that waits for its
rescan never finds its survivor merged away) and `RulingsBeatAnswers`, for any
creatives, phases, sweepers and human acts, hence for any depth of scans in
scans. `ScanInv` is `TypeOK`, `LocksApart` (no row is locked by two threads) and
`ThreadOK`: the frames above the outermost are rescans of one creative, which is
locked, alive and not among the rows under change, and only hold pairs it would
survive; the pair at hand is one of the innermost frame; no ruling that was seen
is taken back.

### Creatives: `MC_Curation_proofs`

`CreativesStayInOrder`, `MirrorIsCurrent` (`MirrorNodesAtRest`) and
`EarlyMarksStayApart` (`EarlyMarksKeepApart`). `GraphInv` is

* `TypeOK` and `StagesInv`: what each stage of an analysis, an automatic merge, a
  request and the startup holds;
* `MirrorInv`: the mirror lists the rows, or somebody is on the way to rebuild it
  (`Coming`), or somebody stopped before (`owed`);
* `CopyInv`: at most one automatic merge is uncommitted, and its copy of the mirror
  lists the rows there will be;
* `ApartInv`: material that was marked in time and not regrouped since (`Kept`) is
  alone in its creative, and no thread is about to join it.

### Judging: `MC_Judging_proofs`

| Theorem | Property | Rests on |
|---|---|---|
| `ExperimentsStayInOrder`, `FilesAreTyped` | types of the files | `ExperimentInv`: one run (`OneRun`), a ledger never behind what was sent (`LedgerAhead`), where a run is in its tasks and what it has recorded (`RunsInOrder`) |
| `BudgetHolds` | `CallsWithinLimit` | `LedgerAhead`: the ledger is written before the call is made, so no crash can lose a count; a call is at most `PerCall` requests |
| `RunsKeepOneContext` | `OneContext` | `RunsInOrder` |
| `EvidenceHasOneCard` | `OneCardPerKey` | `SharingInv`: a card a batch got since the last eviction is the one in the shared cache, which holds each key once |
| `TheBrakeHolds` | `BrakeHolds` | `BrakeInv`: a calibration has counted no more overrides than there are and at least those of when it began, a closed gate is over its limit for the decisions its closing counted, and the notice says whether the gate is closed |
| `CardRulesAreKept` | `CardRulesHold` | a case for each rule, of the rules and of the replay |
| `JudgementsAreFinal` | `JudgementsStand` | `LogInv`: what an open transaction will write is no earlier than its beginning, so once none is open that began before the first deciding entry (`LeastNumber`), none comes before it |
| `TheEvidenceDecides` | `EvidenceDecides` | `PolicyInv`; the policy's sums over sets of rows as totals (`FoldLemmas`), which are those of the corresponding rows when a and b change places; the halves and the sequential test are symmetric in them, and rows out of the window are in no sum |
| `SamplesAreEven` | `SampledEvenly` | `ServedInv`: after c turns each stratum of the pool in progress has given as many pairs as turns came to it, or all it has, and finished pools stay as they were; `TreesInv`: following the links of the union-find reaches a root, in fewer steps each, and two variants have the same root exactly when judged pairs connect them |
| `ThePageIsOpen` | `InboxIsOpen` | `InboxInv`: what a request has read of each table is what the table says now of all that was not `touched` since, and a ruling names its creatives by ids, which no name is |

### Operations: `MC_Operations_proofs`

| Theorem | Property | Rests on |
|---|---|---|
| `RequestsStayInOrder`, `FamiliesTyped` | types of the families | `FamilyInv`: what every stage of a request has staged and found (`RequestOK`), and no two requests make one family (`MadeApart`) |
| `BatchFamiliesHaveMembers` | `BatchFamilyHasMembers` | `MembersOK`: an undisturbed confirmation by a batch still has a member of those it found, and what was confirmed so (`sure`) has one staged |
| `RequestsTakeEffectOnce` | `FamilyRequestsHold` | `KeysTell`: a key is stored exactly while its batch has taken effect; `NumbersTell`: each time a number is taken another family was created since |
| `ProposalsStayApart` | `FamiliesDisjoint` | `GroupingInv`: creatives of later batches are in no proposal yet; a cleaned answer names only those asked about, each once |
| `TheMachineMeasures` | `MachineOnlyMeasures` | `LinkInv`: a review about to write has read an undecided link; a step that counts no edit is a review's, and writes what it measured |
| `RefreshesAreQuiet` | `QuietRefreshIsSilent` | `RefreshInv`: a refresh that is alone knows the newest snapshots, and after an undisturbed one they tell of the rows it read (`LastTold`) |
| `EditsAreAlwaysFound` | `EditsAreFound` | `WholeSourceIsShift`: the right shift, and no other, makes the whole source agree |
| `WordsAreMinedFairly` | `MinedFairly` | `WordsInv`; what the walk over the log has pending of a creative after n entries is its last automatic label that nobody answered (`ReadingTells`), so corrections and what is found correspond; couples are counted family by family, and those with a word likewise (`PairsAreCouples`, `HitsAreCouples`) |
| `SuggestionsAreBest` | `CalibrationSettles` | `RulingsInv`; a pair is labelled a split if any ruling on it is one, in whichever order rulings are read (`LabelsAreRulings`); the order of the scores, fractions compared by multiplying, is transitive (`LessIsTransitive`), so a best threshold exists and beats all (`BestIsThere`) |
| `LessIsStoppedAsHard` | first two parts of `DearerIsNotKinder` | `VerdictsInv`; `HardnessIsThis` says how hard the first of the 18 rules that applies is, whatever the order of the thresholds; earning less makes it no softer |
| `DearerIsNeverKinder` | `DearerIsNotKinder` | the same, under `LinesInOrder` (efficient <= red <= pause), which section 6 explains |

### Consolidation: `Consolidation_proofs`

`ConsolidationTyped` and `OneConsolidation` (`OneAtATime`), for any processes and
threads; `Serial`: at most one thread of a process is between taking and
releasing the lock, which is held exactly while one is.

### Folds, sums and counting: `FoldLemmas`

The code sums over rows, walks over logs and counts pairs; the models say so with
the folds of the community modules and with recursive functions. The provers know
no induction and cannot instantiate a fact about any operator, so this module
states what folds compute about functions, and refutes the smallest
counterexample instead: `LeastNumber` for numbers, `SmallestSet` for finite sets.
From these follow that a fold over a finite set exists and is one
(`FoldExists`, `FoldsAgree`), likewise a function defined by recursion over
numbers (`RecursionExists`), that a sum does not depend on the order
(`TotalIsThis`, `TotalOfImage`, `SumChosen`), that disjoint parts add up
(`TotalOfParts`) and that n elements have n * (n - 1) / 2 couples
(`CouplesCounted`). The proofs in `MC_Judging_proofs` and `MC_Operations_proofs`
show of each operator of a model that it is such a fold.

### What the theorems assume

Only named ASSUMEs, which TLC evaluates on every run that uses the module. They
say that null values are outside their sets, that bounds, thresholds and minimal
numbers are natural numbers, that what is counted or summed over is finite
(`Assets`, `Suggestions`, the inbox's creatives, the pairs and thresholds of a
calibration, the creatives and families words are learnt from, the variants of a
sample), that there is a threshold to choose, that creatives, variants and days are
numbered where the code compares them, and what input data look like (disjoint
batches, words that are strings, metrics that are numbers or missing, rows with
whole days, money and results). Three theorems have a hypothesis besides:
`Orderly`, `OneWorker` and `LinesInOrder`. Each is satisfied by the instance TLC
checks, and each is needed: TLC finds the property violated without it.

### Only model-checked

Progress: `EveryJobSettles`, `EveryAssetShownSettled`, `EveryEdgeGetsRow` and
`EveryPhaseEnds` rest on fairness and ENABLED, which are out of the prover's
reach. TLC checks them on the instances of `live`, `pair_live` and `background`.

## 9. Plan

Worth adding: the pacing of evaluations by `next_evaluation_at`; duplicate
detection in the ingest; the market baselines behind the verdicts; a refinement of
the pairs that also shows their edges, which needs an abstract edge that lags
behind its pair while somebody is between the stores.

## 10. Not modelled

* Embeddings and matching (`services/embedding.py`, `matching.py`):
  floating-point arithmetic over external calls. Which creatives are near is any
  choice where it matters.
* The other sections of the inbox, interventions, evolution paths, market
  baselines and detection, the brief and the Web client: reads that change
  nothing.
* `priority.py`, `observation_calibration.py`, `judge_backtest.py`: formulas and
  offline tools over data.
* The Lab's diagnosis, prompts, taxonomy and validation: text around one model
  call and one insert.
* Parsers (spreadsheets, packs, vision answers but cards), the object store,
  settings routes, telemetry, backfills and schema migrations: conversions, I/O
  and one-shot tools.
* Tag nodes, performance edges and read queries of the graph repository.
