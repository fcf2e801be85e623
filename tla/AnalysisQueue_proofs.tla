----------------------- MODULE AnalysisQueue_proofs -----------------------
(***************************************************************************)
(* Proofs about AnalysisQueue for any assets, workers, pool size, number   *)
(* of open retry handlers, retry budget and fault budget.                  *)
(***************************************************************************)
EXTENDS AnalysisQueueRefinement, FiniteSetTheorems, TLAPS

(* A created_at rank is a natural number, whatever rows exist. *)
LEMMA RankIsNat == NewestRank \in Nat
<1>1. IsFiniteSet({a \in Assets : created[a] # 0})
  BY AssetsAssumption, FS_Subset
<1>2. Cardinality({a \in Assets : created[a] # 0}) \in Nat
  BY <1>1, FS_CardinalityType
<1> QED
  BY <1>2 DEF NewestRank

(* A commit through the unit of work leaves the column what it was or      *)
(* makes it what the handler set.                                          *)
LEMMA WriteIsOneOf ==
  ASSUME NEW current, NEW read, NEW new
  PROVE  Write(current, read, new) \in {current, new}
BY DEF Write

LEMMA RowTypes ==
  /\ NoJob \in Row
  /\ QueuedRow \in Row
  /\ NoSnapshot \in Snapshot
<1>1. NoJob \in Row
  BY DEF NoJob, NewRow, Row, JobStatus, Lease
<1>3. QueuedRow \in Row
  BY DEF QueuedRow, NewRow, Row, JobStatus, Lease
<1>4. NoSnapshot \in Snapshot
  BY <1>1 DEF NoSnapshot, Snapshot, AssetStatus
<1> QED
  BY <1>1, <1>3, <1>4

(* What settling, retrying and requeueing make of a row is a row. *)
LEMMA SettledRowType ==
  ASSUME NEW current \in Row, NEW read \in Row, NEW o \in Outcomes
  PROVE  SettledRow(current, read, o) \in Row
<1>1. Verdict(read, o) \in JobStatus
  BY DEF Verdict, Outcomes, FailureKinds, JobStatus, Settled, Requeues
<1>2. Write(current.status, read.status, Verdict(read, o)) \in JobStatus
  BY <1>1 DEF Write, Row
<1>3. /\ (IF o = "retryable" THEN Tried(read) ELSE current.attempt) \in Nat
      /\ (IF read.lease = "none" THEN current.lease ELSE "none") \in Lease
      /\ Write(current.worker, read.worker, NoWorker)
            \in Workers \cup {NoWorker}
  BY DEF Tried, Write, Row, Lease
<1>4. (current.due /\ ~Requeues(read, o)) \in BOOLEAN
  OBVIOUS
<1> QED
  BY <1>2, <1>3, <1>4 DEF SettledRow, Row

LEMMA ClaimedRowType ==
  ASSUME NEW row \in Row, NEW w \in Workers
  PROVE  ClaimedRow(row, w) \in Row
BY DEF ClaimedRow, Row, JobStatus, Lease

LEMMA RetriedRowType ==
  ASSUME NEW current \in Row, NEW read \in Row
  PROVE  RetriedRow(current, read) \in Row
BY DEF RetriedRow, Write, Row, JobStatus, Lease

LEMMA RequeuedType ==
  ASSUME job \in [Assets -> Row]
  PROVE  Requeued \in [Assets -> Row]
<1> SUFFICES ASSUME NEW a \in Assets
             PROVE  Requeued[a] \in Row
  BY DEF Requeued
<1>1. job[a] \in Row
  OBVIOUS
<1>2. [job[a] EXCEPT !.status = "queued", !.lease = "none",
                     !.worker = NoWorker] \in Row
  BY <1>1 DEF Row, JobStatus, Lease
<1> QED
  BY <1>1, <1>2 DEF Requeued

----------------------------------------------------------------------------
(* Actions shared by several handlers keep the types they touch. *)

LEMMA ReleaseTypes ==
  ASSUME TypeOK, NEW s \in Slots, Release(s)
  PROVE  /\ pc' \in [Slots -> Stages]
         /\ work' \in [Slots -> Assets \cup {NoAsset}]
         /\ outcome' \in [Slots -> Outcomes]
         /\ seen' \in [Slots -> Snapshot]
BY RowTypes DEF Release, TypeOK, Stages, Outcomes

LEMMA SpendType ==
  ASSUME TypeOK, NEW k \in Faults, Spend(k)
  PROVE  spent' \in [Faults -> Nat]
BY DEF Spend, TypeOK

LEMMA MarkType ==
  ASSUME TypeOK, NEW a \in Assets, NEW m \in Marks, Mark(a, m)
  PROVE  marks' \in [Assets -> SUBSET Marks]
BY DEF Mark, TypeOK

LEMMA MarkStaleType ==
  ASSUME TypeOK, NEW a \in Assets, NEW read, MarkStale(a, read)
  PROVE  marks' \in [Assets -> SUBSET Marks]
BY MarkType DEF MarkStale, TypeOK, Marks

LEMMA MarkOverrunsType ==
  ASSUME TypeOK, MarkOverruns
  PROVE  marks' \in [Assets -> SUBSET Marks]
BY DEF MarkOverruns, TypeOK, Marks

LEMMA StampType ==
  ASSUME TypeOK, NEW new, StampNew(new)
  PROVE  created' \in [Assets -> Nat]
BY RankIsNat DEF StampNew, TypeOK

(* A thread at work holds an asset of the library. *)
WorkOK == \A s \in Slots : pc[s] # "idle" => work[s] \in Assets

LEMMA InitTypeOK == Init => TypeOK /\ WorkOK
BY RowTypes DEF Init, TypeOK, WorkOK, AssetStatus, Stages, Outcomes

(* Every action keeps every variable in its domain. *)
LEMMA NextTypeOK ==
  ASSUME TypeOK, WorkOK, [Next]_vars
  PROVE  TypeOK' /\ WorkOK'
<1> USE DEF TypeOK, WorkOK
<1>1. ASSUME NEW a \in Assets, Upload(a)
      PROVE  TypeOK' /\ WorkOK'
  <2>1. created' \in [Assets -> Nat]
    BY <1>1, StampType DEF Upload
  <2> QED
    BY <1>1, <2>1, RowTypes DEF Upload, AssetStatus, executors, requests
<1>2. ASSUME NEW a \in Assets, DeleteAsset(a)
      PROVE  TypeOK' /\ WorkOK'
  BY <1>2, RowTypes DEF DeleteAsset, AssetStatus, executors, requests
<1>3. ASSUME NEW w \in Workers, NEW s \in Slots, NEW a \in Assets,
             ClaimNext(w, s, a)
      PROVE  TypeOK' /\ WorkOK'
  <2>1. ClaimedRow(job[a], w) \in Row
    BY ClaimedRowType
  <2>2. job' \in [Assets -> Row]
    BY <1>3, <2>1 DEF ClaimNext
  <2> QED
    BY <1>3, <2>2 DEF ClaimNext, Stages, requests
<1>4. ASSUME NEW w \in Workers, ReapExpiredLeases(w)
      PROVE  TypeOK' /\ WorkOK'
  BY <1>4, RequeuedType, MarkOverrunsType
     DEF ReapExpiredLeases, executors, requests
<1>5. ASSUME NEW w \in Workers, RecoverOnStartup(w)
      PROVE  TypeOK' /\ WorkOK'
  <2>1. Requeued \in [Assets -> Row]
    BY RequeuedType
  <2>2. job' \in [Assets -> Row]
    BY <1>5, <2>1, RowTypes DEF RecoverOnStartup
  <2>3. \A row : Aligned(row) \in AssetStatus
    BY DEF Aligned, AssetStatus
  <2>4. asset' \in [Assets -> AssetStatus]
    BY <1>5, <2>3 DEF RecoverOnStartup
  <2>5. created' \in [Assets -> Nat] /\ marks' \in [Assets -> SUBSET Marks]
    BY <1>5, StampType, MarkOverrunsType DEF RecoverOnStartup
  <2> QED
    BY <1>5, <2>2, <2>4, <2>5 DEF RecoverOnStartup, executors, requests
<1>6. ASSUME NEW w \in Workers, Crash(w)
      PROVE  TypeOK' /\ WorkOK'
  <2>1. spent' \in [Faults -> Nat]
    BY <1>6, SpendType DEF Crash, Faults
  <2>2. /\ pc' \in [Slots -> Stages]
        /\ work' \in [Slots -> Assets \cup {NoAsset}]
        /\ outcome' \in [Slots -> Outcomes]
        /\ seen' \in [Slots -> Snapshot]
    BY <1>6, RowTypes DEF Crash, Stages, Outcomes
  <2>3. WorkOK'
    BY <1>6 DEF Crash
  <2> QED
    BY <1>6, <2>1, <2>2, <2>3 DEF Crash, requests
<1>7. ASSUME NEW a \in Assets, LeaseRunsOut(a),
             UNCHANGED spent \/ Spend("lapse")
      PROVE  TypeOK' /\ WorkOK'
  <2>1. job' \in [Assets -> Row]
    BY <1>7 DEF LeaseRunsOut, Row, Lease
  <2>2. spent' \in [Faults -> Nat]
    BY <1>7, SpendType DEF Faults
  <2> QED
    BY <1>7, <2>1, <2>2 DEF LeaseRunsOut, executors, requests
<1>8. ASSUME NEW s \in Slots, RenewLease(s)
      PROVE  TypeOK' /\ WorkOK'
  <2>1. work[s] \in Assets
    BY <1>8 DEF RenewLease, Heartbeating
  <2>2. job' \in [Assets -> Row]
    BY <1>8, <2>1 DEF RenewLease, Row, Lease
  <2> QED
    BY <1>8, <2>2 DEF RenewLease, executors, requests
<1>9. ASSUME NEW a \in Assets, BackoffElapses(a)
      PROVE  TypeOK' /\ WorkOK'
  <2>1. job' \in [Assets -> Row]
    BY <1>9 DEF BackoffElapses, Row
  <2> QED
    BY <1>9, <2>1 DEF BackoffElapses, executors, requests
<1>10. ASSUME NEW s \in Slots, StartAnalysis(s)
       PROVE  TypeOK' /\ WorkOK'
  <2>1. CASE job[work[s]].status = "none"
    <3>1. Release(s) /\ UNCHANGED asset
      BY <1>10, <2>1 DEF StartAnalysis
    <3> QED
      BY <1>10, <3>1, ReleaseTypes DEF StartAnalysis, requests, Release
  <2>2. CASE job[work[s]].status # "none"
    BY <1>10, <2>2 DEF StartAnalysis, requests, Stages, AssetStatus
  <2> QED
    BY <2>1, <2>2
<1>11. ASSUME NEW s \in Slots, CompleteAnalysis(s)
       PROVE  TypeOK' /\ WorkOK'
  BY <1>11 DEF CompleteAnalysis, requests, Stages, AssetStatus
<1>12. ASSUME NEW s \in Slots, NEW kind \in FailureKinds, RaiseIn(s, kind)
       PROVE  /\ pc' \in [Slots -> Stages]
              /\ outcome' \in [Slots -> Outcomes]
              /\ UNCHANGED <<job, created, up, work, seen, requests, sync>>
              /\ WorkOK'
  BY <1>12 DEF RaiseIn, Stages, Outcomes
<1>13. ASSUME NEW s \in Slots, NEW kind \in FailureKinds,
              FailAnalysis(s, kind)
       PROVE  TypeOK' /\ WorkOK'
  BY <1>12, <1>13 DEF FailAnalysis, requests, AssetStatus
<1>14. ASSUME NEW s \in Slots, NEW kind \in FailureKinds,
              LoseFailure(s, kind)
       PROVE  TypeOK' /\ WorkOK'
  <2>1. spent' \in [Faults -> Nat]
    BY <1>14, SpendType DEF LoseFailure, Faults
  <2>2. work[s] \in Assets
    BY <1>14 DEF LoseFailure, RaiseIn
  <2>3. marks' \in [Assets -> SUBSET Marks]
    BY <1>14, <2>2, MarkType DEF LoseFailure, Marks
  <2> QED
    BY <1>12, <1>14, <2>1, <2>3 DEF LoseFailure, requests
<1>15. ASSUME NEW s \in Slots, FinishAnalysis(s)
       PROVE  TypeOK' /\ WorkOK'
  BY <1>15 DEF FinishAnalysis, requests, Stages
<1>16. ASSUME NEW s \in Slots, SettleRead(s)
       PROVE  TypeOK' /\ WorkOK'
  <2>1. CASE job[work[s]].status = "none"
    <3>1. Release(s)
      BY <1>16, <2>1 DEF SettleRead
    <3> QED
      BY <1>16, <3>1, ReleaseTypes DEF SettleRead, requests, Release
  <2>2. CASE job[work[s]].status # "none"
    <3>1. work[s] \in Assets
      BY <1>16 DEF SettleRead
    <3>2. [row |-> job[work[s]], asset |-> asset[work[s]]] \in Snapshot
      BY <3>1 DEF Snapshot
    <3> QED
      BY <1>16, <2>2, <3>2 DEF SettleRead, requests, Stages
  <2> QED
    BY <2>1, <2>2
<1>17. ASSUME NEW s \in Slots, SettleCommit(s)
       PROVE  TypeOK' /\ WorkOK'
  <2>1. work[s] \in Assets
    BY <1>17 DEF SettleCommit
  <2>2. seen[s].row \in Row /\ seen[s].asset \in AssetStatus
    BY DEF Snapshot
  <2>3. Release(s) /\ WorkOK'
    BY <1>17 DEF SettleCommit, Release
  <2>4. asset' \in [Assets -> AssetStatus]
    BY <1>17, <2>1 DEF SettleCommit, Write, AssetStatus
  <2>5. job' \in [Assets -> Row]
    <3>1. SettledRow(job[work[s]], seen[s].row, outcome[s]) \in Row
      BY <2>1, <2>2, SettledRowType
    <3> QED
      BY <1>17, <2>1, <3>1 DEF SettleCommit
  <2>6. marks' \in [Assets -> SUBSET Marks]
    BY <1>17, <2>1, MarkStaleType DEF SettleCommit
  <2> QED
    BY <1>17, <2>3, <2>4, <2>5, <2>6, ReleaseTypes DEF SettleCommit, requests
<1>18. ASSUME NEW s \in Slots, SettleLost(s)
       PROVE  TypeOK' /\ WorkOK'
  <2>1. spent' \in [Faults -> Nat]
    BY <1>18, SpendType DEF SettleLost, Faults
  <2>2. Release(s) /\ WorkOK'
    BY <1>18 DEF SettleLost, Release
  <2> QED
    BY <1>18, <2>1, <2>2, ReleaseTypes DEF SettleLost, requests
<1>19. ASSUME NEW r \in Requests, NEW a \in Assets, RetryRead(r, a)
       PROVE  TypeOK' /\ WorkOK'
  <2>1. spent' \in [Faults -> Nat]
    BY <1>19, SpendType DEF RetryRead, Faults
  <2>2. [row |-> job[a], asset |-> asset[a]] \in Snapshot
    BY DEF Snapshot
  <2> QED
    BY <1>19, <2>1, <2>2 DEF RetryRead, executors
<1>20. ASSUME NEW r \in Requests, RetryCommit(r)
       PROVE  TypeOK' /\ WorkOK'
  <2>1. request[r] \in Assets
    BY <1>20 DEF RetryCommit
  <2>2. asked[r].row \in Row /\ asked[r].asset \in AssetStatus
    BY DEF Snapshot
  <2>3. asset' \in [Assets -> AssetStatus]
    BY <1>20, <2>1 DEF RetryCommit, Write, AssetStatus
  <2>4. job' \in [Assets -> Row]
    <3>1. RetriedRow(job[request[r]], asked[r].row) \in Row
      BY <2>1, <2>2, RetriedRowType
    <3> QED
      BY <1>20, <2>1, <3>1 DEF RetryCommit
  <2>5. marks' \in [Assets -> SUBSET Marks]
    BY <1>20, <2>1, MarkStaleType DEF RetryCommit
  <2>6. /\ request' \in [Requests -> Assets \cup {NoAsset}]
        /\ asked' \in [Requests -> Snapshot]
    BY <1>20, RowTypes DEF RetryCommit
  <2> QED
    BY <1>20, <2>3, <2>4, <2>5, <2>6 DEF RetryCommit, executors
<1>21. ASSUME NEW a \in Assets, SyncStart(a)
       PROVE  TypeOK' /\ WorkOK'
  <2>1. spent' \in [Faults -> Nat] /\ marks' \in [Assets -> SUBSET Marks]
    BY <1>21, SpendType, MarkType DEF SyncStart, Faults, Marks
  <2> QED
    BY <1>21, <2>1 DEF SyncStart, executors, requests, AssetStatus
<1>22. ASSUME NEW a \in Assets, SyncComplete(a)
       PROVE  TypeOK' /\ WorkOK'
  BY <1>22 DEF SyncComplete, executors, requests, AssetStatus
<1>23. ASSUME NEW a \in Assets, SyncEnd(a)
       PROVE  TypeOK' /\ WorkOK'
  BY <1>23 DEF SyncEnd, executors, requests, AssetStatus
<1>24. ASSUME NEW a \in Assets, SyncLost(a)
       PROVE  TypeOK' /\ WorkOK'
  <2>1. spent' \in [Faults -> Nat] /\ marks' \in [Assets -> SUBSET Marks]
    BY <1>24, SpendType, MarkType DEF SyncLost, Faults, Marks
  <2> QED
    BY <1>24, <2>1 DEF SyncLost, executors, requests
<1>25. CASE UNCHANGED vars
  BY <1>25 DEF vars
<1> QED
  BY <1>1, <1>2, <1>3, <1>4, <1>5, <1>6, <1>7, <1>8, <1>9, <1>10, <1>11,
     <1>13, <1>14, <1>15, <1>16, <1>17, <1>18, <1>19, <1>20, <1>21, <1>22,
     <1>23, <1>24, <1>25
     DEF Next, Claim, Execute, OrphanedLapse, StarvedLapse

(* Type correctness: every handler leaves every column and every thread    *)
(* in its declared domain.                                                 *)
THEOREM TypeCorrect == Spec => []TypeOK
<1>1. Spec => [](TypeOK /\ WorkOK)
  BY InitTypeOK, NextTypeOK, PTL DEF Spec
<1> QED
  BY <1>1, PTL

----------------------------------------------------------------------------
(* The claim invariant.                                                    *)

(* A step keeps ClaimInv when it makes no thread busy, lets no thread      *)
(* start to commit, clears no mark, moves no undisturbed row, neither      *)
(* creates nor revives assets, and opens retry handlers on retryable       *)
(* verdicts only.                                                          *)
LEMMA Frame ==
  ASSUME TypeOK, ClaimInv,
         \A s \in Slots, a \in Assets : Executing(s, a)' => Executing(s, a),
         \A s \in Slots : pc'[s] = "committing"
            => pc[s] = "committing" /\ seen'[s] = seen[s],
         \A a \in Assets : Undisturbed(a)' => Undisturbed(a),
         \A a \in Assets : job'[a].status = job[a].status,
         \A a \in Assets : Undisturbed(a) => ~Moved(job'[a], job[a]),
         \A a \in Assets : Exists(a) => Exists(a)',
         \A a \in Assets : asset[a] = "deleted" => asset'[a] = "deleted",
         \A r \in Requests : request'[r] # NoAsset
            => \/ request[r] # NoAsset /\ asked'[r] = asked[r]
               \/ asked'[r].row.status \in Retryable
  PROVE  ClaimInv'
<1>1. ExclusiveExecution'
  BY DEF ClaimInv, ExclusiveExecution
<1>2. ExecutionHoldsRow'
  BY DEF ClaimInv, ExecutionHoldsRow, Moved
<1>3. AttemptBudget'
  BY DEF ClaimInv, AttemptBudget, Moved
<1>4. RunningIsReapable'
  BY DEF ClaimInv, RunningIsReapable, Moved
<1>5. RowHasAsset'
  BY DEF ClaimInv, RowHasAsset
<1>6. RowlessIsDeleted'
  BY DEF ClaimInv, RowlessIsDeleted
<1>7. ReadRowIsCurrent'
  <2> SUFFICES ASSUME NEW s \in Slots, NEW a \in Assets,
                      Executing(s, a)', pc'[s] = "committing",
                      Undisturbed(a)', job'[a].status # "none"
               PROVE  ~Moved(job'[a], seen'[s].row)
    BY DEF ReadRowIsCurrent
  <2>1. /\ ~Moved(job[a], seen[s].row)
        /\ ~Moved(job'[a], job[a])
        /\ seen'[s] = seen[s]
    BY DEF ClaimInv, ReadRowIsCurrent
  <2> QED
    BY <2>1 DEF Moved
<1>8. AskedIsRetryable'
  BY DEF ClaimInv, AskedIsRetryable
<1> QED
  BY <1>1, <1>2, <1>3, <1>4, <1>5, <1>6, <1>7, <1>8 DEF ClaimInv

(* Nothing but its clock tells an unmoved row from itself. *)
LEMMA UnmovedIsReflexive == \A row : ~Moved(row, row)
BY DEF Moved

(* Conditions of Frame that hold of every step that leaves the named       *)
(* variables alone.                                                        *)
LEMMA IdleThreadsStayIdle ==
  ASSUME NEW s \in Slots, Release(s), TypeOK
  PROVE  /\ \A t \in Slots, a \in Assets :
                Executing(t, a)' => Executing(t, a) /\ t # s
         /\ \A t \in Slots : pc'[t] = "committing"
                => pc[t] = "committing" /\ seen'[t] = seen[t]
BY DEF Release, TypeOK, Executing

LEMMA MarksOnlyGrow ==
  ASSUME TypeOK, NEW a \in Assets, NEW m, Mark(a, m)
  PROVE  \A b \in Assets : Undisturbed(b)' => Undisturbed(b)
BY DEF Mark, Undisturbed, TypeOK

LEMMA InitClaimInv == Init => ClaimInv
BY DEF Init, ClaimInv, ExclusiveExecution, ExecutionHoldsRow, AttemptBudget,
       RunningIsReapable, RowHasAsset, RowlessIsDeleted, ReadRowIsCurrent,
       AskedIsRetryable, Executing, NoJob, NewRow

(* Settling a row that is still what was read gives the verdict, and the   *)
(* verdict respects the attempt budget.                                    *)
LEMMA SettledRowIsVerdict ==
  ASSUME NEW current \in Row, NEW read \in Row, NEW o \in Outcomes,
         ~Moved(current, read),
         current.status = "running", current.attempt < MaxAttempts
  PROVE  /\ SettledRow(current, read, o).status \in {"queued"} \cup Settled
         /\ SettledRow(current, read, o).status = "queued"
              => SettledRow(current, read, o).attempt < MaxAttempts
         /\ SettledRow(current, read, o).status = "dead"
              => SettledRow(current, read, o).attempt = MaxAttempts
<1>1. /\ read.status = "running" /\ read.attempt = current.attempt
      /\ read.attempt \in Nat
  BY DEF Moved, Row
<1>2. Verdict(read, o) # "running"
  BY DEF Verdict, Outcomes, FailureKinds
<1>3. /\ SettledRow(current, read, o).status = Verdict(read, o)
      /\ SettledRow(current, read, o).attempt
           = IF o = "retryable" THEN Tried(read) ELSE current.attempt
  BY <1>1, <1>2 DEF SettledRow, Write
<1>4. CASE o = "retryable"
  BY <1>1, <1>3, <1>4, AttemptsAssumption
     DEF Verdict, Requeues, Tried, Settled
<1>5. CASE o # "retryable"
  BY <1>3, <1>5 DEF Verdict, Outcomes, FailureKinds, Settled
<1> QED
  BY <1>4, <1>5

(* Retrying a row that is still the retryable row that was read queues it  *)
(* with all its attempts.                                                  *)
LEMMA RetriedRowIsFresh ==
  ASSUME NEW current \in Row, NEW read \in Row,
         ~Moved(current, read), read.status \in Retryable
  PROVE  /\ RetriedRow(current, read).status = "queued"
         /\ RetriedRow(current, read).attempt < MaxAttempts
         /\ current.status \notin {"none", "queued", "running"}
BY AttemptsAssumption DEF Moved, Retryable, RetriedRow, Write, Row

(* Neither commit ever makes a row disappear, whatever row was read. *)
LEMMA RowStaysRow ==
  ASSUME NEW current \in Row, NEW read \in Row, NEW o \in Outcomes,
         current.status # "none"
  PROVE  /\ SettledRow(current, read, o).status # "none"
         /\ RetriedRow(current, read).status # "none"
BY DEF SettledRow, RetriedRow, Write, Verdict, Outcomes, FailureKinds

(* An undisturbed asset whose row waits or is settled has no thread.       *)
LEMMA OnlyRunningIsExecuted ==
  ASSUME ClaimInv, NEW a \in Assets, Undisturbed(a),
         job[a].status \notin {"none", "running"}
  PROVE  \A s \in Slots : ~Executing(s, a)
BY DEF ClaimInv, ExecutionHoldsRow

(* Every action keeps ClaimInv. *)
LEMMA NextClaimInv ==
  ASSUME TypeOK, WorkOK, ClaimInv, [Next]_vars
  PROVE  ClaimInv'
<1> USE DEF TypeOK, WorkOK
<1>1. ASSUME NEW a \in Assets, Upload(a)
      PROVE  ClaimInv'
  <2>1. job[a].status = "none" /\ \A s \in Slots : ~Executing(s, a)
    BY <1>1 DEF Upload, ClaimInv, RowHasAsset, RowlessIsDeleted, Exists
  <2>2. /\ job'[a] = QueuedRow /\ asset'[a] = "pending"
        /\ \A b \in Assets : b # a => job'[b] = job[b] /\ asset'[b] = asset[b]
        /\ UNCHANGED <<executors, requests, marks>>
    BY <1>1 DEF Upload
  <2>3. /\ QueuedRow.status = "queued" /\ QueuedRow.attempt = 0
    BY DEF QueuedRow, NewRow
  <2> QED
    BY <2>1, <2>2, <2>3, AttemptsAssumption
       DEF ClaimInv, ExclusiveExecution, ExecutionHoldsRow, AttemptBudget,
           RunningIsReapable, RowHasAsset, RowlessIsDeleted, ReadRowIsCurrent,
           AskedIsRetryable, Executing, Undisturbed, Exists, executors,
           requests
<1>2. ASSUME NEW a \in Assets, DeleteAsset(a)
      PROVE  ClaimInv'
  <2>1. /\ job'[a].status = "none" /\ asset'[a] = "deleted"
        /\ \A b \in Assets : b # a => job'[b] = job[b] /\ asset'[b] = asset[b]
        /\ UNCHANGED <<executors, requests, marks>>
    BY <1>2 DEF DeleteAsset, NoJob, NewRow
  <2> QED
    BY <2>1
       DEF ClaimInv, ExclusiveExecution, ExecutionHoldsRow, AttemptBudget,
           RunningIsReapable, RowHasAsset, RowlessIsDeleted, ReadRowIsCurrent,
           AskedIsRetryable, Executing, Undisturbed, Exists, executors,
           requests
<1>3. ASSUME NEW w \in Workers, NEW s \in Slots, NEW a \in Assets,
             ClaimNext(w, s, a)
      PROVE  ClaimInv'
  <2>1. /\ job[a].status = "queued" /\ pc[s] = "idle" /\ w = WorkerOf(s)
        /\ job'[a] = ClaimedRow(job[a], w)
        /\ \A b \in Assets : b # a => job'[b] = job[b]
        /\ pc'[s] = "claimed" /\ work'[s] = a
        /\ \A t \in Slots : t # s => pc'[t] = pc[t] /\ work'[t] = work[t]
        /\ UNCHANGED <<asset, seen, requests, marks>>
    BY <1>3 DEF ClaimNext, Claimable
  <2>2. /\ ClaimedRow(job[a], w).status = "running"
        /\ ClaimedRow(job[a], w).lease = "live"
        /\ ClaimedRow(job[a], w).worker = w
        /\ ClaimedRow(job[a], w).attempt = job[a].attempt
    BY DEF ClaimedRow, Row
  <2>3. Undisturbed(a) => \A t \in Slots : ~Executing(t, a)
    BY <2>1, OnlyRunningIsExecuted
  <2>4. ExclusiveExecution'
    BY <2>1, <2>3 DEF ClaimInv, ExclusiveExecution, Executing, Undisturbed
  <2>5. ExecutionHoldsRow'
    BY <2>1, <2>2, <2>3
       DEF ClaimInv, ExecutionHoldsRow, Executing, Undisturbed
  <2>6. AttemptBudget' /\ RunningIsReapable' /\ RowHasAsset'
    BY <2>1, <2>2
       DEF ClaimInv, AttemptBudget, RunningIsReapable, RowHasAsset,
           Undisturbed, Exists
  <2>7. RowlessIsDeleted' /\ ReadRowIsCurrent' /\ AskedIsRetryable'
    BY <2>1, <2>2, <2>3
       DEF ClaimInv, RowlessIsDeleted, ReadRowIsCurrent, AskedIsRetryable,
           Executing, Undisturbed, requests
  <2> QED
    BY <2>4, <2>5, <2>6, <2>7 DEF ClaimInv
<1>4. ASSUME job' = Requeued \/
             (\E orphans \in SUBSET Assets :
                /\ \A a \in orphans : /\ job[a].status = "none"
                                      /\ asset[a] \in {"pending", "processing"}
                /\ job' = [a \in Assets |-> IF a \in orphans THEN QueuedRow
                                                             ELSE Requeued[a]]),
             MarkOverruns, UNCHANGED <<executors, requests>>,
             \A a \in Assets : Exists(a) => Exists(a)',
             \A a \in Assets : asset[a] = "deleted" => asset'[a] = "deleted"
      PROVE  ClaimInv'
  <2>1. \A a \in Assets : Undisturbed(a)' =>
            Undisturbed(a) /\ ~(Expired(job[a]) /\ Executed(a))
    BY <1>4 DEF MarkOverruns, Undisturbed
  <2>2. \A a \in Assets :
            \/ job'[a] = job[a] /\ ~Expired(job[a])
            \/ /\ Expired(job[a]) /\ job'[a].status = "queued"
               /\ job'[a].attempt = job[a].attempt
            \/ /\ job[a].status = "none" /\ job'[a] = QueuedRow
               /\ asset[a] \in {"pending", "processing"}
    <3>1. \A a \in Assets :
              IF Expired(job[a])
              THEN /\ Requeued[a].status = "queued"
                   /\ Requeued[a].attempt = job[a].attempt
              ELSE Requeued[a] = job[a]
      BY DEF Requeued, Row
    <3>2. \A a \in Assets : Expired(job[a]) => job[a].status # "none"
      BY DEF Expired
    <3> QED
      BY <1>4, <3>1, <3>2
  <2>3. QueuedRow.status = "queued" /\ QueuedRow.attempt = 0
    BY DEF QueuedRow, NewRow
  <2>4. \A s \in Slots, a \in Assets :
            Executing(s, a)' => /\ Executing(s, a)
                                /\ Undisturbed(a)' => job'[a] = job[a]
    <3> SUFFICES ASSUME NEW s \in Slots, NEW a \in Assets, Executing(s, a)'
                 PROVE  /\ Executing(s, a)
                        /\ Undisturbed(a)' => job'[a] = job[a]
      OBVIOUS
    <3>1. Executing(s, a)
      BY <1>4 DEF Executing, executors
    <3>2. job[a].status = "none" => asset[a] = "deleted"
      BY <3>1 DEF ClaimInv, RowlessIsDeleted
    <3> QED
      BY <2>1, <2>2, <3>1, <3>2 DEF Executed
  <2>5. ExclusiveExecution' /\ ExecutionHoldsRow'
    BY <2>1, <2>4 DEF ClaimInv, ExclusiveExecution, ExecutionHoldsRow
  <2>6. AttemptBudget'
    BY <2>1, <2>2, <2>3, AttemptsAssumption
       DEF ClaimInv, AttemptBudget, Expired
  <2>7. RunningIsReapable'
    BY <2>1, <2>2, <2>3 DEF ClaimInv, RunningIsReapable
  <2>8. RowHasAsset'
    <3>1. \A a \in Assets : asset[a] \in {"pending", "processing"} => Exists(a)
      BY DEF Exists
    <3> QED
      BY <1>4, <2>2, <3>1 DEF ClaimInv, RowHasAsset, Expired
  <2>9. RowlessIsDeleted'
    BY <1>4, <2>2, <2>3, <2>4 DEF ClaimInv, RowlessIsDeleted, Expired
  <2>10. ReadRowIsCurrent' /\ AskedIsRetryable'
    BY <1>4, <2>1, <2>4
       DEF ClaimInv, ReadRowIsCurrent, AskedIsRetryable, executors, requests
  <2> QED
    BY <2>5, <2>6, <2>7, <2>8, <2>9, <2>10 DEF ClaimInv
<1>5. ASSUME NEW w \in Workers, ReapExpiredLeases(w)
      PROVE  ClaimInv'
  <2>1. /\ job' = Requeued /\ MarkOverruns
        /\ UNCHANGED <<asset, executors, requests>>
    BY <1>5 DEF ReapExpiredLeases
  <2> QED
    BY <1>4, <2>1 DEF Exists
<1>6. ASSUME NEW w \in Workers, RecoverOnStartup(w)
      PROVE  ClaimInv'
  <2>1. MarkOverruns /\ UNCHANGED <<executors, requests>>
    BY <1>6 DEF RecoverOnStartup
  <2>2. \A row : Aligned(row) \notin {"absent", "deleted"}
    BY DEF Aligned
  <2>3. \A a \in Assets :
            /\ Exists(a) => Exists(a)'
            /\ asset[a] = "deleted" => asset'[a] = "deleted"
    BY <1>6, <2>2 DEF RecoverOnStartup, Exists
  <2> DEFINE orphans == {a \in Assets :
                           /\ asset[a] \in {"pending", "processing"}
                           /\ job[a].status = "none"}
  <2>4. /\ orphans \in SUBSET Assets
        /\ \A a \in orphans : /\ job[a].status = "none"
                              /\ asset[a] \in {"pending", "processing"}
        /\ job' = [a \in Assets |-> IF a \in orphans THEN QueuedRow
                                                     ELSE Requeued[a]]
    BY <1>6 DEF RecoverOnStartup
  <2> HIDE DEF orphans
  <2> QED
    BY <1>4, <2>1, <2>3, <2>4
<1>7. ASSUME NEW w \in Workers, Crash(w)
      PROVE  ClaimInv'
  <2>1. UNCHANGED <<asset, job, requests, marks>>
    BY <1>7 DEF Crash
  <2>2. /\ \A t \in Slots, a \in Assets : Executing(t, a)' => Executing(t, a)
        /\ \A t \in Slots : pc'[t] = "committing"
             => pc[t] = "committing" /\ seen'[t] = seen[t]
    BY <1>7 DEF Crash, Executing
  <2> QED
    BY <2>1, <2>2, Frame, UnmovedIsReflexive
       DEF Undisturbed, Exists, requests
<1>8. ASSUME NEW a \in Assets,
             \/ LeaseRunsOut(a)
             \/ BackoffElapses(a)
             \/ \E s \in Slots : a = work[s] /\ RenewLease(s)
      PROVE  ClaimInv'
  <2>1. /\ UNCHANGED <<asset, executors, requests, marks>>
        /\ \A b \in Assets : b # a => job'[b] = job[b]
    BY <1>8 DEF LeaseRunsOut, BackoffElapses, RenewLease
  <2>2. /\ job'[a].status = job[a].status
        /\ Undisturbed(a) => ~Moved(job'[a], job[a])
    <3>1. CASE LeaseRunsOut(a)
      BY <3>1 DEF LeaseRunsOut, Moved, Row
    <3>2. CASE BackoffElapses(a)
      BY <3>2 DEF BackoffElapses, Moved, Row
    <3>3. CASE \E s \in Slots : a = work[s] /\ RenewLease(s)
      BY <3>3 DEF RenewLease, Moved, Row, ClaimInv, RunningIsReapable
    <3> QED
      BY <1>8, <3>1, <3>2, <3>3
  <2> QED
    BY <2>1, <2>2, Frame, UnmovedIsReflexive
       DEF Undisturbed, Exists, requests, executors, Executing
<1>9. ASSUME NEW s \in Slots, StartAnalysis(s)
      PROVE  ClaimInv'
  <2>1. /\ UNCHANGED <<job, requests, marks>>
        /\ work[s] \in Assets
    BY <1>9 DEF StartAnalysis
  <2>2. CASE job[work[s]].status = "none"
    <3>1. Release(s) /\ UNCHANGED asset
      BY <1>9, <2>2 DEF StartAnalysis
    <3> QED
      BY <2>1, <3>1, Frame, UnmovedIsReflexive, IdleThreadsStayIdle
         DEF Undisturbed, Exists, requests
  <2>3. CASE job[work[s]].status # "none"
    <3>1. /\ pc' = [pc EXCEPT ![s] = "analysing"]
          /\ asset' = [asset EXCEPT ![work[s]] = "processing"]
          /\ UNCHANGED <<work, seen>>
      BY <1>9, <2>3 DEF StartAnalysis
    <3>2. Exists(work[s])
      BY <2>1, <2>3 DEF ClaimInv, RowHasAsset
    <3>3. /\ \A t \in Slots, a \in Assets : Executing(t, a)' => Executing(t, a)
          /\ \A t \in Slots : pc'[t] = "committing"
               => pc[t] = "committing" /\ seen'[t] = seen[t]
      BY <1>9, <3>1 DEF Executing, StartAnalysis
    <3> QED
      BY <2>1, <3>1, <3>2, <3>3, Frame, UnmovedIsReflexive
         DEF Undisturbed, Exists, requests
  <2> QED
    BY <2>2, <2>3
<1>10. ASSUME NEW s \in Slots,
              \/ CompleteAnalysis(s)
              \/ \E kind \in FailureKinds : FailAnalysis(s, kind)
              \/ \E kind \in FailureKinds : LoseFailure(s, kind)
              \/ FinishAnalysis(s)
       PROVE  ClaimInv'
  <2>1. /\ work[s] \in Assets
        /\ UNCHANGED <<job, requests, work, seen>>
        /\ pc[s] # "idle"
        /\ \/ pc' = [pc EXCEPT ![s] = "completed"]
           \/ pc' = [pc EXCEPT ![s] = "settling"]
    BY <1>10
       DEF CompleteAnalysis, FailAnalysis, LoseFailure, FinishAnalysis, RaiseIn,
           requests
  <2>2. \A a \in Assets :
            /\ Exists(a) => Exists(a)'
            /\ asset[a] = "deleted" => asset'[a] = "deleted"
    BY <1>10, <2>1
       DEF CompleteAnalysis, FailAnalysis, LoseFailure, FinishAnalysis, Exists
  <2>3. \A a \in Assets : Undisturbed(a)' => Undisturbed(a)
    <3>1. CASE UNCHANGED marks
      BY <3>1 DEF Undisturbed
    <3>2. CASE Mark(work[s], "lost")
      BY <2>1, <3>2, MarksOnlyGrow
    <3> QED
      BY <1>10, <3>1, <3>2
         DEF CompleteAnalysis, FailAnalysis, LoseFailure, FinishAnalysis
  <2>4. /\ \A t \in Slots, a \in Assets : Executing(t, a)' => Executing(t, a)
        /\ \A t \in Slots : pc'[t] = "committing"
             => pc[t] = "committing" /\ seen'[t] = seen[t]
    BY <2>1 DEF Executing
  <2> QED
    BY <2>1, <2>2, <2>3, <2>4, Frame, UnmovedIsReflexive DEF requests
<1>11. ASSUME NEW s \in Slots, SettleRead(s)
       PROVE  ClaimInv'
  <2>1. /\ UNCHANGED <<asset, job, requests, marks>>
        /\ pc[s] = "settling" /\ work[s] \in Assets
    BY <1>11 DEF SettleRead
  <2>2. CASE job[work[s]].status = "none"
    <3>1. Release(s)
      BY <1>11, <2>2 DEF SettleRead
    <3> QED
      BY <2>1, <3>1, Frame, UnmovedIsReflexive, IdleThreadsStayIdle
         DEF Undisturbed, Exists, requests
  <2>3. CASE job[work[s]].status # "none"
    <3>1. /\ pc' = [pc EXCEPT ![s] = "committing"]
          /\ seen' = [seen EXCEPT ![s] =
                        [row |-> job[work[s]], asset |-> asset[work[s]]]]
          /\ UNCHANGED work
      BY <1>11, <2>3 DEF SettleRead
    <3>2. \A t \in Slots, a \in Assets : Executing(t, a)' <=> Executing(t, a)
      BY <2>1, <3>1 DEF Executing
    <3>3. ReadRowIsCurrent'
      <4> SUFFICES ASSUME NEW t \in Slots, NEW a \in Assets,
                          Executing(t, a)', pc'[t] = "committing",
                          Undisturbed(a)', job'[a].status # "none"
                   PROVE  ~Moved(job'[a], seen'[t].row)
        BY DEF ReadRowIsCurrent
      <4>1. Executing(t, a)
        BY <3>2
      <4>2. CASE t = s
        <5>1. a = work[s]
          BY <4>1, <4>2 DEF Executing
        <5>2. seen'[t].row = job[a]
          BY <3>1, <4>2, <5>1
        <5> QED
          BY <2>1, <5>2, UnmovedIsReflexive
      <4>3. CASE t # s
        BY <2>1, <3>1, <4>1, <4>3 DEF ClaimInv, ReadRowIsCurrent, Undisturbed
      <4> QED
        BY <4>2, <4>3
    <3> QED
      BY <2>1, <3>2, <3>3
         DEF ClaimInv, ExclusiveExecution, ExecutionHoldsRow, AttemptBudget,
             RunningIsReapable, RowHasAsset, RowlessIsDeleted,
             AskedIsRetryable, Undisturbed, Exists, requests
  <2> QED
    BY <2>2, <2>3
<1>12. ASSUME NEW s \in Slots, SettleCommit(s)
       PROVE  ClaimInv'
  <2>0. PICK a, read : a = work[s] /\ read = seen[s].row
    OBVIOUS
  <2>1. /\ Release(s) /\ UNCHANGED requests
        /\ a \in Assets /\ pc[s] = "committing" /\ Executing(s, a)
    BY <1>12, <2>0 DEF SettleCommit, Executing
  <2>2. CASE job[a].status = "none"
    <3>1. UNCHANGED <<asset, job, marks>>
      BY <1>12, <2>0, <2>2 DEF SettleCommit
    <3> QED
      BY <2>1, <3>1, Frame, UnmovedIsReflexive, IdleThreadsStayIdle
         DEF Undisturbed, Exists, requests
  <2>3. CASE job[a].status # "none"
    <3>1. /\ job'[a] = SettledRow(job[a], read, outcome[s])
          /\ \A b \in Assets : b # a => job'[b] = job[b] /\ asset'[b] = asset[b]
          /\ asset'[a] \in {asset[a], "pending"}
          /\ MarkStale(a, read)
      BY <1>12, <2>0, <2>1, <2>3 DEF SettleCommit, Write
    <3>2. Exists(a)
      BY <2>1, <2>3 DEF ClaimInv, RowHasAsset
    <3>3. \A b \in Assets : Exists(b) => Exists(b)'
      BY <3>1 DEF Exists
    <3>4. \A b \in Assets : Undisturbed(b)' => Undisturbed(b)
      BY <2>1, <3>1, MarksOnlyGrow DEF MarkStale, Undisturbed
    <3>5. Undisturbed(a)' => ~Moved(job[a], read)
      BY <2>1, <3>1 DEF MarkStale, Mark, Undisturbed
    <3>6. job[a] \in Row /\ read \in Row /\ outcome[s] \in Outcomes
      BY <2>0, <2>1 DEF Snapshot
    <3>7. Undisturbed(a)' => job[a].status = "running"
                             /\ job[a].attempt < MaxAttempts
      BY <2>1, <2>3, <3>4
         DEF ClaimInv, ExecutionHoldsRow, AttemptBudget
    <3>8. Undisturbed(a)' =>
            /\ job'[a].status \in {"queued"} \cup Settled
            /\ job'[a].status = "queued" => job'[a].attempt < MaxAttempts
            /\ job'[a].status = "dead" => job'[a].attempt = MaxAttempts
      BY <3>1, <3>5, <3>6, <3>7, SettledRowIsVerdict
    <3>9. job'[a].status # "none"
      BY <2>3, <3>1, <3>6, RowStaysRow
    <3>10. /\ \A t \in Slots, b \in Assets :
                 Executing(t, b)' => Executing(t, b) /\ t # s
           /\ \A t \in Slots : pc'[t] = "committing"
                 => pc[t] = "committing" /\ seen'[t] = seen[t]
      BY <2>1, IdleThreadsStayIdle
    <3>11. Undisturbed(a)' => \A t \in Slots : ~Executing(t, a)'
      BY <2>1, <3>4, <3>10 DEF ClaimInv, ExclusiveExecution
    <3>12. ExclusiveExecution'
      BY <3>4, <3>10 DEF ClaimInv, ExclusiveExecution
    <3>13. ExecutionHoldsRow'
      BY <3>1, <3>4, <3>10, <3>11 DEF ClaimInv, ExecutionHoldsRow
    <3>14. AttemptBudget'
      BY <3>1, <3>4, <3>8 DEF ClaimInv, AttemptBudget, Settled
    <3>15. RunningIsReapable'
      BY <3>1, <3>4, <3>8 DEF ClaimInv, RunningIsReapable, Settled
    <3>16. RowHasAsset'
      BY <3>1, <3>2, <3>3 DEF ClaimInv, RowHasAsset
    <3>17. RowlessIsDeleted'
      BY <3>1, <3>9, <3>10 DEF ClaimInv, RowlessIsDeleted
    <3>18. ReadRowIsCurrent'
      <4> SUFFICES ASSUME NEW t \in Slots, NEW b \in Assets,
                          Executing(t, b)', pc'[t] = "committing",
                          Undisturbed(b)', job'[b].status # "none"
                   PROVE  ~Moved(job'[b], seen'[t].row)
        BY DEF ReadRowIsCurrent
      <4>1. b # a
        BY <3>11
      <4> QED
        BY <3>1, <3>4, <3>10, <4>1 DEF ClaimInv, ReadRowIsCurrent
    <3>19. AskedIsRetryable'
      BY <2>1 DEF ClaimInv, AskedIsRetryable, requests
    <3> QED
      BY <3>12, <3>13, <3>14, <3>15, <3>16, <3>17, <3>18, <3>19 DEF ClaimInv
  <2> QED
    BY <2>2, <2>3
<1>13. ASSUME NEW s \in Slots, SettleLost(s)
       PROVE  ClaimInv'
  <2>1. Release(s) /\ UNCHANGED <<asset, job, requests, marks>>
    BY <1>13 DEF SettleLost
  <2> QED
    BY <2>1, Frame, UnmovedIsReflexive, IdleThreadsStayIdle
       DEF Undisturbed, Exists, requests
<1>14. ASSUME NEW r \in Requests, NEW a \in Assets, RetryRead(r, a)
       PROVE  ClaimInv'
  <2>1. /\ UNCHANGED <<asset, job, executors, marks>>
        /\ \A q \in Requests : request'[q] # NoAsset
             => \/ request[q] # NoAsset /\ asked'[q] = asked[q]
                \/ asked'[q].row.status \in Retryable
    BY <1>14 DEF RetryRead
  <2> QED
    BY <2>1, Frame, UnmovedIsReflexive
       DEF Undisturbed, Exists, executors, Executing
<1>15. ASSUME NEW r \in Requests, RetryCommit(r)
       PROVE  ClaimInv'
  <2>0. PICK a, read : a = request[r] /\ read = asked[r].row
    OBVIOUS
  <2>1. /\ a \in Assets /\ UNCHANGED executors
        /\ read.status \in Retryable
        /\ \A q \in Requests : request'[q] # NoAsset
             => request[q] # NoAsset /\ asked'[q] = asked[q]
    BY <1>15, <2>0 DEF RetryCommit, ClaimInv, AskedIsRetryable
  <2>2. CASE job[a].status = "none"
    <3>1. UNCHANGED <<asset, job, marks>>
      BY <1>15, <2>0, <2>2 DEF RetryCommit
    <3> QED
      BY <2>1, <3>1, Frame, UnmovedIsReflexive
         DEF Undisturbed, Exists, executors, Executing
  <2>3. CASE job[a].status # "none"
    <3>1. /\ job'[a] = RetriedRow(job[a], read)
          /\ \A b \in Assets : b # a => job'[b] = job[b] /\ asset'[b] = asset[b]
          /\ asset'[a] \in {asset[a], "pending"}
          /\ MarkStale(a, read)
      BY <1>15, <2>0, <2>1, <2>3 DEF RetryCommit, Write
    <3>2. Exists(a) /\ \A b \in Assets : Exists(b) => Exists(b)'
      BY <2>1, <2>3, <3>1 DEF ClaimInv, RowHasAsset, Exists
    <3>3. \A b \in Assets : Undisturbed(b)' => Undisturbed(b)
      BY <2>1, <3>1, MarksOnlyGrow DEF MarkStale, Undisturbed
    <3>4. Undisturbed(a)' => ~Moved(job[a], read)
      BY <2>1, <3>1 DEF MarkStale, Mark, Undisturbed
    <3>5. job[a] \in Row /\ read \in Row
      BY <2>0, <2>1 DEF Snapshot
    <3>6. Undisturbed(a)' =>
            /\ job'[a].status = "queued" /\ job'[a].attempt < MaxAttempts
            /\ \A t \in Slots : ~Executing(t, a)
      BY <2>1, <3>1, <3>3, <3>4, <3>5, RetriedRowIsFresh, OnlyRunningIsExecuted
    <3>7. job'[a].status # "none"
      <4>1. "ok" \in Outcomes
        BY DEF Outcomes
      <4> QED
        BY <2>3, <3>1, <3>5, <4>1, RowStaysRow
    <3>8. \A t \in Slots, b \in Assets : Executing(t, b)' <=> Executing(t, b)
      BY <2>1 DEF executors, Executing
    <3>9. ExclusiveExecution' /\ ExecutionHoldsRow'
      BY <3>1, <3>3, <3>6, <3>8
         DEF ClaimInv, ExclusiveExecution, ExecutionHoldsRow
    <3>10. AttemptBudget' /\ RunningIsReapable'
      BY <3>1, <3>3, <3>6 DEF ClaimInv, AttemptBudget, RunningIsReapable
    <3>11. RowHasAsset' /\ RowlessIsDeleted'
      BY <3>1, <3>2, <3>7, <3>8 DEF ClaimInv, RowHasAsset, RowlessIsDeleted
    <3>12. ReadRowIsCurrent' /\ AskedIsRetryable'
      BY <2>1, <3>1, <3>3, <3>6, <3>8
         DEF ClaimInv, ReadRowIsCurrent, AskedIsRetryable, executors
    <3> QED
      BY <3>9, <3>10, <3>11, <3>12 DEF ClaimInv
  <2> QED
    BY <2>2, <2>3
<1>16. ASSUME NEW a \in Assets,
              SyncStart(a) \/ SyncComplete(a) \/ SyncEnd(a) \/ SyncLost(a)
       PROVE  ClaimInv'
  <2>1. UNCHANGED <<job, executors, requests>>
    BY <1>16 DEF SyncStart, SyncComplete, SyncEnd, SyncLost
  <2>2. \A b \in Assets :
            /\ Exists(b) => Exists(b)'
            /\ asset[b] = "deleted" => asset'[b] = "deleted"
    BY <1>16 DEF SyncStart, SyncComplete, SyncEnd, SyncLost, Exists
  <2>3. \A b \in Assets : Undisturbed(b)' => Undisturbed(b)
    BY <1>16, MarksOnlyGrow
       DEF SyncStart, SyncComplete, SyncEnd, SyncLost, Undisturbed
  <2> QED
    BY <2>1, <2>2, <2>3, Frame, UnmovedIsReflexive
       DEF requests, executors, Executing
<1>17. CASE UNCHANGED vars
  BY <1>17, Frame, UnmovedIsReflexive
     DEF vars, Undisturbed, Exists, Executing
<1>18. ASSUME NEW s \in Slots, RenewLease(s)
       PROVE  ClaimInv'
  <2>1. work[s] \in Assets
    BY <1>18 DEF RenewLease, Heartbeating
  <2> QED
    BY <1>8, <1>18, <2>1
<1> QED
  BY <1>1, <1>2, <1>3, <1>5, <1>6, <1>7, <1>8, <1>9, <1>10, <1>11, <1>12,
     <1>13, <1>14, <1>15, <1>16, <1>17, <1>18
     DEF Next, Claim, Execute, OrphanedLapse, StarvedLapse

(* As long as no execution of a job was overrun and no outdated row was    *)
(* written back over it, the job is executed by at most one thread, its    *)
(* row stays running and leased under that thread, the attempt budget      *)
(* holds and a running row can be reaped; for any number of assets,        *)
(* workers and threads, and any faults.                                    *)
THEOREM ClaimsAreSafe == Spec => []ClaimInv
<1>1. Init => TypeOK /\ WorkOK /\ ClaimInv
  BY InitTypeOK, InitClaimInv
<1>2. TypeOK /\ WorkOK /\ ClaimInv /\ [Next]_vars
        => (TypeOK /\ WorkOK /\ ClaimInv)'
  BY NextTypeOK, NextClaimInv
<1> QED
  BY <1>1, <1>2, PTL DEF Spec

----------------------------------------------------------------------------
(* What the library shows.                                                 *)

(* What makes SettledAgreement and EveryAssetQueued inductive: a run of    *)
(* POST /analysis leaves its mark, a thread that has not failed holds no   *)
(* exception, the asset shows what its thread has come to, and it is       *)
(* pending neither once a thread has started on it nor when its job is     *)
(* settled, then or when a retry handler read it.                          *)
SyncIsMarked == \A a \in Assets : sync[a] # "idle" => "sync" \in marks[a]
OutcomeIsRaised ==
    \A s \in Slots : pc[s] \notin {"settling", "committing"} => outcome[s] = "ok"
ThreadIsShown ==
    \A s \in Slots : \A a \in Assets :
        Executing(s, a) /\ marks[a] = {} /\ job[a].status # "none" =>
            /\ pc[s] = "completed" => asset[a] = "completed"
            /\ pc[s] \in {"settling", "committing"} =>
                 asset[a] = IF outcome[s] = "ok" THEN "completed" ELSE "failed"
Unsynced(a) == Undisturbed(a) /\ "sync" \notin marks[a]
StartedIsNotPending ==
    \A a \in Assets : Unsynced(a) =>
        /\ job[a].status \in Settled => asset[a] # "pending"
        /\ \A s \in Slots :
              Executing(s, a) /\ pc[s] # "claimed" => asset[a] # "pending"
        /\ \A r \in Requests : request[r] = a => asked[r].asset # "pending"

LibraryInv ==
    /\ SyncIsMarked
    /\ OutcomeIsRaised
    /\ ThreadIsShown
    /\ StartedIsNotPending
    /\ SettledAgreement
    /\ EveryAssetQueued

LEMMA InitLibraryInv == Init => LibraryInv
BY AssetsAssumption
   DEF Init, LibraryInv, SyncIsMarked, OutcomeIsRaised, ThreadIsShown,
       StartedIsNotPending, SettledAgreement, EveryAssetQueued, Executing,
       NoJob, NewRow, Settled, Retryable, Unsynced

(* No handler takes a mark back. *)
MarksKept == \A a \in Assets : marks[a] \subseteq marks'[a]

LEMMA MarksAreKept ==
  ASSUME TypeOK, WorkOK, [Next]_vars
  PROVE  MarksKept
<1> USE DEF TypeOK, WorkOK, MarksKept
<1>1. CASE UNCHANGED marks
  BY <1>1
<1>2. CASE MarkOverruns
  BY <1>2 DEF MarkOverruns
<1>3. CASE \E a, m : Mark(a, m)
  BY <1>3 DEF Mark
<1>4. CASE \E a, read : MarkStale(a, read)
  BY <1>4 DEF MarkStale, Mark
<1> QED
  BY <1>1, <1>2, <1>3, <1>4
     DEF Next, Claim, Execute, OrphanedLapse, StarvedLapse, LeaseRunsOut,
         Upload, DeleteAsset, ClaimNext, ReapExpiredLeases, RecoverOnStartup,
         Crash, BackoffElapses, RenewLease, StartAnalysis, CompleteAnalysis,
         FailAnalysis, FinishAnalysis, SettleRead, SettleCommit, LoseFailure,
         SettleLost, RetryRead, RetryCommit, SyncStart, SyncComplete, SyncEnd,
         SyncLost, vars

(* A step keeps LibraryInv when it takes no mark back, starts no worker,   *)
(* touches neither assets nor POST /analysis runs, keeps the status of     *)
(* every row, and at most takes threads and retry handlers away.           *)
LEMMA LibraryFrame ==
  ASSUME LibraryInv, MarksKept,
         UNCHANGED <<asset, sync>>,
         up' # {} => up # {},
         \A a \in Assets : job'[a].status = job[a].status,
         \A s \in Slots :
            \/ pc'[s] = "idle" /\ outcome'[s] = "ok"
            \/ /\ pc'[s] = pc[s] /\ work'[s] = work[s]
               /\ outcome'[s] = outcome[s],
         \A r \in Requests :
            request'[r] \in Assets => request'[r] = request[r] /\ asked'[r] = asked[r]
  PROVE  LibraryInv'
<1>1. \A a \in Assets : Unsynced(a)' => Unsynced(a)
  BY DEF MarksKept, Unsynced, Undisturbed
<1>2. \A a \in Assets : marks'[a] = {} => marks[a] = {}
  BY DEF MarksKept
<1>3. \A s \in Slots, a \in Assets :
        Executing(s, a)' => Executing(s, a) /\ pc'[s] = pc[s]
                            /\ outcome'[s] = outcome[s]
  BY DEF Executing
<1>4. SyncIsMarked' /\ OutcomeIsRaised'
  BY DEF LibraryInv, SyncIsMarked, OutcomeIsRaised, MarksKept
<1>5. ThreadIsShown'
  BY <1>2, <1>3 DEF LibraryInv, ThreadIsShown
<1>6. StartedIsNotPending'
  BY <1>1, <1>3 DEF LibraryInv, StartedIsNotPending
<1>7. SettledAgreement' /\ EveryAssetQueued'
  BY <1>2 DEF LibraryInv, SettledAgreement, EveryAssetQueued, MarksKept
<1> QED
  BY <1>4, <1>5, <1>6, <1>7 DEF LibraryInv

(* Every action keeps LibraryInv. *)
LEMMA NextLibraryInv ==
  ASSUME TypeOK, WorkOK, ClaimInv, LibraryInv, [Next]_vars
  PROVE  LibraryInv'
<1> USE DEF TypeOK, WorkOK
<1>0. /\ MarksKept
      /\ \A a \in Assets : Unsynced(a)' => Unsynced(a)
      /\ \A a \in Assets : Undisturbed(a)' => Undisturbed(a)
      /\ \A a \in Assets : marks'[a] = {} => marks[a] = {} /\ Unsynced(a)
  BY MarksAreKept DEF MarksKept, Unsynced, Undisturbed
<1>1. ASSUME NEW a \in Assets, Upload(a)
      PROVE  LibraryInv'
  <2>1. job[a].status = "none" /\ \A s \in Slots : ~Executing(s, a)
    BY <1>1 DEF Upload, ClaimInv, RowHasAsset, RowlessIsDeleted, Exists
  <2>2. /\ job'[a].status = "queued" /\ asset'[a] = "pending"
        /\ \A b \in Assets : b # a => job'[b] = job[b] /\ asset'[b] = asset[b]
        /\ UNCHANGED <<executors, requests, marks, sync, up>>
    BY <1>1 DEF Upload, QueuedRow, NewRow
  <2>3. SyncIsMarked' /\ OutcomeIsRaised' /\ ThreadIsShown'
    BY <2>1, <2>2
       DEF LibraryInv, SyncIsMarked, OutcomeIsRaised, ThreadIsShown, Executing,
           executors
  <2>4. StartedIsNotPending'
    BY <1>0, <2>1, <2>2
       DEF LibraryInv, StartedIsNotPending, Executing, executors, requests,
           Settled
  <2>5. SettledAgreement' /\ EveryAssetQueued'
    BY <2>2 DEF LibraryInv, SettledAgreement, EveryAssetQueued, Retryable
  <2> QED
    BY <2>3, <2>4, <2>5 DEF LibraryInv
<1>2. ASSUME NEW a \in Assets, DeleteAsset(a)
      PROVE  LibraryInv'
  <2>1. /\ job'[a].status = "none" /\ asset'[a] = "deleted"
        /\ \A b \in Assets : b # a => job'[b] = job[b] /\ asset'[b] = asset[b]
        /\ UNCHANGED <<executors, requests, marks, sync, up>>
    BY <1>2 DEF DeleteAsset, NoJob, NewRow
  <2> QED
    BY <1>0, <2>1
       DEF LibraryInv, SyncIsMarked, OutcomeIsRaised, ThreadIsShown,
           StartedIsNotPending, SettledAgreement, EveryAssetQueued, Executing,
           executors, requests, Settled, Retryable
<1>3. ASSUME NEW w \in Workers, NEW s \in Slots, NEW a \in Assets,
             ClaimNext(w, s, a)
      PROVE  LibraryInv'
  <2>1. /\ job[a].status = "queued" /\ pc[s] = "idle"
        /\ job'[a].status = "running"
        /\ \A b \in Assets : b # a => job'[b] = job[b]
        /\ pc'[s] = "claimed" /\ work'[s] = a
        /\ \A t \in Slots : t # s => pc'[t] = pc[t] /\ work'[t] = work[t]
        /\ UNCHANGED <<asset, outcome, requests, marks, sync, up>>
    BY <1>3 DEF ClaimNext, Claimable, ClaimedRow, Row
  <2>2. SyncIsMarked' /\ OutcomeIsRaised'
    BY <2>1 DEF LibraryInv, SyncIsMarked, OutcomeIsRaised
  <2>3. \A t \in Slots, b \in Assets :
          Executing(t, b)' => IF t = s THEN b = a ELSE Executing(t, b)
    BY <2>1 DEF Executing
  <2>4. ThreadIsShown'
    <3>1. \A t \in Slots : Undisturbed(a) => ~Executing(t, a)
      BY <2>1, OnlyRunningIsExecuted
    <3> QED
      BY <1>0, <2>1, <2>3, <3>1
         DEF LibraryInv, ThreadIsShown, Unsynced
  <2>5. StartedIsNotPending'
    BY <1>0, <2>1, <2>3
       DEF LibraryInv, StartedIsNotPending, requests, Settled
  <2>6. SettledAgreement' /\ EveryAssetQueued'
    BY <2>1 DEF LibraryInv, SettledAgreement, EveryAssetQueued, Retryable
  <2> QED
    BY <2>2, <2>4, <2>5, <2>6 DEF LibraryInv
<1>4. ASSUME MarkOverruns, UNCHANGED <<executors, requests, sync>>,
             up # {} \/ \A a \in Assets : job'[a].status = "none"
                           => asset'[a] \notin {"pending", "processing"},
             \A a \in Assets :
                \/ /\ asset'[a] = asset[a]
                   /\ job'[a] = Requeued[a]
                \/ /\ asset[a] = "processing" /\ asset'[a] = Aligned(Requeued[a])
                   /\ job'[a] = Requeued[a]
                \/ /\ asset[a] \in {"pending", "processing"}
                   /\ job[a].status = "none" /\ job'[a].status = "queued"
      PROVE  LibraryInv'
  <2>1. \A a \in Assets :
            IF Expired(job[a])
            THEN Requeued[a].status = "queued" /\ job[a].status = "running"
            ELSE Requeued[a] = job[a]
    BY DEF Requeued, Row, Expired
  <2>2. \A s \in Slots, a \in Assets :
            Executing(s, a)' /\ Undisturbed(a)'
              => /\ Executing(s, a) /\ Requeued[a] = job[a]
                 /\ IF job[a].status = "none" THEN asset[a] = "deleted"
                                              ELSE job[a].status = "running"
    <3> SUFFICES ASSUME NEW s \in Slots, NEW a \in Assets,
                        Executing(s, a)', Undisturbed(a)'
                 PROVE  /\ Executing(s, a) /\ Requeued[a] = job[a]
                        /\ IF job[a].status = "none" THEN asset[a] = "deleted"
                                                     ELSE job[a].status = "running"
      OBVIOUS
    <3>1. Executing(s, a)
      BY <1>4 DEF Executing, executors
    <3>2. ~Expired(job[a])
      BY <1>4, <3>1 DEF MarkOverruns, Undisturbed, Executed
    <3> QED
      BY <1>0, <2>1, <3>1, <3>2
         DEF ClaimInv, RowlessIsDeleted, ExecutionHoldsRow
  <2>3. SyncIsMarked' /\ OutcomeIsRaised'
    BY <1>0, <1>4
       DEF LibraryInv, SyncIsMarked, OutcomeIsRaised, MarksKept, executors
  <2>4. ThreadIsShown'
    <3> SUFFICES ASSUME NEW s \in Slots, NEW a \in Assets, Executing(s, a)',
                        marks'[a] = {}, job'[a].status # "none"
                 PROVE  /\ pc'[s] = "completed" => asset'[a] = "completed"
                        /\ pc'[s] \in {"settling", "committing"} =>
                             asset'[a] = IF outcome'[s] = "ok" THEN "completed"
                                                               ELSE "failed"
      BY DEF ThreadIsShown
    <3>1. Executing(s, a) /\ Requeued[a] = job[a] /\ marks[a] = {}
      BY <1>0, <2>2 DEF Undisturbed
    <3>2. job[a].status # "none"
      BY <1>0, <1>4, <2>2 DEF Undisturbed
    <3> QED
      BY <1>4, <3>1, <3>2 DEF LibraryInv, ThreadIsShown, executors
  <2>5. StartedIsNotPending'
    <3> SUFFICES ASSUME NEW a \in Assets, Unsynced(a)'
                 PROVE  /\ job'[a].status \in Settled => asset'[a] # "pending"
                        /\ \A s \in Slots :
                              Executing(s, a)' /\ pc'[s] # "claimed"
                                => asset'[a] # "pending"
                        /\ \A r \in Requests :
                              request'[r] = a => asked'[r].asset # "pending"
      BY DEF StartedIsNotPending
    <3>1. Unsynced(a) /\ Undisturbed(a)'
      BY <1>0 DEF Unsynced
    <3>2. ASSUME job'[a].status \in Settled
          PROVE  asset'[a] # "pending"
      <4>1. job[a].status \in Settled /\ Requeued[a] = job[a]
        BY <1>4, <2>1, <3>2 DEF Settled
      <4>2. Aligned(Requeued[a]) # "pending"
        BY <4>1 DEF Aligned, Settled
      <4> QED
        BY <1>4, <3>1, <4>1, <4>2
           DEF LibraryInv, StartedIsNotPending, Settled
    <3>3. ASSUME NEW s \in Slots, Executing(s, a)', pc'[s] # "claimed"
          PROVE  asset'[a] # "pending"
      <4>1. /\ Executing(s, a) /\ pc[s] # "claimed" /\ Requeued[a] = job[a]
            /\ asset[a] = "deleted" \/ job[a].status = "running"
        BY <1>4, <2>2, <3>1, <3>3 DEF executors
      <4>2. asset[a] # "pending"
        BY <3>1, <4>1 DEF LibraryInv, StartedIsNotPending
      <4>3. job[a].status = "running" => Aligned(Requeued[a]) # "pending"
        BY <4>1 DEF Aligned, Retryable
      <4> QED
        BY <1>4, <4>1, <4>2, <4>3
    <3>4. \A r \in Requests : request'[r] = a => asked'[r].asset # "pending"
      BY <1>4, <3>1 DEF LibraryInv, StartedIsNotPending, requests
    <3> QED
      BY <3>2, <3>3, <3>4
  <2>6. SettledAgreement'
    BY <1>0, <1>4, <2>1 DEF LibraryInv, SettledAgreement, Retryable
  <2>7. EveryAssetQueued'
    BY <1>0, <1>4, <2>1 DEF LibraryInv, EveryAssetQueued, MarksKept
  <2> QED
    BY <2>3, <2>4, <2>5, <2>6, <2>7 DEF LibraryInv
<1>5. ASSUME NEW w \in Workers, ReapExpiredLeases(w)
      PROVE  LibraryInv'
  <2>1. up # {} /\ UNCHANGED <<executors, requests, sync, asset>>
    BY <1>5 DEF ReapExpiredLeases
  <2> QED
    BY <1>4, <1>5, <2>1 DEF ReapExpiredLeases
<1>6. ASSUME NEW w \in Workers, RecoverOnStartup(w)
      PROVE  LibraryInv'
  <2>1. MarkOverruns /\ UNCHANGED <<executors, requests, sync>>
    BY <1>6 DEF RecoverOnStartup
  <2>2. QueuedRow.status = "queued"
    BY DEF QueuedRow, NewRow
  <2>3. \A a \in Assets :
           IF asset[a] \in {"pending", "processing"} /\ job[a].status = "none"
           THEN job'[a] = QueuedRow
           ELSE /\ job'[a] = Requeued[a]
                /\ asset'[a] = IF asset[a] = "processing"
                               THEN Aligned(Requeued[a]) ELSE asset[a]
    BY <1>6 DEF RecoverOnStartup
  <2>4. ASSUME NEW a \in Assets, job'[a].status = "none"
        PROVE  asset'[a] \notin {"pending", "processing"}
    <3>1. job'[a] = Requeued[a] /\ job[a].status = "none"
      BY <2>2, <2>3, <2>4 DEF Requeued, Expired, Row
    <3> QED
      BY <2>3, <2>2, <2>4, <3>1
  <2> QED
    BY <1>4, <2>1, <2>2, <2>3, <2>4
<1>7. ASSUME NEW w \in Workers, Crash(w)
      PROVE  LibraryInv'
  <2>1. /\ UNCHANGED <<asset, job, requests, sync>>
        /\ up' # {} => up # {}
        /\ \A s \in Slots :
              \/ pc'[s] = "idle" /\ outcome'[s] = "ok"
              \/ /\ pc'[s] = pc[s] /\ work'[s] = work[s]
                 /\ outcome'[s] = outcome[s]
    BY <1>7 DEF Crash
  <2> QED
    BY <1>0, <2>1, LibraryFrame DEF requests
<1>8. ASSUME NEW a \in Assets,
             \/ LeaseRunsOut(a)
             \/ BackoffElapses(a)
             \/ \E s \in Slots : a = work[s] /\ RenewLease(s)
      PROVE  LibraryInv'
  <2>1. /\ UNCHANGED <<asset, executors, requests, sync, up>>
        /\ job' \in {[job EXCEPT ![a].lease = "lapsed"],
                     [job EXCEPT ![a].lease = "live"],
                     [job EXCEPT ![a].due = TRUE]}
    BY <1>8 DEF LeaseRunsOut, BackoffElapses, RenewLease
  <2>2. \A b \in Assets : job[b] \in Row /\ job'[b].status = job[b].status
    <3>1. CASE job' = [job EXCEPT ![a].lease = "lapsed"]
      BY <3>1 DEF Row
    <3>2. CASE job' = [job EXCEPT ![a].lease = "live"]
      BY <3>2 DEF Row
    <3>3. CASE job' = [job EXCEPT ![a].due = TRUE]
      BY <3>3 DEF Row
    <3> QED
      BY <2>1, <3>1, <3>2, <3>3
  <2>3. \A s \in Slots :
            pc'[s] = pc[s] /\ work'[s] = work[s] /\ outcome'[s] = outcome[s]
    BY <2>1 DEF executors
  <2> QED
    BY <1>0, <2>1, <2>2, <2>3, LibraryFrame DEF requests
<1>9. ASSUME NEW s \in Slots, StartAnalysis(s)
      PROVE  LibraryInv'
  <2>1. /\ UNCHANGED <<job, requests, marks, sync, up>>
        /\ work[s] \in Assets
    BY <1>9 DEF StartAnalysis
  <2>2. CASE job[work[s]].status = "none"
    <3>1. Release(s) /\ UNCHANGED asset
      BY <1>9, <2>2 DEF StartAnalysis
    <3> QED
      BY <1>0, <2>1, <3>1, LibraryFrame DEF requests, Release
  <2>3. CASE job[work[s]].status # "none"
    <3>1. /\ pc' = [pc EXCEPT ![s] = "analysing"]
          /\ asset' = [asset EXCEPT ![work[s]] = "processing"]
          /\ UNCHANGED <<work, outcome>> /\ pc[s] = "claimed"
      BY <1>9, <2>3 DEF StartAnalysis
    <3>2. \A t \in Slots, a \in Assets : Executing(t, a)' <=> Executing(t, a)
      BY <3>1 DEF Executing
    <3>3. /\ Executing(s, work[s])
          /\ Undisturbed(work[s]) =>
               /\ job[work[s]].status = "running"
               /\ \A t \in Slots : Executing(t, work[s]) => t = s
      BY <2>1, <2>3, <3>1
         DEF ClaimInv, ExclusiveExecution, ExecutionHoldsRow, Executing
    <3>4. SyncIsMarked' /\ OutcomeIsRaised'
      BY <2>1, <3>1 DEF LibraryInv, SyncIsMarked, OutcomeIsRaised
    <3>5. ThreadIsShown'
      BY <1>0, <2>1, <3>1, <3>2, <3>3 DEF LibraryInv, ThreadIsShown, Unsynced
    <3>6. StartedIsNotPending'
      <4>1. \A a \in Assets : asset'[a] = "pending"
              => a # work[s] /\ asset[a] = "pending"
        BY <3>1
      <4>2. \A t \in Slots : t # s => pc'[t] = pc[t]
        BY <3>1
      <4> QED
        BY <1>0, <2>1, <3>2, <3>3, <4>1, <4>2
           DEF LibraryInv, StartedIsNotPending, Unsynced, Undisturbed, requests,
               Executing
    <3>7. SettledAgreement' /\ EveryAssetQueued'
      BY <1>0, <2>1, <2>3, <3>1, <3>3
         DEF LibraryInv, SettledAgreement, EveryAssetQueued, Retryable, Unsynced
    <3> QED
      BY <3>4, <3>5, <3>6, <3>7 DEF LibraryInv
  <2> QED
    BY <2>2, <2>3
<1>10. ASSUME NEW s \in Slots,
              \/ CompleteAnalysis(s)
              \/ \E kind \in FailureKinds : FailAnalysis(s, kind)
              \/ \E kind \in FailureKinds : LoseFailure(s, kind)
              \/ FinishAnalysis(s)
       PROVE  LibraryInv'
  <2> DEFINE a == work[s]
  <2>1. /\ a \in Assets /\ pc[s] \in {"analysing", "completed"}
        /\ UNCHANGED <<job, requests, work, sync, up>>
        /\ outcome[s] = "ok" /\ Executing(s, a)
        /\ \A t \in Slots : t # s => pc'[t] = pc[t] /\ outcome'[t] = outcome[t]
        /\ \A b \in Assets : b # a => asset'[b] = asset[b] /\ marks'[b] = marks[b]
    BY <1>10
       DEF CompleteAnalysis, FailAnalysis, LoseFailure, FinishAnalysis, RaiseIn,
           Mark, LibraryInv, OutcomeIsRaised, Executing
  <2>2. \/ /\ pc'[s] = "completed" /\ outcome'[s] = "ok"
           /\ asset'[a] = "completed"
        \/ /\ pc'[s] = "settling" /\ outcome'[s] # "ok"
           /\ \/ Exists(a) /\ asset'[a] = "failed"
              \/ ~Exists(a) /\ asset'[a] = asset[a]
              \/ asset'[a] = asset[a] /\ "lost" \in marks'[a]
        \/ /\ pc'[s] = "settling" /\ outcome'[s] = "ok"
           /\ asset'[a] = asset[a] /\ pc[s] = "completed"
    BY <1>10, <2>1
       DEF CompleteAnalysis, FailAnalysis, LoseFailure, FinishAnalysis, RaiseIn,
           Mark, FailureKinds
  <2>3. /\ job[a].status # "none" => Exists(a)
        /\ Undisturbed(a) =>
             /\ job[a].status \in {"none", "running"}
             /\ \A t \in Slots : Executing(t, a) => t = s
    BY <2>1 DEF ClaimInv, ExclusiveExecution, ExecutionHoldsRow, RowHasAsset
  <2>4. \A t \in Slots, b \in Assets : Executing(t, b)' <=> Executing(t, b)
    BY <2>1, <2>2 DEF Executing
  <2>5. SyncIsMarked' /\ OutcomeIsRaised'
    BY <1>0, <2>1, <2>2 DEF LibraryInv, SyncIsMarked, OutcomeIsRaised, MarksKept
  <2> HIDE DEF a
  <2>6. ThreadIsShown'
    <3> SUFFICES ASSUME NEW t \in Slots, NEW b \in Assets, Executing(t, b)',
                        marks'[b] = {}, job'[b].status # "none"
                 PROVE  /\ pc'[t] = "completed" => asset'[b] = "completed"
                        /\ pc'[t] \in {"settling", "committing"} =>
                             asset'[b] = IF outcome'[t] = "ok" THEN "completed"
                                                               ELSE "failed"
      BY DEF ThreadIsShown
    <3>1. Executing(t, b) /\ marks[b] = {} /\ Unsynced(b) /\ Undisturbed(b)
      BY <1>0, <2>4 DEF Unsynced
    <3>2. CASE b # a
      <4>1. t # s
        BY <2>1, <3>1, <3>2 DEF Executing
      <4> QED
        BY <2>1, <3>1, <3>2, <4>1 DEF LibraryInv, ThreadIsShown
    <3>3. CASE b = a
      <4>1. t = s /\ Exists(a) /\ job[a].status # "none"
        BY <2>1, <2>3, <3>1, <3>3
      <4>2. pc[s] = "completed" => asset[a] = "completed"
        BY <3>1, <3>3, <4>1 DEF LibraryInv, ThreadIsShown
      <4> QED
        BY <2>2, <3>3, <4>1, <4>2
    <3> QED
      BY <3>2, <3>3
  <2>7. StartedIsNotPending'
    <3>1. Unsynced(a) => asset[a] # "pending"
      BY <2>1 DEF LibraryInv, StartedIsNotPending
    <3>2. \A b \in Assets : Unsynced(b) /\ asset'[b] = "pending"
             => b # a /\ asset[b] = "pending"
      BY <2>1, <2>2, <3>1
    <3>3. \A t \in Slots, b \in Assets :
             Executing(t, b)' /\ pc'[t] # "claimed"
               => Executing(t, b) /\ pc[t] # "claimed"
      BY <2>1, <2>4
    <3> QED
      BY <1>0, <2>1, <3>2, <3>3
         DEF LibraryInv, StartedIsNotPending, requests
  <2>8. SettledAgreement' /\ EveryAssetQueued'
    BY <1>0, <2>1, <2>2, <2>3
       DEF LibraryInv, SettledAgreement, EveryAssetQueued, Retryable, MarksKept,
           Unsynced
  <2> QED
    BY <2>5, <2>6, <2>7, <2>8 DEF LibraryInv
<1>11. ASSUME NEW s \in Slots, SettleRead(s)
       PROVE  LibraryInv'
  <2>1. /\ UNCHANGED <<asset, job, requests, marks, sync, up>>
        /\ pc[s] = "settling" /\ work[s] \in Assets
    BY <1>11 DEF SettleRead
  <2>2. CASE job[work[s]].status = "none"
    <3>1. Release(s)
      BY <1>11, <2>2 DEF SettleRead
    <3> QED
      BY <1>0, <2>1, <3>1, LibraryFrame DEF requests, Release
  <2>3. CASE job[work[s]].status # "none"
    <3>1. /\ pc' = [pc EXCEPT ![s] = "committing"]
          /\ UNCHANGED <<work, outcome>>
      BY <1>11, <2>3 DEF SettleRead
    <3>2. \A t \in Slots, a \in Assets : Executing(t, a)' <=> Executing(t, a)
      BY <2>1, <3>1 DEF Executing
    <3>3. SyncIsMarked' /\ OutcomeIsRaised'
      BY <2>1, <3>1 DEF LibraryInv, SyncIsMarked, OutcomeIsRaised
    <3>4. ThreadIsShown'
      BY <2>1, <3>1, <3>2 DEF LibraryInv, ThreadIsShown
    <3>5. StartedIsNotPending'
      <4>1. \A t \in Slots : pc'[t] # "claimed" => pc[t] # "claimed"
        BY <2>1, <3>1
      <4> QED
        BY <1>0, <2>1, <3>2, <4>1
           DEF LibraryInv, StartedIsNotPending, requests
    <3>6. SettledAgreement' /\ EveryAssetQueued'
      BY <2>1 DEF LibraryInv, SettledAgreement, EveryAssetQueued
    <3> QED
      BY <3>3, <3>4, <3>5, <3>6 DEF LibraryInv
  <2> QED
    BY <2>2, <2>3
<1>12. ASSUME NEW s \in Slots, SettleCommit(s)
       PROVE  LibraryInv'
  <2>0. PICK a, read : a = work[s] /\ read = seen[s].row
    OBVIOUS
  <2>1. /\ Release(s) /\ UNCHANGED <<requests, sync, up>>
        /\ a \in Assets /\ pc[s] = "committing" /\ Executing(s, a)
    BY <1>12, <2>0 DEF SettleCommit, Executing
  <2>2. CASE job[a].status = "none"
    <3>1. UNCHANGED <<asset, job, marks>>
      BY <1>12, <2>0, <2>2 DEF SettleCommit
    <3> QED
      BY <1>0, <2>1, <3>1, LibraryFrame DEF requests, Release
  <2>3. CASE job[a].status # "none"
    <3>1. /\ job'[a] = SettledRow(job[a], read, outcome[s])
          /\ \A b \in Assets : b # a => job'[b] = job[b] /\ asset'[b] = asset[b]
          /\ \/ asset'[a] = asset[a]
             \/ Requeues(read, outcome[s]) /\ asset'[a] = "pending"
          /\ MarkStale(a, read)
      <4>1. /\ job' = [job EXCEPT ![a] = SettledRow(@, read, outcome[s])]
            /\ asset' = IF Requeues(read, outcome[s])
                        THEN [asset EXCEPT ![a] =
                                Write(@, seen[s].asset, "pending")]
                        ELSE asset
            /\ MarkStale(a, read)
        BY <1>12, <2>0, <2>3 DEF SettleCommit
      <4>2. Write(asset[a], seen[s].asset, "pending") \in {asset[a], "pending"}
        BY WriteIsOneOf
      <4> QED
        BY <2>1, <4>1, <4>2
    <3>2. job[a] \in Row /\ read \in Row /\ outcome[s] \in Outcomes
      BY <2>0, <2>1 DEF Snapshot
    <3>3. Undisturbed(a)' =>
            /\ ~Moved(job[a], read) /\ job[a].status = "running"
            /\ \A t \in Slots : ~Executing(t, a)'
      <4>1. Undisturbed(a)' => ~Moved(job[a], read)
        BY <2>1, <3>1 DEF MarkStale, Mark, Undisturbed
      <4>2. Undisturbed(a)' => \A t \in Slots : ~Executing(t, a)'
        BY <1>0, <2>1, IdleThreadsStayIdle DEF ClaimInv, ExclusiveExecution
      <4> QED
        BY <1>0, <2>1, <2>3, <4>1, <4>2 DEF ClaimInv, ExecutionHoldsRow
    <3>4. Undisturbed(a)' =>
            job'[a].status = Verdict(read, outcome[s])
      <4> SUFFICES ASSUME Undisturbed(a)'
                   PROVE  job'[a].status = Verdict(read, outcome[s])
        OBVIOUS
      <4>1. job[a].status = read.status /\ read.status = "running"
        BY <3>3 DEF Moved
      <4> QED
        BY <3>1, <4>1 DEF SettledRow, Write
    <3>5. job'[a].status # "none"
      BY <2>3, <3>1, <3>2, RowStaysRow
    <3>6. /\ \A t \in Slots, b \in Assets :
                Executing(t, b)' => Executing(t, b) /\ t # s
          /\ \A t \in Slots : /\ t # s => pc'[t] = pc[t] /\ outcome'[t] = outcome[t]
                              /\ pc'[s] = "idle" /\ outcome'[s] = "ok"
      BY <2>1, IdleThreadsStayIdle DEF Release
    <3>7. SyncIsMarked' /\ OutcomeIsRaised'
      BY <1>0, <2>1, <3>6
         DEF LibraryInv, SyncIsMarked, OutcomeIsRaised, MarksKept
    <3>8. ThreadIsShown'
      <4> SUFFICES ASSUME NEW t \in Slots, NEW b \in Assets, Executing(t, b)',
                          marks'[b] = {}, job'[b].status # "none"
                   PROVE  /\ pc'[t] = "completed" => asset'[b] = "completed"
                          /\ pc'[t] \in {"settling", "committing"} =>
                               asset'[b] = IF outcome'[t] = "ok"
                                           THEN "completed" ELSE "failed"
        BY DEF ThreadIsShown
      <4>1. b # a
        BY <3>3 DEF Undisturbed
      <4> QED
        BY <1>0, <3>1, <3>6, <4>1 DEF LibraryInv, ThreadIsShown
    <3>9. StartedIsNotPending'
      <4> SUFFICES ASSUME NEW b \in Assets, Unsynced(b)'
                   PROVE  /\ job'[b].status \in Settled => asset'[b] # "pending"
                          /\ \A t \in Slots :
                                Executing(t, b)' /\ pc'[t] # "claimed"
                                  => asset'[b] # "pending"
                          /\ \A r \in Requests :
                                request'[r] = b => asked'[r].asset # "pending"
        BY DEF StartedIsNotPending
      <4>1. Unsynced(b) /\ Undisturbed(b)'
        BY <1>0 DEF Unsynced
      <4>2. CASE b # a
        BY <2>1, <3>1, <3>6, <4>1, <4>2
           DEF LibraryInv, StartedIsNotPending, requests
      <4>3. CASE b = a
        <5>1. Undisturbed(a)'
          BY <4>1, <4>3 DEF Undisturbed
        <5>2. asset[a] # "pending"
          BY <2>1, <4>1, <4>3 DEF LibraryInv, StartedIsNotPending
        <5>3. job'[a].status \in Settled => asset'[a] # "pending"
          BY <3>1, <3>4, <5>1, <5>2 DEF Requeues, Verdict, Settled
        <5>4. \A t \in Slots : ~Executing(t, a)'
          BY <3>3, <5>1
        <5> QED
          BY <2>1, <4>1, <4>3, <5>3, <5>4
             DEF LibraryInv, StartedIsNotPending, requests
      <4> QED
        BY <4>2, <4>3
    <3>10. SettledAgreement'
      <4> SUFFICES ASSUME NEW b \in Assets, marks'[b] = {}
                   PROVE  /\ job'[b].status = "done" => asset'[b] = "completed"
                          /\ job'[b].status \in Retryable => asset'[b] = "failed"
        BY DEF SettledAgreement
      <4>1. CASE b # a
        BY <1>0, <3>1, <4>1 DEF LibraryInv, SettledAgreement
      <4>2. CASE b = a
        <5>1. Undisturbed(a)' /\ marks[a] = {}
          BY <1>0, <4>2 DEF Undisturbed
        <5>2. asset[a] = IF outcome[s] = "ok" THEN "completed" ELSE "failed"
          BY <2>1, <2>3, <5>1 DEF LibraryInv, ThreadIsShown
        <5>3. job'[a].status = Verdict(read, outcome[s])
          BY <3>4, <5>1
        <5> QED
          BY <3>1, <3>2, <4>2, <5>2, <5>3
             DEF Requeues, Verdict, Retryable, Outcomes, FailureKinds
      <4> QED
        BY <4>1, <4>2
    <3>11. EveryAssetQueued'
      BY <1>0, <2>1, <3>1, <3>5 DEF LibraryInv, EveryAssetQueued, MarksKept
    <3> QED
      BY <3>7, <3>8, <3>9, <3>10, <3>11 DEF LibraryInv
  <2> QED
    BY <2>2, <2>3
<1>13. ASSUME NEW s \in Slots, SettleLost(s)
       PROVE  LibraryInv'
  <2>1. Release(s) /\ UNCHANGED <<asset, job, requests, sync, up>>
    BY <1>13 DEF SettleLost
  <2> QED
    BY <1>0, <2>1, LibraryFrame DEF requests, Release
<1>14. ASSUME NEW r \in Requests, NEW a \in Assets, RetryRead(r, a)
       PROVE  LibraryInv'
  <2>1. /\ UNCHANGED <<asset, job, executors, sync, up, marks>>
        /\ job[a].status \in Settled
        /\ request'[r] = a /\ asked'[r].asset = asset[a]
        /\ \A q \in Requests : q # r => request'[q] = request[q]
                                        /\ asked'[q] = asked[q]
    BY <1>14 DEF RetryRead, Retryable, Settled
  <2>2. SyncIsMarked' /\ OutcomeIsRaised' /\ ThreadIsShown'
    BY <2>1 DEF LibraryInv, SyncIsMarked, OutcomeIsRaised, ThreadIsShown,
                Executing, executors
  <2>3. StartedIsNotPending'
    BY <1>0, <2>1
       DEF LibraryInv, StartedIsNotPending, Executing, executors
  <2>4. SettledAgreement' /\ EveryAssetQueued'
    BY <2>1 DEF LibraryInv, SettledAgreement, EveryAssetQueued
  <2> QED
    BY <2>2, <2>3, <2>4 DEF LibraryInv
<1>15. ASSUME NEW r \in Requests, RetryCommit(r)
       PROVE  LibraryInv'
  <2>0. PICK a, read : a = request[r] /\ read = asked[r].row
    OBVIOUS
  <2>1. /\ a \in Assets /\ UNCHANGED <<executors, sync, up>>
        /\ read.status \in Retryable
        /\ \A q \in Requests : request'[q] \in Assets
             => request'[q] = request[q] /\ asked'[q] = asked[q]
    BY <1>15, <2>0, AssetsAssumption
       DEF RetryCommit, ClaimInv, AskedIsRetryable
  <2>2. CASE job[a].status = "none"
    <3>1. UNCHANGED <<asset, job>>
      BY <1>15, <2>0, <2>2 DEF RetryCommit
    <3> QED
      BY <1>0, <2>1, <3>1, LibraryFrame DEF executors
  <2>3. CASE job[a].status # "none"
    <3>1. /\ job'[a] = RetriedRow(job[a], read)
          /\ \A b \in Assets : b # a => job'[b] = job[b] /\ asset'[b] = asset[b]
          /\ asset'[a] \in {asset[a], "pending"}
          /\ MarkStale(a, read)
      BY <1>15, <2>0, <2>1, <2>3 DEF RetryCommit, Write
    <3>2. job[a] \in Row /\ read \in Row /\ "ok" \in Outcomes
      BY <2>0, <2>1 DEF Snapshot, Outcomes
    <3>3. job'[a].status # "none"
      BY <2>3, <3>1, <3>2, RowStaysRow
    <3>4. Undisturbed(a)' => job'[a].status = "queued"
                             /\ \A t \in Slots : ~Executing(t, a)
      <4>1. Undisturbed(a)' => ~Moved(job[a], read)
        BY <2>1, <3>1 DEF MarkStale, Mark, Undisturbed
      <4> QED
        BY <1>0, <2>1, <3>1, <3>2, <4>1, RetriedRowIsFresh,
           OnlyRunningIsExecuted
    <3>5. \A t \in Slots, b \in Assets : Executing(t, b)' <=> Executing(t, b)
      BY <2>1 DEF executors, Executing
    <3>6. SyncIsMarked' /\ OutcomeIsRaised'
      BY <1>0, <2>1
         DEF LibraryInv, SyncIsMarked, OutcomeIsRaised, MarksKept, executors
    <3>7. ThreadIsShown'
      <4> SUFFICES ASSUME NEW t \in Slots, NEW b \in Assets, Executing(t, b)',
                          marks'[b] = {}, job'[b].status # "none"
                   PROVE  /\ pc'[t] = "completed" => asset'[b] = "completed"
                          /\ pc'[t] \in {"settling", "committing"} =>
                               asset'[b] = IF outcome'[t] = "ok"
                                           THEN "completed" ELSE "failed"
        BY DEF ThreadIsShown
      <4>1. b # a
        BY <3>4, <3>5 DEF Undisturbed
      <4> QED
        BY <1>0, <2>1, <3>1, <3>5, <4>1 DEF LibraryInv, ThreadIsShown, executors
    <3>8. StartedIsNotPending'
      <4> SUFFICES ASSUME NEW b \in Assets, Unsynced(b)'
                   PROVE  /\ job'[b].status \in Settled => asset'[b] # "pending"
                          /\ \A t \in Slots :
                                Executing(t, b)' /\ pc'[t] # "claimed"
                                  => asset'[b] # "pending"
                          /\ \A q \in Requests :
                                request'[q] = b => asked'[q].asset # "pending"
        BY DEF StartedIsNotPending
      <4>1. Unsynced(b) /\ Undisturbed(b)'
        BY <1>0 DEF Unsynced
      <4>2. \A q \in Requests : request'[q] = b => asked'[q].asset # "pending"
        BY <2>1, <4>1 DEF LibraryInv, StartedIsNotPending
      <4>3. CASE b # a
        BY <2>1, <3>1, <3>5, <4>1, <4>2, <4>3
           DEF LibraryInv, StartedIsNotPending, executors
      <4>4. CASE b = a
        BY <3>4, <3>5, <4>1, <4>2, <4>4 DEF Undisturbed, Settled
      <4> QED
        BY <4>3, <4>4
    <3>9. SettledAgreement'
      BY <1>0, <3>1, <3>4
         DEF LibraryInv, SettledAgreement, Undisturbed, Retryable
    <3>10. EveryAssetQueued'
      BY <1>0, <2>1, <3>1, <3>3 DEF LibraryInv, EveryAssetQueued, MarksKept
    <3> QED
      BY <3>6, <3>7, <3>8, <3>9, <3>10 DEF LibraryInv
  <2> QED
    BY <2>2, <2>3
<1>16. ASSUME NEW a \in Assets,
              SyncStart(a) \/ SyncComplete(a) \/ SyncEnd(a) \/ SyncLost(a)
       PROVE  LibraryInv'
  <2>1. /\ UNCHANGED <<job, executors, requests, up>>
        /\ \A b \in Assets : b # a => asset'[b] = asset[b] /\ sync'[b] = sync[b]
    BY <1>16 DEF SyncStart, SyncComplete, SyncEnd, SyncLost
  <2>2. "sync" \in marks'[a]
    <3>1. CASE SyncStart(a)
      BY <3>1 DEF SyncStart, Mark
    <3>2. CASE sync[a] # "idle"
      BY <1>0, <3>2 DEF LibraryInv, SyncIsMarked, MarksKept
    <3> QED
      BY <1>16, <3>1, <3>2 DEF SyncComplete, SyncEnd, SyncLost
  <2>3. SyncIsMarked' /\ OutcomeIsRaised'
    BY <1>0, <2>1, <2>2
       DEF LibraryInv, SyncIsMarked, OutcomeIsRaised, MarksKept, executors
  <2>4. ThreadIsShown'
    BY <1>0, <2>1, <2>2 DEF LibraryInv, ThreadIsShown, Executing, executors
  <2>5. StartedIsNotPending'
    <3> SUFFICES ASSUME NEW b \in Assets, Unsynced(b)'
                 PROVE  /\ b # a /\ Unsynced(b)
      BY <2>1
         DEF LibraryInv, StartedIsNotPending, Executing, executors, requests
    <3> QED
      BY <1>0, <2>2 DEF Unsynced
  <2>6. SettledAgreement' /\ EveryAssetQueued'
    BY <1>0, <2>1, <2>2
       DEF LibraryInv, SettledAgreement, EveryAssetQueued, MarksKept
  <2> QED
    BY <2>3, <2>4, <2>5, <2>6 DEF LibraryInv
<1>17. CASE UNCHANGED vars
  BY <1>0, <1>17, LibraryFrame DEF vars
<1>18. ASSUME NEW s \in Slots, RenewLease(s)
       PROVE  LibraryInv'
  <2>1. work[s] \in Assets
    BY <1>18 DEF RenewLease, Heartbeating
  <2> QED
    BY <1>8, <1>18, <2>1
<1> QED
  BY <1>1, <1>2, <1>3, <1>5, <1>6, <1>7, <1>8, <1>9, <1>10, <1>11, <1>12,
     <1>13, <1>14, <1>15, <1>16, <1>17, <1>18
     DEF Next, Claim, Execute, OrphanedLapse, StarvedLapse

(* Everything above, as one invariant. *)
QueueInv == TypeOK /\ WorkOK /\ ClaimInv /\ LibraryInv

LEMMA QueueInvariant == Spec => []QueueInv
<1>1. Init => QueueInv
  BY InitTypeOK, InitClaimInv, InitLibraryInv DEF QueueInv
<1>2. QueueInv /\ [Next]_vars => QueueInv'
  BY NextTypeOK, NextClaimInv, NextLibraryInv DEF QueueInv
<1> QED
  BY <1>1, <1>2, PTL DEF Spec

(* What the library shows of a settled job is its verdict. *)
THEOREM VerdictsAreShown == Spec => []SettledAgreement
<1>1. QueueInv => SettledAgreement
  BY DEF QueueInv, LibraryInv
<1> QED
  BY <1>1, QueueInvariant, PTL

(* Once a worker has started, no waiting asset is without a job. *)
THEOREM NoUploadIsForgotten == Spec => []EveryAssetQueued
<1>1. QueueInv => EveryAssetQueued
  BY DEF QueueInv, LibraryInv
<1> QED
  BY <1>1, QueueInvariant, PTL

----------------------------------------------------------------------------
(* Who may settle a job, and who may reopen it.                            *)

(* A row's status changes only by upload, deletion, claim, requeueing, a   *)
(* settling commit or a retry commit on that row.                          *)
LEMMA StatusChanges ==
  ASSUME TypeOK, WorkOK, ClaimInv, [Next]_vars,
         NEW a \in Assets, job'[a].status # job[a].status
  PROVE  \/ job[a].status = "none"
         \/ asset'[a] = "deleted" /\ job'[a].status = "none"
         \/ job[a].status = "queued" /\ job'[a].status = "running"
         \/ job[a].status = "running" /\ job'[a].status = "queued"
         \/ \E s \in Slots : SettleCommit(s) /\ work[s] = a
         \/ \E r \in Requests : RetryCommit(r) /\ request[r] = a
<1> USE DEF TypeOK, WorkOK
<1>1. ASSUME NEW b \in Assets, Upload(b)
      PROVE  job[a].status = "none"
  BY <1>1 DEF Upload, ClaimInv, RowHasAsset, Exists
<1>2. ASSUME NEW b \in Assets, DeleteAsset(b)
      PROVE  asset'[a] = "deleted" /\ job'[a].status = "none"
  BY <1>2 DEF DeleteAsset, NoJob, NewRow
<1>3. ASSUME NEW w \in Workers, NEW s \in Slots, NEW b \in Assets,
             ClaimNext(w, s, b)
      PROVE  job[a].status = "queued" /\ job'[a].status = "running"
  BY <1>3 DEF ClaimNext, Claimable, ClaimedRow, Row
<1>4. ASSUME NEW w \in Workers, ReapExpiredLeases(w) \/ RecoverOnStartup(w)
      PROVE  \/ job[a].status = "none"
             \/ job[a].status = "running" /\ job'[a].status = "queued"
  <2>1. IF Expired(job[a])
        THEN Requeued[a].status = "queued" /\ job[a].status = "running"
        ELSE Requeued[a] = job[a]
    BY DEF Requeued, Row, Expired
  <2>2. job'[a] = Requeued[a] \/ job[a].status = "none"
    BY <1>4 DEF ReapExpiredLeases, RecoverOnStartup
  <2> QED
    BY <2>1, <2>2
<1>5. ASSUME NEW b \in Assets,
             \/ LeaseRunsOut(b)
             \/ BackoffElapses(b)
             \/ \E s \in Slots : b = work[s] /\ RenewLease(s)
      PROVE  FALSE
  <2>1. CASE job' = [job EXCEPT ![b].lease = "lapsed"]
    BY <2>1 DEF Row
  <2>2. CASE job' = [job EXCEPT ![b].lease = "live"]
    BY <2>2 DEF Row
  <2>3. CASE job' = [job EXCEPT ![b].due = TRUE]
    BY <2>3 DEF Row
  <2> QED
    BY <1>5, <2>1, <2>2, <2>3 DEF LeaseRunsOut, BackoffElapses, RenewLease
<1>6. ASSUME NEW s \in Slots, RenewLease(s)
      PROVE  FALSE
  BY <1>5, <1>6 DEF RenewLease, Heartbeating
<1>7. ASSUME NEW s \in Slots, SettleCommit(s)
      PROVE  work[s] = a
  BY <1>7 DEF SettleCommit
<1>8. ASSUME NEW r \in Requests, RetryCommit(r)
      PROVE  request[r] = a
  BY <1>8 DEF RetryCommit
<1>9. job' # job
  OBVIOUS
<1> QED
  BY <1>1, <1>2, <1>3, <1>4, <1>5, <1>6, <1>7, <1>8, <1>9
     DEF Next, Claim, Execute, OrphanedLapse, StarvedLapse, Crash,
         StartAnalysis, CompleteAnalysis, FailAnalysis, LoseFailure, RaiseIn,
         FinishAnalysis, SettleRead, SettleLost, RetryRead, SyncStart,
         SyncComplete, SyncEnd, SyncLost, vars

(* A settled job leaves its verdict by deletion or by a retry, which gives *)
(* it all its attempts back and shows its asset pending again.             *)
LEMMA VerdictStep ==
  ASSUME TypeOK, WorkOK, ClaimInv, LibraryInv, [Next]_vars,
         NEW a \in Assets,
         job[a].status \in Settled, job'[a].status # job[a].status,
         asset'[a] # "deleted", Undisturbed(a)'
  PROVE  /\ job[a].status # "done"
         /\ job'[a].status = "queued" /\ job'[a].attempt = 0
         /\ asset'[a] = "pending" \/ "sync" \in marks[a]
<1> USE DEF TypeOK, WorkOK
<1>0. Undisturbed(a)
  BY MarksAreKept DEF MarksKept, Undisturbed
<1>1. ASSUME NEW s \in Slots, SettleCommit(s), work[s] = a
      PROVE  FALSE
  <2>1. Executing(s, a) /\ pc[s] = "committing"
    BY <1>1 DEF SettleCommit, Executing
  <2> QED
    BY <1>0, <2>1 DEF ClaimInv, ExecutionHoldsRow, Settled
<1>2. PICK r \in Requests : RetryCommit(r) /\ request[r] = a
  BY <1>1, StatusChanges DEF Settled
<1>3. PICK read : read = asked[r].row
  OBVIOUS
<1>4. /\ job'[a] = RetriedRow(job[a], read)
      /\ asset'[a] = Write(asset[a], asked[r].asset, "pending")
      /\ MarkStale(a, read) /\ read.status \in Retryable
  BY <1>2, <1>3 DEF RetryCommit, ClaimInv, AskedIsRetryable, Settled
<1>5. ~Moved(job[a], read) /\ job[a] \in Row /\ read \in Row
  BY <1>3, <1>4 DEF MarkStale, Mark, Undisturbed, Snapshot
<1>6. asset'[a] = "pending" \/ "sync" \in marks[a]
  BY <1>0, <1>2, <1>4
     DEF LibraryInv, StartedIsNotPending, Unsynced, Write
<1>7. job'[a].status = "queued" /\ job'[a].attempt = 0
  BY <1>4, <1>5 DEF RetriedRow, Write, Moved, Retryable, Row
<1> QED
  BY <1>4, <1>5, <1>6, <1>7 DEF Moved, Retryable

(* done is final, and every other verdict leaves only through the retry    *)
(* endpoint, for any number of workers, handlers and faults.               *)
THEOREM VerdictsAreFinal == Spec => VerdictIsFinal
<1>1. QueueInv /\ [Next]_vars
        => [\A a \in Assets :
             job[a].status \in Settled /\ job'[a].status # job[a].status
                 => \/ asset'[a] = "deleted"
                    \/ {"overrun", "stale"} \cap marks'[a] # {}
                    \/ /\ job[a].status # "done"
                       /\ job'[a].status = "queued" /\ job'[a].attempt = 0
                       /\ asset'[a] = "pending" \/ "sync" \in marks[a]]_vars
  BY VerdictStep DEF QueueInv, Undisturbed
<1> QED
  BY <1>1, QueueInvariant, PTL DEF Spec, VerdictIsFinal

(* A running job is settled by the thread that executes it.                *)
LEMMA SettlingStep ==
  ASSUME TypeOK, WorkOK, ClaimInv, [Next]_vars,
         NEW a \in Assets, Undisturbed(a),
         job[a].status = "running", job'[a].status \in Settled
  PROVE  \E s \in Slots : /\ Executing(s, a) /\ pc[s] = "committing"
                          /\ pc'[s] = "idle"
                          /\ (outcome[s] = "ok") <=> (job'[a].status = "done")
<1> USE DEF TypeOK, WorkOK
<1>1. ASSUME NEW r \in Requests, RetryCommit(r), request[r] = a
      PROVE  FALSE
  <2>1. /\ asked[r].row.status \in Retryable
        /\ job'[a] = RetriedRow(job[a], asked[r].row)
    BY <1>1 DEF RetryCommit, ClaimInv, AskedIsRetryable
  <2>2. job'[a].status = "queued"
    BY <2>1 DEF RetriedRow, Write, Retryable
  <2> QED
    BY <2>2 DEF Settled
<1>2. PICK s \in Slots : SettleCommit(s) /\ work[s] = a
  BY <1>1, StatusChanges DEF Settled
<1>3. PICK read : read = seen[s].row
  OBVIOUS
<1>4. /\ Executing(s, a) /\ pc[s] = "committing" /\ pc'[s] = "idle"
      /\ job'[a] = SettledRow(job[a], read, outcome[s])
  BY <1>2, <1>3 DEF SettleCommit, Release, Executing
<1>5. ~Moved(job[a], read) /\ outcome[s] \in Outcomes
  BY <1>2, <1>3, <1>4 DEF ClaimInv, ReadRowIsCurrent
<1>6. job'[a].status = Write(job[a].status, read.status, Verdict(read, outcome[s]))
  BY <1>4 DEF SettledRow
<1>7. job'[a].status = Verdict(read, outcome[s])
  BY <1>5, <1>6 DEF Write, Moved
<1> QED
  BY <1>4, <1>5, <1>7 DEF Verdict, Outcomes, FailureKinds, Settled

(* No other handler settles a running job, of any undisturbed claim.       *)
THEOREM JobsAreSettledByTheirThreads == Spec => SettledByItsThread
<1>1. QueueInv /\ [Next]_vars
        => [\A a \in Assets :
             job[a].status = "running" /\ job'[a].status \in Settled
               /\ Undisturbed(a)
                 => \E s \in Slots :
                      /\ Executing(s, a) /\ pc[s] = "committing"
                      /\ pc'[s] = "idle"
                      /\ (outcome[s] = "ok") <=> (job'[a].status = "done")]_vars
  BY SettlingStep DEF QueueInv
<1> QED
  BY <1>1, QueueInvariant, PTL DEF Spec, SettledByItsThread

(***************************************************************************)
(* The analysis queue implements JobLifecycle, for any assets, workers,    *)
(* pool sizes, retry budgets and fault budgets: every step that leaves a   *)
(* job undisturbed is a step of its lifecycle or none, and without starved *)
(* leases and concurrent retries nothing disturbs a job.                   *)
(***************************************************************************)
(* An asset without a row holds nothing of an earlier one. *)
RowlessIsNoJob == \A a \in Assets : job[a].status = "none" => job[a] = NoJob

LEMMA InitRowless == Init => RowlessIsNoJob
BY DEF Init, RowlessIsNoJob

LEMMA NextRowless ==
  ASSUME QueueInv, RowlessIsNoJob, [Next]_vars
  PROVE  RowlessIsNoJob'
<1> USE DEF QueueInv, TypeOK, WorkOK
<1> SUFFICES ASSUME NEW a \in Assets, job'[a].status = "none"
             PROVE  job'[a] = NoJob
  BY DEF RowlessIsNoJob
<1>1. CASE job'[a] = job[a]
  BY <1>1 DEF RowlessIsNoJob
<1>2. ASSUME NEW s \in Slots, SettleCommit(s), job[a].status # "none"
      PROVE  FALSE
  <2>1. /\ seen[s].row \in Row /\ outcome[s] \in Outcomes
        /\ job[a] \in Row
    BY DEF Snapshot
  <2>2. SettledRow(job[a], seen[s].row, outcome[s]).status # "none"
    BY <1>2, <2>1, RowStaysRow
  <2> QED
    BY <1>2, <2>2 DEF SettleCommit
<1>3. ASSUME NEW r \in Requests, RetryCommit(r), job[a].status # "none"
      PROVE  FALSE
  <2>1. asked[r].row \in Row /\ "ok" \in Outcomes /\ job[a] \in Row
    BY DEF Snapshot, Outcomes
  <2>2. RetriedRow(job[a], asked[r].row).status # "none"
    BY <1>3, <2>1, RowStaysRow
  <2> QED
    BY <1>3, <2>2 DEF RetryCommit
<1>4. ASSUME NEW b \in Assets, Upload(b) \/ DeleteAsset(b)
      PROVE  job'[a] \in {job[a], NoJob}
  BY <1>4 DEF Upload, DeleteAsset, QueuedRow, NewRow
<1>5. ASSUME NEW w \in Workers, NEW s \in Slots, NEW b \in Assets,
             ClaimNext(w, s, b)
      PROVE  job'[a] = job[a]
  BY <1>5 DEF ClaimNext, ClaimedRow, Row
<1>6. ASSUME NEW w \in Workers, ReapExpiredLeases(w) \/ RecoverOnStartup(w)
      PROVE  job'[a] = job[a]
  <2>1. IF Expired(job[a]) THEN Requeued[a].status = "queued"
                           ELSE Requeued[a] = job[a]
    BY DEF Requeued, Row
  <2>2. job'[a] = Requeued[a] \/ job'[a] = QueuedRow
    BY <1>6 DEF ReapExpiredLeases, RecoverOnStartup
  <2> QED
    BY <2>1, <2>2 DEF QueuedRow, NewRow
<1>7. ASSUME NEW b \in Assets,
             \/ LeaseRunsOut(b)
             \/ BackoffElapses(b)
             \/ \E s \in Slots : b = work[s] /\ RenewLease(s)
      PROVE  job'[a] = job[a]
  <2>1. job[b].lease # "none" \/ job[b].status # "none"
    BY <1>7 DEF LeaseRunsOut, BackoffElapses, RenewLease
  <2>2. job[b].status # "none"
    BY <2>1 DEF RowlessIsNoJob, NoJob, NewRow
  <2>3. \/ job' = [job EXCEPT ![b].lease = "lapsed"]
        \/ job' = [job EXCEPT ![b].lease = "live"]
        \/ job' = [job EXCEPT ![b].due = TRUE]
    BY <1>7 DEF LeaseRunsOut, BackoffElapses, RenewLease
  <2>4. job'[b].status = job[b].status
    <3>1. CASE job' = [job EXCEPT ![b].lease = "lapsed"]
      BY <3>1 DEF Row
    <3>2. CASE job' = [job EXCEPT ![b].lease = "live"]
      BY <3>2 DEF Row
    <3>3. CASE job' = [job EXCEPT ![b].due = TRUE]
      BY <3>3 DEF Row
    <3> QED
      BY <2>3, <3>1, <3>2, <3>3
  <2> QED
    BY <2>2, <2>3, <2>4
<1>8. ASSUME NEW s \in Slots, RenewLease(s)
      PROVE  job'[a] = job[a]
  BY <1>7, <1>8 DEF RenewLease, Heartbeating
<1>9. ASSUME NEW s \in Slots, SettleCommit(s)
      PROVE  job'[a] = job[a]
  BY <1>2, <1>9 DEF SettleCommit
<1>10. ASSUME NEW r \in Requests, RetryCommit(r)
       PROVE  job'[a] = job[a]
  BY <1>3, <1>10 DEF RetryCommit
<1>11. job'[a] \in {job[a], NoJob}
  BY <1>4, <1>5, <1>6, <1>7, <1>8, <1>9, <1>10
     DEF Next, Claim, Execute, OrphanedLapse, StarvedLapse, Crash,
         StartAnalysis, CompleteAnalysis, FailAnalysis, LoseFailure, RaiseIn,
         FinishAnalysis, SettleRead, SettleLost, RetryRead, SyncStart,
         SyncComplete, SyncEnd, SyncLost, vars
<1> QED
  BY <1>1, <1>11

----------------------------------------------------------------------------
(* How a row and its thread look to the lifecycle.                         *)

(* The holder of an undisturbed job is the one thread that executes it. *)
LEMMA HolderIs ==
  ASSUME ClaimInv, NEW a \in Assets, Undisturbed(a), job[a].status # "none",
         NEW s \in Slots, Executing(s, a)
  PROVE  HolderOf(a) = s
<1>1. Executed(a)
  BY DEF Executed
<1>2. \A t \in Slots : Executing(t, a) => t = s
  BY DEF ClaimInv, ExclusiveExecution
<1>3. (CHOOSE t \in Slots : Executing(t, a)) = s
  BY <1>2
<1> QED
  BY <1>1, <1>3 DEF HolderOf

LEMMA NextHolderIs ==
  ASSUME ClaimInv', NEW a \in Assets, Undisturbed(a)', job'[a].status # "none",
         NEW s \in Slots, Executing(s, a)'
  PROVE  HolderOf(a)' = s
<1>1. Executed(a)'
  BY DEF Executed
<1>2. \A t \in Slots : Executing(t, a)' => t = s
  BY DEF ClaimInv, ExclusiveExecution
<1>3. (CHOOSE t \in Slots : Executing(t, a)') = s
  BY <1>2
<1> QED
  BY <1>1, <1>3 DEF HolderOf

(* Without a row or without a thread there is no holder. *)
LEMMA NoHolderIs ==
  ASSUME NEW a \in Assets
  PROVE  /\ job[a].status = "none" \/ (\A s \in Slots : ~Executing(s, a))
              => HolderOf(a) = NoWorker
         /\ job'[a].status = "none" \/ (\A s \in Slots : ~Executing(s, a)')
              => HolderOf(a)' = NoWorker
BY DEF HolderOf, Executed

(* A slot is not the absent holder. *)
LEMMA SlotIsSomebody == \A s \in Slots : s # NoWorker
BY WorkersAssumption

(* A step that neither changes the row's status and attempts nor who       *)
(* executes it does not show.                                              *)
LEMMA UnseenStep ==
  ASSUME ClaimInv, ClaimInv', NEW a \in Assets,
         Undisturbed(a), Undisturbed(a)',
         job'[a].status = job[a].status, job'[a].attempt = job[a].attempt,
         \A s \in Slots : Executing(s, a)' <=> Executing(s, a)
  PROVE  UNCHANGED Lifecycle(a)!vars
<1>1. PhaseOf(a)' = PhaseOf(a)
  BY DEF PhaseOf
<1>2. HolderOf(a)' = HolderOf(a)
  <2>1. CASE job[a].status = "none" \/ \A s \in Slots : ~Executing(s, a)
    BY <2>1, NoHolderIs
  <2>2. CASE job[a].status # "none" /\ \E s \in Slots : Executing(s, a)
    <3>1. PICK s \in Slots : Executing(s, a)
      BY <2>2
    <3>2. HolderOf(a) = s /\ HolderOf(a)' = s
      BY <2>2, <3>1, HolderIs, NextHolderIs
    <3> QED
      BY <3>2
  <2> QED
    BY <2>1, <2>2
<1> QED
  BY <1>1, <1>2 DEF Lifecycle!vars

(* A commit that leaves the job undisturbed wrote over the row it read. *)
LEMMA UndisturbedCommit ==
  ASSUME TypeOK, NEW a \in Assets, NEW read, MarkStale(a, read),
         Undisturbed(a)'
  PROVE  ~Moved(job[a], read)
<1>1. Mark(a, "stale") => marks'[a] = marks[a] \cup {"stale"}
  BY DEF Mark, TypeOK
<1> QED
  BY <1>1 DEF MarkStale, Undisturbed

----------------------------------------------------------------------------
(* Each handler as a step of the lifecycle.                                *)

FollowsLifecycle(a) == [Lifecycle(a)!Next]_(Lifecycle(a)!vars)

LEMMA LifecycleStep ==
  ASSUME QueueInv, QueueInv', RowlessIsNoJob, [Next]_vars,
         NEW a \in Assets, Undisturbed(a)'
  PROVE  FollowsLifecycle(a)
<1> USE DEF QueueInv, TypeOK, WorkOK
<1>0. /\ Undisturbed(a)
      /\ job[a] \in Row
      /\ job[a].status \notin {"none", "running"} => \A s \in Slots : ~Executing(s, a)
      /\ NoWorker \notin Slots
  BY MarksAreKept, OnlyRunningIsExecuted, SlotIsSomebody DEF MarksKept, Undisturbed
<1>1. ASSUME job'[a].status = job[a].status, job'[a].attempt = job[a].attempt,
             \A s \in Slots : Executing(s, a)' <=> Executing(s, a)
      PROVE  FollowsLifecycle(a)
  BY <1>0, <1>1, UnseenStep DEF FollowsLifecycle
<1>2. ASSUME NEW b \in Assets, Upload(b)
      PROVE  FollowsLifecycle(a)
  <2>1. UNCHANGED executors
    BY <1>2 DEF Upload
  <2>2. \A s \in Slots : Executing(s, a)' <=> Executing(s, a)
    BY <2>1 DEF Executing, executors
  <2>3. CASE b # a
    BY <1>1, <1>2, <2>2, <2>3 DEF Upload
  <2>4. CASE b = a
    <3>1. job[a] = NoJob /\ \A s \in Slots : ~Executing(s, a)
      BY <1>2, <2>4 DEF Upload, ClaimInv, RowHasAsset, RowlessIsDeleted, Exists,
                        RowlessIsNoJob
    <3>2. job'[a] = QueuedRow
      BY <1>2, <2>4 DEF Upload
    <3>3. HolderOf(a) = NoWorker /\ HolderOf(a)' = NoWorker
      BY <2>2, <3>1, NoHolderIs
    <3>4. Lifecycle(a)!Accept
      BY <3>1, <3>2, <3>3
         DEF Lifecycle!Accept, PhaseOf, NoJob, QueuedRow, NewRow
    <3> QED
      BY <3>4 DEF FollowsLifecycle, Lifecycle!Next
  <2> QED
    BY <2>3, <2>4
<1>3. ASSUME NEW b \in Assets, DeleteAsset(b)
      PROVE  FollowsLifecycle(a)
  <2>1. UNCHANGED executors
    BY <1>3 DEF DeleteAsset
  <2>2. \A s \in Slots : Executing(s, a)' <=> Executing(s, a)
    BY <2>1 DEF Executing, executors
  <2>3. CASE b # a
    BY <1>1, <1>3, <2>2, <2>3 DEF DeleteAsset
  <2>4. CASE b = a
    <3>1. job'[a] = NoJob
      BY <1>3, <2>4 DEF DeleteAsset
    <3>2. HolderOf(a)' = NoWorker
      BY <3>1, NoHolderIs DEF NoJob, NewRow
    <3>3. Lifecycle(a)!Remove
      BY <3>1, <3>2 DEF Lifecycle!Remove, PhaseOf, NoJob, NewRow
    <3> QED
      BY <3>3 DEF FollowsLifecycle, Lifecycle!Next
  <2> QED
    BY <2>3, <2>4
<1>4. ASSUME NEW w \in Workers, NEW s \in Slots, NEW b \in Assets,
             ClaimNext(w, s, b)
      PROVE  FollowsLifecycle(a)
  <2>1. /\ pc[s] = "idle" /\ pc'[s] = "claimed" /\ work'[s] = b
        /\ \A t \in Slots : t # s => pc'[t] = pc[t] /\ work'[t] = work[t]
        /\ job[b].status = "queued" /\ job'[b] = ClaimedRow(job[b], w)
        /\ \A c \in Assets : c # b => job'[c] = job[c]
    BY <1>4 DEF ClaimNext, Claimable
  <2>2. CASE b # a
    <3>1. \A t \in Slots : Executing(t, a)' <=> Executing(t, a)
      BY <2>1, <2>2 DEF Executing
    <3> QED
      BY <1>1, <2>1, <2>2, <3>1
  <2>3. CASE b = a
    <3>1. /\ job'[a].status = "running" /\ job'[a].attempt = job[a].attempt
      BY <1>0, <2>1, <2>3 DEF ClaimedRow, Row
    <3>2. HolderOf(a)' = s
      BY <2>1, <2>3, <3>1, NextHolderIs DEF Executing
    <3>3. Lifecycle(a)!Begin(s)
      BY <2>1, <2>3, <3>1, <3>2 DEF Lifecycle!Begin, PhaseOf
    <3> QED
      BY <3>3 DEF FollowsLifecycle, Lifecycle!Next
  <2> QED
    BY <2>2, <2>3
<1>5. ASSUME NEW w \in Workers, ReapExpiredLeases(w) \/ RecoverOnStartup(w)
      PROVE  FollowsLifecycle(a)
  <2>1. UNCHANGED executors /\ MarkOverruns
    BY <1>5 DEF ReapExpiredLeases, RecoverOnStartup
  <2>2. \A s \in Slots : Executing(s, a)' <=> Executing(s, a)
    BY <2>1 DEF Executing, executors
  <2>3. \/ job'[a] = Requeued[a]
        \/ /\ job[a].status = "none" /\ job'[a] = QueuedRow
           /\ asset[a] \in {"pending", "processing"}
    BY <1>5 DEF ReapExpiredLeases, RecoverOnStartup
  <2>4. CASE job'[a] = Requeued[a] /\ Expired(job[a])
    <3>1. \A s \in Slots : ~Executing(s, a)
      BY <2>1, <2>4 DEF MarkOverruns, Undisturbed, Executed
    <3>2. HolderOf(a) = NoWorker /\ HolderOf(a)' = NoWorker
      BY <2>2, <3>1, NoHolderIs
    <3>3. /\ job[a].status = "running" /\ job'[a].status = "queued"
          /\ job'[a].attempt = job[a].attempt
      BY <1>0, <2>4 DEF Expired, Requeued, Row
    <3>4. Lifecycle(a)!HandBack
      BY <3>2, <3>3 DEF Lifecycle!HandBack, PhaseOf
    <3> QED
      BY <3>4 DEF FollowsLifecycle, Lifecycle!Next
  <2>5. CASE job'[a] = Requeued[a] /\ ~Expired(job[a])
    <3>1. job'[a] = job[a]
      BY <2>5 DEF Requeued
    <3> QED
      BY <1>1, <2>2, <3>1
  <2>6. CASE /\ job[a].status = "none" /\ job'[a] = QueuedRow
             /\ asset[a] \in {"pending", "processing"}
    <3>1. job[a] = NoJob /\ \A s \in Slots : ~Executing(s, a)
      BY <2>6 DEF ClaimInv, RowlessIsDeleted, RowlessIsNoJob
    <3>2. HolderOf(a) = NoWorker /\ HolderOf(a)' = NoWorker
      BY <2>2, <3>1, NoHolderIs
    <3>3. Lifecycle(a)!Accept
      BY <2>6, <3>1, <3>2
         DEF Lifecycle!Accept, PhaseOf, NoJob, QueuedRow, NewRow
    <3> QED
      BY <3>3 DEF FollowsLifecycle, Lifecycle!Next
  <2> QED
    BY <2>3, <2>4, <2>5, <2>6
(* Threads that leave the job without touching its row. *)
<1>6. ASSUME UNCHANGED job, \A s \in Slots : Executing(s, a)' => Executing(s, a)
      PROVE  FollowsLifecycle(a)
  <2>1. CASE job[a].status = "none" \/ \A s \in Slots : ~Executing(s, a)
    <3>1. HolderOf(a) = NoWorker /\ HolderOf(a)' = NoWorker
      BY <1>6, <2>1, NoHolderIs
    <3>2. PhaseOf(a)' = PhaseOf(a)
      BY <1>6 DEF PhaseOf
    <3> QED
      BY <1>6, <3>1, <3>2 DEF FollowsLifecycle, Lifecycle!vars
  <2>2. ASSUME NEW s \in Slots, Executing(s, a), job[a].status # "none"
        PROVE  FollowsLifecycle(a)
    <3>1. job[a].status = "running" /\ \A t \in Slots : Executing(t, a) => t = s
      BY <1>0, <2>2 DEF ClaimInv, ExclusiveExecution, ExecutionHoldsRow
    <3>2. CASE Executing(s, a)'
      BY <1>1, <1>6, <2>2, <3>1, <3>2
    <3>3. CASE ~Executing(s, a)'
      <4>1. HolderOf(a)' = NoWorker
        BY <1>6, <3>1, <3>3, NoHolderIs
      <4>2. HolderOf(a) = s
        BY <1>0, <2>2, HolderIs
      <4>3. Lifecycle(a)!Vanish
        BY <1>0, <1>6, <3>1, <4>1, <4>2 DEF Lifecycle!Vanish, PhaseOf
      <4> QED
        BY <4>3 DEF FollowsLifecycle, Lifecycle!Next
    <3> QED
      BY <3>2, <3>3
  <2> QED
    BY <2>1, <2>2
<1>7. ASSUME NEW s \in Slots, Release(s), UNCHANGED job
      PROVE  FollowsLifecycle(a)
  BY <1>6, <1>7, IdleThreadsStayIdle
<1>8. ASSUME \/ \E w \in Workers : Crash(w)
             \/ \E s \in Slots :
                   \/ StartAnalysis(s)
                   \/ CompleteAnalysis(s)
                   \/ \E kind \in FailureKinds : FailAnalysis(s, kind)
                   \/ \E kind \in FailureKinds : LoseFailure(s, kind)
                   \/ FinishAnalysis(s)
                   \/ SettleRead(s)
                   \/ SettleLost(s)
             \/ \E r \in Requests, b \in Assets : RetryRead(r, b)
             \/ \E b \in Assets :
                   SyncStart(b) \/ SyncComplete(b) \/ SyncEnd(b) \/ SyncLost(b)
             \/ UNCHANGED vars
      PROVE  FollowsLifecycle(a)
  <2>1. UNCHANGED job
    BY <1>8
       DEF Crash, StartAnalysis, CompleteAnalysis, FailAnalysis, LoseFailure,
           RaiseIn, FinishAnalysis, SettleRead, SettleLost, RetryRead,
           SyncStart, SyncComplete, SyncEnd, SyncLost, vars
  <2>2. CASE \E w \in Workers : Crash(w)
    <3>1. \A s \in Slots : Executing(s, a)' => Executing(s, a)
      BY <2>2 DEF Crash, Executing
    <3> QED
      BY <1>6, <2>1, <3>1
  <2>3. ASSUME NEW s \in Slots,
               pc[s] # "idle", UNCHANGED work,
               \/ pc' = [pc EXCEPT ![s] = "analysing"]
               \/ pc' = [pc EXCEPT ![s] = "completed"]
               \/ pc' = [pc EXCEPT ![s] = "settling"]
               \/ pc' = [pc EXCEPT ![s] = "committing"]
        PROVE  FollowsLifecycle(a)
    <3>1. \A t \in Slots : Executing(t, a)' => Executing(t, a)
      BY <2>3 DEF Executing
    <3> QED
      BY <1>6, <2>1, <3>1
  <2>4. CASE UNCHANGED executors
    <3>1. \A s \in Slots : Executing(s, a)' => Executing(s, a)
      BY <2>4 DEF executors, Executing
    <3> QED
      BY <1>6, <2>1, <3>1
  <2>5. ASSUME NEW s \in Slots, StartAnalysis(s) \/ SettleRead(s) \/ SettleLost(s)
        PROVE  FollowsLifecycle(a)
    BY <1>7, <2>1, <2>3, <2>5 DEF StartAnalysis, SettleRead, SettleLost
  <2>6. ASSUME NEW s \in Slots,
               \/ CompleteAnalysis(s)
               \/ \E kind \in FailureKinds : FailAnalysis(s, kind)
               \/ \E kind \in FailureKinds : LoseFailure(s, kind)
               \/ FinishAnalysis(s)
        PROVE  FollowsLifecycle(a)
    BY <2>3, <2>6
       DEF CompleteAnalysis, FailAnalysis, LoseFailure, RaiseIn, FinishAnalysis
  <2>7. CASE \/ \E r \in Requests, b \in Assets : RetryRead(r, b)
             \/ \E b \in Assets :
                   SyncStart(b) \/ SyncComplete(b) \/ SyncEnd(b) \/ SyncLost(b)
             \/ UNCHANGED vars
    BY <2>4, <2>7
       DEF RetryRead, SyncStart, SyncComplete, SyncEnd, SyncLost, vars, executors
  <2> QED
    BY <1>8, <2>2, <2>5, <2>6, <2>7
<1>9. ASSUME NEW b \in Assets,
             \/ LeaseRunsOut(b)
             \/ BackoffElapses(b)
             \/ \E s \in Slots : b = work[s] /\ RenewLease(s)
      PROVE  FollowsLifecycle(a)
  <2>1. UNCHANGED executors
    BY <1>9 DEF LeaseRunsOut, BackoffElapses, RenewLease
  <2>2. \A s \in Slots : Executing(s, a)' <=> Executing(s, a)
    BY <2>1 DEF Executing, executors
  <2>3. job'[a].status = job[a].status /\ job'[a].attempt = job[a].attempt
    <3>1. CASE job' = [job EXCEPT ![b].lease = "lapsed"]
      BY <1>0, <3>1 DEF Row
    <3>2. CASE job' = [job EXCEPT ![b].lease = "live"]
      BY <1>0, <3>2 DEF Row
    <3>3. CASE job' = [job EXCEPT ![b].due = TRUE]
      BY <1>0, <3>3 DEF Row
    <3> QED
      BY <1>9, <3>1, <3>2, <3>3 DEF LeaseRunsOut, BackoffElapses, RenewLease
  <2> QED
    BY <1>1, <2>2, <2>3
<1>10. ASSUME NEW s \in Slots, RenewLease(s)
       PROVE  FollowsLifecycle(a)
  BY <1>9, <1>10 DEF RenewLease, Heartbeating
<1>11. ASSUME NEW s \in Slots, SettleCommit(s)
       PROVE  FollowsLifecycle(a)
  <2>1. Release(s) /\ pc[s] = "committing" /\ work[s] \in Assets
    BY <1>11 DEF SettleCommit
  <2>2. CASE job[work[s]].status = "none"
    BY <1>7, <1>11, <2>1, <2>2 DEF SettleCommit
  <2>3. CASE job[work[s]].status # "none" /\ work[s] # a
    <3>1. job'[a] = job[a]
      BY <1>11, <2>3 DEF SettleCommit
    <3>2. \A t \in Slots : Executing(t, a)' <=> Executing(t, a)
      BY <2>1, <2>3 DEF Release, Executing
    <3> QED
      BY <1>1, <3>1, <3>2
  <2>4. CASE job[a].status # "none" /\ work[s] = a
    <3>1. PICK read, o : read = seen[s].row /\ o = outcome[s]
      OBVIOUS
    <3>2. /\ job'[a] = SettledRow(job[a], read, o)
          /\ MarkStale(a, read) /\ Executing(s, a)
          /\ read \in Row /\ o \in Outcomes
      BY <1>11, <2>4, <3>1 DEF SettleCommit, Executing, Snapshot
    <3>3. ~Moved(job[a], read) /\ job[a].status = "running"
      BY <1>0, <2>4, <3>2, UndisturbedCommit DEF ClaimInv, ExecutionHoldsRow
    <3>4. /\ job'[a].status = Verdict(read, o)
          /\ read.attempt = job[a].attempt
          /\ job'[a].attempt = IF o = "retryable" THEN job[a].attempt + 1
                                                  ELSE job[a].attempt
      <4>1. read.status = "running" /\ read.attempt = job[a].attempt
        BY <3>3 DEF Moved
      <4> QED
        BY <3>2, <3>3, <4>1 DEF SettledRow, Write, Tried
    <3>5. HolderOf(a) = s /\ s # NoWorker
      BY <1>0, <2>4, <3>2, HolderIs
    <3>6. HolderOf(a)' = NoWorker
      <4>1. \A t \in Slots : ~Executing(t, a)'
        BY <1>0, <2>1, <3>2, IdleThreadsStayIdle DEF ClaimInv, ExclusiveExecution
      <4> QED
        BY <4>1, NoHolderIs
    <3>7. PhaseOf(a) = "working"
      BY <3>3 DEF PhaseOf
    <3>8. job[a].attempt + 1 <= MaxAttempts
      <4>1. job[a].attempt \in Nat /\ MaxAttempts \in Nat
        BY <1>0, AttemptsAssumption DEF Row
      <4>2. job[a].attempt < MaxAttempts
        BY <1>0, <3>3 DEF ClaimInv, AttemptBudget
      <4> QED
        BY <4>1, <4>2
    <3>9. CASE o = "ok"
      <4>1. Lifecycle(a)!Succeed
        BY <3>4, <3>5, <3>6, <3>7, <3>9 DEF Lifecycle!Succeed, PhaseOf, Verdict
      <4> QED
        BY <4>1 DEF FollowsLifecycle, Lifecycle!Next
    <3>10. CASE Requeues(read, o)
      <4>1. job'[a].status = "queued" /\ job[a].attempt + 1 < MaxAttempts
            /\ job'[a].attempt = job[a].attempt + 1
        BY <3>4, <3>10 DEF Verdict, Requeues, Tried
      <4>2. Lifecycle(a)!TryAgain
        BY <3>5, <3>6, <3>7, <4>1 DEF Lifecycle!TryAgain, PhaseOf
      <4> QED
        BY <4>2 DEF FollowsLifecycle, Lifecycle!Next
    <3>11. CASE o # "ok" /\ ~Requeues(read, o)
      <4>1. /\ job'[a].status \in Retryable
            /\ job'[a].attempt
                 \in {job[a].attempt} \cup ({job[a].attempt + 1} \cap {MaxAttempts})
        <5>1. job[a].attempt \in Nat /\ MaxAttempts \in Nat
          BY <1>0, AttemptsAssumption DEF Row
        <5>2. CASE o = "retryable"
          <6>1. ~(job[a].attempt + 1 < MaxAttempts)
            BY <3>4, <3>11, <5>2 DEF Requeues, Tried
          <6>2. job[a].attempt + 1 = MaxAttempts
            BY <3>8, <5>1, <6>1
          <6> QED
            BY <3>4, <3>11, <5>2, <6>2 DEF Verdict, Retryable
        <5>3. CASE o # "retryable"
          BY <3>2, <3>4, <3>11, <5>3
             DEF Verdict, Retryable, Outcomes, FailureKinds
        <5> QED
          BY <5>2, <5>3
      <4>2. PhaseOf(a)' = "failed"
        BY <4>1 DEF PhaseOf, Retryable
      <4>3. Lifecycle(a)!GiveUp
        BY <3>5, <3>6, <3>7, <4>1, <4>2 DEF Lifecycle!GiveUp
      <4> QED
        BY <4>3 DEF FollowsLifecycle, Lifecycle!Next
    <3> QED
      BY <3>9, <3>10, <3>11
  <2> QED
    BY <2>2, <2>3, <2>4
<1>12. ASSUME NEW r \in Requests, RetryCommit(r)
       PROVE  FollowsLifecycle(a)
  <2>1. UNCHANGED executors
    BY <1>12 DEF RetryCommit
  <2>2. \A s \in Slots : Executing(s, a)' <=> Executing(s, a)
    BY <2>1 DEF Executing, executors
  <2>3. CASE job'[a] = job[a]
    BY <1>1, <2>2, <2>3
  <2>4. CASE request[r] = a /\ job[a].status # "none"
    <3>1. PICK read : read = asked[r].row
      OBVIOUS
    <3>2. /\ job'[a] = RetriedRow(job[a], read)
          /\ MarkStale(a, read) /\ read.status \in Retryable /\ read \in Row
      BY <1>12, <2>4, <3>1, AssetsAssumption
         DEF RetryCommit, ClaimInv, AskedIsRetryable, Snapshot
    <3>3. ~Moved(job[a], read)
      BY <3>2, UndisturbedCommit
    <3>4. /\ job[a].status \in Retryable
          /\ job'[a].status = "queued" /\ job'[a].attempt = 0
      BY <3>2, <3>3, <1>0 DEF RetriedRow, Write, Moved, Retryable, Row
    <3>5. HolderOf(a) = NoWorker /\ HolderOf(a)' = NoWorker
      BY <1>0, <2>2, <3>4, NoHolderIs DEF Retryable
    <3>6. PhaseOf(a) = "failed" /\ PhaseOf(a)' = "waiting"
      BY <3>4 DEF PhaseOf, Retryable
    <3>7. Lifecycle(a)!Reopen
      BY <3>4, <3>5, <3>6 DEF Lifecycle!Reopen
    <3> QED
      BY <3>7 DEF FollowsLifecycle, Lifecycle!Next
  <2> QED
    BY <1>12, <2>3, <2>4 DEF RetryCommit
<1> QED
  BY <1>2, <1>3, <1>4, <1>5, <1>8, <1>9, <1>10, <1>11, <1>12
     DEF Next, Claim, Execute, OrphanedLapse, StarvedLapse

RefinementInv == QueueInv /\ RowlessIsNoJob

LEMMA RefinementInvariant == Spec => []RefinementInv
<1>1. Init => RowlessIsNoJob
  BY InitRowless
<1>2. QueueInv /\ RowlessIsNoJob /\ [Next]_vars => RowlessIsNoJob'
  BY NextRowless
<1> QED
  BY <1>1, <1>2, QueueInvariant, PTL DEF Spec, RefinementInv

(* Whatever else happens in the library, a job that no overrun and no      *)
(* outdated write has disturbed goes through its lifecycle: each step of   *)
(* each handler is one step of it or does not show.                        *)
THEOREM UndisturbedJobsFollowTheLifecycle ==
  Spec => [][\A a \in Assets :
               Undisturbed(a)' => [Lifecycle(a)!Next]_(Lifecycle(a)!vars)]_vars
<1>1. RefinementInv /\ RefinementInv' /\ [Next]_vars
        => [\A a \in Assets :
             Undisturbed(a)' => [Lifecycle(a)!Next]_(Lifecycle(a)!vars)]_vars
  BY LifecycleStep DEF RefinementInv, FollowsLifecycle
<1> QED
  BY <1>1, RefinementInvariant, PTL DEF Spec

----------------------------------------------------------------------------
(* Nothing disturbs a job while no live lease is starved and retries come  *)
(* one at a time.                                                          *)

Orderly == Budget["lapse"] = 0 /\ \A r, q \in Requests : r = q

(* A job in the hands of a thread keeps a live lease, and an open retry    *)
(* handler has read the row as it still is.                                *)
Clean == \A a \in Assets : Undisturbed(a)
LeaseIsLive ==
    \A s \in Slots : \A a \in Assets :
        Executing(s, a) /\ job[a].status # "none" => job[a].lease = "live"
AskedIsCurrent ==
    \A r \in Requests : \A a \in Assets : request[r] = a =>
        IF job[a].status = "none" THEN asset[a] = "deleted"
                                  ELSE ~Moved(job[a], asked[r].row)
OrderlyInv == Clean /\ LeaseIsLive /\ AskedIsCurrent

LEMMA InitOrderlyInv == Init => OrderlyInv
BY AssetsAssumption
   DEF Init, OrderlyInv, Clean, LeaseIsLive, AskedIsCurrent, Undisturbed,
       Executing

LEMMA NextOrderlyInv ==
  ASSUME Orderly, QueueInv, OrderlyInv, [Next]_vars
  PROVE  OrderlyInv'
<1> USE DEF QueueInv, TypeOK, WorkOK
<1>0. \A a \in Assets :
        /\ Undisturbed(a) /\ job[a] \in Row
        /\ job[a].status \notin {"none", "running"}
             => \A s \in Slots : ~Executing(s, a)
        /\ job[a].status = "none" => \A s \in Slots :
             Executing(s, a) => asset[a] = "deleted"
  BY OnlyRunningIsExecuted DEF OrderlyInv, Clean, ClaimInv, RowlessIsDeleted
(* Steps that leave rows, marks and retry handlers alone and give no       *)
(* thread a job.                                                           *)
<1>1. ASSUME UNCHANGED <<job, requests>>, Clean',
             \A a \in Assets : asset[a] = "deleted" => asset'[a] = "deleted",
             \A s \in Slots, a \in Assets : Executing(s, a)' => Executing(s, a)
      PROVE  OrderlyInv'
  <2>1. LeaseIsLive'
    BY <1>1 DEF OrderlyInv, LeaseIsLive
  <2>2. AskedIsCurrent'
    BY <1>1 DEF OrderlyInv, AskedIsCurrent, requests
  <2> QED
    BY <1>1, <2>1, <2>2 DEF OrderlyInv
<1>2. ASSUME NEW a \in Assets, Upload(a) \/ DeleteAsset(a)
      PROVE  OrderlyInv'
  <2>1. /\ UNCHANGED <<executors, requests, marks>>
        /\ \A b \in Assets : b # a => job'[b] = job[b] /\ asset'[b] = asset[b]
        /\ \/ asset[a] = "absent" /\ job[a].status = "none"
           \/ asset'[a] = "deleted" /\ job'[a].status = "none"
    BY <1>2 DEF Upload, DeleteAsset, NoJob, NewRow, ClaimInv, RowHasAsset, Exists
  <2>2. Clean'
    BY <2>1 DEF OrderlyInv, Clean, Undisturbed
  <2>3. LeaseIsLive'
    BY <1>0, <2>1 DEF OrderlyInv, LeaseIsLive, Executing, executors
  <2>4. AskedIsCurrent'
    BY <2>1 DEF OrderlyInv, AskedIsCurrent, requests
  <2> QED
    BY <2>2, <2>3, <2>4 DEF OrderlyInv
<1>3. ASSUME NEW w \in Workers, NEW s \in Slots, NEW a \in Assets,
             ClaimNext(w, s, a)
      PROVE  OrderlyInv'
  <2>1. /\ job[a].status = "queued" /\ UNCHANGED <<asset, requests, marks>>
        /\ job'[a].lease = "live" /\ job'[a].status = "running"
        /\ \A b \in Assets : b # a => job'[b] = job[b]
        /\ \A t \in Slots, b \in Assets :
              Executing(t, b)' => b = a \/ Executing(t, b)
    <3>1. /\ job[a].status = "queued" /\ UNCHANGED <<asset, requests, marks>>
          /\ job' = [job EXCEPT ![a] = ClaimedRow(@, w)]
          /\ pc' = [pc EXCEPT ![s] = "claimed"]
          /\ work' = [work EXCEPT ![s] = a]
      BY <1>3 DEF ClaimNext, Claimable
    <3>2. /\ ClaimedRow(job[a], w).status = "running"
          /\ ClaimedRow(job[a], w).lease = "live"
      BY <1>0 DEF ClaimedRow, Row
    <3> QED
      BY <3>1, <3>2 DEF Executing
  <2>2. Clean' /\ LeaseIsLive'
    BY <2>1 DEF OrderlyInv, Clean, Undisturbed, LeaseIsLive
  <2>3. \A r \in Requests : request[r] # a
    BY <2>1, AssetsAssumption
       DEF OrderlyInv, AskedIsCurrent, ClaimInv, AskedIsRetryable, Moved,
           Retryable
  <2>4. AskedIsCurrent'
    BY <2>1, <2>3 DEF OrderlyInv, AskedIsCurrent, requests
  <2> QED
    BY <2>2, <2>4 DEF OrderlyInv
<1>4. ASSUME NEW w \in Workers, ReapExpiredLeases(w) \/ RecoverOnStartup(w)
      PROVE  OrderlyInv'
  <2>1. MarkOverruns /\ UNCHANGED <<executors, requests>>
    BY <1>4 DEF ReapExpiredLeases, RecoverOnStartup
  <2>2. \A a \in Assets : Expired(job[a]) => ~Executed(a)
    BY DEF OrderlyInv, LeaseIsLive, Expired, Executed
  <2>3. Clean'
    BY <2>1, <2>2 DEF OrderlyInv, Clean, Undisturbed, MarkOverruns
  <2>4. \A a \in Assets :
           /\ asset[a] = "deleted" => asset'[a] = "deleted"
           /\ \/ job'[a] = job[a]
              \/ job[a].status = "running" /\ job'[a].status = "queued"
                 /\ ~Executed(a)
              \/ job[a].status = "none" /\ asset[a] # "deleted"
    <3>1. \A a \in Assets :
             IF Expired(job[a]) THEN Requeued[a].status = "queued"
                                ELSE Requeued[a] = job[a]
      BY DEF Requeued, Row
    <3>2. \A a \in Assets :
             \/ job'[a] = Requeued[a]
             \/ job[a].status = "none" /\ asset[a] \in {"pending", "processing"}
      <4>1. CASE job' = Requeued
        BY <4>1
      <4>2. CASE RecoverOnStartup(w)
        BY <4>2 DEF RecoverOnStartup
      <4> QED
        BY <1>4, <4>1, <4>2 DEF ReapExpiredLeases
    <3>3. \A a \in Assets : asset[a] = "deleted" => asset'[a] = "deleted"
      BY <1>4 DEF ReapExpiredLeases, RecoverOnStartup
    <3> QED
      BY <2>2, <3>1, <3>2, <3>3 DEF Expired
  <2>5. LeaseIsLive'
    BY <1>0, <2>1, <2>4
       DEF OrderlyInv, LeaseIsLive, Executing, executors, Executed
  <2>6. AskedIsCurrent'
    <3> SUFFICES ASSUME NEW r \in Requests, NEW a \in Assets, request'[r] = a
                 PROVE  IF job'[a].status = "none" THEN asset'[a] = "deleted"
                        ELSE ~Moved(job'[a], asked'[r].row)
      BY DEF AskedIsCurrent
    <3>1. /\ request[r] = a /\ asked'[r] = asked[r]
          /\ asked[r].row.status \in Retryable
      BY <2>1, AssetsAssumption DEF requests, ClaimInv, AskedIsRetryable
    <3>2. job[a].status # "running"
      BY <3>1 DEF OrderlyInv, AskedIsCurrent, Moved, Retryable
    <3> QED
      BY <2>4, <3>1, <3>2 DEF OrderlyInv, AskedIsCurrent
  <2> QED
    BY <2>3, <2>5, <2>6 DEF OrderlyInv
<1>5. ASSUME NEW w \in Workers, Crash(w)
      PROVE  OrderlyInv'
  <2>1. /\ UNCHANGED <<asset, job, requests, marks>>
        /\ \A s \in Slots, a \in Assets : Executing(s, a)' => Executing(s, a)
    BY <1>5 DEF Crash, Executing
  <2> QED
    BY <1>1, <2>1 DEF OrderlyInv, Clean, Undisturbed
<1>6. ASSUME NEW a \in Assets, OrphanedLapse(a) \/ StarvedLapse(a)
      PROVE  OrderlyInv'
  <2>1. ~Spend("lapse")
    <3>1. spent["lapse"] \in Nat /\ Budget["lapse"] = 0
      BY DEF Faults, Orderly
    <3> QED
      BY <3>1 DEF Spend
  <2>2. /\ ~Executed(a) /\ job' = [job EXCEPT ![a].lease = "lapsed"]
        /\ job[a].lease = "live"
        /\ UNCHANGED <<asset, executors, requests, marks>>
    BY <1>6, <2>1 DEF OrphanedLapse, StarvedLapse, LeaseRunsOut
  <2>3. /\ \A b \in Assets : b # a => job'[b] = job[b]
        /\ ~Moved(job'[a], job[a])
    BY <1>0, <2>2 DEF Moved, Row
  <2>4. Clean'
    BY <2>2 DEF OrderlyInv, Clean, Undisturbed
  <2>5. LeaseIsLive'
    BY <2>2, <2>3 DEF OrderlyInv, LeaseIsLive, Executing, executors, Executed
  <2>6. AskedIsCurrent'
    BY <2>2, <2>3 DEF OrderlyInv, AskedIsCurrent, requests, Moved
  <2> QED
    BY <2>4, <2>5, <2>6 DEF OrderlyInv
<1>7. ASSUME NEW a \in Assets,
             \/ BackoffElapses(a)
             \/ \E s \in Slots : a = work[s] /\ RenewLease(s)
      PROVE  OrderlyInv'
  <2>1. /\ UNCHANGED <<asset, executors, requests, marks>>
        /\ \A b \in Assets : b # a => job'[b] = job[b]
    BY <1>7 DEF BackoffElapses, RenewLease
  <2>2. /\ ~Moved(job'[a], job[a])
        /\ job[a].lease = "live" => job'[a].lease = "live"
    <3>1. CASE job' = [job EXCEPT ![a].due = TRUE]
      BY <1>0, <3>1 DEF Moved, Row
    <3>2. CASE job' = [job EXCEPT ![a].lease = "live"] /\ job[a].status = "running"
      BY <1>0, <3>2 DEF Moved, Row, ClaimInv, RunningIsReapable
    <3> QED
      BY <1>7, <3>1, <3>2 DEF BackoffElapses, RenewLease
  <2>3. Clean'
    BY <2>1 DEF OrderlyInv, Clean, Undisturbed
  <2>4. LeaseIsLive'
    BY <2>1, <2>2 DEF OrderlyInv, LeaseIsLive, Executing, executors, Moved
  <2>5. AskedIsCurrent'
    BY <2>1, <2>2 DEF OrderlyInv, AskedIsCurrent, requests, Moved
  <2> QED
    BY <2>3, <2>4, <2>5 DEF OrderlyInv
<1>8. ASSUME NEW s \in Slots, RenewLease(s)
      PROVE  OrderlyInv'
  BY <1>7, <1>8 DEF RenewLease, Heartbeating
<1>9. ASSUME NEW s \in Slots,
             \/ StartAnalysis(s)
             \/ CompleteAnalysis(s)
             \/ \E kind \in FailureKinds : FailAnalysis(s, kind)
             \/ \E kind \in FailureKinds : LoseFailure(s, kind)
             \/ FinishAnalysis(s)
             \/ SettleRead(s)
             \/ SettleLost(s)
      PROVE  OrderlyInv'
  <2>1. UNCHANGED <<job, requests>>
    BY <1>9
       DEF StartAnalysis, CompleteAnalysis, FailAnalysis, LoseFailure, RaiseIn,
           FinishAnalysis, SettleRead, SettleLost
  <2>2. \/ Release(s)
        \/ /\ pc[s] # "idle" /\ UNCHANGED work
           /\ \/ pc' = [pc EXCEPT ![s] = "analysing"]
              \/ pc' = [pc EXCEPT ![s] = "completed"]
              \/ pc' = [pc EXCEPT ![s] = "settling"]
              \/ pc' = [pc EXCEPT ![s] = "committing"]
    BY <1>9
       DEF StartAnalysis, CompleteAnalysis, FailAnalysis, LoseFailure, RaiseIn,
           FinishAnalysis, SettleRead, SettleLost
  <2>3. \A t \in Slots, a \in Assets : Executing(t, a)' => Executing(t, a)
    BY <2>2 DEF Release, Executing
  <2>4. UNCHANGED marks \/ Mark(work[s], "lost")
    BY <1>9
       DEF StartAnalysis, CompleteAnalysis, FailAnalysis, LoseFailure,
           FinishAnalysis, SettleRead, SettleLost
  <2>5. Clean'
    BY <2>4 DEF OrderlyInv, Clean, Undisturbed, Mark
  <2>6. \A a \in Assets : asset[a] = "deleted" => asset'[a] = "deleted"
    BY <1>9
       DEF StartAnalysis, CompleteAnalysis, FailAnalysis, LoseFailure,
           FinishAnalysis, SettleRead, SettleLost, Exists, ClaimInv, RowHasAsset
  <2> QED
    BY <1>1, <2>1, <2>3, <2>5, <2>6
<1>10. ASSUME NEW s \in Slots, SettleCommit(s)
       PROVE  OrderlyInv'
  <2>0. PICK a, read : a = work[s] /\ read = seen[s].row
    OBVIOUS
  <2>1. /\ Release(s) /\ UNCHANGED requests
        /\ a \in Assets /\ pc[s] = "committing" /\ Executing(s, a)
    BY <1>10, <2>0 DEF SettleCommit, Executing
  <2>2. \A t \in Slots, b \in Assets :
           Executing(t, b)' => Executing(t, b) /\ t # s
    BY <2>1, IdleThreadsStayIdle
  <2>3. CASE job[a].status = "none"
    <3>1. UNCHANGED <<asset, job, marks>>
      BY <1>10, <2>0, <2>3 DEF SettleCommit
    <3> QED
      BY <1>1, <2>1, <2>2, <3>1 DEF OrderlyInv, Clean, Undisturbed
  <2>4. CASE job[a].status # "none"
    <3>1. /\ \A b \in Assets : b # a => job'[b] = job[b] /\ asset'[b] = asset[b]
          /\ MarkStale(a, read)
      BY <1>10, <2>0, <2>1, <2>4 DEF SettleCommit
    <3>2. job[a].status = "running" /\ ~Moved(job[a], read)
      BY <1>0, <2>0, <2>1, <2>4 DEF ClaimInv, ExecutionHoldsRow, ReadRowIsCurrent
    <3>3. Clean'
      BY <3>1, <3>2 DEF OrderlyInv, Clean, Undisturbed, MarkStale
    <3>4. LeaseIsLive'
      BY <1>0, <2>1, <2>2, <3>1
         DEF OrderlyInv, LeaseIsLive, ClaimInv, ExclusiveExecution
    <3>5. \A r \in Requests : request[r] # a
      BY <2>1, <3>2, AssetsAssumption
         DEF OrderlyInv, AskedIsCurrent, ClaimInv, AskedIsRetryable, Moved,
             Retryable
    <3>6. AskedIsCurrent'
      BY <2>1, <3>1, <3>5 DEF OrderlyInv, AskedIsCurrent, requests
    <3> QED
      BY <3>3, <3>4, <3>6 DEF OrderlyInv
  <2> QED
    BY <2>3, <2>4
<1>11. ASSUME NEW r \in Requests, NEW a \in Assets, RetryRead(r, a)
       PROVE  OrderlyInv'
  <2>1. /\ UNCHANGED <<asset, job, executors, marks>>
        /\ job[a].status \in Retryable
        /\ request'[r] = a /\ asked'[r].row = job[a]
        /\ \A q \in Requests : q = r
    BY <1>11 DEF RetryRead, Orderly
  <2>2. Clean' /\ LeaseIsLive'
    BY <2>1 DEF OrderlyInv, Clean, Undisturbed, LeaseIsLive, Executing, executors
  <2>3. AskedIsCurrent'
    BY <2>1, UnmovedIsReflexive DEF AskedIsCurrent, Retryable
  <2> QED
    BY <2>2, <2>3 DEF OrderlyInv
<1>12. ASSUME NEW r \in Requests, RetryCommit(r)
       PROVE  OrderlyInv'
  <2>0. PICK a, read : a = request[r] /\ read = asked[r].row
    OBVIOUS
  <2>1. /\ a \in Assets /\ UNCHANGED executors
        /\ \A q \in Requests : request'[q] = NoAsset
    BY <1>12, <2>0 DEF RetryCommit, Orderly
  <2>2. AskedIsCurrent'
    BY <2>1, AssetsAssumption DEF AskedIsCurrent
  <2>3. job[a].status # "none" => /\ ~Moved(job[a], read)
                                  /\ read.status \in Retryable
    BY <1>12, <2>0, <2>1, AssetsAssumption
       DEF OrderlyInv, AskedIsCurrent, ClaimInv, AskedIsRetryable
  <2>4. Clean'
    BY <1>12, <2>0, <2>1, <2>3
       DEF OrderlyInv, Clean, Undisturbed, MarkStale, RetryCommit
  <2>5. LeaseIsLive'
    <3>1. \A t \in Slots, b \in Assets : Executing(t, b)' => Executing(t, b)
      BY <2>1 DEF executors, Executing
    <3>2. \A b \in Assets : b # a => job'[b] = job[b]
      BY <1>12, <2>0 DEF RetryCommit
    <3>3. job[a].status = "none" => job'[a] = job[a]
      BY <1>12, <2>0 DEF RetryCommit
    <3>4. job[a].status # "none" => \A t \in Slots : ~Executing(t, a)
      BY <1>0, <2>1, <2>3 DEF Moved, Retryable
    <3> QED
      BY <3>1, <3>2, <3>3, <3>4 DEF OrderlyInv, LeaseIsLive
  <2> QED
    BY <2>2, <2>4, <2>5 DEF OrderlyInv
<1>13. ASSUME NEW a \in Assets,
              SyncStart(a) \/ SyncComplete(a) \/ SyncEnd(a) \/ SyncLost(a)
       PROVE  OrderlyInv'
  <2>1. /\ UNCHANGED <<job, executors, requests>>
        /\ \A b \in Assets : asset[b] = "deleted" => asset'[b] = "deleted"
    BY <1>13 DEF SyncStart, SyncComplete, SyncEnd, SyncLost, Exists
  <2>2. Clean'
    BY <1>13
       DEF SyncStart, SyncComplete, SyncEnd, SyncLost, Mark, OrderlyInv, Clean,
           Undisturbed
  <2> QED
    BY <1>1, <2>1, <2>2 DEF executors, Executing
<1>14. CASE UNCHANGED vars
  BY <1>1, <1>14 DEF vars, requests, Executing, OrderlyInv, Clean, Undisturbed
<1> QED
  BY <1>2, <1>3, <1>4, <1>5, <1>6, <1>7, <1>8, <1>9, <1>10, <1>11, <1>12,
     <1>13, <1>14 DEF Next, Claim, Execute

(* Without starved leases, and with one retry request at a time, the       *)
(* analysis queue implements the lifecycle of a job: for any library, any  *)
(* number of workers and threads, and whatever crashes, lost commits and   *)
(* runs of POST /analysis happen meanwhile.                                *)
THEOREM QueueImplementsLifecycle ==
  ASSUME Orderly
  PROVE  Spec => ImplementsLifecycle
<1>1. Init /\ RefinementInv => \A a \in Assets : Lifecycle(a)!Init
  BY DEF Init, Lifecycle!Init, PhaseOf, HolderOf, NoJob, NewRow
<1>2. Spec => []OrderlyInv
  <2>1. QueueInv /\ OrderlyInv /\ [Next]_vars => OrderlyInv'
    BY NextOrderlyInv
  <2> QED
    BY <2>1, InitOrderlyInv, QueueInvariant, PTL DEF Spec
<1>3. RefinementInv /\ RefinementInv' /\ OrderlyInv' /\ [Next]_vars
        => [\A a \in Assets : [Lifecycle(a)!Next]_(Lifecycle(a)!vars)]_vars
  BY LifecycleStep DEF RefinementInv, FollowsLifecycle, OrderlyInv, Clean
<1> QED
  BY <1>1, <1>2, <1>3, RefinementInvariant, PTL DEF Spec, ImplementsLifecycle
=============================================================================
