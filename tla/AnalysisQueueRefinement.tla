---------------------- MODULE AnalysisQueueRefinement ----------------------
(* The detailed queue implements JobLifecycle, one instance per asset: a   *)
(* row's status is the job's phase, and the pool thread that executes it   *)
(* is its holder.                                                          *)
EXTENDS AnalysisQueue

PhaseOf(a) ==
    CASE job[a].status = "none" -> "absent"
      [] job[a].status = "queued" -> "waiting"
      [] job[a].status = "running" -> "working"
      [] job[a].status = "done" -> "done"
      [] OTHER -> "failed"

HolderOf(a) ==
    IF job[a].status # "none" /\ Executed(a)
    THEN CHOOSE s \in Slots : Executing(s, a)
    ELSE NoWorker

Lifecycle(a) == INSTANCE JobLifecycle
    WITH Holders <- Slots, NoHolder <- NoWorker, MaxTries <- MaxAttempts,
         phase <- PhaseOf(a), holder <- HolderOf(a), tries <- job[a].attempt

(* As long as no live lease lapses and one retry handler runs at a time,   *)
(* every job goes through exactly the lifecycle JobLifecycle promises:     *)
(* crashes, lost commits, recovery, deletion and POST /analysis included.  *)
ImplementsLifecycle ==
    /\ \A a \in Assets : Lifecycle(a)!Init
    /\ [][\A a \in Assets : [Lifecycle(a)!Next]_(Lifecycle(a)!vars)]_vars
=============================================================================
