---------------------------- MODULE Consolidation ----------------------------
(***************************************************************************)
(* The periodic consolidation (services/consolidation.py).  Every analysis *)
(* that completes counts itself and starts a background thread; at most    *)
(* one thread of a process waits for the queue to drain and then scans.    *)
(* API and worker are two processes over one settings table.  The scan     *)
(* itself is MergeScan; here it ends or fails.                             *)
(*                                                                         *)
(* WaitsForEver (a thread waits as long as there are jobs) and FreesAnyway *)
(* (a refused thread releases the lock) are bugs the properties are known   *)
(* to catch: nothing below uses them.                                      *)
(***************************************************************************)
EXTENDS Naturals

CONSTANTS Processes, Daemons,   \* processes, background threads of each
          Threshold,      \* NEW_ASSETS_THRESHOLD
          Period,         \* PERIOD_DAYS
          MaxChecks,      \* DEFER_MAX_CHECKS
          MaxNew, MaxDay, MaxCrashes   \* bounds on analyses, days and crashes

ASSUME LimitsAssumption ==
    /\ MaxChecks \in Nat \ {0}
    /\ MaxNew \in Nat /\ MaxDay \in Nat /\ MaxCrashes \in Nat

VARIABLES newSince, lastRun,  \* the settings; Never is no full scan yet
          backlog,            \* whether jobs are queued and due
          counting,           \* the count a process has read, to write it plus one
          lock,               \* _spawn_lock of each process
          thread,             \* what each consolidation thread does
          day, analysed, crashes
vars == <<newSince, lastRun, backlog, counting, lock, thread, day, analysed, crashes>>

Never == MaxDay + 1
NotCounting == MaxNew + 1
Thread == [pc : {"idle", "start", "check", "scan", "scanning", "brake", "feedback",
                 "backfill", "release"}, checks : 0..(MaxChecks - 1)]
Idle == [pc |-> "idle", checks |-> 0]
Stages == [brake |-> "feedback", feedback |-> "backfill", backfill |-> "release"]

Init ==
    /\ newSince = 0 /\ lastRun = Never /\ backlog \in BOOLEAN
    /\ counting = [p \in Processes |-> NotCounting]
    /\ lock = [p \in Processes |-> FALSE]
    /\ thread = [p \in Processes |-> [t \in Daemons |-> Idle]]
    /\ day = 0 /\ analysed = 0 /\ crashes = 0

Due == newSince >= Threshold \/ lastRun = Never \/ day - lastRun >= Period

-----------------------------------------------------------------------------
(* note_analysis_completed reads the count and writes it plus one; then a   *)
(* thread is started.                                                      *)
ReadCount(p) ==
    /\ counting[p] = NotCounting /\ analysed < MaxNew /\ analysed' = analysed + 1
    /\ counting' = [counting EXCEPT ![p] = newSince]
    /\ UNCHANGED <<newSince, lastRun, backlog, lock, thread, day, crashes>>
WriteCount(p, t) ==
    /\ counting[p] # NotCounting /\ thread[p][t].pc = "idle"
    /\ newSince' = counting[p] + 1
    /\ counting' = [counting EXCEPT ![p] = NotCounting]
    /\ thread' = [thread EXCEPT ![p][t].pc = "start"]
    /\ UNCHANGED <<lastRun, backlog, lock, day, analysed, crashes>>

Goto(p, t, pc) == thread' = [thread EXCEPT ![p][t].pc = pc]

(* Only one thread of the process goes on; the others end.                 *)
FreesAnyway(p) == FALSE
LockHeld(p) == lock[p]
Acquire(p, t) ==
    /\ thread[p][t].pc = "start"
    /\ IF lock[p] THEN Goto(p, t, "idle") ELSE Goto(p, t, "check")
    /\ lock' = [lock EXCEPT ![p] = IF @ THEN LockHeld(p) ELSE TRUE]
    /\ UNCHANGED <<newSince, lastRun, backlog, counting, day, analysed, crashes>>

(* It waits for the queue to drain: nothing to do any more, on to the scan, *)
(* another check later, or left to the next trigger.                       *)
WaitsForEver(p, t) == FALSE
GivesUp(p, t) == thread[p][t].checks + 1 = MaxChecks
AfterCheck(p, t) ==
    IF ~Due THEN "release" ELSE IF ~backlog THEN "scan"
    ELSE IF GivesUp(p, t) THEN "release" ELSE "check"
Check(p, t) ==
    /\ thread[p][t].pc = "check"
    /\ thread' = [thread EXCEPT ![p][t] =
           [pc |-> AfterCheck(p, t), checks |-> (@.checks + 1) % MaxChecks]]
    /\ UNCHANGED <<newSince, lastRun, backlog, counting, lock, day, analysed, crashes>>

(* maybe_consolidate looks again whether a scan is due.                    *)
BeginScan(p, t) ==
    /\ thread[p][t].pc = "scan" /\ Goto(p, t, IF Due THEN "scanning" ELSE "release")
    /\ UNCHANGED <<newSince, lastRun, backlog, counting, lock, day, analysed, crashes>>

(* The scan ends and is noted, or an error ends the consolidation.         *)
EndScan(p, t) ==
    /\ thread[p][t].pc = "scanning"
    /\ \/ lastRun' = day /\ newSince' = 0 /\ Goto(p, t, "brake")
       \/ UNCHANGED <<lastRun, newSince>> /\ Goto(p, t, "release")
    /\ UNCHANGED <<backlog, counting, lock, day, analysed, crashes>>

(* Brake, rule words and vectors follow; a stage that fails is skipped, or *)
(* the lost connection ends the consolidation.                             *)
Stage(p, t) ==
    /\ thread[p][t].pc \in DOMAIN Stages
    /\ Goto(p, t, Stages[thread[p][t].pc]) \/ Goto(p, t, "release")
    /\ UNCHANGED <<newSince, lastRun, backlog, counting, lock, day, analysed, crashes>>

(* The finally clause.                                                     *)
Release(p, t) ==
    /\ thread[p][t].pc = "release"
    /\ lock' = [lock EXCEPT ![p] = FALSE] /\ thread' = [thread EXCEPT ![p][t] = Idle]
    /\ UNCHANGED <<newSince, lastRun, backlog, counting, day, analysed, crashes>>

Crash(p) ==
    /\ crashes < MaxCrashes /\ crashes' = crashes + 1
    /\ thread' = [thread EXCEPT ![p] = [t \in Daemons |-> Idle]]
    /\ lock' = [lock EXCEPT ![p] = FALSE]
    /\ counting' = [counting EXCEPT ![p] = NotCounting]
    /\ UNCHANGED <<newSince, lastRun, backlog, day, analysed>>

NextDay == /\ day < MaxDay /\ day' = day + 1
           /\ UNCHANGED <<newSince, lastRun, backlog, counting, lock, thread, analysed, crashes>>
Queue == /\ backlog' = ~backlog
         /\ UNCHANGED <<newSince, lastRun, counting, lock, thread, day, analysed, crashes>>

Run(p, t) == Acquire(p, t) \/ Check(p, t) \/ BeginScan(p, t) \/ EndScan(p, t)
             \/ Stage(p, t) \/ Release(p, t)
Next ==
    \/ NextDay \/ Queue
    \/ \E p \in Processes : ReadCount(p) \/ Crash(p)
                            \/ \E t \in Daemons : WriteCount(p, t) \/ Run(p, t)
Fairness == \A p \in Processes : \A t \in Daemons : WF_vars(Run(p, t))
Spec == Init /\ [][Next]_vars /\ Fairness

-----------------------------------------------------------------------------
TypeOK ==
    /\ newSince \in Nat /\ lastRun \in 0..Never /\ backlog \in BOOLEAN
    /\ counting \in [Processes -> Nat]
    /\ lock \in [Processes -> BOOLEAN]
    /\ thread \in [Processes -> [Daemons -> Thread]]
    /\ day \in 0..MaxDay /\ analysed \in 0..MaxNew /\ crashes \in 0..MaxCrashes

(* No two threads of a process wait or scan at once, and whoever does holds *)
(* the lock: a thread that was refused leaves it alone.                    *)
Working(p) == {t \in Daemons : thread[p][t].pc \notin {"idle", "start"}}
OneAtATime ==
    \A p \in Processes : /\ \A t, u \in Working(p) : t = u
                         /\ lock[p] = (Working(p) # {})
=============================================================================
