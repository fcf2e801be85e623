------------------------- MODULE Consolidation_proofs -------------------------
(* Proofs about Consolidation for any processes, threads and limits.        *)
EXTENDS Consolidation, TLAPS

(* Another check starts from zero after the last one.                       *)
LEMMA ChecksWrap ==
  ASSUME NEW n \in 0..(MaxChecks - 1)
  PROVE  (n + 1) % MaxChecks \in 0..(MaxChecks - 1)
BY LimitsAssumption

LEMMA IdleType == Idle \in Thread
BY LimitsAssumption DEF Idle, Thread

(* A thread that moves on leaves the others where they are.                 *)
LEMMA GotoMoves ==
  ASSUME TypeOK, NEW p \in Processes, NEW t \in Daemons,
         NEW pc \in {"idle", "start", "check", "scan", "scanning", "brake",
                     "feedback", "backfill", "release"}, Goto(p, t, pc)
  PROVE  /\ thread' \in [Processes -> [Daemons -> Thread]]
         /\ thread'[p][t].pc = pc
         /\ \A q \in Processes, u \in Daemons :
               q # p \/ u # t => thread'[q][u] = thread[q][u]
<1>1. [thread[p][t] EXCEPT !.pc = pc] \in Thread
  <2>1. thread[p][t] \in Thread
    BY DEF TypeOK
  <2> QED
    BY <2>1 DEF Thread
<1>2. thread' = [thread EXCEPT ![p][t] = [thread[p][t] EXCEPT !.pc = pc]]
  BY DEF Goto
<1>3. [thread[p][t] EXCEPT !.pc = pc].pc = pc
  <2>1. thread[p][t] \in Thread
    BY DEF TypeOK
  <2> QED
    BY <2>1 DEF Thread
<1> QED
  BY <1>1, <1>2, <1>3 DEF TypeOK

----------------------------------------------------------------------------
LEMMA NextTypeOK == TypeOK /\ [Next]_vars => TypeOK'
<1> SUFFICES ASSUME TypeOK, [Next]_vars PROVE TypeOK'
  OBVIOUS
<1> USE LimitsAssumption DEF TypeOK
<1>1. Never \in Nat /\ NotCounting \in Nat /\ MaxDay \in 0..Never
  BY DEF Never, NotCounting
<1>2. ASSUME NEW p \in Processes, ReadCount(p)
      PROVE  TypeOK'
  BY <1>1, <1>2 DEF ReadCount
<1>3. ASSUME NEW p \in Processes, NEW t \in Daemons, WriteCount(p, t)
      PROVE  TypeOK'
  <2>1. Goto(p, t, "start")
    BY <1>3 DEF WriteCount, Goto
  <2>2. thread' \in [Processes -> [Daemons -> Thread]]
    BY <2>1, GotoMoves
  <2>3. counting' \in [Processes -> Nat] /\ newSince' \in Nat
    BY <1>1, <1>3 DEF WriteCount
  <2> QED
    BY <1>3, <2>2, <2>3 DEF WriteCount
<1>4. ASSUME NEW p \in Processes, NEW t \in Daemons, Acquire(p, t)
      PROVE  TypeOK'
  <2>1. thread' \in [Processes -> [Daemons -> Thread]]
    BY <1>4, GotoMoves DEF Acquire
  <2>2. lock' \in [Processes -> BOOLEAN]
    BY <1>4 DEF Acquire, LockHeld
  <2> QED
    BY <1>4, <2>1, <2>2 DEF Acquire
<1>5. ASSUME NEW p \in Processes, NEW t \in Daemons, Check(p, t)
      PROVE  TypeOK'
  <2>1. thread[p][t] \in Thread
    OBVIOUS
  <2>2. AfterCheck(p, t) \in {"release", "scan", "check"}
    BY DEF AfterCheck
  <2>3. [pc |-> AfterCheck(p, t),
         checks |-> (thread[p][t].checks + 1) % MaxChecks] \in Thread
    BY <2>1, <2>2, ChecksWrap DEF Thread
  <2>4. thread' \in [Processes -> [Daemons -> Thread]]
    BY <1>5, <2>3 DEF Check
  <2> QED
    BY <1>5, <2>4 DEF Check
<1>6. ASSUME NEW p \in Processes, NEW t \in Daemons, BeginScan(p, t)
      PROVE  TypeOK'
  <2>1. thread' \in [Processes -> [Daemons -> Thread]]
    BY <1>6, GotoMoves DEF BeginScan
  <2> QED
    BY <1>6, <2>1 DEF BeginScan
<1>7. ASSUME NEW p \in Processes, NEW t \in Daemons, EndScan(p, t)
      PROVE  TypeOK'
  <2>1. thread' \in [Processes -> [Daemons -> Thread]]
    BY <1>7, GotoMoves DEF EndScan
  <2>2. lastRun' \in 0..Never /\ newSince' \in Nat
    BY <1>7 DEF EndScan, Never
  <2> QED
    BY <1>7, <2>1, <2>2 DEF EndScan
<1>8. ASSUME NEW p \in Processes, NEW t \in Daemons, Stage(p, t)
      PROVE  TypeOK'
  <2>1. Stages[thread[p][t].pc] \in {"feedback", "backfill", "release"}
    BY <1>8 DEF Stage, Stages
  <2>2. thread' \in [Processes -> [Daemons -> Thread]]
    BY <1>8, <2>1, GotoMoves DEF Stage
  <2> QED
    BY <1>8, <2>2 DEF Stage
<1>9. ASSUME NEW p \in Processes, NEW t \in Daemons, Release(p, t)
      PROVE  TypeOK'
  BY <1>9, IdleType DEF Release
<1>10. ASSUME NEW p \in Processes, Crash(p)
       PROVE  TypeOK'
  <2>1. thread' \in [Processes -> [Daemons -> Thread]]
    BY <1>10, IdleType DEF Crash
  <2>2. counting' \in [Processes -> Nat] /\ lock' \in [Processes -> BOOLEAN]
    BY <1>1, <1>10 DEF Crash
  <2>3. crashes' \in 0..MaxCrashes
    BY <1>10 DEF Crash
  <2> QED
    BY <1>10, <2>1, <2>2, <2>3 DEF Crash
<1>11. CASE NextDay
  BY <1>11 DEF NextDay
<1>12. CASE Queue
  BY <1>12 DEF Queue
<1>13. CASE UNCHANGED vars
  BY <1>13 DEF vars
<1> QED
  BY <1>2, <1>3, <1>4, <1>5, <1>6, <1>7, <1>8, <1>9, <1>10, <1>11, <1>12,
     <1>13 DEF Next, Run

(* Every variable stays in its domain, within the named bounds.             *)
THEOREM ConsolidationTyped == Spec => []TypeOK
<1>1. Init => TypeOK
  <2> SUFFICES ASSUME Init PROVE TypeOK
    OBVIOUS
  <2>1. thread \in [Processes -> [Daemons -> Thread]]
    BY IdleType DEF Init
  <2>2. /\ counting \in [Processes -> Nat] /\ lastRun \in 0..Never
        /\ lock \in [Processes -> BOOLEAN]
    BY LimitsAssumption DEF Init, Never, NotCounting
  <2> QED
    BY <2>1, <2>2, LimitsAssumption DEF Init, TypeOK
<1> QED
  BY <1>1, NextTypeOK, PTL DEF Spec

----------------------------------------------------------------------------
(* What OneAtATime says of one process. *)
Serial(p) == /\ \A t, u \in Working(p) : t = u
             /\ lock[p] = (Working(p) # {})

(* A thread at work goes on, or lets the lock go and ends; nobody else of   *)
(* the process is at work.                                                 *)
LEMMA WorkGoesOn ==
  ASSUME NEW p \in Processes, NEW t \in Daemons, Serial(p),
         t \in Working(p), thread'[p][t].pc \notin {"idle", "start"},
         \A u \in Daemons : u # t => thread'[p][u] = thread[p][u],
         lock'[p] = lock[p]
  PROVE  Serial(p)'
BY DEF Serial, Working

LEMMA NextOneAtATime == TypeOK /\ OneAtATime /\ [Next]_vars => OneAtATime'
<1> SUFFICES ASSUME TypeOK, OneAtATime, [Next]_vars, NEW q \in Processes
             PROVE  Serial(q)'
  BY DEF OneAtATime, Serial
<1>1. Serial(q)
  BY DEF OneAtATime, Serial
<1>2. ASSUME lock'[q] = lock[q],
             \A u \in Daemons : thread'[q][u].pc \in {"idle", "start"}
                                  <=> thread[q][u].pc \in {"idle", "start"}
      PROVE  Serial(q)'
  BY <1>1, <1>2 DEF Serial, Working
<1>3. ASSUME NEW p \in Processes, NEW t \in Daemons, WriteCount(p, t)
      PROVE  Serial(q)'
  <2>1. Goto(p, t, "start")
    BY <1>3 DEF WriteCount, Goto
  <2>2. /\ thread'[p][t].pc = "start"
        /\ \A u \in Daemons : q # p \/ u # t => thread'[q][u] = thread[q][u]
    BY <2>1, GotoMoves
  <2> QED
    BY <1>2, <1>3, <2>2 DEF WriteCount
<1>4. ASSUME NEW p \in Processes, NEW t \in Daemons, Acquire(p, t)
      PROVE  Serial(q)'
  <2>1. /\ thread'[p][t].pc = IF lock[p] THEN "idle" ELSE "check"
        /\ \A u \in Daemons : q # p \/ u # t => thread'[q][u] = thread[q][u]
    BY <1>4, GotoMoves DEF Acquire
  <2>2. thread[p][t].pc = "start"
        /\ lock'[q] = IF q = p THEN TRUE ELSE lock[q]
    BY <1>4 DEF Acquire, LockHeld, TypeOK
  <2>3. CASE q # p \/ lock[p]
    BY <1>2, <2>1, <2>2, <2>3
  <2>4. CASE q = p /\ ~lock[p]
    <3>1. Working(p) = {}
      BY <1>1, <2>4 DEF Serial
    <3>2. Working(p)' = {t}
      BY <2>1, <2>4, <3>1 DEF Working
    <3> QED
      BY <2>2, <2>4, <3>2 DEF Serial
  <2> QED
    BY <2>3, <2>4
<1>5. ASSUME NEW p \in Processes, NEW t \in Daemons,
             Check(p, t) \/ BeginScan(p, t) \/ EndScan(p, t) \/ Stage(p, t)
      PROVE  Serial(q)'
  <2>1. t \in Working(p) /\ lock' = lock
    BY <1>5 DEF Working, Check, BeginScan, EndScan, Stage, Stages
  <2>2. /\ thread'[p][t].pc \notin {"idle", "start"}
        /\ \A x \in Processes, u \in Daemons :
              x # p \/ u # t => thread'[x][u] = thread[x][u]
    <3>1. CASE Check(p, t)
      BY <3>1 DEF Check, AfterCheck, TypeOK
    <3>2. CASE BeginScan(p, t) \/ EndScan(p, t)
      BY <3>2, GotoMoves DEF BeginScan, EndScan
    <3>3. CASE Stage(p, t)
      <4>1. Stages[thread[p][t].pc] \in {"feedback", "backfill", "release"}
        BY <3>3 DEF Stage, Stages
      <4> QED
        BY <3>3, <4>1, GotoMoves DEF Stage
    <3> QED
      BY <1>5, <3>1, <3>2, <3>3
  <2>3. CASE q = p
    BY <1>1, <2>1, <2>2, <2>3, WorkGoesOn
  <2>4. CASE q # p
    BY <1>2, <2>1, <2>2, <2>4
  <2> QED
    BY <2>3, <2>4
<1>6. ASSUME NEW p \in Processes, NEW t \in Daemons, Release(p, t)
      PROVE  Serial(q)'
  <2>1. /\ t \in Working(p)
        /\ lock'[q] = IF q = p THEN FALSE ELSE lock[q]
        /\ thread'[p][t] = Idle
        /\ \A u \in Daemons : q # p \/ u # t => thread'[q][u] = thread[q][u]
    BY <1>6 DEF Release, Working, TypeOK
  <2>2. CASE q = p
    <3>1. Working(p)' = {}
      BY <1>1, <2>1, <2>2 DEF Serial, Working, Idle
    <3> QED
      BY <2>1, <2>2, <3>1 DEF Serial
  <2>3. CASE q # p
    BY <1>2, <2>1, <2>3
  <2> QED
    BY <2>2, <2>3
<1>7. ASSUME NEW p \in Processes, Crash(p)
      PROVE  Serial(q)'
  <2>1. CASE q = p
    <3>1. lock'[p] = FALSE /\ \A u \in Daemons : thread'[p][u].pc = "idle"
      BY <1>7 DEF Crash, TypeOK, Idle
    <3>2. Working(p)' = {}
      BY <3>1 DEF Working
    <3> QED
      BY <2>1, <3>1, <3>2 DEF Serial
  <2>2. CASE q # p
    BY <1>2, <1>7, <2>2 DEF Crash, TypeOK
  <2> QED
    BY <2>1, <2>2
<1>8. CASE lock' = lock /\ thread' = thread
  BY <1>2, <1>8
<1> QED
  BY <1>3, <1>4, <1>5, <1>6, <1>7, <1>8
     DEF Next, Run, ReadCount, NextDay, Queue, vars

(* At most one thread of a process waits for the queue or scans, and the    *)
(* lock is held exactly while one does, whatever crashes.                   *)
THEOREM OneConsolidation == Spec => []OneAtATime
<1>1. Init => OneAtATime
  <2> SUFFICES ASSUME Init, NEW p \in Processes PROVE Serial(p)
    BY DEF OneAtATime, Serial
  <2>1. lock[p] = FALSE /\ \A t \in Daemons : thread[p][t].pc = "idle"
    BY DEF Init, Idle
  <2>2. Working(p) = {}
    BY <2>1 DEF Working
  <2> QED
    BY <2>1, <2>2 DEF Serial
<1> QED
  BY <1>1, NextOneAtATime, ConsolidationTyped, PTL DEF Spec
=============================================================================
