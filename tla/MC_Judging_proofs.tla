-------------------------- MODULE MC_Judging_proofs --------------------------
(***************************************************************************)
(* Proofs about the merge experiment, and about what the other components   *)
(* of MC_Judging do, for any value of their constants.                      *)
(***************************************************************************)
EXTENDS MC_Judging, SequenceTheorems, FoldLemmas

(***************************************************************************)
(* The merge experiment, for any pairs, processes, models and limits.       *)
(***************************************************************************)
CardCount == Len(CardTasks)
Running(p) == proc[p].pc # "idle"

(* Only the holder of the lock runs.                                        *)
OneRun == \A p \in Procs : Running(p) <=> lock = p

(* What a process counts is what the ledger says, and the ledger is ahead   *)
(* of the calls that were made by the one that is about to be made.         *)
LedgerAhead ==
    /\ \A p \in Procs : Running(p) => proc[p].used = ledger
    /\ sent <= PerCall * ledger
    /\ \A p \in Procs : proc[p].pc = "send" => sent + PerCall <= PerCall * ledger

(* Where a run is in its tasks: every card before this one is there, a pair  *)
(* is written when both systems have judged it, and a pair that was taken   *)
(* over is not judged at all.                                              *)
VnextAt(t) == t > CardCount /\ (t - CardCount) % 2 = 0
PairAt(t) == PairSeq[Tasks[t].item]
Verdicts(t, done) == IF VnextAt(t) /\ PairAt(t) \notin done THEN 1 ELSE 0
InOrder(r) ==
    r.pc \notin {"idle", "finish"} =>
        /\ r.task <= Len(Tasks)
        /\ Len(r.card) = (IF r.task <= CardCount THEN r.task - 1 ELSE CardCount)
        /\ r.pc = "write" => VnextAt(r.task) /\ Len(r.verdict) = 2
        /\ r.pc \in {"ask", "send"} => /\ r.stage # "rule"
                                       /\ r.task <= CardCount <=> r.stage = "card"
                                       /\ r.task > CardCount => PairAt(r.task) \notin r.done
        /\ r.pc # "write" => Len(r.verdict) = Verdicts(r.task, r.done)

(* What a process has taken over or written so far was judged in its own    *)
(* context, and at the end that is every pair.                             *)
OfThisRun(p, q) == results[q].context = ContextOf(q, proc[p].model, proc[p].frozen)
RecordsOK(p) ==
    Running(p) =>
        /\ proc[p].model \in Models /\ proc[p].frozen \in Manifest
        /\ \A q \in proc[p].done : OfThisRun(p, q)
        /\ \A i \in DOMAIN PairSeq :
              CardCount + 2 * i < proc[p].task => OfThisRun(p, PairSeq[i])
        /\ proc[p].pc = "finish" =>
              proc[p].done = Pairs \/ proc[p].task = Len(Tasks) + 1

RunsInOrder == \A p \in Procs : InOrder(proc[p]) /\ RecordsOK(p)
ExperimentInv == TypeOK /\ OneRun /\ LedgerAhead /\ RunsInOrder

----------------------------------------------------------------------------
(* The tasks: two for each variant, then two for each pair.                 *)
TaskSet == [kind : {"card", "pair"}, item : Nat, system : SystemSet]

LEMMA HalfOfOdd == \A i \in Nat : (2 * i + 1) \div 2 = i
OBVIOUS

LEMMA SystemsAre ==
  ASSUME NEW n \in Nat
  PROVE  Systems[2 - (n % 2)] \in SystemSet
<1>1. n % 2 \in 0..1
  OBVIOUS
<1> QED
  BY <1>1 DEF Systems, SystemSet

LEMMA CardTasksAre ==
  /\ CardCount \in Nat /\ CardCount = 2 * Cardinality(Variants) /\ Cardinality(Variants) \in Nat
  /\ CardTasks \in Seq(TaskSet)
  /\ \A n \in 1..CardCount : CardTasks[n].item \in Variants
<1>1. Cardinality(Variants) \in Nat
  BY ExperimentAssumption, FS_CardinalityType
<1> DEFINE N == 2 * Cardinality(Variants)
<1>2. N \in Nat
  BY <1>1
<1>3. ASSUME NEW n \in 1..N
      PROVE  Task("card", (n + 1) \div 2, Systems[2 - (n % 2)]) \in TaskSet
  <2>1. (n + 1) \div 2 \in Nat
    BY <1>2
  <2> QED
    BY <1>2, <2>1, SystemsAre DEF Task, TaskSet
<1>4. CardTasks = [n \in 1..N |-> Task("card", (n + 1) \div 2, Systems[2 - (n % 2)])]
  BY DEF CardTasks
<1>5. CardTasks \in Seq(TaskSet) /\ CardCount = N
  <2> HIDE DEF N
  <2> QED
    BY <1>2, <1>3, <1>4 DEF CardCount
<1>6. ASSUME NEW n \in 1..CardCount
      PROVE  CardTasks[n].item \in Variants
  <2>1. CardTasks[n].item = (n + 1) \div 2
    BY <1>4, <1>5, <1>6 DEF Task
  <2>2. (n + 1) \div 2 \in 1..Cardinality(Variants)
    BY <1>1, <1>5, <1>6
  <2> QED
    BY <2>1, <2>2, ExperimentAssumption
<1> QED
  BY <1>1, <1>5, <1>6

LEMMA PairTasksAre ==
  /\ Len(PairSeq) \in Nat /\ Len(PairTasks) = 2 * Len(PairSeq)
  /\ PairTasks \in Seq(TaskSet)
  /\ \A n \in 1..Len(PairTasks) : /\ PairTasks[n].item = (n + 1) \div 2
                                  /\ PairTasks[n].system = Systems[2 - (n % 2)]
<1>1. Len(PairSeq) \in Nat
  BY ExperimentAssumption
<1> DEFINE N == 2 * Len(PairSeq)
<1>2. N \in Nat
  BY <1>1
<1>3. ASSUME NEW n \in 1..N
      PROVE  Task("pair", (n + 1) \div 2, Systems[2 - (n % 2)]) \in TaskSet
  <2>1. (n + 1) \div 2 \in Nat
    BY <1>2
  <2> QED
    BY <1>2, <2>1, SystemsAre DEF Task, TaskSet
<1>4. PairTasks = [n \in 1..N |-> Task("pair", (n + 1) \div 2, Systems[2 - (n % 2)])]
  BY DEF PairTasks
<1>5. PairTasks \in Seq(TaskSet) /\ Len(PairTasks) = N
  <2> HIDE DEF N
  <2> QED
    BY <1>2, <1>3, <1>4
<1>6. ASSUME NEW n \in 1..Len(PairTasks)
      PROVE  /\ PairTasks[n].item = (n + 1) \div 2
             /\ PairTasks[n].system = Systems[2 - (n % 2)]
  BY <1>4, <1>5, <1>6 DEF Task
<1> QED
  BY <1>1, <1>5, <1>6

LEMMA TasksAre ==
  /\ CardCount \in Nat /\ Len(PairSeq) \in Nat
  /\ Len(Tasks) = CardCount + 2 * Len(PairSeq)
  /\ \A t \in 1..Len(Tasks) :
        /\ Tasks[t].system \in SystemSet
        /\ t <= CardCount => Tasks[t].item \in Variants
        /\ t > CardCount => /\ Tasks[t].item = (t - CardCount + 1) \div 2
                            /\ Tasks[t].item \in DOMAIN PairSeq
                            /\ VnextAt(t) <=> Tasks[t].system = "vnext"
<1>1. CardCount = Len(CardTasks)
  BY DEF CardCount
<1>2. Len(Tasks) = CardCount + 2 * Len(PairSeq)
  <2> DEFINE c == CardTasks
             d == PairTasks
  <2>1. c \in Seq(TaskSet) /\ d \in Seq(TaskSet)
    BY CardTasksAre, PairTasksAre
  <2> HIDE DEF c, d
  <2>2. Len(c \o d) = Len(c) + Len(d)
    BY <2>1
  <2> QED
    BY <2>2, <1>1, PairTasksAre DEF c, d, Tasks
<1>3. ASSUME NEW t \in 1..Len(Tasks), t <= CardCount
      PROVE  Tasks[t].system \in SystemSet /\ Tasks[t].item \in Variants
  <2>1. Tasks[t] = CardTasks[t]
    BY CardTasksAre, PairTasksAre, <1>1, <1>2, <1>3 DEF Tasks
  <2>2. CardTasks[t] \in TaskSet
    BY CardTasksAre, <1>1, <1>3
  <2> QED
    BY <2>1, <2>2, <1>3, CardTasksAre DEF TaskSet
<1>4. ASSUME NEW t \in 1..Len(Tasks), t > CardCount
      PROVE  /\ Tasks[t].system \in SystemSet
             /\ Tasks[t].item = (t - CardCount + 1) \div 2
             /\ Tasks[t].item \in DOMAIN PairSeq
             /\ VnextAt(t) <=> Tasks[t].system = "vnext"
  <2>a. CardCount \in Nat /\ Len(PairSeq) \in Nat /\ t \in Nat
    BY CardTasksAre, PairTasksAre, <1>2, <1>4
  <2>0. t - CardCount \in 1..Len(PairTasks)
    BY PairTasksAre, <1>2, <1>4, <2>a
  <2>1. Tasks[t] = PairTasks[t - CardCount]
    <3> DEFINE c == CardTasks
               d == PairTasks
    <3>1. c \in Seq(TaskSet) /\ d \in Seq(TaskSet)
      BY CardTasksAre, PairTasksAre
    <3>2. t \in 1..(Len(c) + Len(d)) /\ t > Len(c)
      BY <1>1, <1>2, <1>4, PairTasksAre
    <3> HIDE DEF c, d
    <3>3. (c \o d)[t] = d[t - Len(c)]
      BY <3>1, <3>2
    <3> QED
      BY <3>3, <1>1 DEF c, d, Tasks
  <2>2. PairTasks[t - CardCount] \in TaskSet
    BY <2>0, PairTasksAre
  <2>3. PairTasks[t - CardCount].item = (t - CardCount + 1) \div 2
    BY <2>0, PairTasksAre
  <2>4. (t - CardCount + 1) \div 2 \in 1..Len(PairSeq)
    <3> DEFINE n == t - CardCount
    <3>1. n \in 1..(2 * Len(PairSeq))
      BY <2>0, PairTasksAre
    <3> HIDE DEF n
    <3>2. (n + 1) \div 2 \in 1..Len(PairSeq)
      BY <2>a, <3>1
    <3> QED
      BY <3>2 DEF n
  <2>5. DOMAIN PairSeq = 1..Len(PairSeq)
    BY ExperimentAssumption
  <2>6. VnextAt(t) <=> Tasks[t].system = "vnext"
    <3> DEFINE n == t - CardCount
    <3>1. n \in 1..Len(PairTasks) /\ (VnextAt(t) <=> n % 2 = 0)
      BY <2>a, <2>0, <1>4 DEF VnextAt
    <3>2. PairTasks[n].system = Systems[2 - (n % 2)]
      BY <2>0, PairTasksAre
    <3> HIDE DEF n
    <3>3. n % 2 = 0 \/ n % 2 = 1
      BY <3>1, PairTasksAre
    <3>4. PairTasks[n].system = "vnext" <=> n % 2 = 0
      BY <3>2, <3>3 DEF Systems
    <3> QED
      BY <2>1, <3>1, <3>4 DEF n
  <2> QED
    BY <2>1, <2>2, <2>3, <2>4, <2>5, <2>6 DEF TaskSet
<1> QED
  BY <1>2, <1>3, <1>4, CardTasksAre, PairTasksAre

LEMMA PairsAre ==
  /\ \A i \in DOMAIN PairSeq : PairSeq[i] \in Pairs /\ i \in Nat
  /\ \A q \in Pairs : q \in Variants \X Variants
  /\ \A q \in Pairs : \E i \in DOMAIN PairSeq : q = PairSeq[i]
BY ExperimentAssumption DEF Pairs

(* The second task of a pair is about the same pair, the next one is not a  *)
(* second one.                                                             *)
LEMMA TasksPairUp ==
  ASSUME NEW t \in 1..Len(Tasks), t > CardCount
  PROVE  /\ VnextAt(t) => ~VnextAt(t + 1)
         /\ ~VnextAt(t) => /\ VnextAt(t + 1) /\ t + 1 <= Len(Tasks)
                           /\ PairAt(t + 1) = PairAt(t)
<1> DEFINE n == t - CardCount
           l == Len(PairSeq)
<1>1. CardCount \in Nat /\ l \in Nat /\ n \in 1..(2 * l) /\ t + 1 - CardCount = n + 1
  BY TasksAre
<1>2. /\ VnextAt(t) <=> n % 2 = 0
      /\ VnextAt(t + 1) <=> (n + 1) % 2 = 0
  BY <1>1, TasksAre DEF VnextAt
<1>3. t + 1 <= Len(Tasks) <=> n + 1 <= 2 * l
  BY <1>1, TasksAre
<1>4. Tasks[t].item = (n + 1) \div 2
  BY TasksAre
<1>5. t + 1 <= Len(Tasks) => Tasks[t + 1].item = (n + 2) \div 2
  BY <1>1, TasksAre
<1> HIDE DEF n, l
<1>6. n % 2 # 0 => n + 1 <= 2 * l /\ (n + 2) \div 2 = (n + 1) \div 2
  BY <1>1
<1>7. n % 2 = 0 <=> (n + 1) % 2 # 0
  BY <1>1
<1> QED
  BY <1>2, <1>3, <1>4, <1>5, <1>6, <1>7 DEF PairAt

----------------------------------------------------------------------------
(* What a step of a run may do with it: the run keeps its context and what   *)
(* it has taken over, and passes the second task of a pair only if that pair *)
(* was taken over.                                                         *)
Onward(r, s) ==
    /\ s.model = r.model /\ s.frozen = r.frozen /\ s.done = r.done
    /\ s.pc # "idle" /\ r.used = s.used
    /\ \/ s.task = r.task
       \/ s.task = r.task + 1 /\ (VnextAt(r.task) => PairAt(r.task) \in r.done)
    /\ s.pc = "finish" => s.task = Len(Tasks) + 1

AtWork(r) == r.pc \in {"work", "ask", "send"}
CardStatus == {"ok", "no_evidence", "not_run", "failed"}

LEMMA NextTaskType ==
  ASSUME NEW r \in Process, r.task <= Len(Tasks)
  PROVE  /\ NextTask(r) \in Process
         /\ NextTask(r) = [r EXCEPT !.task = NextTask(r).task, !.attempt = NextTask(r).attempt,
                                    !.stage = NextTask(r).stage, !.pc = NextTask(r).pc]
         /\ NextTask(r).task = r.task + 1
         /\ NextTask(r).pc = (IF r.task = Len(Tasks) THEN "finish" ELSE "work")
         /\ NextTask(r).card = r.card /\ NextTask(r).verdict = r.verdict
         /\ NextTask(r).model = r.model /\ NextTask(r).frozen = r.frozen
         /\ NextTask(r).done = r.done /\ NextTask(r).used = r.used
<1>1. Len(Tasks) \in Nat
  BY TasksAre
<1>2. r.task + 1 \in 1..(Len(Tasks) + 1) /\ 1 \in 1..MaxAttempts
  BY <1>1, ExperimentAssumption DEF Process
<1> QED
  BY <1>2 DEF NextTask, Process

(* The next task is in order when its cards and verdicts are.               *)
LEMMA NextTaskInOrder ==
  ASSUME NEW r \in Process, r.task <= Len(Tasks),
         Len(r.card) = (IF r.task + 1 <= CardCount THEN r.task ELSE CardCount),
         Len(r.verdict) = Verdicts(r.task + 1, r.done)
  PROVE  InOrder(NextTask(r))
<1>1. Len(Tasks) \in Nat /\ CardCount \in Nat /\ r.task \in Nat
  BY TasksAre DEF Process
<1> DEFINE s == NextTask(r)
<1>2. /\ s.task = r.task + 1 /\ s.card = r.card /\ s.verdict = r.verdict /\ s.done = r.done
      /\ s.pc = (IF r.task = Len(Tasks) THEN "finish" ELSE "work")
  BY NextTaskType
<1> HIDE DEF s
<1>3. CASE r.task = Len(Tasks)
  BY <1>2, <1>3 DEF InOrder, s
<1>4. CASE r.task # Len(Tasks)
  <2>1. s.pc = "work" /\ s.task <= Len(Tasks)
    BY <1>1, <1>2, <1>4
  <2>2. Len(s.card) = (IF s.task <= CardCount THEN s.task - 1 ELSE CardCount)
    BY <1>1, <1>2
  <2>3. Len(s.verdict) = Verdicts(s.task, s.done)
    BY <1>2
  <2>4. InOrder(s)
    BY <2>1, <2>2, <2>3 DEF InOrder
  <2> QED
    BY <2>4 DEF s
<1> QED
  BY <1>3, <1>4

LEMMA CardNext ==
  ASSUME NEW r \in Process, InOrder(r), AtWork(r), r.task <= CardCount,
         NEW c \in CardStatus,
         NEW s, s = NextTask([r EXCEPT !.card = Append(@, c)])
  PROVE  s \in Process /\ InOrder(s) /\ Onward(r, s) /\ s.pc \in {"work", "finish"}
<1> DEFINE x == [r EXCEPT !.card = Append(@, c)]
<1>1. CardCount \in Nat /\ Len(Tasks) \in Nat /\ r.task \in Nat /\ r.task <= Len(Tasks)
  BY TasksAre DEF InOrder, AtWork, Process
<1>2. /\ Append(r.card, c) \in Seq(CardStatus)
      /\ Len(Append(r.card, c)) = r.task
  BY <1>1 DEF Process, CardStatus, InOrder, AtWork
<1>3. /\ x \in Process /\ x.card = Append(r.card, c) /\ x.task = r.task
      /\ x.verdict = r.verdict /\ x.done = r.done /\ x.model = r.model
      /\ x.frozen = r.frozen /\ x.used = r.used
  BY <1>2 DEF Process, CardStatus
<1>4. ~VnextAt(r.task) /\ ~VnextAt(r.task + 1)
  BY <1>1 DEF VnextAt
<1>5. Len(r.verdict) = 0 /\ Verdicts(r.task + 1, r.done) = 0
  BY <1>4 DEF InOrder, AtWork, Verdicts
<1> HIDE DEF x
<1>6. InOrder(NextTask(x))
  BY <1>1, <1>2, <1>3, <1>5, NextTaskInOrder
<1>7. s = NextTask(x)
  BY DEF x
<1>8. s \in Process /\ Onward(r, s) /\ s.pc \in {"work", "finish"}
  BY <1>1, <1>3, <1>4, <1>7, NextTaskType DEF Onward
<1> QED
  BY <1>6, <1>7, <1>8

(* The verdict of the baseline leads to that of vnext, which completes the  *)
(* pair.                                                                   *)
LEMMA VerdictNext ==
  ASSUME NEW r \in Process, InOrder(r), AtWork(r), r.task > CardCount,
         PairAt(r.task) \notin r.done, NEW v \in Status,
         NEW s, s = (IF Tasks[r.task].system = "baseline" THEN NextTask([r EXCEPT !.verdict = <<v>>])
                     ELSE [r EXCEPT !.verdict = Append(@, v), !.pc = "write"])
  PROVE  s \in Process /\ InOrder(s) /\ Onward(r, s) /\ s.pc \in {"work", "finish", "write"}
<1>1. CardCount \in Nat /\ Len(Tasks) \in Nat /\ r.task \in 1..Len(Tasks)
  BY TasksAre DEF InOrder, AtWork, Process
<1>2. r.verdict \in Seq(Status) /\ <<v>> \in Seq(Status) /\ Append(r.verdict, v) \in Seq(Status)
  BY DEF Process
<1>3. Tasks[r.task].system \in SystemSet /\ (VnextAt(r.task) <=> Tasks[r.task].system = "vnext")
  BY <1>1, TasksAre
<1>4. CASE ~VnextAt(r.task)
  <2> DEFINE x == [r EXCEPT !.verdict = <<v>>]
  <2>1. Tasks[r.task].system = "baseline"
    BY <1>3, <1>4 DEF SystemSet
  <2>2. /\ x \in Process /\ x.verdict = <<v>> /\ x.card = r.card /\ x.task = r.task
        /\ x.done = r.done /\ x.model = r.model /\ x.frozen = r.frozen /\ x.used = r.used
    BY <1>2 DEF Process
  <2>3. Verdicts(r.task + 1, r.done) = 1
    BY <1>1, <1>4, TasksPairUp DEF Verdicts
  <2>4. Len(r.card) = CardCount /\ Len(<<v>>) = 1
    BY <1>1 DEF InOrder, AtWork
  <2> HIDE DEF x
  <2>a. /\ x.task <= Len(Tasks)
        /\ Len(x.card) = (IF x.task + 1 <= CardCount THEN x.task ELSE CardCount)
    BY <1>1, <2>2, <2>4
  <2>b. Len(x.verdict) = Verdicts(x.task + 1, x.done)
    BY <2>2, <2>3, <2>4
  <2>5. InOrder(NextTask(x))
    BY <2>2, <2>a, <2>b, NextTaskInOrder
  <2>6. s = NextTask(x)
    BY <2>1 DEF x
  <2>c. /\ s \in Process /\ s.task = r.task + 1 /\ s.model = r.model /\ s.frozen = r.frozen
        /\ s.done = r.done /\ s.used = r.used
        /\ s.pc = (IF r.task = Len(Tasks) THEN "finish" ELSE "work")
    BY <2>2, <2>a, <2>6, NextTaskType
  <2>7. s \in Process /\ Onward(r, s) /\ s.pc \in {"work", "finish"}
    BY <1>1, <1>4, <2>c DEF Onward
  <2> QED
    BY <2>5, <2>6, <2>7
<1>5. CASE VnextAt(r.task)
  <2>1. s = [r EXCEPT !.verdict = Append(@, v), !.pc = "write"]
    BY <1>3, <1>5
  <2>2. /\ s \in Process /\ s.verdict = Append(r.verdict, v) /\ s.pc = "write"
        /\ s.card = r.card /\ s.task = r.task /\ s.stage = r.stage
        /\ s.done = r.done /\ s.model = r.model /\ s.frozen = r.frozen /\ s.used = r.used
    BY <1>2, <2>1 DEF Process
  <2>3. Len(r.verdict) = 1
    BY <1>5 DEF InOrder, AtWork, Verdicts
  <2>4. Len(Append(r.verdict, v)) = 2
    <3>1. \A S, q, x : q \in Seq(S) /\ x \in S => Len(Append(q, x)) = Len(q) + 1
      OBVIOUS
    <3>2. Len(Append(r.verdict, v)) = Len(r.verdict) + 1
      BY <1>2, <3>1
    <3> QED
      BY <2>3, <3>2
  <2> QED
    BY <1>1, <1>5, <2>2, <2>4 DEF InOrder, AtWork, Onward
<1> QED
  BY <1>4, <1>5

----------------------------------------------------------------------------
(* A run goes on.                                                           *)
RunGoesOn(p) ==
    /\ proc' \in [Procs -> Process]
    /\ \A q \in Procs \ {p} : proc'[q] = proc[q]
    /\ InOrder(proc'[p]) /\ Onward(proc[p], proc'[p]) /\ proc'[p].pc # "send"

LEMMA OneRecordChanges ==
  ASSUME TypeOK, NEW p \in Procs, NEW s \in Process, proc' = [proc EXCEPT ![p] = s],
         InOrder(s), Onward(proc[p], s), s.pc # "send"
  PROVE  RunGoesOn(p)
BY DEF TypeOK, RunGoesOn

LEMMA CardIsGoesOn ==
  ASSUME ExperimentInv, NEW p \in Procs, AtWork(proc[p]), AtCard(p),
         NEW c \in CardStatus, CardIs(p, c)
  PROVE  RunGoesOn(p)
<1> DEFINE r == proc[p]
           s == NextTask([proc[p] EXCEPT !.card = Append(@, c)])
<1>1. r \in Process /\ InOrder(r)
  BY DEF ExperimentInv, TypeOK, RunsInOrder
<1>2. r.task <= CardCount
  BY DEF AtCard, CardCount
<1>3. s \in Process /\ InOrder(s) /\ Onward(r, s) /\ s.pc \in {"work", "finish"}
  <2>1. s = NextTask([r EXCEPT !.card = Append(@, c)]) /\ AtWork(r)
    OBVIOUS
  <2> HIDE DEF r, s
  <2> QED
    BY <1>1, <1>2, <2>1, CardNext
<1>4. proc' = [proc EXCEPT ![p] = s]
  BY DEF CardIs
<1>5. TypeOK /\ s.pc # "send" /\ Onward(proc[p], s)
  BY <1>3 DEF ExperimentInv
<1> HIDE DEF s
<1> QED
  BY <1>3, <1>4, <1>5, OneRecordChanges

LEMMA VerdictIsGoesOn ==
  ASSUME ExperimentInv, NEW p \in Procs, AtWork(proc[p]), ~AtCard(p),
         PairOf(p) \notin proc[p].done, NEW v \in Status, VerdictIs(p, v)
  PROVE  RunGoesOn(p)
<1> DEFINE r == proc[p]
           s == IF Tasks[proc[p].task].system = "baseline"
                THEN NextTask([proc[p] EXCEPT !.verdict = <<v>>])
                ELSE [proc[p] EXCEPT !.verdict = Append(@, v), !.pc = "write"]
<1>1. r \in Process /\ InOrder(r)
  BY DEF ExperimentInv, TypeOK, RunsInOrder
<1>2. r.task > CardCount /\ PairAt(r.task) \notin r.done
  <2>1. r.task \in Nat /\ CardCount \in Nat
    BY <1>1, TasksAre DEF Process
  <2> QED
    BY <2>1 DEF AtCard, CardCount, PairAt, PairOf, Current
<1>3. s \in Process /\ InOrder(s) /\ Onward(r, s) /\ s.pc \in {"work", "finish", "write"}
  <2>1. /\ s = (IF Tasks[r.task].system = "baseline" THEN NextTask([r EXCEPT !.verdict = <<v>>])
                ELSE [r EXCEPT !.verdict = Append(@, v), !.pc = "write"])
        /\ AtWork(r)
    OBVIOUS
  <2> HIDE DEF r, s
  <2> QED
    BY <1>1, <1>2, <2>1, VerdictNext
<1>4. proc' = [proc EXCEPT ![p] = s]
  BY DEF VerdictIs, Current
<1>5. TypeOK /\ s.pc # "send" /\ Onward(proc[p], s)
  BY <1>3 DEF ExperimentInv
<1> HIDE DEF s
<1> QED
  BY <1>3, <1>4, <1>5, OneRecordChanges

(* Asking, trying again and looking at the differences stay at the task.    *)
LEMMA SameTaskGoesOn ==
  ASSUME ExperimentInv, NEW p \in Procs, AtWork(proc[p]), NEW s \in Process,
         proc' = [proc EXCEPT ![p] = s],
         s.pc \in {"work", "ask"}, s.task = proc[p].task, s.card = proc[p].card,
         s.verdict = proc[p].verdict, s.done = proc[p].done, s.model = proc[p].model,
         s.frozen = proc[p].frozen, s.used = proc[p].used,
         s.pc = "ask" => /\ s.stage # "rule"
                         /\ AtCard(p) <=> s.stage = "card"
                         /\ ~AtCard(p) => PairOf(p) \notin s.done
  PROVE  RunGoesOn(p)
<1>1. proc[p] \in Process /\ InOrder(proc[p])
  BY DEF ExperimentInv, TypeOK, RunsInOrder
<1>2. proc[p].task \in Nat /\ CardCount \in Nat
  BY <1>1, TasksAre DEF Process
<1>3. Onward(proc[p], s)
  BY DEF Onward
<1>4. s.pc = "ask" => /\ s.stage # "rule"
                      /\ s.task <= CardCount <=> s.stage = "card"
                      /\ s.task > CardCount => PairAt(s.task) \notin s.done
  BY <1>2 DEF AtCard, CardCount, PairAt, PairOf, Current
<1>5. InOrder(s)
  BY <1>1, <1>4 DEF InOrder, AtWork
<1> QED
  BY <1>3, <1>5, OneRecordChanges DEF ExperimentInv

LEMMA AskForGoesOn ==
  ASSUME ExperimentInv, NEW p \in Procs, proc[p].pc = "work",
         NEW stage \in {"card", "recheck", "differences", "adjudicate"},
         AtCard(p) <=> stage = "card", ~AtCard(p) => PairOf(p) \notin proc[p].done,
         AskFor(p, stage)
  PROVE  RunGoesOn(p)
<1> DEFINE s == [proc[p] EXCEPT !.pc = "ask", !.stage = stage]
<1>1. proc[p] \in Process
  BY DEF ExperimentInv, TypeOK
<1>2. /\ s \in Process /\ s.pc = "ask" /\ s.stage = stage /\ s.task = proc[p].task
      /\ s.card = proc[p].card /\ s.verdict = proc[p].verdict /\ s.done = proc[p].done
      /\ s.model = proc[p].model /\ s.frozen = proc[p].frozen /\ s.used = proc[p].used
  BY <1>1 DEF Process
<1>3. proc' = [proc EXCEPT ![p] = s]
  BY <1>1 DEF AskFor, ExperimentInv, TypeOK
<1> HIDE DEF s
<1> QED
  BY <1>2, <1>3, SameTaskGoesOn DEF AtWork

LEMMA FailedGoesOn ==
  ASSUME ExperimentInv, NEW p \in Procs, proc[p].pc \in {"ask", "send"}, Failed(p)
  PROVE  RunGoesOn(p)
<1>1. proc[p] \in Process /\ InOrder(proc[p])
  BY DEF ExperimentInv, TypeOK, RunsInOrder
<1>2. proc[p].task \in Nat /\ CardCount \in Nat
  BY <1>1, TasksAre DEF Process
<1>3. ~AtCard(p) => PairOf(p) \notin proc[p].done
  BY <1>1, <1>2 DEF AtCard, CardCount, PairAt, PairOf, Current, InOrder
<1>4. CASE Exhausted(p) \/ proc[p].attempt = MaxAttempts
  <2>1. CASE AtCard(p)
    <3>1. PICK c \in CardStatus : CardIs(p, c)
      BY <1>4, <2>1 DEF Failed, CardStatus
    <3> QED
      BY <2>1, <3>1, CardIsGoesOn DEF AtWork
  <2>2. CASE ~AtCard(p)
    <3>1. PICK v \in Status : VerdictIs(p, v)
      BY <1>4, <2>2 DEF Failed, Status
    <3> QED
      BY <1>3, <2>2, <3>1, VerdictIsGoesOn DEF AtWork
  <2> QED
    BY <2>1, <2>2
<1>5. CASE ~(Exhausted(p) \/ proc[p].attempt = MaxAttempts)
  <2> DEFINE s == [proc[p] EXCEPT !.attempt = @ + 1, !.pc = "work"]
  <2>1. proc[p].attempt + 1 \in 1..MaxAttempts
    BY <1>1, <1>5, ExperimentAssumption DEF Process
  <2>2. /\ s \in Process /\ s.pc = "work" /\ s.task = proc[p].task
        /\ s.card = proc[p].card /\ s.verdict = proc[p].verdict /\ s.done = proc[p].done
        /\ s.model = proc[p].model /\ s.frozen = proc[p].frozen /\ s.used = proc[p].used
    BY <1>1, <2>1 DEF Process
  <2>3. proc' = [proc EXCEPT ![p] = s]
    BY <1>1, <1>5 DEF Failed, ExperimentInv, TypeOK
  <2> HIDE DEF s
  <2> QED
    BY <2>2, <2>3, SameTaskGoesOn DEF AtWork
<1> QED
  BY <1>4, <1>5

LEMMA AnsweredGoesOn ==
  ASSUME ExperimentInv, NEW p \in Procs, proc[p].pc = "send", Answered(p)
  PROVE  RunGoesOn(p)
<1>1. proc[p] \in Process /\ InOrder(proc[p])
  BY DEF ExperimentInv, TypeOK, RunsInOrder
<1>2. proc[p].task \in Nat /\ CardCount \in Nat
  BY <1>1, TasksAre DEF Process
<1>3. /\ AtCard(p) <=> proc[p].stage = "card"
      /\ ~AtCard(p) => PairOf(p) \notin proc[p].done
  BY <1>1, <1>2 DEF AtCard, CardCount, PairAt, PairOf, Current, InOrder
<1>4. CASE proc[p].stage = "card"
  <2>1. CardIs(p, "ok")
    BY <1>4 DEF Answered
  <2> QED
    BY <1>3, <1>4, <2>1, CardIsGoesOn DEF AtWork, CardStatus
<1>5. CASE proc[p].stage = "differences"
  <2> DEFINE s == [proc[p] EXCEPT !.pc = "work"]
  <2>1. /\ s \in Process /\ s.pc = "work" /\ s.task = proc[p].task
        /\ s.card = proc[p].card /\ s.verdict = proc[p].verdict /\ s.done = proc[p].done
        /\ s.model = proc[p].model /\ s.frozen = proc[p].frozen /\ s.used = proc[p].used
    BY <1>1 DEF Process
  <2>2. proc' = [proc EXCEPT ![p] = s]
    BY <1>1, <1>5 DEF Answered, ExperimentInv, TypeOK
  <2> HIDE DEF s
  <2> QED
    BY <2>1, <2>2, SameTaskGoesOn DEF AtWork
<1>6. CASE proc[p].stage \notin {"card", "differences"}
  <2>1. PICK v \in Status : VerdictIs(p, v)
    BY <1>6 DEF Answered, Status, Terminal
  <2> QED
    BY <1>3, <1>6, <2>1, VerdictIsGoesOn DEF AtWork
<1> QED
  BY <1>4, <1>5, <1>6

----------------------------------------------------------------------------
(* What calls may send.                                                    *)
LEMMA CallsAdd ==
  ASSUME NEW n \in Nat
  PROVE  /\ PerCall \in Nat /\ PerCall * n \in Nat
         /\ PerCall * (n + 1) = PerCall * n + PerCall
         /\ \A m \in Nat : n <= m => PerCall * n <= PerCall * m
<1>1. PerCall \in Nat
  BY ExperimentAssumption DEF PerCall
<1>2. PICK k \in Nat : k = PerCall
  BY <1>1
<1>3. k * n \in Nat /\ k * (n + 1) = k * n + k
  OBVIOUS
<1>4. ASSUME NEW m \in Nat, n <= m
      PROVE  k * n <= k * m
  <2>1. PICK d \in Nat : m = n + d
    BY <1>4, m - n \in Nat
  <2>2. k * m = k * n + k * d /\ k * d \in Nat /\ k * n \in Nat
    BY <2>1
  <2> QED
    BY <2>2
<1> QED
  BY <1>2, <1>3, <1>4

(* What holds of the lock, the ledger and the records while a run goes on.   *)
LEMMA GoesOnKeeps ==
  ASSUME ExperimentInv, NEW p \in Procs, Running(p), RunGoesOn(p),
         UNCHANGED <<results, lock, ledger>>,
         sent' = sent \/ (proc[p].pc = "send" /\ Leaves)
  PROVE  OneRun' /\ LedgerAhead' /\ RunsInOrder'
<1>1. /\ proc[p] \in Process /\ proc'[p] \in Process /\ proc'[p].pc # "idle"
      /\ sent \in Nat /\ ledger \in Nat
  <2>1. 0..Limit \subseteq Nat
    BY ExperimentAssumption
  <2> QED
    BY <2>1 DEF ExperimentInv, TypeOK, RunGoesOn, Onward
<1>2. OneRun'
  BY <1>1 DEF ExperimentInv, OneRun, Running, RunGoesOn
<1>3. LedgerAhead'
  <2>1. \A q \in Procs : q # p => proc[q].pc = "idle"
    BY DEF ExperimentInv, OneRun, Running
  <2>2. sent' <= PerCall * ledger'
    <3>1. PICK n \in Nat, k \in Nat : n = PerCall * ledger /\ k = PerCall
      BY <1>1, CallsAdd
    <3>2. sent <= n /\ (proc[p].pc = "send" => sent + k <= n) /\ ledger' = ledger
      BY <3>1 DEF ExperimentInv, LedgerAhead
    <3>3. CASE sent' = sent
      BY <3>1, <3>2, <3>3
    <3>4. CASE proc[p].pc = "send" /\ Leaves
      <4>1. PICK i \in 1..k : sent' = sent + i
        BY <3>1, <3>4 DEF Leaves
      <4>2. sent' <= n
        BY <1>1, <3>1, <3>2, <3>4, <4>1
      <4> QED
        BY <3>1, <3>2, <4>2
    <3> QED
      BY <3>3, <3>4
  <2>3. \A q \in Procs : proc'[q].pc # "send"
    BY <2>1 DEF RunGoesOn
  <2>4. \A q \in Procs : Running(q)' => proc'[q].used = ledger'
    BY <2>1 DEF RunGoesOn, Onward, ExperimentInv, LedgerAhead, Running
  <2> QED
    BY <2>2, <2>3, <2>4 DEF LedgerAhead
<1>4. ASSUME NEW q \in Procs, q # p
      PROVE  InOrder(proc'[q]) /\ RecordsOK(q)'
  <2>1. proc'[q] = proc[q] /\ InOrder(proc[q]) /\ RecordsOK(q)
    BY <1>4 DEF RunGoesOn, ExperimentInv, RunsInOrder
  <2> QED
    BY <2>1 DEF RecordsOK, Running, OfThisRun
<1>5. RecordsOK(p)'
  <2> DEFINE r == proc[p]
             s == proc'[p]
  <2>1. Onward(r, s) /\ RecordsOK(p)
    BY DEF RunGoesOn, ExperimentInv, RunsInOrder
  <2>2. \A q \in Pairs : OfThisRun(p, q)' <=> OfThisRun(p, q)
    BY <2>1 DEF OfThisRun, Onward
  <2>3. r.done \subseteq Pairs
    BY <1>1 DEF Process
  <2>4. ASSUME NEW i \in DOMAIN PairSeq, CardCount + 2 * i < s.task
        PROVE  OfThisRun(p, PairSeq[i])
    <3>a. CardCount \in Nat /\ Len(Tasks) = CardCount + 2 * Len(PairSeq) /\ Len(PairSeq) \in Nat
      BY TasksAre
    <3>b. DOMAIN PairSeq = 1..Len(PairSeq)
      BY ExperimentAssumption
    <3>c. r.task \in 1..(Len(Tasks) + 1) /\ s.task \in 1..(Len(Tasks) + 1)
      BY <1>1 DEF Process
    <3>1. /\ CardCount \in Nat /\ i \in 1..Len(PairSeq) /\ r.task \in Nat /\ s.task \in Nat
          /\ Len(Tasks) = CardCount + 2 * Len(PairSeq) /\ Len(PairSeq) \in Nat
          /\ s.task <= Len(Tasks) + 1
      <4> HIDE DEF r, s
      <4> QED
        BY <2>4, <3>a, <3>b, <3>c
    <3>2. CASE CardCount + 2 * i < r.task
      BY <2>1, <3>2 DEF RecordsOK
    <3>3. CASE r.task = CardCount + 2 * i /\ s.task = r.task + 1
      <4>1. r.task \in 1..Len(Tasks) /\ r.task > CardCount
        BY <3>1, <3>3
      <4>2. Tasks[r.task].item = (2 * i + 1) \div 2
        <5>1. Tasks[r.task].item = (r.task - CardCount + 1) \div 2
          BY <4>1, TasksAre
        <5>2. r.task - CardCount + 1 = 2 * i + 1
          BY <3>1, <3>3
        <5> QED
          BY <5>1, <5>2
      <4>3. (2 * i + 1) \div 2 = i
        <5>1. i \in Nat
          BY <3>1
        <5> QED
          BY <5>1, HalfOfOdd
      <4>4. VnextAt(r.task)
        <5>1. r.task - CardCount = 2 * i
          BY <3>1, <3>3
        <5>2. (2 * i) % 2 = 0
          BY <3>1
        <5> QED
          BY <4>1, <5>1, <5>2 DEF VnextAt
      <4>5. PairAt(r.task) \in r.done
        BY <2>1, <3>1, <3>3, <4>4 DEF Onward
      <4>6. PairSeq[i] \in r.done
        BY <4>2, <4>3, <4>5 DEF PairAt
      <4> QED
        BY <2>1, <4>6 DEF RecordsOK
    <3>4. s.task = r.task \/ s.task = r.task + 1
      BY <2>1 DEF Onward
    <3>5. \/ CardCount + 2 * i < r.task
          \/ r.task = CardCount + 2 * i /\ s.task = r.task + 1
      <4> HIDE DEF r, s
      <4> QED
        BY <2>4, <3>1, <3>4
    <3> QED
      BY <3>2, <3>3, <3>5
  <2>5. \A i \in DOMAIN PairSeq : CardCount + 2 * i < s.task => OfThisRun(p, PairSeq[i])'
    BY <2>2, <2>4, PairsAre
  <2>6. \A q \in s.done : OfThisRun(p, q)'
    BY <2>1, <2>2, <2>3 DEF Onward, RecordsOK
  <2>7. s.model \in Models /\ s.frozen \in Manifest
    BY <2>1 DEF Onward, RecordsOK
  <2>8. s.pc = "finish" => s.task = Len(Tasks) + 1
    BY <2>1 DEF Onward
  <2> QED
    BY <2>5, <2>6, <2>7, <2>8 DEF RecordsOK
<1> QED
  BY <1>2, <1>3, <1>4, <1>5 DEF RunsInOrder, RunGoesOn

(* What nobody's run does leaves all of that alone.                         *)
LEMMA ElsewhereKeeps ==
  ASSUME ExperimentInv, UNCHANGED <<proc, results, lock, ledger, sent>>
  PROVE  OneRun' /\ LedgerAhead' /\ RunsInOrder'
BY DEF ExperimentInv, OneRun, LedgerAhead, RunsInOrder, Running, RecordsOK, OfThisRun

(* What is kept for later runs can be found again.                          *)
LEMMA KeyType ==
  ASSUME ExperimentInv, NEW p \in Procs, AtWork(proc[p]),
         NEW stage \in {"card", "differences", "adjudicate"}
  PROVE  Key(p, stage) \in Answer
<1> DEFINE r == proc[p]
           who == IF AtCard(p) THEN <<Current(p).item>> ELSE PairOf(p)
           seen == [i \in DOMAIN who |-> r.frozen.evidence[who[i]]]
<1>1. /\ r.task \in 1..Len(Tasks) /\ CardCount \in Nat /\ Len(Tasks) \in Nat
      /\ r.model \in Models /\ r.frozen \in Manifest
  <2>1. r \in Process /\ InOrder(r) /\ RecordsOK(p)
    BY DEF ExperimentInv, TypeOK, RunsInOrder
  <2> QED
    BY <2>1, TasksAre DEF InOrder, AtWork, RecordsOK, Running, Process
<1>2. Current(p).system \in SystemSet
  BY <1>1, TasksAre DEF Current
<1>3. who \in Seq(Variants)
  <2>1. CASE AtCard(p)
    <3>1. Current(p).item \in Variants
      BY <1>1, <2>1, TasksAre DEF Current, AtCard, CardCount
    <3> QED
      BY <2>1, <3>1
  <2>2. CASE ~AtCard(p)
    <3>1. Current(p).item \in DOMAIN PairSeq
      BY <1>1, <2>2, TasksAre DEF Current, AtCard, CardCount
    <3>2. PairOf(p) \in Variants \X Variants
      BY <3>1, PairsAre DEF PairOf
    <3>3. PICK a \in Variants, b \in Variants : PairOf(p) = <<a, b>>
      BY <3>2
    <3> QED
      BY <2>2, <3>3
  <2> QED
    BY <2>1, <2>2
<1>4. seen \in Seq(Nat)
  <2> HIDE DEF who
  <2>1. DOMAIN who = 1..Len(who) /\ Len(who) \in Nat
        /\ \A i \in DOMAIN who : who[i] \in Variants
    BY <1>3
  <2>2. \A i \in DOMAIN who : r.frozen.evidence[who[i]] \in Nat
    BY <1>1, <2>1 DEF Manifest
  <2> QED
    BY <2>1, <2>2
<1>5. Key(p, stage) = [stage |-> stage, system |-> Current(p).system, who |-> who,
                       model |-> r.model, evidence |-> seen]
  BY DEF Key
<1> HIDE DEF who, seen
<1> QED
  BY <1>1, <1>2, <1>3, <1>4, <1>5 DEF Answer

----------------------------------------------------------------------------
LEMMA IdleType == Idle \in Process
<1>1. 1 \in 1..(Len(Tasks) + 1)
  <2>1. Len(Tasks) \in Nat
    BY TasksAre
  <2> QED
    BY <2>1
<1>2. 0 \in 0..Limit /\ 1 \in 1..MaxAttempts
  BY ExperimentAssumption
<1>3. <<>> \in Seq({"ok", "no_evidence", "not_run", "failed"}) /\ <<>> \in Seq(Status)
  OBVIOUS
<1> QED
  BY <1>1, <1>2, <1>3 DEF Idle, Process

LEMMA InitInv == Init => ExperimentInv
<1> SUFFICES ASSUME Init PROVE ExperimentInv
  OBVIOUS
<1>1. TypeOK
  <2>1. 0 \in 0..Limit /\ 0 \in 0..MaxChanges /\ 0 \in Nat
    BY ExperimentAssumption
  <2> QED
    BY <2>1, IdleType DEF Init, TypeOK
<1>2. \A p \in Procs : proc[p] = Idle /\ Idle.pc = "idle"
  BY DEF Init, Idle
<1>3. OneRun
  BY <1>2, ExperimentAssumption DEF Init, OneRun, Running
<1>4. LedgerAhead
  <2>1. PerCall * 0 \in Nat
    BY CallsAdd, 0 \in Nat
  <2>2. sent <= PerCall * ledger
    BY <2>1 DEF Init
  <2> QED
    BY <1>2, <2>2 DEF Init, LedgerAhead, Running
<1>5. RunsInOrder
  BY <1>2 DEF RunsInOrder, InOrder, RecordsOK, Running
<1> QED
  BY <1>1, <1>3, <1>4, <1>5 DEF ExperimentInv

(* The files and what people do.                                            *)
LEMMA PreparingKeeps ==
  ASSUME ExperimentInv, Prepare \/ Confirm \/ Freeze \/ Sample \/ Meanwhile \/ Report
  PROVE  ExperimentInv'
<1> USE DEF ExperimentInv, TypeOK
<1>1. UNCHANGED <<proc, results, lock, ledger, sent>>
  BY DEF Prepare, Confirm, Freeze, Sample, Meanwhile, Report
<1>2. CASE Prepare
  BY <1>1, <1>2, ElsewhereKeeps DEF Prepare
<1>3. CASE Confirm
  <2>1. universe' \in Golds
    BY <1>3 DEF Confirm, Golds
  <2> QED
    BY <1>1, <1>3, <2>1, ElsewhereKeeps DEF Confirm
<1>4. CASE Freeze
  <2>1. manifest' \in Manifest
    BY <1>4 DEF Freeze, Manifest
  <2>2. sample' = NoFile
    BY <1>4 DEF Freeze
  <2> QED
    BY <1>1, <1>4, <2>1, <2>2, ElsewhereKeeps DEF Freeze
<1>5. CASE Sample
  BY <1>1, <1>5, ElsewhereKeeps DEF Sample
<1>6. CASE Meanwhile
  <2>1. changes' \in 0..MaxChanges
    BY <1>6, ExperimentAssumption DEF Meanwhile
  <2>2. evidence' \in [Variants -> Nat] /\ model' \in Models
    BY <1>6 DEF Meanwhile
  <2>3. /\ universe' \in {None, "pending"} \cup Golds
        /\ manifest' \in Manifest \cup {NoFile} /\ sample' \in {NoFile, manifest'}
    BY <1>6 DEF Meanwhile
  <2> QED
    BY <1>1, <1>6, <2>1, <2>2, <2>3, ElsewhereKeeps DEF Meanwhile
<1>7. CASE Report
  BY <1>1, <1>7, ElsewhereKeeps DEF Report
<1> QED
  BY <1>2, <1>3, <1>4, <1>5, <1>6, <1>7

(* A run takes over what was judged in its context.                         *)
LEMMA StartKeeps ==
  ASSUME ExperimentInv, NEW p \in Procs, StartRun(p)
  PROVE  ExperimentInv'
<1> DEFINE done == {q \in Pairs : Reusable(q, model, manifest)}
           s == [Idle EXCEPT !.pc = IF done = Pairs THEN "finish" ELSE "work", !.model = model,
                             !.frozen = manifest, !.used = Carried, !.done = done]
<1>1. manifest \in Manifest /\ model \in Models /\ ledger \in 0..Limit /\ ledger \in Nat
  BY ExperimentAssumption DEF StartRun, ExperimentInv, TypeOK
<1>2. done \in SUBSET Pairs
  OBVIOUS
<1>3. proc' = [proc EXCEPT ![p] = s]
  BY DEF StartRun
<1>4. \A q \in done : results[q].context = ContextOf(q, model, manifest)
  BY DEF Reusable
<1> HIDE DEF done
<1>5. /\ s \in Process /\ s.pc = (IF done = Pairs THEN "finish" ELSE "work")
      /\ s.model = model /\ s.frozen = manifest /\ s.used = ledger /\ s.done = done
      /\ s.task = 1 /\ s.card = <<>> /\ s.verdict = <<>>
  <2>1. Idle \in Process /\ Idle.task = 1 /\ Idle.card = <<>> /\ Idle.verdict = <<>>
    BY IdleType DEF Idle
  <2> QED
    BY <1>1, <1>2, <2>1 DEF Process, Carried
<1> HIDE DEF s
<1>6. InOrder(s)
  <2>1. CASE done = Pairs
    BY <1>5, <2>1 DEF InOrder
  <2>2. CASE done # Pairs
    <3>1. Len(PairSeq) # 0
      BY <1>2, <2>2, ExperimentAssumption DEF Pairs
    <3>2. 1 <= Len(Tasks) /\ CardCount \in Nat
      BY <3>1, TasksAre
    <3>3. ~VnextAt(1)
      BY <3>2 DEF VnextAt
    <3>4. Len(s.card) = 0 /\ Len(s.verdict) = 0
      BY <1>5
    <3>5. Len(s.card) = (IF s.task <= CardCount THEN s.task - 1 ELSE CardCount)
      BY <1>5, <3>2, <3>4
    <3> QED
      BY <1>5, <2>2, <3>2, <3>3, <3>4, <3>5 DEF InOrder, Verdicts
  <2> QED
    BY <2>1, <2>2
<1>7. /\ proc' \in [Procs -> Process] /\ proc'[p] = s
      /\ \A q \in Procs \ {p} : proc'[q] = proc[q] /\ proc[q].pc = "idle"
  <2>1. lock = None
    BY DEF StartRun, Admitted
  <2>2. \A q \in Procs : proc[q].pc = "idle"
    BY <2>1, ExperimentAssumption DEF ExperimentInv, OneRun, Running
  <2> QED
    BY <1>3, <1>5, <2>2 DEF ExperimentInv, TypeOK
<1>8. /\ UNCHANGED <<files, evidence, model, sent, changes>> /\ lock' = p
  BY DEF StartRun
<1>9. TypeOK'
  BY <1>7, <1>8 DEF ExperimentInv, TypeOK, files
<1>10. OneRun'
  BY <1>5, <1>7, <1>8 DEF OneRun, Running
<1>11. LedgerAhead'
  <2>1. \A q \in Procs : proc'[q].pc # "send"
    BY <1>5, <1>7
  <2>2. \A q \in Procs : Running(q)' => proc'[q].used = ledger'
    BY <1>5, <1>7, <1>8 DEF Running, files
  <2> QED
    BY <1>8, <2>1, <2>2 DEF LedgerAhead, ExperimentInv, files
<1>12. RecordsOK(p)'
  <2>1. \A q \in s.done : OfThisRun(p, q)'
    BY <1>4, <1>5, <1>7, <1>8 DEF OfThisRun, files
  <2>2. ASSUME NEW i \in DOMAIN PairSeq
        PROVE  ~(CardCount + 2 * i < 1)
    BY PairsAre, TasksAre
  <2>3. s.pc = "finish" => s.done = Pairs
    BY <1>5
  <2>4. s.model \in Models /\ s.frozen \in Manifest
    BY <1>1, <1>5
  <2> QED
    BY <1>5, <1>7, <2>1, <2>2, <2>3, <2>4 DEF RecordsOK
<1>13. ASSUME NEW q \in Procs, q # p
       PROVE  InOrder(proc'[q]) /\ RecordsOK(q)'
  BY <1>7, <1>13 DEF InOrder, RecordsOK, Running
<1>14. RunsInOrder'
  BY <1>6, <1>7, <1>12, <1>13 DEF RunsInOrder
<1> QED
  BY <1>9, <1>10, <1>11, <1>14 DEF ExperimentInv

(* A run that ends or dies leaves no trace but the files.                   *)
LEMMA EndingKeeps ==
  ASSUME ExperimentInv, NEW p \in Procs, proc[p].pc # "idle",
         proc' = [proc EXCEPT ![p] = Idle],
         lock' = None, UNCHANGED <<results, ledger, sent>>
  PROVE  OneRun' /\ LedgerAhead' /\ RunsInOrder' /\ proc' \in [Procs -> Process]
<1>1. /\ proc' \in [Procs -> Process] /\ proc'[p] = Idle /\ Idle.pc = "idle"
      /\ \A q \in Procs \ {p} : proc'[q] = proc[q] /\ proc[q].pc = "idle"
  <2>1. \A q \in Procs \ {p} : proc[q].pc = "idle"
    BY DEF ExperimentInv, OneRun, Running
  <2>2. Idle.pc = "idle"
    BY DEF Idle
  <2> QED
    BY <2>1, <2>2, IdleType DEF ExperimentInv, TypeOK
<1>2. \A q \in Procs : proc'[q].pc = "idle"
  BY <1>1
<1>3. OneRun'
  BY <1>2, ExperimentAssumption DEF OneRun, Running
<1>4. LedgerAhead'
  BY <1>2 DEF ExperimentInv, LedgerAhead, Running
<1>5. RunsInOrder'
  BY <1>2 DEF RunsInOrder, InOrder, RecordsOK, Running
<1> QED
  BY <1>1, <1>3, <1>4, <1>5

(* A step that only moves the run on and at most keeps an answer.            *)
LEMMA MovingKeeps ==
  ASSUME ExperimentInv, NEW p \in Procs, Running(p), RunGoesOn(p),
         UNCHANGED <<universe, manifest, sample, ledger, results, metadata, report,
                     evidence, model, lock, changes>>,
         cache' \in SUBSET Answer,
         sent' = sent \/ (proc[p].pc = "send" /\ Leaves)
  PROVE  ExperimentInv'
<1>1. OneRun' /\ LedgerAhead' /\ RunsInOrder'
  BY GoesOnKeeps
<1>2. sent' \in Nat
  <2>1. CASE sent' = sent
    BY <2>1 DEF ExperimentInv, TypeOK
  <2>2. CASE Leaves
    <3>1. PICK i \in 1..PerCall : sent' = sent + i
      BY <2>2 DEF Leaves
    <3>2. PICK k \in Nat : k = PerCall
      BY ExperimentAssumption DEF PerCall
    <3> QED
      BY <3>1, <3>2 DEF ExperimentInv, TypeOK
  <2> QED
    BY <2>1, <2>2
<1>3. TypeOK'
  BY <1>2 DEF ExperimentInv, TypeOK, RunGoesOn
<1> QED
  BY <1>1, <1>3 DEF ExperimentInv

LEMMA CardKeeps ==
  ASSUME ExperimentInv, NEW p \in Procs, Card(p)
  PROVE  ExperimentInv'
<1>1. RunGoesOn(p)
  <2>1. CASE \E c \in CardStatus : CardIs(p, c)
    BY <2>1, CardIsGoesOn DEF Card, AtWork
  <2>2. CASE AskFor(p, "card")
    BY <2>2, AskForGoesOn DEF Card
  <2> QED
    BY <2>1, <2>2 DEF Card, CardStatus
<1>2. Running(p) /\ UNCHANGED <<files, evidence, model, lock, sent, changes>>
  BY DEF Card, Running
<1> QED
  BY <1>1, <1>2, MovingKeeps DEF files, ExperimentInv, TypeOK

LEMMA JudgeKeeps ==
  ASSUME ExperimentInv, NEW p \in Procs, Judge(p)
  PROVE  ExperimentInv'
<1>1. proc[p].pc = "work" /\ ~AtCard(p) /\ PairOf(p) \notin proc[p].done
  BY DEF Judge
<1>2. ASSUME NEW v \in Status, VerdictIs(p, v)
      PROVE  RunGoesOn(p)
  BY <1>1, <1>2, VerdictIsGoesOn DEF AtWork
<1>3. ASSUME NEW k \in {"recheck", "differences", "adjudicate"}, AskFor(p, k)
      PROVE  RunGoesOn(p)
  BY <1>1, <1>3, AskForGoesOn
<1>4. RunGoesOn(p)
  <2>1. CASE VerdictIs(p, WithoutCards(p))
    <3>1. WithoutCards(p) \in Status
      BY DEF WithoutCards, Status, Terminal
    <3> QED
      BY <1>2, <2>1, <3>1
  <2>2. CASE VerdictIs(p, "not_run")
    BY <1>2, <2>2 DEF Status
  <2>3. CASE ByRule(p)
    BY <1>2, <2>3 DEF ByRule, Status, Terminal
  <2>4. CASE ByModel(p)
    BY <1>2, <1>3, <2>4 DEF ByModel, Status
  <2> QED
    BY <2>1, <2>2, <2>3, <2>4 DEF Judge
<1>5. Running(p) /\ UNCHANGED <<files, evidence, model, lock, sent, changes>>
  BY DEF Judge, Running
<1> QED
  BY <1>4, <1>5, MovingKeeps DEF files, ExperimentInv, TypeOK

LEMMA SkipKeeps ==
  ASSUME ExperimentInv, NEW p \in Procs, Skip(p)
  PROVE  ExperimentInv'
<1> DEFINE r == proc[p]
           s == NextTask(proc[p])
<1>1. /\ r \in Process /\ InOrder(r) /\ r.pc = "work"
      /\ r.task \in 1..Len(Tasks) /\ r.task > CardCount /\ CardCount \in Nat /\ Len(Tasks) \in Nat
      /\ PairAt(r.task) \in r.done
  <2>1. r \in Process /\ InOrder(r)
    BY DEF ExperimentInv, TypeOK, RunsInOrder
  <2> QED
    BY <2>1, TasksAre DEF Skip, InOrder, Process, AtCard, CardCount, PairAt, PairOf, Current
<1>2. Len(r.card) = CardCount /\ Len(r.verdict) = 0
  BY <1>1 DEF InOrder, Verdicts
<1>3. Verdicts(r.task + 1, r.done) = 0
  <2>1. CASE VnextAt(r.task)
    BY <1>1, <2>1, TasksPairUp DEF Verdicts
  <2>2. CASE ~VnextAt(r.task)
    BY <1>1, <2>2, TasksPairUp DEF Verdicts
  <2> QED
    BY <2>1, <2>2
<1>4. InOrder(s)
  <2>1. Len(r.card) = (IF r.task + 1 <= CardCount THEN r.task ELSE CardCount)
    BY <1>1, <1>2
  <2> QED
    BY <1>1, <1>2, <1>3, <2>1, NextTaskInOrder
<1>5. s \in Process /\ Onward(r, s) /\ s.pc \in {"work", "finish"}
  <2>1. r.task <= Len(Tasks)
    BY <1>1
  <2> QED
    BY <1>1, <2>1, NextTaskType DEF Onward
<1>6. proc' = [proc EXCEPT ![p] = s]
  BY DEF Skip
<1>7. TypeOK /\ s.pc # "send" /\ Onward(proc[p], s)
  BY <1>5 DEF ExperimentInv
<1> HIDE DEF s
<1>8. RunGoesOn(p)
  BY <1>4, <1>5, <1>6, <1>7, OneRecordChanges
<1>9. Running(p) /\ UNCHANGED <<files, evidence, model, lock, sent, changes>>
  BY DEF Skip, Running
<1> QED
  BY <1>8, <1>9, MovingKeeps DEF files, ExperimentInv, TypeOK

(* Counting comes first: the ledger gets ahead of the requests here, and a  *)
(* request leaves only while it is ahead.                                  *)
LEMMA AskKeeps ==
  ASSUME ExperimentInv, NEW p \in Procs, Ask(p)
  PROVE  ExperimentInv'
<1> DEFINE r == proc[p]
           s == [proc[p] EXCEPT !.used = @ + 1, !.pc = "send"]
<1>1. /\ r \in Process /\ InOrder(r) /\ RecordsOK(p) /\ r.pc = "ask"
      /\ r.used = ledger /\ ledger \in 0..Limit /\ ledger < Limit /\ Limit \in Nat
      /\ sent \in Nat /\ sent <= PerCall * ledger
  <2>1. r \in Process /\ InOrder(r) /\ RecordsOK(p) /\ r.pc = "ask"
    BY DEF ExperimentInv, TypeOK, RunsInOrder, Ask
  <2>2. r.used = ledger
    BY <2>1 DEF ExperimentInv, LedgerAhead, Running
  <2>3. ledger \in 0..Limit /\ sent \in Nat /\ sent <= PerCall * ledger
    BY DEF ExperimentInv, TypeOK, LedgerAhead
  <2>4. ledger < Limit
    BY <2>2, <2>3, ExperimentAssumption DEF Ask, Exhausted
  <2> QED
    BY <2>1, <2>2, <2>3, <2>4, ExperimentAssumption
<1>2. /\ s \in Process /\ s.pc = "send" /\ s.used = ledger + 1
      /\ s.task = r.task /\ s.card = r.card /\ s.verdict = r.verdict /\ s.stage = r.stage
      /\ s.done = r.done /\ s.model = r.model /\ s.frozen = r.frozen
  <2>1. r.used + 1 \in 0..Limit /\ r.used + 1 = ledger + 1
    BY <1>1
  <2>2. r \in Process
    BY <1>1
  <2> QED
    BY <2>1, <2>2 DEF Process
<1>3. proc' = [proc EXCEPT ![p] = s]
  BY DEF Ask, ExperimentInv, TypeOK
<1>4. /\ ledger' = ledger + 1
      /\ UNCHANGED <<universe, manifest, sample, cache, results, metadata, report,
                     evidence, model, lock, sent, changes>>
  BY <1>1 DEF Ask, Counted
<1> HIDE DEF s
<1>5. /\ proc' \in [Procs -> Process] /\ proc'[p] = s
      /\ \A q \in Procs \ {p} : proc'[q] = proc[q] /\ proc[q].pc = "idle"
  <2>1. \A q \in Procs \ {p} : proc[q].pc = "idle"
    BY <1>1 DEF ExperimentInv, OneRun, Running
  <2> QED
    BY <1>2, <1>3, <2>1 DEF ExperimentInv, TypeOK
<1>6. TypeOK'
  <2>1. ledger' \in 0..Limit
    BY <1>1, <1>4
  <2> QED
    BY <1>4, <1>5, <2>1 DEF ExperimentInv, TypeOK
<1>7. OneRun'
  BY <1>1, <1>2, <1>4, <1>5 DEF ExperimentInv, OneRun, Running
<1>8. LedgerAhead'
  <2>1. \A q \in Procs : Running(q)' => proc'[q].used = ledger'
    BY <1>2, <1>4, <1>5 DEF Running
  <2>2. sent' + PerCall <= PerCall * ledger' /\ sent' <= PerCall * ledger'
    <3>1. ledger \in Nat
      BY <1>1
    <3>2. PICK n \in Nat, k \in Nat : /\ n = PerCall * ledger /\ k = PerCall
                                     /\ PerCall * (ledger + 1) = n + k
      BY <3>1, CallsAdd
    <3>3. sent' = sent /\ sent <= n
      BY <1>1, <1>4, <3>2
    <3>4. sent' + k <= n + k /\ sent' <= n + k
      BY <1>1, <3>2, <3>3
    <3>5. PerCall * ledger' = n + k
      BY <1>4, <3>2
    <3> QED
      BY <3>2, <3>4, <3>5
  <2> QED
    BY <2>1, <2>2 DEF LedgerAhead
<1>9. InOrder(s)
  BY <1>1, <1>2 DEF InOrder
<1>10. RecordsOK(p)'
  BY <1>1, <1>2, <1>4, <1>5 DEF RecordsOK, Running, OfThisRun
<1>11. ASSUME NEW q \in Procs, q # p
       PROVE  InOrder(proc'[q]) /\ RecordsOK(q)'
  BY <1>5, <1>11 DEF InOrder, RecordsOK, Running
<1> QED
  BY <1>5, <1>6, <1>7, <1>8, <1>9, <1>10, <1>11 DEF ExperimentInv, RunsInOrder

LEMMA SendKeeps ==
  ASSUME ExperimentInv, NEW p \in Procs, Send(p)
  PROVE  ExperimentInv'
<1>1. proc[p].pc = "send" /\ Running(p) /\ Leaves
      /\ UNCHANGED <<universe, manifest, sample, ledger, results, metadata, report,
                     evidence, model, lock, changes>>
  BY DEF Send, Running
<1>2. CASE Answered(p) /\ cache' = cache \cup Kept(p)
  <2>1. Kept(p) \subseteq Answer
    <3>1. proc[p] \in Process /\ InOrder(proc[p])
      BY DEF ExperimentInv, TypeOK, RunsInOrder
    <3>2. proc[p].stage # "rule"
      BY <1>1, <3>1 DEF InOrder
    <3>3. proc[p].stage # "recheck" => Key(p, proc[p].stage) \in Answer
      BY <1>1, <3>1, <3>2, KeyType DEF AtWork, Process
    <3> QED
      BY <3>3 DEF Kept
  <2>2. RunGoesOn(p)
    BY <1>1, <1>2, AnsweredGoesOn
  <2>3. cache' \in SUBSET Answer
    BY <1>2, <2>1 DEF ExperimentInv, TypeOK
  <2> QED
    BY <1>1, <2>2, <2>3, MovingKeeps
<1>3. CASE Failed(p) /\ UNCHANGED cache
  <2>1. RunGoesOn(p)
    BY <1>1, <1>3, FailedGoesOn
  <2>2. cache' \in SUBSET Answer
    BY <1>3 DEF ExperimentInv, TypeOK
  <2> QED
    BY <1>1, <2>1, <2>2, MovingKeeps
<1> QED
  BY <1>2, <1>3 DEF Send

LEMMA SendRefusedKeeps ==
  ASSUME ExperimentInv, NEW p \in Procs, SendRefused(p)
  PROVE  ExperimentInv'
<1> DEFINE s == [proc[p] EXCEPT !.temperature = FALSE, !.pc = "ask"]
<1>1. proc[p] \in Process /\ InOrder(proc[p]) /\ proc[p].pc = "send"
  BY DEF ExperimentInv, TypeOK, RunsInOrder, SendRefused
<1>2. /\ s \in Process /\ s.pc = "ask" /\ s.stage = proc[p].stage /\ s.task = proc[p].task
      /\ s.card = proc[p].card /\ s.verdict = proc[p].verdict /\ s.done = proc[p].done
      /\ s.model = proc[p].model /\ s.frozen = proc[p].frozen /\ s.used = proc[p].used
  BY <1>1 DEF Process
<1>3. proc' = [proc EXCEPT ![p] = s]
  BY DEF SendRefused, ExperimentInv, TypeOK
<1>4. /\ proc[p].stage # "rule"
      /\ AtCard(p) <=> proc[p].stage = "card"
      /\ ~AtCard(p) => PairOf(p) \notin proc[p].done
  <2>1. proc[p].task \in Nat /\ CardCount \in Nat
    BY <1>1, TasksAre DEF Process
  <2> QED
    BY <1>1, <2>1 DEF InOrder, AtCard, CardCount, PairAt, PairOf, Current
<1> HIDE DEF s
<1>5. RunGoesOn(p)
  BY <1>1, <1>2, <1>3, <1>4, SameTaskGoesOn DEF AtWork
<1>6. /\ Running(p) /\ Leaves
      /\ UNCHANGED <<files, evidence, model, lock, changes>>
  BY DEF SendRefused, Running
<1> QED
  BY <1>1, <1>5, <1>6, MovingKeeps DEF files, ExperimentInv, TypeOK

LEMMA NoBudgetKeeps ==
  ASSUME ExperimentInv, NEW p \in Procs, NoBudget(p)
  PROVE  ExperimentInv'
<1>1. RunGoesOn(p) /\ Running(p)
  BY FailedGoesOn DEF NoBudget, Running
<1>2. UNCHANGED <<files, evidence, model, lock, sent, changes>>
  BY DEF NoBudget
<1> QED
  BY <1>1, <1>2, MovingKeeps DEF files, ExperimentInv, TypeOK

(* Both judgements are there when the pair is written, in the context of    *)
(* this run.                                                               *)
LEMMA WriteKeeps ==
  ASSUME ExperimentInv, NEW p \in Procs, Write(p)
  PROVE  ExperimentInv'
<1> DEFINE r == proc[p]
           x == [proc[p] EXCEPT !.verdict = <<>>]
           s == NextTask(x)
<1>a. PICK q0 : q0 = PairOf(p)
  OBVIOUS
<1> DEFINE ctx == ContextOf(q0, r.model, r.frozen)
           sts == [y \in SystemSet |-> r.verdict[IF y = "baseline" THEN 1 ELSE 2]]
<1>1. /\ r \in Process /\ InOrder(r) /\ RecordsOK(p) /\ r.pc = "write"
      /\ r.task \in 1..Len(Tasks) /\ r.task > CardCount /\ CardCount \in Nat /\ Len(Tasks) \in Nat
      /\ VnextAt(r.task) /\ Len(r.verdict) = 2
  <2>1. r \in Process /\ InOrder(r) /\ RecordsOK(p) /\ r.pc = "write"
    BY DEF ExperimentInv, TypeOK, RunsInOrder, Write
  <2>2. CardCount \in Nat /\ Len(Tasks) \in Nat /\ r.task \in 1..(Len(Tasks) + 1)
    BY <2>1, TasksAre DEF Process
  <2>3. r.task <= Len(Tasks) /\ VnextAt(r.task) /\ Len(r.verdict) = 2
    BY <2>1 DEF InOrder
  <2> QED
    BY <2>1, <2>2, <2>3 DEF VnextAt
<1>2. /\ q0 = PairAt(r.task) /\ q0 \in Pairs
      /\ r.model \in Models /\ r.frozen \in Manifest
  <2>1. Tasks[r.task].item \in DOMAIN PairSeq
    BY <1>1, TasksAre
  <2>2. q0 = PairSeq[Tasks[r.task].item]
    BY <1>a DEF PairOf, Current
  <2>3. r.model \in Models /\ r.frozen \in Manifest
    BY <1>1 DEF RecordsOK, Running
  <2> QED
    BY <2>1, <2>2, <2>3, PairsAre DEF PairAt
<1>3. [context |-> ctx, status |-> sts] \in Record
  <2>1. q0 \in Variants \X Variants
    BY <1>2, PairsAre
  <2>2. PICK a \in Variants, b \in Variants : q0 = <<a, b>>
    BY <2>1
  <2>3. ctx = [model |-> r.model, gold |-> r.frozen.gold,
               evidence |-> <<r.frozen.evidence[a], r.frozen.evidence[b]>>]
    BY <2>2 DEF ContextOf
  <2>4. /\ r.frozen.evidence[a] \in Nat /\ r.frozen.evidence[b] \in Nat
        /\ r.frozen.gold \in Golds
    BY <1>2, <2>2 DEF Manifest
  <2>5. ctx \in [model : Models, gold : Golds, evidence : Nat \X Nat]
    BY <1>2, <2>3, <2>4
  <2>6. r.verdict[1] \in Status /\ r.verdict[2] \in Status
    <3>1. r.verdict \in Seq(Status) /\ 1 \in 1..Len(r.verdict) /\ 2 \in 1..Len(r.verdict)
      BY <1>1 DEF Process
    <3> QED
      BY <3>1
  <2>7. sts \in [SystemSet -> Status]
    BY <2>6
  <2> HIDE DEF ctx, sts
  <2> QED
    BY <2>5, <2>7 DEF Record
<1>4. /\ results' = [results EXCEPT ![q0] = [context |-> ctx, status |-> sts]]
      /\ proc' = [proc EXCEPT ![p] = s]
      /\ UNCHANGED <<universe, manifest, sample, ledger, cache, metadata, report,
                     evidence, model, lock, sent, changes>>
  BY <1>a DEF Write
<1>5. /\ x \in Process /\ x.task = r.task /\ x.card = r.card /\ x.verdict = <<>>
      /\ x.done = r.done /\ x.model = r.model /\ x.frozen = r.frozen /\ x.used = r.used
  <2>1. <<>> \in Seq(Status) /\ r \in Process
    BY <1>1
  <2> QED
    BY <2>1 DEF Process
<1> HIDE DEF x
<1>6. /\ s \in Process /\ s.task = r.task + 1 /\ s.model = r.model /\ s.frozen = r.frozen
      /\ s.done = r.done /\ s.used = r.used /\ s.pc \in {"work", "finish"}
      /\ s.pc = "finish" => s.task = Len(Tasks) + 1
  <2>1. x.task <= Len(Tasks)
    BY <1>1, <1>5
  <2> QED
    BY <1>5, <2>1, NextTaskType
<1>7. InOrder(s)
  <2>1. Verdicts(r.task + 1, r.done) = 0
    BY <1>1, TasksPairUp DEF Verdicts
  <2>2. Len(r.card) = CardCount /\ Len(<<>>) = 0
    BY <1>1 DEF InOrder
  <2>3. /\ x.task <= Len(Tasks)
        /\ Len(x.card) = (IF x.task + 1 <= CardCount THEN x.task ELSE CardCount)
    BY <1>1, <1>5, <2>2
  <2>4. Len(x.verdict) = Verdicts(x.task + 1, x.done)
    BY <1>5, <2>1, <2>2
  <2> QED
    BY <1>5, <2>3, <2>4, NextTaskInOrder
<1> HIDE DEF s, ctx, sts
<1>8. /\ proc' \in [Procs -> Process] /\ proc'[p] = s
      /\ \A q \in Procs \ {p} : proc'[q] = proc[q] /\ proc[q].pc = "idle"
  <2>1. \A q \in Procs \ {p} : proc[q].pc = "idle"
    BY <1>1 DEF ExperimentInv, OneRun, Running
  <2> QED
    BY <1>4, <1>6, <2>1 DEF ExperimentInv, TypeOK
<1>9. /\ results' \in [Pairs -> Record \cup {NoFile}]
      /\ results'[q0].context = ctx
      /\ \A q \in Pairs : q # q0 => results'[q] = results[q]
  BY <1>2, <1>3, <1>4 DEF ExperimentInv, TypeOK
<1>10. TypeOK'
  BY <1>4, <1>8, <1>9 DEF ExperimentInv, TypeOK
<1>11. OneRun'
  BY <1>1, <1>4, <1>6, <1>8 DEF ExperimentInv, OneRun, Running
<1>12. LedgerAhead'
  <2>1. r.used = ledger /\ sent <= PerCall * ledger
    BY <1>1 DEF ExperimentInv, LedgerAhead, Running
  <2>2. \A q \in Procs : proc'[q].pc # "send"
    BY <1>6, <1>8
  <2>3. \A q \in Procs : Running(q)' => proc'[q].used = ledger'
    BY <1>4, <1>6, <1>8, <2>1 DEF Running
  <2> QED
    BY <1>4, <2>1, <2>2, <2>3 DEF LedgerAhead
<1>13. \A q \in Pairs : q = q0 \/ OfThisRun(p, q) => OfThisRun(p, q)'
  <2>1. \A q \in Pairs : q # q0 /\ OfThisRun(p, q) => OfThisRun(p, q)'
    BY <1>6, <1>8, <1>9 DEF OfThisRun
  <2>2. OfThisRun(p, q0)'
    BY <1>6, <1>8, <1>9 DEF OfThisRun, ctx
  <2> QED
    BY <2>1, <2>2
<1>14. RecordsOK(p)'
  <2>1. \A q \in r.done : q \in Pairs /\ OfThisRun(p, q)
    BY <1>1 DEF RecordsOK, Running, Process
  <2>2. ASSUME NEW i \in DOMAIN PairSeq, CardCount + 2 * i < s.task
        PROVE  PairSeq[i] = q0 \/ OfThisRun(p, PairSeq[i])
    <3>a. i \in Nat /\ CardCount \in Nat /\ r.task \in Nat
      BY <1>1, PairsAre
    <3>1. CardCount + 2 * i < r.task \/ r.task = CardCount + 2 * i
      <4>1. s.task = r.task + 1
        BY <1>6
      <4> HIDE DEF r
      <4> QED
        BY <2>2, <3>a, <4>1
    <3>2. CASE CardCount + 2 * i < r.task
      BY <1>1, <3>2 DEF RecordsOK, Running
    <3>3. CASE r.task = CardCount + 2 * i
      <4>1. Tasks[r.task].item = (r.task - CardCount + 1) \div 2
        BY <1>1, TasksAre
      <4>2. r.task - CardCount + 1 = 2 * i + 1
        BY <3>a, <3>3
      <4>3. (2 * i + 1) \div 2 = i
        BY <3>a, HalfOfOdd
      <4> QED
        BY <1>2, <4>1, <4>2, <4>3 DEF PairAt
    <3> QED
      BY <3>1, <3>2, <3>3
  <2>3. \A i \in DOMAIN PairSeq : CardCount + 2 * i < s.task => OfThisRun(p, PairSeq[i])'
    BY <2>2, <1>13, PairsAre
  <2>4. \A q \in s.done : OfThisRun(p, q)'
    BY <2>1, <1>6, <1>13
  <2> QED
    BY <1>2, <1>6, <1>8, <2>3, <2>4 DEF RecordsOK
<1>15. ASSUME NEW q \in Procs, q # p
       PROVE  InOrder(proc'[q]) /\ RecordsOK(q)'
  BY <1>8, <1>15 DEF InOrder, RecordsOK, Running
<1> QED
  BY <1>7, <1>8, <1>10, <1>11, <1>12, <1>14, <1>15 DEF ExperimentInv, RunsInOrder

LEMMA LeaveKeeps ==
  ASSUME ExperimentInv, NEW p \in Procs, proc[p].pc # "idle",
         NEW s \in {"completed", "partial", "interrupted"}, Leave(p, s)
  PROVE  ExperimentInv'
<1>1. OneRun' /\ LedgerAhead' /\ RunsInOrder' /\ proc' \in [Procs -> Process]
  BY EndingKeeps DEF Leave
<1>2. proc[p].model \in Models /\ proc[p].frozen \in Manifest
  BY DEF ExperimentInv, RunsInOrder, RecordsOK, Running
<1>3. metadata' \in [status : {"completed", "partial", "interrupted"},
                     model : Models, manifest : Manifest]
  BY <1>2 DEF Leave, Metadata
<1>4. UNCHANGED <<universe, manifest, sample, ledger, cache, results, report,
                  evidence, model, sent, changes>> /\ lock' = None
  BY DEF Leave
<1> QED
  BY <1>1, <1>3, <1>4 DEF ExperimentInv, TypeOK

LEMMA CrashKeeps ==
  ASSUME ExperimentInv, NEW p \in Procs, Crash(p)
  PROVE  ExperimentInv'
<1>1. lock' = None
  BY DEF Crash, ExperimentInv, OneRun, Running
<1>2. OneRun' /\ LedgerAhead' /\ RunsInOrder' /\ proc' \in [Procs -> Process]
  BY <1>1, EndingKeeps DEF Crash, files
<1>3. UNCHANGED <<files, evidence, model, sent, changes>>
  BY DEF Crash
<1> QED
  BY <1>1, <1>2, <1>3 DEF ExperimentInv, TypeOK, files

LEMMA NextInv == ExperimentInv /\ [Next]_vars => ExperimentInv'
<1> SUFFICES ASSUME ExperimentInv, [Next]_vars PROVE ExperimentInv'
  OBVIOUS
<1>1. CASE Prepare \/ Confirm \/ Freeze \/ Sample \/ Meanwhile \/ Report
  BY <1>1, PreparingKeeps
<1>2. ASSUME NEW p \in Procs, Step(p)
      PROVE  ExperimentInv'
  <2>1. Finish(p) => ExperimentInv'
    BY LeaveKeeps DEF Finish
  <2> QED
    BY <1>2, <2>1, StartKeeps, CardKeeps, JudgeKeeps, SkipKeeps, AskKeeps, SendKeeps,
       SendRefusedKeeps, NoBudgetKeeps, WriteKeeps DEF Step
<1>3. ASSUME NEW p \in Procs, Interrupted(p)
      PROVE  ExperimentInv'
  BY <1>3, LeaveKeeps DEF Interrupted
<1>4. ASSUME NEW p \in Procs, Crash(p)
      PROVE  ExperimentInv'
  BY <1>4, CrashKeeps
<1>5. CASE UNCHANGED vars
  BY <1>5 DEF vars, files, ExperimentInv, TypeOK, OneRun, LedgerAhead, RunsInOrder,
              Running, RecordsOK, OfThisRun
<1> QED
  BY <1>1, <1>2, <1>3, <1>4, <1>5 DEF Next

(* scripts/run_merge_family_experiment.py, whatever the pairs, processes and *)
(* limits: every file and every process stays in its domain, only the holder *)
(* of run.lock runs, the ledger is ahead of what was sent, and a process is  *)
(* in order in its tasks and records.                                      *)
THEOREM ExperimentsStayInOrder == Spec => []ExperimentInv
<1> QED
  BY InitInv, NextInv, PTL DEF Spec

(* The files of an experiment hold what their formats say (the records of    *)
(* results.jsonl have both judgements, the cache the keys asked for).        *)
THEOREM FilesAreTyped == Spec => []TypeOK
<1>1. ExperimentInv => TypeOK
  BY DEF ExperimentInv
<1> QED
  BY <1>1, ExperimentsStayInOrder, PTL

(* RequestBudget and _load_request_ledger: all runs together, crashed ones   *)
(* and refused ones included, make no more calls than the limit, so that no   *)
(* more requests leave than the client sends for that many calls.           *)
THEOREM BudgetHolds == Spec => []CallsWithinLimit
<1>1. ExperimentInv => CallsWithinLimit
  <2> SUFFICES ASSUME ExperimentInv PROVE CallsWithinLimit
    OBVIOUS
  <2>1. ledger \in Nat /\ ledger <= Limit /\ sent \in Nat /\ sent <= PerCall * ledger
    BY ExperimentAssumption DEF ExperimentInv, TypeOK, LedgerAhead
  <2>2. PerCall * ledger <= PerCall * Limit /\ PerCall * ledger \in Nat /\ PerCall * Limit \in Nat
    BY <2>1, CallsAdd, ExperimentAssumption
  <2> QED
    BY <2>1, <2>2 DEF CallsWithinLimit
<1> QED
  BY <1>1, ExperimentsStayInOrder, PTL

----------------------------------------------------------------------------
(* At the end of a run every pair that is judged was judged in its context.  *)
LEMMA EveryPairIsOfThisRun ==
  ASSUME ExperimentInv, NEW p \in Procs, proc[p].pc = "finish", NEW q \in Pairs
  PROVE  OfThisRun(p, q)
<1>1. RecordsOK(p) /\ Running(p)
  BY DEF ExperimentInv, RunsInOrder, Running
<1>2. CASE proc[p].done = Pairs
  BY <1>1, <1>2 DEF RecordsOK
<1>3. CASE proc[p].task = Len(Tasks) + 1
  <2>1. PICK i \in DOMAIN PairSeq : q = PairSeq[i]
    BY PairsAre
  <2>2. /\ i \in 1..Len(PairSeq) /\ CardCount \in Nat /\ Len(PairSeq) \in Nat
        /\ Len(Tasks) = CardCount + 2 * Len(PairSeq)
    BY TasksAre, ExperimentAssumption
  <2>3. CardCount + 2 * i < proc[p].task
    BY <1>3, <2>2
  <2> QED
    BY <1>1, <2>1, <2>3 DEF RecordsOK
<1> QED
  BY <1>1, <1>2, <1>3 DEF RecordsOK

LEMMA StepKeepsContext == ExperimentInv /\ [Next]_vars => [ContextStep]_vars
<1> SUFFICES ASSUME ExperimentInv, Next PROVE ContextStep
  OBVIOUS
<1>1. ASSUME metadata' # metadata, metadata'.status = "completed", NEW q \in Pairs
      PROVE  JudgedIn(q, metadata')
  <2>1. PICK p \in Procs : Finish(p) \/ Interrupted(p)
    BY <1>1 DEF Next, Step, files, Prepare, Confirm, Freeze, Sample, Meanwhile, Report,
                StartRun, Card, Judge, Skip, Ask, Send, SendRefused, NoBudget, Write, Crash
  <2>2. Finish(p) /\ \A y \in Pairs : Judged(y)
    <3>1. ASSUME NEW t, Leave(p, t), t # "completed"
          PROVE  FALSE
      BY <1>1, <3>1 DEF Leave, Metadata
    <3> QED
      BY <2>1, <3>1 DEF Finish, Interrupted
  <2>3. /\ metadata'.model = proc[p].model /\ metadata'.manifest = proc[p].frozen
        /\ results' = results
    BY <2>2 DEF Finish, Leave, Metadata
  <2>4. OfThisRun(p, q)
    BY <2>2, EveryPairIsOfThisRun DEF Finish
  <2> QED
    BY <2>2, <2>3, <2>4 DEF JudgedIn, OfThisRun, ContextOf
<1>2. ASSUME report' = "complete", report # "complete", NEW q \in Pairs
      PROVE  JudgedIn(q, metadata)
  <2>1. Report
    BY <1>2 DEF Next, Step, files, Prepare, Confirm, Freeze, Sample, Meanwhile, StartRun, Card,
                Judge, Skip, Ask, Send, SendRefused, NoBudget, Write, Finish, Interrupted,
                Leave, Crash
  <2>2. Complete(q) /\ metadata.manifest = manifest
    BY <1>2, <2>1 DEF Report
  <2> QED
    BY <2>2 DEF Complete, Included, JudgedIn
<1> QED
  BY <1>1, <1>2 DEF ContextStep

(* _record_reusable, _cmd_run_locked and cmd_report: metadata that say        *)
(* completed, and a report that becomes complete, are about one model, one   *)
(* gold standard and one set of analyses, however many runs, interruptions   *)
(* and changed inputs came before.                                         *)
THEOREM RunsKeepOneContext == Spec => OneContext
<1> QED
  BY ExperimentsStayInOrder, StepKeepsContext, PTL DEF Spec, OneContext

(***************************************************************************)
(* The shared cards.  CardKeys in the cache are different; a card of the        *)
(* present era of its key is the one that is kept; cards of one era are the *)
(* same card.                                                              *)
(***************************************************************************)
BatchEntry == [card : Nat, era : Nat, seen : BOOLEAN]
SharingTypes ==
    /\ v1 \in Seq(CardKeys) /\ Len(v1) <= CacheLimit
    /\ v2 \in [CardKeys -> Nat] /\ v3 \in [Threads -> [CardKeys -> BatchEntry]]
    /\ v4 \in [Threads -> CardKeys \cup {Sharing!NoKey}]
    /\ v5 \in Nat /\ v6 \in [CardKeys -> Nat]
KeptOnce == \A i, j \in 1..Len(v1) : v1[i] = v1[j] => i = j
Present(e, k) == e.era <= v6[k] /\ (e.card # 0 /\ e.era = v6[k] => Sharing!Has(k) /\ v2[k] = e.card)
SharingInv ==
    /\ SharingTypes /\ KeptOnce
    /\ \A t \in Threads : \A k \in CardKeys : Present(v3[t][k], k)
    /\ Sharing!OneCardPerKey

(* Using a key moves it to the end of the cache, or puts it there: the keys *)
(* are those of before and this one, each once.                            *)
LEMMA UsedKeys ==
    ASSUME v1 \in Seq(CardKeys), KeptOnce, NEW k \in CardKeys
    PROVE  LET u == Sharing!UsedNow(k) IN
           /\ u \in Seq(CardKeys)
           /\ Sharing!Has(k) => Len(u) = Len(v1)
           /\ ~Sharing!Has(k) => u = Append(v1, k)
           /\ \A i, j \in 1..Len(u) : u[i] = u[j] => i = j
           /\ \A x \in CardKeys : (\E i \in DOMAIN u : u[i] = x) <=> x = k \/ Sharing!Has(x)
<1> DEFINE n == Len(v1)
<1>0. n \in Nat /\ DOMAIN v1 = 1..n /\ (\A i \in 1..n : v1[i] \in CardKeys) BY LenProperties, ElementOfSeq
<1>1. CASE Sharing!Has(k)
  <2> PICK m \in DOMAIN v1 : m = Sharing!Place(k) /\ v1[m] = k
    BY <1>1 DEF Sharing!Has, Sharing!Place
  <2> DEFINE a == SubSeq(v1, 1, m - 1)
             b == SubSeq(v1, m + 1, n)
             u == Append(a \o b, k)
  <2>1. Sharing!UsedNow(k) = u BY <1>1 DEF Sharing!UsedNow, Sharing!RemoveAt
  <2>2. m \in 1..n BY <1>0
  <2>3. a \in Seq(CardKeys) /\ Len(a) = m - 1 /\ \A i \in 1..(m - 1) : a[i] = v1[i]
    BY <1>0, <2>2
  <2>4. b \in Seq(CardKeys) /\ Len(b) = n - m /\ \A i \in 1..(n - m) : b[i] = v1[m + i]
    BY <1>0, <2>2
  <2>5. a \o b \in Seq(CardKeys) /\ Len(a \o b) = n - 1
        /\ \A i \in 1..(n - 1) : (a \o b)[i] = IF i < m THEN v1[i] ELSE v1[i + 1]
    <3> HIDE DEF a, b
    <3>1. a \o b \in Seq(CardKeys) /\ Len(a \o b) = Len(a) + Len(b)
          /\ \A i \in 1..(Len(a) + Len(b)) :
               (a \o b)[i] = IF i <= Len(a) THEN a[i] ELSE b[i - Len(a)]
      BY <2>3, <2>4, ConcatProperties
    <3>2. Len(a) + Len(b) = n - 1 BY <1>0, <2>2, <2>3, <2>4
    <3>3. ASSUME NEW i \in 1..(n - 1)
          PROVE  (a \o b)[i] = IF i < m THEN v1[i] ELSE v1[i + 1]
      <4>0. i \in Int /\ i >= 1 /\ i <= n - 1 BY <1>0, <3>3
      <4>1. CASE i < m
        <5>1. i \in 1..(m - 1) /\ i <= Len(a) BY <2>2, <2>3, <4>0, <4>1
        <5>2. i \in 1..(Len(a) + Len(b)) BY <3>2, <3>3
        <5> QED BY <2>3, <3>1, <4>1, <5>1, <5>2
      <4>2. CASE ~(i < m)
        <5>1. (a \o b)[i] = b[i - (m - 1)] BY <1>0, <2>2, <2>3, <3>1, <3>2, <4>2
        <5>2. i - (m - 1) \in 1..(n - m) /\ m + (i - (m - 1)) = i + 1 BY <1>0, <2>2, <4>2
        <5> QED BY <2>2, <2>4, <4>2, <5>1, <5>2
      <4> QED BY <4>1, <4>2
    <3> QED BY <3>1, <3>2, <3>3
  <2>6. u \in Seq(CardKeys) /\ Len(u) = n /\ u[n] = k
        /\ \A i \in 1..(n - 1) : u[i] = IF i < m THEN v1[i] ELSE v1[i + 1]
    <3> DEFINE c == a \o b
    <3>1. c \in Seq(CardKeys) /\ Len(c) = n - 1 BY <2>5
    <3>2. \A i \in 1..(n - 1) : c[i] = IF i < m THEN v1[i] ELSE v1[i + 1] BY <2>5
    <3> HIDE DEF c
    <3>3. Append(c, k) \in Seq(CardKeys) /\ Len(Append(c, k)) = Len(c) + 1
          /\ Append(c, k)[Len(c) + 1] = k
          /\ \A i \in 1..Len(c) : Append(c, k)[i] = c[i]
      BY <3>1, AppendProperties
    <3>4. n - 1 + 1 = n BY <1>0
    <3> QED BY <3>1, <3>2, <3>3, <3>4 DEF c
  <2>0. n \in Nat BY <1>0
  <2> HIDE DEF u
  <2>7. \A i, j \in 1..n : u[i] = u[j] => i = j
    <3> SUFFICES ASSUME NEW i \in 1..n, NEW j \in 1..n, i < j, u[i] = u[j] PROVE FALSE
      BY <1>0
    <3> DEFINE x == IF i < m THEN i ELSE i + 1
    <3>1. x \in 1..n /\ u[i] = v1[x] /\ x # m BY <1>0, <2>2, <2>6
    <3>2. CASE j = n BY <1>0, <2>2, <2>6, <3>1, <3>2 DEF KeptOnce
    <3>3. CASE j # n
      <4>1. j \in 1..(n - 1) /\ i \in 1..(n - 1) BY <2>0, <3>3
      <4>2. CASE j < m BY <1>0, <2>2, <2>6, <4>1, <4>2 DEF KeptOnce
      <4>3. CASE ~(j < m)
        <5>1. u[j] = v1[j + 1] BY <2>6, <4>1, <4>3
        <5>2. j + 1 \in 1..n /\ i \in Int /\ j \in Int BY <2>0, <4>1
        <5>3. x # j + 1 BY <5>2
        <5> QED BY <3>1, <5>1, <5>2, <5>3 DEF KeptOnce
      <4> QED BY <4>2, <4>3
    <3> QED BY <3>2, <3>3
  <2>8. ASSUME NEW x \in CardKeys PROVE (\E i \in 1..n : u[i] = x) <=> x = k \/ \E i \in 1..n : v1[i] = x
    <3>1. ASSUME NEW i \in 1..n PROVE \E h \in 1..n : u[i] = v1[h]
      <4>1. CASE i = n BY <2>2, <2>6, <4>1
      <4>2. CASE i # n
        <5>1. i \in 1..(n - 1) /\ i + 1 \in 1..n BY <2>0, <4>2
        <5>2. CASE i < m BY <2>6, <5>1, <5>2
        <5>3. CASE ~(i < m) BY <2>6, <5>1, <5>3
        <5> QED BY <5>2, <5>3
      <4> QED BY <4>1, <4>2
    <3>2. ASSUME NEW i \in 1..n PROVE \E h \in 1..n : v1[i] = u[h]
      <4>1. CASE i = m BY <1>0, <2>2, <2>6, <4>1
      <4>2. CASE i # m
        <5>1. CASE i < m BY <1>0, <2>2, <2>6, <5>1
        <5>2. CASE i > m
          <6>1. i - 1 \in 1..(n - 1) /\ ~(i - 1 < m) /\ i - 1 + 1 = i BY <1>0, <2>2, <5>2
          <6> QED BY <1>0, <2>6, <6>1
        <5> QED BY <1>0, <2>2, <4>2, <5>1, <5>2
      <4> QED BY <4>1, <4>2
    <3>3. \E i \in 1..n : u[i] = k BY <1>0, <2>2, <2>6
    <3>4. ASSUME NEW i \in 1..n, u[i] = x PROVE \E h \in 1..n : v1[h] = x
      BY <3>1, <3>4, Zenon
    <3>5. ASSUME NEW i \in 1..n, v1[i] = x PROVE \E h \in 1..n : u[h] = x
      BY <3>2, <3>5, Zenon
    <3> QED BY <3>3, <3>4, <3>5
  <2>9. DOMAIN u = 1..n BY <2>6, LenProperties
  <2> QED BY <1>0, <1>1, <2>1, <2>6, <2>7, <2>8, <2>9 DEF Sharing!Has
<1>2. CASE ~Sharing!Has(k)
  <2> DEFINE u == Append(v1, k)
  <2>1. Sharing!UsedNow(k) = u BY <1>2 DEF Sharing!UsedNow
  <2>2. u \in Seq(CardKeys) /\ Len(u) = n + 1 /\ u[n + 1] = k /\ \A i \in 1..n : u[i] = v1[i]
    BY <1>0
  <2>3. DOMAIN u = 1..(n + 1) BY <2>2, LenProperties
  <2>4. \A i \in 1..n : v1[i] # k BY <1>0, <1>2 DEF Sharing!Has
  <2> HIDE DEF u
  <2>5. \A i, j \in 1..(n + 1) : u[i] = u[j] => i = j
    <3> SUFFICES ASSUME NEW i \in 1..(n + 1), NEW j \in 1..(n + 1), i < j, u[i] = u[j] PROVE FALSE
      BY <1>0
    <3> QED BY <1>0, <2>2, <2>4 DEF KeptOnce
  <2>6. ASSUME NEW x \in CardKeys
        PROVE  (\E i \in 1..(n + 1) : u[i] = x) <=> x = k \/ \E i \in 1..n : v1[i] = x
    BY <1>0, <2>2
  <2> QED BY <1>0, <1>2, <2>1, <2>2, <2>3, <2>5, <2>6 DEF Sharing!Has, u
<1> QED BY <1>1, <1>2

LEMMA SharingStarts == MCInit /\ part = "sharing" => SharingInv
<1> SUFFICES ASSUME Sharing!Init PROVE SharingInv
  BY DEF MCInit
<1>1. SharingTypes
  <2>1. v1 = <<>> /\ Len(v1) = 0 BY DEF Sharing!Init
  <2>2. 0 <= CacheLimit BY JudgingAssumption
  <2>3. v3 \in [Threads -> [CardKeys -> BatchEntry]]
    BY DEF Sharing!Init, Sharing!Unseen, BatchEntry
  <2> QED BY <2>1, <2>2, <2>3 DEF Sharing!Init, SharingTypes
<1>2. KeptOnce BY DEF Sharing!Init, KeptOnce
<1>3. \A t \in Threads : \A k \in CardKeys : Present(v3[t][k], k)
  BY DEF Sharing!Init, Sharing!Unseen, Present
<1>4. Sharing!OneCardPerKey
  BY DEF Sharing!Init, Sharing!Unseen, Sharing!OneCardPerKey
<1> QED BY <1>1, <1>2, <1>3, <1>4 DEF SharingInv

(* One batch gets an entry of the present era: the others stay in order if   *)
(* the cache still has what they took from it.                             *)
LEMMA OneEntry ==
    ASSUME SharingInv, SharingTypes', KeptOnce', NEW t \in Threads, NEW k \in CardKeys,
           NEW e \in BatchEntry, v3' = [v3 EXCEPT ![t][k] = e],
           e.era = v6'[k], Present(e, k)',
           \A u \in Threads : \A x \in CardKeys : \A f \in BatchEntry :
               f = v3[u][x] /\ ~(u = t /\ x = k) => Present(f, x)'
    PROVE  SharingInv'
<1>1. /\ v3 \in [Threads -> [CardKeys -> BatchEntry]]
      /\ \A u \in Threads : \A x \in CardKeys : v3'[u][x] = IF u = t /\ x = k THEN e ELSE v3[u][x]
  BY DEF SharingInv, SharingTypes
<1>2. ASSUME NEW u \in Threads, NEW x \in CardKeys
      PROVE  \E f \in BatchEntry : f = v3'[u][x] /\ Present(f, x)'
  <2>1. CASE u = t /\ x = k BY <1>1, <2>1
  <2>2. CASE ~(u = t /\ x = k) BY <1>1, <2>2
  <2> QED BY <2>1, <2>2
<1>3. \A u \in Threads : \A x \in CardKeys : Present(v3[u][x], x)'
  BY <1>2 DEF Present
<1>4. ASSUME NEW u \in Threads, NEW w \in Threads, NEW x \in CardKeys,
             v3'[u][x].card # 0, v3'[w][x].card # 0, v3'[u][x].era = v3'[w][x].era
      PROVE  v3'[u][x].card = v3'[w][x].card
  <2>1. CASE x # k
    BY <1>1, <1>4, <2>1 DEF SharingInv, Sharing!OneCardPerKey
  <2>2. CASE x = k /\ u # t /\ w # t
    BY <1>1, <1>4, <2>2 DEF SharingInv, Sharing!OneCardPerKey
  <2>3. CASE x = k /\ (u = t \/ w = t)
    <3>1. v3'[u][k].era = v6'[k] /\ v3'[w][k].era = v6'[k]
      BY <1>1, <1>4, <2>3
    <3>2. v2'[k] = v3'[u][k].card /\ v2'[k] = v3'[w][k].card
      BY <1>3, <1>4, <2>3, <3>1 DEF Present
    <3> QED BY <2>3, <3>2
  <2> QED BY <2>1, <2>2, <2>3
<1>5. Sharing!OneCardPerKey' BY <1>4 DEF Sharing!OneCardPerKey
<1> QED BY <1>3, <1>5 DEF SharingInv

(* A batch that takes the kept card of a key in the cache, or none of a key  *)
(* out of it: the cache only moves that key.                               *)
LEMMA HitOrNothing ==
    ASSUME SharingInv, NEW t \in Threads, NEW k \in CardKeys, NEW c \in Nat,
           Sharing!Holds(t, k, c), v2' = v2, v5' = v5, v6' = v6,
           v4' \in [Threads -> CardKeys \cup {Sharing!NoKey}],
           \/ Sharing!Has(k) /\ c = v2[k] /\ v1' = Sharing!UsedNow(k)
           \/ ~Sharing!Has(k) /\ c = 0 /\ v1' = v1
    PROVE  SharingInv'
<1>1. /\ v1' \in Seq(CardKeys) /\ Len(v1') = Len(v1) /\ KeptOnce'
      /\ \A x \in CardKeys : Sharing!Has(x)' <=> Sharing!Has(x)
  <2>1. CASE Sharing!Has(k)
    <3>1. v1' = Sharing!UsedNow(k) BY <2>1
    <3>2. v1 \in Seq(CardKeys) /\ KeptOnce BY DEF SharingInv, SharingTypes
    <3>3. /\ v1' \in Seq(CardKeys) /\ Len(v1') = Len(v1)
          /\ \A i, j \in 1..Len(v1') : v1'[i] = v1'[j] => i = j
          /\ \A x \in CardKeys : (\E i \in DOMAIN v1' : v1'[i] = x) <=> x = k \/ Sharing!Has(x)
      BY <2>1, <3>1, <3>2, UsedKeys
    <3> QED BY <2>1, <3>3 DEF Sharing!Has, KeptOnce
  <2>2. CASE ~Sharing!Has(k)
    BY <2>2 DEF SharingInv, SharingTypes, KeptOnce, Sharing!Has
  <2> QED BY <2>1, <2>2
<1>2. PICK e : e = [card |-> c, era |-> v6[k], seen |-> TRUE] OBVIOUS
<1>3. e \in BatchEntry /\ e.card = c /\ e.era = v6[k]
  BY <1>2 DEF BatchEntry, SharingInv, SharingTypes
<1>4. v3' = [v3 EXCEPT ![t][k] = e] BY <1>2 DEF Sharing!Holds
<1>5. v3' \in [Threads -> [CardKeys -> BatchEntry]] BY <1>3, <1>4 DEF SharingInv, SharingTypes
<1>6. SharingTypes' BY <1>1, <1>5 DEF SharingInv, SharingTypes
<1>7. Present(e, k)'
  <2>1. v6[k] \in Nat BY DEF SharingInv, SharingTypes
  <2> QED BY <1>1, <1>3, <2>1 DEF Present
<1>8. ASSUME NEW u \in Threads, NEW x \in CardKeys, NEW f \in BatchEntry, f = v3[u][x]
      PROVE  Present(f, x)'
  <2>1. Present(f, x) BY <1>8 DEF SharingInv
  <2> QED BY <1>1, <2>1 DEF Present
<1> QED BY <1>1, <1>3, <1>4, <1>6, <1>7, <1>8, OneEntry

(* A card that no cache has: the thread that asked stores it, and the oldest *)
(* key goes with its era when the cache is full.                           *)
LEMMA FirstCard ==
    ASSUME SharingInv, NEW t \in Threads, NEW k \in CardKeys, ~Sharing!Has(k), Sharing!Store(t, k),
           v4' \in [Threads -> CardKeys \cup {Sharing!NoKey}]
    PROVE  SharingInv'
<1> DEFINE u == Append(v1, k)
           long == Len(Sharing!UsedNow(k)) > CacheLimit
<1>1. Sharing!UsedNow(k) = u /\ u \in Seq(CardKeys) /\ Len(u) = Len(v1) + 1
      /\ (\A i, j \in 1..Len(u) : u[i] = u[j] => i = j)
      /\ (\A x \in CardKeys : (\E i \in 1..Len(u) : u[i] = x) <=> x = k \/ Sharing!Has(x))
      /\ (\A i \in 1..Len(v1) : u[i] = v1[i])
  <2>1. Sharing!UsedNow(k) = u BY DEF Sharing!UsedNow
  <2>2. u \in Seq(CardKeys) /\ Len(u) = Len(v1) + 1 /\ (\A i \in 1..Len(v1) : u[i] = v1[i])
    BY AppendProperties DEF SharingInv, SharingTypes
  <2>3. DOMAIN u = 1..Len(u) BY <2>2, LenProperties
  <2> HIDE DEF u
  <2>4. \A i, j \in 1..Len(u) : u[i] = u[j] => i = j
    BY <2>1, UsedKeys DEF SharingInv, SharingTypes
  <2>5. \A x \in CardKeys : (\E i \in DOMAIN u : u[i] = x) <=> x = k \/ Sharing!Has(x)
    BY <2>1, UsedKeys DEF SharingInv, SharingTypes
  <2> QED BY <2>1, <2>2, <2>3, <2>4, <2>5
<1>2. /\ v5' = v5 + 1 /\ v2' = [v2 EXCEPT ![k] = v5 + 1] /\ Sharing!Holds(t, k, v5 + 1)
      /\ v1' = (IF long THEN Tail(u) ELSE u)
      /\ v6' = (IF long THEN [v6 EXCEPT ![Head(v1)] = @ + 1] ELSE v6)
  BY <1>1 DEF Sharing!Store, Sharing!Stored
<1> HIDE DEF u
<1>3. /\ v1' \in Seq(CardKeys) /\ Len(v1') <= CacheLimit /\ KeptOnce'
      /\ v6' \in [CardKeys -> Nat] /\ v6'[k] = v6[k] /\ Sharing!Has(k)'
      /\ \A x \in CardKeys : v6'[x] = v6[x] \/ v6'[x] = v6[x] + 1
      /\ \A x \in CardKeys : v6'[x] = v6[x] /\ Sharing!Has(x) => Sharing!Has(x)'
  <2>0. Len(v1) \in Nat /\ Len(v1) <= CacheLimit /\ CacheLimit \in Nat /\ v6 \in [CardKeys -> Nat]
    BY JudgingAssumption, LenProperties DEF SharingInv, SharingTypes
  <2>1. CASE ~long
    <3>1. v1' = u /\ v6' = v6 BY <1>2, <2>1
    <3>2. Len(u) <= CacheLimit BY <1>1, <2>0, <2>1
    <3>3. DOMAIN v1' = 1..Len(v1') BY <1>1, <3>1, LenProperties
    <3>4. \A x \in CardKeys : Sharing!Has(x)' <=> x = k \/ Sharing!Has(x)
      BY <1>1, <3>1, <3>3 DEF Sharing!Has
    <3> QED BY <1>1, <2>0, <3>1, <3>2, <3>4 DEF KeptOnce
  <2>2. CASE long
    <3>1. Len(v1) = CacheLimit /\ Len(v1) \in Nat \ {0}
      BY <1>1, <2>0, <2>2, JudgingAssumption
    <3>2. u # <<>> /\ v1 # <<>> BY <1>1, <3>1
    <3>13. Len(u) - 1 = Len(v1) BY <1>1, <3>1
    <3>14. v1' = Tail(u) BY <1>2, <2>2
    <3>3. v1' \in Seq(CardKeys) /\ Len(v1') = Len(v1) /\ \A i \in 1..Len(v1) : v1'[i] = u[i + 1]
      BY <1>1, <3>2, <3>13, <3>14, HeadTailProperties
    <3>4. DOMAIN v1' = 1..Len(v1) BY <3>3, LenProperties
    <3>5. PICK d \in CardKeys : d = Head(v1) /\ d = v1[1] /\ u[1] = d
      <4>1. Head(v1) = v1[1] /\ Head(v1) \in CardKeys
        BY <3>1, <3>2, HeadTailProperties DEF SharingInv, SharingTypes
      <4> QED BY <1>1, <3>1, <4>1
    <3>6. d # k
      BY <3>1, <3>5, LenProperties, SMTT(60) DEF Sharing!Has, SharingInv, SharingTypes
    <3>7. v6' = [v6 EXCEPT ![d] = @ + 1] BY <1>2, <2>2, <3>5
    <3>8. KeptOnce'
      <4> SUFFICES ASSUME NEW i \in 1..Len(v1), NEW j \in 1..Len(v1), u[i + 1] = u[j + 1]
                   PROVE  i = j
        BY <3>3 DEF KeptOnce
      <4>1. i + 1 \in 1..Len(u) /\ j + 1 \in 1..Len(u) BY <1>1, <3>1
      <4>2. i + 1 = j + 1 BY <1>1, <4>1
      <4> QED BY <3>1, <4>2
    <3>9. ASSUME NEW x \in CardKeys, x # d, x = k \/ Sharing!Has(x) PROVE Sharing!Has(x)'
      <4>1. PICK i \in 1..Len(u) : u[i] = x BY <1>1, <3>9
      <4>2. i # 1 BY <3>5, <3>9, <4>1
      <4>3. i - 1 \in 1..Len(v1) /\ (i - 1) + 1 = i BY <1>1, <3>1, <4>2
      <4>4. v1'[i - 1] = x BY <3>3, <4>1, <4>3
      <4> QED BY <3>4, <4>3, <4>4 DEF Sharing!Has
    <3>10. \A x \in CardKeys : v6'[x] = IF x = d THEN v6[x] + 1 ELSE v6[x] BY <2>0, <3>7
    <3>11. v6' \in [CardKeys -> Nat] BY <2>0, <3>7
    <3>12. \A x \in CardKeys : v6[x] \in Nat BY <2>0
    <3> QED BY <3>1, <3>3, <3>6, <3>8, <3>9, <3>10, <3>11, <3>12
  <2> QED BY <2>1, <2>2
<1>4. PICK e : e = [card |-> v5 + 1, era |-> v6[k], seen |-> TRUE] OBVIOUS
<1>5. e \in BatchEntry /\ e.card = v5 + 1 /\ e.era = v6[k]
  BY <1>4 DEF BatchEntry, SharingInv, SharingTypes
<1>6. v3' = [v3 EXCEPT ![t][k] = e] BY <1>2, <1>4 DEF Sharing!Holds
<1>7. v3' \in [Threads -> [CardKeys -> BatchEntry]] BY <1>5, <1>6 DEF SharingInv, SharingTypes
<1>8. v2' \in [CardKeys -> Nat] /\ v2'[k] = v5 + 1 /\ \A x \in CardKeys : x # k => v2'[x] = v2[x]
  BY <1>2 DEF SharingInv, SharingTypes
<1>9. SharingTypes' BY <1>2, <1>3, <1>7, <1>8 DEF SharingInv, SharingTypes
<1>10. Present(e, k)'
  <2>1. v6[k] \in Nat BY DEF SharingInv, SharingTypes
  <2> QED BY <1>3, <1>5, <1>8, <2>1 DEF Present
<1>11. ASSUME NEW w \in Threads, NEW x \in CardKeys, NEW f \in BatchEntry, f = v3[w][x]
       PROVE  Present(f, x)'
  <2>1. Present(f, x) BY <1>11 DEF SharingInv
  <2>2. f.era \in Nat /\ v6[x] \in Nat /\ v6'[x] \in {v6[x], v6[x] + 1}
    BY <1>3 DEF BatchEntry, SharingInv, SharingTypes
  <2>3. f.era <= v6'[x] BY <2>1, <2>2 DEF Present
  <2>4. ASSUME f.card # 0, f.era = v6'[x] PROVE Sharing!Has(x)' /\ v2'[x] = f.card
    <3>1. v6'[x] = v6[x] BY <2>1, <2>2, <2>4 DEF Present
    <3>2. Sharing!Has(x) /\ v2[x] = f.card BY <2>1, <2>4, <3>1 DEF Present
    <3> QED BY <1>3, <1>8, <3>1, <3>2
  <2> QED BY <2>3, <2>4 DEF Present
<1> QED BY <1>3, <1>5, <1>6, <1>9, <1>10, <1>11, OneEntry

LEMMA SharingGoesOn == SharingInv /\ Sharing!Next => SharingInv'
<1> SUFFICES ASSUME SharingInv, Sharing!Next PROVE SharingInv'
  OBVIOUS
<1>1. ASSUME NEW t \in Threads, NEW k \in CardKeys, Sharing!GetCard(t, k) PROVE SharingInv'
  <2>1. CASE Sharing!Has(k)
    <3>1. v2[k] \in Nat BY DEF SharingInv, SharingTypes
    <3> QED BY <1>1, <2>1, <3>1, HitOrNothing DEF Sharing!GetCard, SharingInv, SharingTypes
  <2>2. CASE ~Sharing!Has(k)
    <3>1. v4' \in [Threads -> CardKeys \cup {Sharing!NoKey}] /\ UNCHANGED <<v1, v2, v3, v5, v6>>
      BY <1>1, <2>2 DEF Sharing!GetCard, SharingInv, SharingTypes
    <3> QED BY <3>1 DEF SharingInv, SharingTypes, KeptOnce, Present, Sharing!Has,
                        Sharing!OneCardPerKey
  <2> QED BY <2>1, <2>2
<1>2. ASSUME NEW t \in Threads, Sharing!Answer(t) PROVE SharingInv'
  <2>1. v4[t] \in CardKeys BY <1>2 DEF Sharing!Answer, SharingInv, SharingTypes
  <2>2. v4' \in [Threads -> CardKeys \cup {Sharing!NoKey}]
    BY <1>2 DEF Sharing!Answer, SharingInv, SharingTypes
  <2>3. CASE ~Sharing!Has(v4[t]) BY <1>2, <2>1, <2>2, <2>3, FirstCard DEF Sharing!Answer
  <2>4. CASE Sharing!Has(v4[t])
    <3>1. v2[v4[t]] \in Nat BY <2>1 DEF SharingInv, SharingTypes
    <3> QED BY <1>2, <2>1, <2>2, <2>4, <3>1, HitOrNothing
            DEF Sharing!Answer, Sharing!Store, Sharing!Stored
  <2> QED BY <2>3, <2>4
<1>3. ASSUME NEW t \in Threads, Sharing!NoAnswer(t) PROVE SharingInv'
  <2>1. v4[t] \in CardKeys BY <1>3 DEF Sharing!NoAnswer, SharingInv, SharingTypes
  <2>2. v4' \in [Threads -> CardKeys \cup {Sharing!NoKey}]
    BY <1>3 DEF Sharing!NoAnswer, SharingInv, SharingTypes
  <2>3. v2[v4[t]] \in Nat /\ 0 \in Nat BY <2>1 DEF SharingInv, SharingTypes
  <2>4. CASE ~Sharing!Has(v4[t])
    BY <1>3, <2>1, <2>2, <2>3, <2>4, HitOrNothing DEF Sharing!NoAnswer
  <2>5. CASE Sharing!Has(v4[t])
    BY <1>3, <2>1, <2>2, <2>3, <2>5, HitOrNothing DEF Sharing!NoAnswer
  <2> QED BY <2>4, <2>5
<1>4. ASSUME NEW t \in Threads, Sharing!NewBatch(t) PROVE SharingInv'
  <2>1. PICK e \in BatchEntry : e = Sharing!Unseen /\ e.card = 0 /\ e.era = 0
    <3>1. PICK no \in BOOLEAN : no = FALSE OBVIOUS
    <3>2. Sharing!Unseen = [card |-> 0, era |-> 0, seen |-> no] BY <3>1 DEF Sharing!Unseen
    <3>3. [card |-> 0, era |-> 0, seen |-> no] \in BatchEntry BY DEF BatchEntry
    <3> QED BY <3>2, <3>3
  <2>2. v3' = [v3 EXCEPT ![t] = [k \in CardKeys |-> e]] /\ UNCHANGED <<v1, v2, v4, v5, v6>>
    BY <1>4, <2>1 DEF Sharing!NewBatch
  <2>3. v3' \in [Threads -> [CardKeys -> BatchEntry]]
        /\ \A u \in Threads : \A k \in CardKeys : v3'[u][k] = IF u = t THEN e ELSE v3[u][k]
    BY <2>2 DEF SharingInv, SharingTypes
  <2>4. SharingTypes' /\ KeptOnce' BY <2>2, <2>3 DEF SharingInv, SharingTypes, KeptOnce
  <2>5. \A k \in CardKeys : v6[k] \in Nat BY DEF SharingInv, SharingTypes
  <2>6. \A u \in Threads : \A k \in CardKeys : Present(v3[u][k], k)'
    BY <2>1, <2>2, <2>3, <2>5 DEF SharingInv, Present, Sharing!Has
  <2>7. Sharing!OneCardPerKey'
    BY <2>1, <2>2, <2>3 DEF SharingInv, Sharing!OneCardPerKey
  <2> QED BY <2>4, <2>6, <2>7 DEF SharingInv
<1> QED BY <1>1, <1>2, <1>3, <1>4 DEF Sharing!Next

(* services/fingerprint_card.py: whatever threads ask at the same time, and   *)
(* whatever the model tells each of them, those that asked about one         *)
(* evidence go on with one card, until the full cache drops it.             *)
THEOREM EvidenceHasOneCard == MCSpec => []OneCardPerKey
<1> DEFINE J == part = "sharing" => SharingInv
<1>1. MCInit => J BY SharingStarts
<1>2. J /\ [MCNext]_MCvars => J'
  <2> SUFFICES ASSUME J, [MCNext]_MCvars, part' = "sharing" PROVE SharingInv'
    OBVIOUS
  <2>1. part = "sharing" /\ SharingInv BY DEF MCNext, MCvars
  <2>2. CASE Sharing!Next BY <2>1, <2>2, SharingGoesOn
  <2>3. CASE UNCHANGED others
    BY <2>1, <2>3 DEF others, from2, from4, from5, SharingInv, SharingTypes, KeptOnce, Present,
                      Sharing!Has, Sharing!OneCardPerKey
  <2> QED BY <2>1, <2>2, <2>3 DEF MCNext, MCvars, Other
<1>3. J => OneCardPerKey BY DEF OneCardPerKey, SharingInv
<1> HIDE DEF J
<1> QED BY <1>1, <1>2, <1>3, PTL DEF MCSpec

(***************************************************************************)
(* The brake.  What a calibration has counted was in the log, and overrides *)
(* only add up: those there are exceed the limit that the closing of a       *)
(* closed gate was judged by, and so do those that a calibration knows of    *)
(* which began to count after that closing.  The notice tells what happened  *)
(* last.                                                                    *)
(***************************************************************************)
Numbers == [Brake!Gates -> Nat]
Tally == [at : {"idle", "counting", "read"}, auto : Numbers, undone : Numbers,
          closed : SUBSET Brake!Gates, stale : SUBSET Brake!Gates]
BrakeTypes ==
    /\ v1 \in Numbers /\ v2 \in Numbers
    /\ v3 \in [Brake!Gates -> BOOLEAN] /\ v4 \in [Runs -> GatedKinds \cup {Brake!Nothing}]
    /\ v5 \in [Brake!Gates -> {Brake!Nothing, "downgraded", "restored"}]
    /\ v6 \in [Calibrators -> Tally] /\ v7 \in Numbers
Over(n, g, m) == 100 * n > Brake!LimitOf(g) * m
ClosedOver == \A g \in Brake!Gates : ~v3[g] => Over(v2[g], g, v7[g])
CountedOver ==
    \A c \in Calibrators : v6[c].at # "idle" =>
        \A g \in Brake!Gates \ v6[c].stale : ~v3[g] => Over(v6[c].undone[g], g, v7[g])
CountedBefore ==
    \A c \in Calibrators : v6[c].at # "idle" => \A g \in Brake!Gates : v6[c].undone[g] <= v2[g]
NoticeTells == \A g \in Brake!Gates : v3[g] = (v5[g] # "downgraded")
BrakeInv == BrakeTypes /\ CountedBefore /\ ClosedOver /\ CountedOver /\ NoticeTells

LEMMA LimitsAreNumbers == \A g : Brake!LimitOf(g) \in Nat
BY JudgingAssumption DEF Brake!LimitOf

(* More overrides of no more decisions are over the limit if fewer were.     *)
LEMMA OverGrows ==
    ASSUME NEW g, NEW n \in Nat, NEW m \in Nat, NEW a \in Nat, NEW b \in Nat,
           n <= m, b <= a, Over(n, g, a)
    PROVE  Over(m, g, b)
<1>1. PICK l \in Nat : l = Brake!LimitOf(g) BY LimitsAreNumbers
<1>2. l * b <= l * a
  <2>1. PICK d \in Nat : a = b + d BY a - b \in Nat
  <2>2. l * a = l * b + l * d BY <2>1
  <2>3. l * d \in Nat /\ l * b \in Nat OBVIOUS
  <2> QED BY <2>2, <2>3
<1>3. 100 * n > l * a BY <1>1 DEF Over
<1>4. 100 * n <= 100 * m OBVIOUS
<1>5. l * a \in Nat /\ l * b \in Nat OBVIOUS
<1>6. 100 * m > l * b BY <1>2, <1>3, <1>4, <1>5
<1> QED BY <1>1, <1>6 DEF Over

LEMMA NotCountedIsTally == Brake!NotCounted \in Tally /\ Brake!NotCounted.at = "idle"
BY DEF Brake!NotCounted, Brake!None, Tally, Numbers

LEMMA BrakeStarts == MCInit /\ part = "brake" => BrakeInv
<1> SUFFICES ASSUME Brake!Init PROVE BrakeInv
  BY DEF MCInit
<1>1. BrakeTypes BY NotCountedIsTally DEF Brake!Init, BrakeTypes, Brake!None, Numbers
<1>2. ClosedOver BY DEF Brake!Init, ClosedOver
<1>3. CountedOver BY NotCountedIsTally DEF Brake!Init, CountedOver
<1>4. NoticeTells BY DEF Brake!Init, NoticeTells, Brake!Nothing
<1>5. CountedBefore BY NotCountedIsTally DEF Brake!Init, CountedBefore
<1> QED BY <1>1, <1>2, <1>3, <1>4, <1>5 DEF BrakeInv

(* A decision or an override adds to its kind's number and to the whole.    *)
LEMMA OneMoreGrows ==
    ASSUME NEW f \in Numbers, NEW k
    PROVE  /\ Brake!OneMore(f, k) \in Numbers
           /\ \A g \in Brake!Gates : f[g] <= Brake!OneMore(f, k)[g]
           /\ \A h \in Numbers : (\A g \in Brake!Gates : h[g] <= f[g])
                => \A g \in Brake!Gates : /\ h[g] <= Brake!OneMore(f, k)[g]
                                         /\ Brake!OneMore(h, k)[g] <= Brake!OneMore(f, k)[g]
BY DEF Brake!OneMore, Numbers

(* Decisions, and runs that start and end, leave the overrides and what was *)
(* counted as they are.                                                     *)
LEMMA RunsGoOn ==
    ASSUME BrakeInv, NEW r \in Runs,
           Brake!StartRun(r) \/ Brake!Decide(r) \/ Brake!EndRun(r)
    PROVE  BrakeInv' /\ UNCHANGED <<v3, v5>>
<1>1. UNCHANGED <<v2, v3, v5, v6, v7>>
  BY DEF Brake!StartRun, Brake!Decide, Brake!EndRun
<1>2. v1' \in Numbers /\ v4' \in [Runs -> GatedKinds \cup {Brake!Nothing}]
  <2>1. CASE Brake!StartRun(r) BY <2>1 DEF BrakeInv, BrakeTypes, Brake!StartRun
  <2>2. CASE Brake!EndRun(r) BY <2>2 DEF BrakeInv, BrakeTypes, Brake!EndRun
  <2>3. CASE Brake!Decide(r)
    BY <2>3, OneMoreGrows DEF BrakeInv, BrakeTypes, Brake!Decide
  <2> QED BY <2>1, <2>2, <2>3
<1>3. BrakeTypes' BY <1>1, <1>2 DEF BrakeInv, BrakeTypes
<1>4. ClosedOver' /\ CountedBefore' /\ CountedOver' /\ NoticeTells'
  BY <1>1 DEF BrakeInv, ClosedOver, CountedBefore, CountedOver, NoticeTells, Over, Brake!LimitOf
<1> QED BY <1>1, <1>3, <1>4 DEF BrakeInv

(* An override adds to the overrides there are, and to those that some       *)
(* calibrations know of.                                                    *)
LEMMA OverridesGoOn ==
    ASSUME BrakeInv, NEW k \in GatedKinds, Brake!Override(k)
    PROVE  BrakeInv' /\ UNCHANGED <<v3, v5>>
<1>1. UNCHANGED <<v1, v3, v4, v5, v7>> /\ v2' = Brake!OneMore(v2, k)
  BY DEF Brake!Override
<1>2. v2' \in Numbers /\ \A g \in Brake!Gates : v2[g] <= v2'[g]
  BY <1>1, OneMoreGrows DEF BrakeInv, BrakeTypes
<1>3. /\ v6' \in [Calibrators -> Tally]
      /\ \A c \in Calibrators : /\ v6'[c].at = v6[c].at /\ v6'[c].stale = v6[c].stale
                                /\ \A g \in Brake!Gates : v6[c].undone[g] <= v6'[c].undone[g]
                                /\ v6[c].at # "idle" =>
                                     \A g \in Brake!Gates : v6'[c].undone[g] <= v2'[g]
  <2>1. PICK S \in SUBSET Calibrators :
          v6' = [c \in Calibrators |-> IF c \in S
                   THEN [v6[c] EXCEPT !.undone = Brake!OneMore(v6[c].undone, k)] ELSE v6[c]]
    BY DEF Brake!Override
  <2>2. ASSUME NEW c \in Calibrators
        PROVE  /\ v6'[c] \in Tally
               /\ v6'[c].at = v6[c].at /\ v6'[c].stale = v6[c].stale
               /\ \A g \in Brake!Gates : v6[c].undone[g] <= v6'[c].undone[g]
               /\ v6[c].at # "idle" => \A g \in Brake!Gates : v6'[c].undone[g] <= v2'[g]
    <3>1. v6[c] \in Tally BY DEF BrakeInv, BrakeTypes
    <3>2. PICK f \in Numbers : f = Brake!OneMore(v6[c].undone, k)
                               /\ \A g \in Brake!Gates : v6[c].undone[g] <= f[g]
      BY <3>1, OneMoreGrows DEF Tally
    <3> DEFINE u == v6[c].undone
    <3>5. v6[c].at # "idle" => \A g \in Brake!Gates : u[g] <= v2'[g] /\ f[g] <= v2'[g]
      <4> SUFFICES ASSUME v6[c].at # "idle"
                   PROVE  \A g \in Brake!Gates : u[g] <= v2'[g] /\ f[g] <= v2'[g]
        OBVIOUS
      <4>1. u \in Numbers /\ v2 \in Numbers /\ \A g \in Brake!Gates : u[g] <= v2[g]
        BY <3>1 DEF BrakeInv, BrakeTypes, CountedBefore, Tally
      <4> HIDE DEF u
      <4>2. \A g \in Brake!Gates : u[g] <= v2'[g] /\ Brake!OneMore(u, k)[g] <= v2'[g]
        BY <1>1, <4>1, OneMoreGrows
      <4> QED BY <3>2, <4>2 DEF u
    <3>3. CASE c \in S
      <4>1. v6'[c] = [v6[c] EXCEPT !.undone = f] BY <2>1, <3>2, <3>3
      <4> QED BY <3>1, <3>2, <3>5, <4>1 DEF Tally
    <3>4. CASE c \notin S
      <4>1. v6'[c] = v6[c] BY <2>1, <3>4
      <4>2. \A g \in Brake!Gates : v6[c].undone[g] \in Nat BY <3>1 DEF Tally, Numbers
      <4> QED BY <3>1, <3>5, <4>1, <4>2
    <3> QED BY <3>3, <3>4
  <2>3. v6' = [c \in Calibrators |-> v6'[c]] BY <2>1
  <2> QED BY <2>2, <2>3
<1>4. BrakeTypes' BY <1>1, <1>2, <1>3 DEF BrakeInv, BrakeTypes
<1>5. \A g \in Brake!Gates : v7[g] \in Nat /\ v2[g] \in Nat /\ v2'[g] \in Nat
  BY <1>2 DEF BrakeInv, BrakeTypes, Numbers
<1>6. ClosedOver'
  <2> SUFFICES ASSUME NEW g \in Brake!Gates, ~v3[g] PROVE Over(v2'[g], g, v7[g])
    BY <1>1 DEF ClosedOver, Over, Brake!LimitOf
  <2>1. Over(v2[g], g, v7[g]) BY DEF BrakeInv, ClosedOver
  <2>2. v2[g] <= v2'[g] /\ v7[g] <= v7[g] BY <1>2, <1>5
  <2> QED BY <1>5, <2>1, <2>2, OverGrows
<1>7. CountedOver'
  <2> SUFFICES ASSUME NEW c \in Calibrators, v6[c].at # "idle",
                      NEW g \in Brake!Gates \ v6[c].stale, ~v3[g]
               PROVE  Over(v6'[c].undone[g], g, v7[g])
    BY <1>1, <1>3 DEF CountedOver, Over, Brake!LimitOf
  <2>1. Over(v6[c].undone[g], g, v7[g]) BY DEF BrakeInv, CountedOver
  <2>2. v6[c].undone[g] \in Nat /\ v6'[c].undone[g] \in Nat
    BY <1>3 DEF BrakeInv, BrakeTypes, Tally, Numbers
  <2>3. v6[c].undone[g] <= v6'[c].undone[g] /\ v7[g] <= v7[g] BY <1>3, <1>5
  <2> QED BY <1>5, <2>1, <2>2, <2>3, OverGrows
<1>8. NoticeTells' BY <1>1 DEF BrakeInv, NoticeTells
<1>9. CountedBefore' BY <1>3 DEF CountedBefore
<1> QED BY <1>1, <1>4, <1>6, <1>7, <1>8, <1>9 DEF BrakeInv

(* Counting, reading the gates, and a calibration that fails touch only the  *)
(* calibration; one that begins to count finds all overrides there are.      *)
LEMMA CountingGoesOn ==
    ASSUME BrakeInv, NEW c \in Calibrators,
           Brake!Count(c) \/ Brake!ReadGates(c) \/ Brake!CalibrationFails(c)
    PROVE  BrakeInv' /\ UNCHANGED <<v3, v5>>
<1>1. UNCHANGED <<v1, v2, v3, v4, v5, v7>>
  BY DEF Brake!Count, Brake!ReadGates, Brake!CalibrationFails
<1>2. PICK q \in Tally :
         /\ v6' = [v6 EXCEPT ![c] = q]
         /\ \/ q.at = "idle"
            \/ q.undone = v2
            \/ v6[c].at # "idle" /\ q.undone = v6[c].undone /\ q.stale = v6[c].stale
  <2>1. CASE Brake!Count(c)
    <3> DEFINE q == [Brake!NotCounted EXCEPT !.at = "counting", !.auto = v1, !.undone = v2]
    <3>1. q \in Tally /\ q.undone = v2
      BY NotCountedIsTally DEF BrakeInv, BrakeTypes, Tally
    <3>2. v6' = [v6 EXCEPT ![c] = q] BY <2>1 DEF Brake!Count
    <3> QED BY <3>1, <3>2
  <2>2. CASE Brake!ReadGates(c)
    <3> DEFINE shut == {g \in Brake!Gates : ~v3[g]}
               q == [v6[c] EXCEPT !.at = "read", !.closed = shut]
    <3>1. v6[c] \in Tally BY DEF BrakeInv, BrakeTypes
    <3>2. q \in Tally /\ q.undone = v6[c].undone /\ q.stale = v6[c].stale
      BY <3>1 DEF Tally
    <3>3. v6' = [v6 EXCEPT ![c] = q] /\ v6[c].at = "counting"
      BY <2>2 DEF Brake!ReadGates
    <3> QED BY <3>2, <3>3
  <2>3. CASE Brake!CalibrationFails(c)
    BY <2>3, NotCountedIsTally DEF Brake!CalibrationFails
  <2> QED BY <2>1, <2>2, <2>3
<1>3. /\ v6' \in [Calibrators -> Tally]
      /\ \A d \in Calibrators : v6'[d] = IF d = c THEN q ELSE v6[d]
  BY <1>2 DEF BrakeInv, BrakeTypes
<1>4. BrakeTypes' BY <1>1, <1>3 DEF BrakeInv, BrakeTypes
<1>5. ClosedOver' /\ NoticeTells'
  BY <1>1 DEF BrakeInv, ClosedOver, NoticeTells, Over, Brake!LimitOf
<1>6. CountedOver'
  <2> SUFFICES ASSUME NEW d \in Calibrators, v6'[d].at # "idle",
                      NEW g \in Brake!Gates \ v6'[d].stale, ~v3[g]
               PROVE  Over(v6'[d].undone[g], g, v7[g])
    BY <1>1 DEF CountedOver, Over, Brake!LimitOf
  <2>1. CASE d # c BY <1>3, <2>1 DEF BrakeInv, CountedOver
  <2>2. CASE d = c
    <3>1. v6'[d] = q BY <1>3, <2>2
    <3>2. CASE q.undone = v2 BY <3>1, <3>2 DEF BrakeInv, ClosedOver
    <3>3. CASE v6[c].at # "idle" /\ q.undone = v6[c].undone /\ q.stale = v6[c].stale
      BY <3>1, <3>3 DEF BrakeInv, CountedOver
    <3> QED BY <1>2, <3>1, <3>2, <3>3
  <2> QED BY <2>1, <2>2
<1>7. CountedBefore'
  <2> SUFFICES ASSUME NEW d \in Calibrators, v6'[d].at # "idle", NEW g \in Brake!Gates
               PROVE  v6'[d].undone[g] <= v2[g]
    BY <1>1 DEF CountedBefore
  <2>1. CASE d # c BY <1>3, <2>1 DEF BrakeInv, CountedBefore
  <2>2. CASE d = c
    <3>1. v6'[d] = q BY <1>3, <2>2
    <3>2. CASE q.undone = v2
      <4>1. v2[g] \in Nat BY DEF BrakeInv, BrakeTypes, Numbers
      <4> QED BY <3>1, <3>2, <4>1
    <3>3. CASE v6[c].at # "idle" /\ q.undone = v6[c].undone
      BY <3>1, <3>3 DEF BrakeInv, CountedBefore
    <3> QED BY <1>2, <3>1, <3>2, <3>3
  <2> QED BY <2>1, <2>2
<1> QED BY <1>1, <1>4, <1>5, <1>6, <1>7 DEF BrakeInv

(* A calibration flips gates by what it counted.  A gate that was closed      *)
(* before it began is over its limit still by the overrides it knows of,      *)
(* unless it counted more decisions than the closing.                        *)
LEMMA GatesAreSet ==
    ASSUME BrakeInv, NEW c \in Calibrators, Brake!SetGates(c)
    PROVE  BrakeInv' /\ Brake!BrakeStep
<1>1. v6[c] \in Tally /\ v6[c].at = "read"
  BY DEF BrakeInv, BrakeTypes, Brake!SetGates
<1>2. PICK a \in Numbers, u \in Numbers : a = v6[c].auto /\ u = v6[c].undone
  BY <1>1 DEF Tally
<1>3. /\ UNCHANGED <<v1, v2, v4>>
      /\ v3' \in [Brake!Gates -> BOOLEAN] /\ v7' \in Numbers
      /\ v5' \in [Brake!Gates -> {Brake!Nothing, "downgraded", "restored"}]
  BY <1>2 DEF Brake!SetGates, BrakeInv, BrakeTypes, Numbers
<1>4. ASSUME NEW d \in Calibrators
      PROVE  /\ v6'[d] \in Tally
             /\ d = c => v6'[d].at = "idle"
             /\ d # c /\ v6'[d].at # "idle" =>
                  /\ v6[d].at # "idle" /\ v6'[d].undone = v6[d].undone
                  /\ v6'[d].stale = v6[d].stale
                       \cup {g \in Brake!Gates : Brake!Downgraded(c, g)}
  <2>1. v6[d] \in Tally BY DEF BrakeInv, BrakeTypes
  <2> DEFINE shut == {g \in Brake!Gates : Brake!Downgraded(c, g)}
  <2>2. shut \in SUBSET Brake!Gates OBVIOUS
  <2>3. v6'[d] = IF d = c THEN Brake!NotCounted
                 ELSE IF v6[d].at = "idle" THEN v6[d]
                 ELSE [v6[d] EXCEPT !.stale = v6[d].stale \cup shut]
    BY DEF Brake!SetGates
  <2> HIDE DEF shut
  <2>4. CASE d = c \/ v6[d].at = "idle" BY <2>1, <2>3, <2>4, NotCountedIsTally
  <2>5. CASE d # c /\ v6[d].at # "idle"
    <3>1. v6'[d] = [v6[d] EXCEPT !.stale = v6[d].stale \cup shut] BY <2>3, <2>5
    <3>2. v6'[d].undone = v6[d].undone /\ v6'[d].stale = v6[d].stale \cup shut
          /\ v6'[d] \in Tally
      BY <2>1, <2>2, <3>1 DEF Tally
    <3> QED BY <2>5, <3>2 DEF shut
  <2> QED BY <2>4, <2>5
<1>5. v6' \in [Calibrators -> Tally]
  <2>1. v6' = [d \in Calibrators |-> v6'[d]] BY DEF Brake!SetGates
  <2> QED BY <1>4, <2>1
<1>6. BrakeTypes' BY <1>3, <1>5 DEF BrakeInv, BrakeTypes
<1>7. ASSUME NEW g \in Brake!Gates
      PROVE  /\ v3'[g] = (v5'[g] # "downgraded")
             /\ ~v3'[g] => \/ Brake!Downgraded(c, g) /\ v7'[g] = a[g] /\ Over(u[g], g, a[g])
                           \/ ~v3[g] /\ v7'[g] = v7[g]
             /\ ~v3[g] /\ v3'[g] =>
                  g # ObservationKind /\ (a[g] > v7[g] \/ g \in v6[c].stale)
  <2>1. Brake!OverLimit(c, g) <=> Over(u[g], g, a[g])
    BY <1>2 DEF Brake!OverLimit, Over
  <2>2. v3[g] = (v5[g] # "downgraded") BY DEF BrakeInv, NoticeTells
  <2>3. CASE Brake!Downgraded(c, g)
    <3>1. v3'[g] = FALSE /\ v5'[g] = "downgraded" /\ v7'[g] = a[g]
      BY <1>2, <2>3 DEF Brake!SetGates
    <3> QED BY <2>1, <2>3, <3>1 DEF Brake!Downgraded
  <2>4. CASE ~Brake!Downgraded(c, g) /\ Brake!Restored(c, g)
    <3>1. v3'[g] /\ v5'[g] = "restored" BY <2>4 DEF Brake!SetGates
    <3>2. g # ObservationKind /\ ~Over(u[g], g, a[g]) BY <2>1, <2>4 DEF Brake!Restored
    <3>3. ~v3[g] /\ g \notin v6[c].stale => a[g] > v7[g]
      <4> SUFFICES ASSUME ~v3[g], g \notin v6[c].stale, ~(a[g] > v7[g]) PROVE FALSE
        OBVIOUS
      <4>1. Over(u[g], g, v7[g]) BY <1>1, <1>2 DEF BrakeInv, CountedOver
      <4>2. a[g] \in Nat /\ u[g] \in Nat /\ v7[g] \in Nat BY DEF BrakeInv, BrakeTypes, Numbers
      <4>3. u[g] <= u[g] /\ a[g] <= v7[g] BY <4>2
      <4> QED BY <3>2, <4>1, <4>2, <4>3, OverGrows
    <3> QED BY <3>1, <3>2, <3>3
  <2>5. CASE ~Brake!Downgraded(c, g) /\ ~Brake!Restored(c, g)
    <3>1. v3'[g] = v3[g] /\ v5'[g] = v5[g] /\ v7'[g] = v7[g]
      BY <2>5 DEF Brake!SetGates
    <3> QED BY <2>2, <3>1
  <2> QED BY <2>3, <2>4, <2>5
<1>8. NoticeTells' BY <1>7 DEF NoticeTells
<1>9. ClosedOver'
  <2> SUFFICES ASSUME NEW g \in Brake!Gates, ~v3'[g] PROVE Over(v2[g], g, v7'[g])
    BY <1>3 DEF ClosedOver, Over, Brake!LimitOf
  <2>1. CASE v7'[g] = a[g] /\ Over(u[g], g, a[g])
    <3>1. u[g] <= v2[g] BY <1>1, <1>2 DEF BrakeInv, CountedBefore
    <3>2. a[g] \in Nat /\ u[g] \in Nat /\ v2[g] \in Nat /\ a[g] <= a[g]
      BY DEF BrakeInv, BrakeTypes, Numbers
    <3> QED BY <2>1, <3>1, <3>2, OverGrows
  <2>2. CASE ~v3[g] /\ v7'[g] = v7[g] BY <2>2 DEF BrakeInv, ClosedOver
  <2> QED BY <1>7, <2>1, <2>2
<1>10. CountedOver'
  <2> SUFFICES ASSUME NEW d \in Calibrators, v6'[d].at # "idle",
                      NEW g \in Brake!Gates \ v6'[d].stale, ~v3'[g]
               PROVE  Over(v6'[d].undone[g], g, v7'[g])
    BY DEF CountedOver, Over, Brake!LimitOf
  <2>1. /\ v6[d].at # "idle" /\ v6'[d].undone = v6[d].undone
        /\ g \notin v6[d].stale /\ ~Brake!Downgraded(c, g)
    BY <1>4
  <2>2. ~v3[g] /\ v7'[g] = v7[g] BY <1>7, <2>1
  <2> QED BY <2>1, <2>2 DEF BrakeInv, CountedOver
<1>11. CountedBefore'
  <2> SUFFICES ASSUME NEW d \in Calibrators, v6'[d].at # "idle", NEW g \in Brake!Gates
               PROVE  v6'[d].undone[g] <= v2[g]
    BY <1>3 DEF CountedBefore
  <2> QED BY <1>4 DEF BrakeInv, CountedBefore
<1>12. Brake!BrakeStep
  <2>1. ASSUME NEW g \in Brake!Gates, Brake!Opens(g)
        PROVE  /\ g # ObservationKind
               /\ \E d \in Calibrators :
                    /\ v6[d].at = "read" /\ v6'[d].at = "idle"
                    /\ v6[d].auto[g] > v7[g] \/ g \in v6[d].stale
    <3>1. ~v3[g] /\ v3'[g] BY <2>1 DEF Brake!Opens
    <3>2. v6'[c].at = "idle" BY <1>4
    <3> QED BY <1>1, <1>2, <1>7, <3>1, <3>2
  <2> QED BY <1>7, <2>1 DEF Brake!BrakeStep
<1> QED BY <1>6, <1>8, <1>9, <1>10, <1>11, <1>12 DEF BrakeInv

LEMMA BrakeRests ==
    ASSUME BrakeInv, UNCHANGED <<v3, v5>>
    PROVE  Brake!BrakeStep
BY DEF BrakeInv, NoticeTells, Brake!BrakeStep, Brake!Opens

LEMMA BrakeGoesOn ==
    ASSUME part = "brake" => BrakeInv, [MCNext]_MCvars
    PROVE  (part = "brake" => BrakeInv)' /\ (part = "brake" => Brake!BrakeStep)
<1> SUFFICES ASSUME part = "brake" PROVE BrakeInv' /\ Brake!BrakeStep
  BY DEF MCNext, MCvars
<1>1. CASE Brake!Next
  BY <1>1, RunsGoOn, OverridesGoOn, CountingGoesOn, GatesAreSet, BrakeRests DEF Brake!Next
<1>2. CASE UNCHANGED others
  <2>1. UNCHANGED <<v1, v2, v3, v4, v5, v6, v7>>
    BY <1>2 DEF others, from2, from4, from5, from7
  <2>2. BrakeInv'
    BY <2>1 DEF BrakeInv, BrakeTypes, CountedBefore, ClosedOver, CountedOver, NoticeTells,
                Over, Brake!LimitOf
  <2> QED BY <2>1, <2>2, BrakeRests
<1> QED BY <1>1, <1>2 DEF MCNext, MCvars, Other

(* services/judge_calibration.py: the brake opens a gate again only on more  *)
(* decisions than it was closed for, or if it was closed while the           *)
(* calibration that opens it was under way; never that of observation        *)
(* pairs; and its notice tells the last flip.  For any kinds, runs,          *)
(* calibrations side by side, rates and samples.                             *)
THEOREM TheBrakeHolds == MCSpec => BrakeHolds
<1> DEFINE J == part = "brake" => BrakeInv
           S == part = "brake" => Brake!BrakeStep
<1>1. MCInit => J BY BrakeStarts
<1>2. J /\ [MCNext]_MCvars => J' /\ S BY BrakeGoesOn
<1>3. BrakeHolds <=> [][S]_MCvars BY DEF BrakeHolds
<1> HIDE DEF J, S
<1> QED BY <1>1, <1>2, <1>3, PTL DEF MCSpec

(* The cards.  For any two cards at all: a split has a level where  *)
(* the cards part, a match has none, and the replay gives what the rules    *)
(* gave.                                                                   *)
LEMMA SplitsHaveAPoint ==
    ASSUME NEW a, NEW b
    PROVE  /\ Cards!MatchCards(a, b) = "different_concept" => Cards!DivergencePoint(a, b) # Cards!None
           /\ Cards!MatchCards(a, b) = "same_variant_family" => Cards!DivergencePoint(a, b) = Cards!None
           /\ Cards!AblateMatch(a, b, {}) = Cards!MatchCards(a, b)
<1>1. Cards!SameEnding(a, b) <=> ~Cards!EndingsDiffer(a, b)
  BY DEF Cards!SameEnding, Cards!EndingsDiffer
<1>2. Cards!AblateMatch(a, b, {}) = Cards!MatchCards(a, b)
  BY <1>1 DEF Cards!AblateMatch, Cards!MatchCards
<1> QED BY <1>2 DEF Cards!MatchCards, Cards!DivergencePoint, Cards!AtTheEnd, Cards!None

(* services/fingerprint_card.py: the rules, their replay and the recheck      *)
(* agree on any two cards, for any taxonomy and any answers of the model.    *)
THEOREM CardRulesAreKept == MCSpec => []CardRulesHold
<1>1. CardRulesHold BY SplitsHaveAPoint DEF CardRulesHold, Cards!RulesAgree
<1> QED BY <1>1, PTL

(***************************************************************************)
(* What the calibration reads.  An entry keeps its time, and says of a       *)
(* suggestion what it said; a settled outcome was decided before every open  *)
(* transaction began, so that no entry still to come is the first.          *)
(***************************************************************************)
LogInv == v2 \in Nat /\ v3 \subseteq Nat /\ \A l \in v1 : l.at \in Nat

(* At most one entry comes, with the time of a transaction that was open.    *)
LEMMA LogGrows ==
    ASSUME LogInv, Outcomes!Next
    PROVE  /\ LogInv' /\ v1 \subseteq v1'
           /\ \A l \in v1' \ v1 : l.at \in v3
<1>1. CASE Outcomes!Begin
  BY <1>1 DEF LogInv, Outcomes!Begin
<1>2. ASSUME NEW t \in v3, Outcomes!Record(t)
      PROVE  LogInv' /\ v1 \subseteq v1' /\ \A l \in v1' \ v1 : l.at \in v3
  <2>1. PICK e \in Outcomes!Entries : v1' = v1 \cup {[at |-> t, e |-> e]}
    BY <1>2 DEF Outcomes!Record
  <2>2. v2' = v2 /\ v3' = v3 \ {t} BY <1>2 DEF Outcomes!Record
  <2>3. t \in Nat BY DEF LogInv
  <2>4. \A l \in v1' : l \in v1 \/ l.at = t BY <2>1
  <2> QED BY <2>1, <2>2, <2>3, <2>4 DEF LogInv
<1>3. ASSUME NEW t \in v3, Outcomes!Suggest(t) PROVE LogInv' /\ v1' = v1
  BY <1>3 DEF LogInv, Outcomes!Suggest
<1>4. ASSUME NEW s \in v4, Outcomes!Forget(s) PROVE LogInv' /\ v1' = v1
  BY <1>4 DEF LogInv, Outcomes!Forget
<1> QED BY <1>1, <1>2, <1>3, <1>4 DEF Outcomes!Next, Outcomes!Begin

(* Whether an entry decides, and accepts, is in the entry and the suggestion. *)
LEMMA EntriesStay ==
    ASSUME NEW s, NEW l
    PROVE  /\ Outcomes!Decides(s, l)' <=> Outcomes!Decides(s, l)
           /\ Outcomes!Accepts(s, l)' <=> Outcomes!Accepts(s, l)
BY DEF Outcomes!Decides, Outcomes!Accepts, Outcomes!DnaEvent, Outcomes!MergeEvent,
       Outcomes!DerivationEvent, Outcomes!DnaAccepts, Outcomes!MergeAccepts,
       Outcomes!DerivationAccepts, Outcomes!Is, Outcomes!MergedAway, Outcomes!OfThePair,
       Outcomes!Ruled, Outcomes!Pair, Outcomes!DerivationField

(* So the first entry that decides a settled suggestion stays the first.     *)
LEMMA OutcomeStays ==
    ASSUME LogInv, Outcomes!Next, NEW s, Outcomes!Settled(s)
    PROVE  Outcomes!Outcome(s)' = Outcomes!Outcome(s)
<1> DEFINE E == Outcomes!Events(s)
           F == Outcomes!Events(s)'
<1>1. E # {} /\ \A t \in v3 : \E l \in E : l.at < t
  BY DEF Outcomes!Settled, Outcomes!Outcome
<1>2. LogInv' /\ v1 \subseteq v1' /\ \A l \in v1' \ v1 : l.at \in v3
  BY LogGrows
<1>3. E \subseteq v1 /\ F \subseteq v1' BY DEF Outcomes!Events
<1>4. \A l \in v1 : l \in F <=> l \in E
  <2> SUFFICES ASSUME NEW l \in v1 PROVE l \in F <=> l \in E
    OBVIOUS
  <2>1. l \in v1' BY <1>2
  <2> QED BY <2>1, EntriesStay DEF Outcomes!Events
<1>5. \A l \in E : l \in F BY <1>3, <1>4
<1>6. \A l \in F \ E : \E m \in E : m.at < l.at
  <2> SUFFICES ASSUME NEW l \in F \ E PROVE \E m \in E : m.at < l.at
    OBVIOUS
  <2>1. l.at \in v3 BY <1>2, <1>3, <1>4
  <2> QED BY <1>1, <2>1
<1>7. \A l \in E : l.at \in Nat BY <1>3 DEF LogInv
<1>8. \A l \in F : l.at \in Nat BY <1>2, <1>3 DEF LogInv
<1>9. Outcomes!First(s) = {l \in E : \A m \in E : l.at <= m.at} BY DEF Outcomes!First
<1>10. Outcomes!First(s)' = {l \in F : \A m \in F : l.at <= m.at} BY DEF Outcomes!First
<1> HIDE DEF E, F
<1>11. ASSUME NEW l \in E, \A m \in E : l.at <= m.at PROVE \A m \in F : l.at <= m.at
  <2> SUFFICES ASSUME NEW m \in F \ E PROVE l.at <= m.at BY <1>11
  <2>1. PICK k \in E : k.at < m.at BY <1>6
  <2> QED BY <1>7, <1>8, <1>11, <2>1
<1>12. ASSUME NEW l \in F, \A m \in F : l.at <= m.at PROVE l \in E
  <2> SUFFICES ASSUME l \notin E PROVE FALSE OBVIOUS
  <2>1. PICK k \in E : k.at < l.at BY <1>6
  <2>2. l.at <= k.at BY <1>5, <1>12
  <2> QED BY <1>7, <1>8, <2>1, <2>2
<1>13. Outcomes!First(s)' = Outcomes!First(s) BY <1>5, <1>9, <1>10, <1>11, <1>12
<1>14. F # {} BY <1>1, <1>5
<1>15. (\E l \in Outcomes!First(s) : Outcomes!Accepts(s, l))'
       <=> \E l \in Outcomes!First(s) : Outcomes!Accepts(s, l)
  BY <1>13, EntriesStay
<1> QED BY <1>1, <1>14, <1>15 DEF Outcomes!Outcome, E, F

LEMMA DecisionsStay ==
    ASSUME LogInv, Outcomes!Next, NEW k
    PROVE  /\ Outcomes!Decisions(k) \subseteq Outcomes!Decisions(k)'
           /\ Outcomes!Overridden(k) \subseteq Outcomes!Overridden(k)'
<1>1. v1 \subseteq v1' BY LogGrows
<1>2. Outcomes!Decisions(k) \subseteq Outcomes!Decisions(k)'
  BY <1>1 DEF Outcomes!Decisions, Outcomes!AutoKind
<1>3. \A l, m : Outcomes!OverriddenBy(l, m)' <=> Outcomes!OverriddenBy(l, m)
  BY DEF Outcomes!OverriddenBy
<1> QED BY <1>1, <1>2, <1>3 DEF Outcomes!Overridden

(* services/judge_calibration.py: whatever commits late, what became of a    *)
(* suggestion stands once no transaction is open that began before the entry *)
(* that decided it, and no automatic decision and no override is ever        *)
(* uncounted.                                                              *)
THEOREM JudgementsAreFinal == MCSpec => JudgementsStand
<1> DEFINE J == part = "outcomes" => LogInv
           S == part = "outcomes" => Outcomes!StandStep
<1>1. MCInit => J
  <2>1. Outcomes!Init => LogInv BY DEF Outcomes!Init, LogInv
  <2> QED BY <2>1 DEF MCInit
<1>2. ASSUME J, [MCNext]_MCvars PROVE J'
  <2>1. CASE MCNext
    <3>1. UNCHANGED part BY <2>1 DEF MCNext
    <3>2. part = "outcomes" => Outcomes!Next BY <2>1 DEF MCNext, Other
    <3> QED BY <1>2, <3>1, <3>2, LogGrows
  <2>2. CASE UNCHANGED MCvars BY <1>2, <2>2 DEF MCvars, others, from2, from4, LogInv
  <2> QED BY <1>2, <2>1, <2>2
<1>3. ASSUME J, [MCNext]_MCvars PROVE [S]_MCvars
  <2> SUFFICES ASSUME MCNext, part = "outcomes" PROVE Outcomes!StandStep BY <1>3
  <2>1. LogInv /\ Outcomes!Next BY <1>3 DEF MCNext, Other
  <2> QED BY <2>1, OutcomeStays, DecisionsStay DEF Outcomes!StandStep
<1> HIDE DEF J, S
<1>4. MCSpec => [][S]_MCvars BY <1>1, <1>2, <1>3, PTL DEF MCSpec
<1> QED BY <1>4 DEF S, JudgementsStand

(***************************************************************************)
(* The inbox.  A ruling names its creatives by ids, which no name is.  What  *)
(* a request has read of a pair that nothing happened to since it began is   *)
(* still so.                                                               *)
(***************************************************************************)
ClosedNames == {r.names : r \in v5}
AskedOf(p) == p \in Inbox!Pairs /\ p \notin v13
RulingsRead == v10.pc \in {"files", "creatives", "suggestions"}
FilesRead == v10.pc \in {"creatives", "suggestions"}
ReaderIs == v10 = [pc |-> v10.pc, seen |-> v10.seen, ruled |-> v10.ruled, filed |-> v10.filed,
                   names |-> v10.names, current |-> v10.current]
ReaderInv ==
    /\ ReaderIs
    /\ RulingsRead => \A p : AskedOf(p) => (Inbox!Names(p) \in v10.ruled <=> Inbox!Names(p) \in ClosedNames)
    /\ FilesRead => /\ v10.filed \subseteq Creatives
                    /\ \A p : AskedOf(p) => \A c \in p : (c \in v10.filed => v2[c] = "active")
                    /\ v10.pc = "creatives" => v10.names = [c \in Creatives |-> v10.names[c]]
                    /\ \A p : AskedOf(p) => \A c \in p : (c \in v10.filed => v10.names[c] = v1[c])
    /\ v10.pc = "suggestions" =>
           /\ v10.current \subseteq Creatives
           /\ \A p : AskedOf(p) => \A c \in p : v10.names[c] = v1[c]
           /\ \A p : AskedOf(p) => \A c \in p : (c \in v10.current <=> v2[c] = "active")
InboxInv ==
    /\ DOMAIN v1 = Creatives /\ v1 = [c \in Creatives |-> v1[c]]
    /\ DOMAIN v2 = Creatives /\ v2 = [c \in Creatives |-> v2[c]]
    /\ \A c \in Creatives : v1[c] \in {FirstName(c), NewName(c)}
    /\ v6 \subseteq Inbox!Pairs
    /\ \A r \in v5 : r.ids \subseteq Creatives
    /\ ReaderInv

LEMMA InboxCount == \A S : Inbox!Cardinality(S) = Cardinality(S)
BY DEF Inbox!Cardinality, Cardinality

LEMMA PairsAreOfTwo ==
    /\ IsFiniteSet(Inbox!Pairs)
    /\ \A p \in Inbox!Pairs : p \subseteq Creatives /\ \E a, b \in p : p = {a, b}
    /\ \A a, b \in Creatives : a # b => {a, b} \in Inbox!Pairs
<1>1. \A p : p \in Inbox!Pairs <=> p \subseteq Creatives /\ Cardinality(p) = 2
  BY InboxCount DEF Inbox!Pairs, Inbox!kSubset
<1>2. Inbox!Pairs \subseteq SUBSET Creatives BY <1>1
<1>3. IsFiniteSet(SUBSET Creatives) BY JudgingAssumption, FS_SUBSET
<1>4. ASSUME NEW p \in Inbox!Pairs PROVE \E a, b \in p : p = {a, b}
  <2>1. IsFiniteSet(p) /\ Cardinality(p) = 2 BY <1>1, FS_Subset, JudgingAssumption
  <2>2. PICK a : a \in p BY <2>1, FS_EmptySet
  <2>3. IsFiniteSet(p \ {a}) /\ Cardinality(p \ {a}) = 1 BY <2>1, <2>2, FS_RemoveElement
  <2>4. PICK b : p \ {a} = {b} BY <2>3, FS_Singleton
  <2> QED BY <2>2, <2>4
<1>5. ASSUME NEW a \in Creatives, NEW b \in Creatives, a # b PROVE {a, b} \in Inbox!Pairs
  <2>1. IsFiniteSet({a}) /\ Cardinality({a}) = 1 BY FS_Singleton
  <2>2. Cardinality({a} \cup {b}) = 2 BY <1>5, <2>1, FS_AddElement
  <2>3. {a} \cup {b} = {a, b} OBVIOUS
  <2> QED BY <1>1, <2>2, <2>3
<1> QED BY <1>1, <1>2, <1>3, <1>4, <1>5, FS_Subset

LEMMA InboxStarts == MCInit /\ part = "inbox" => InboxInv
<1> SUFFICES ASSUME Inbox!Init PROVE InboxInv BY DEF MCInit
<1>1. v1 = [c \in Creatives |-> FirstName(c)] /\ v2 = [c \in Creatives |-> "active"]
  BY DEF Inbox!Init
<1>2. v6 \subseteq Inbox!Pairs BY DEF Inbox!Init
<1>3. \A r \in v5 : r.ids \in Concluded
  <2>1. PICK Closed : Closed = {[names |-> {FirstName(c) : c \in p}, ids |-> p] : p \in Concluded}
    OBVIOUS
  <2>2. v5 \subseteq Closed BY <2>1 DEF Inbox!Init
  <2> QED BY <2>1, <2>2
<1>4. ReaderInv BY DEF Inbox!Init, Inbox!Waiting, ReaderInv, ReaderIs, RulingsRead, FilesRead
<1> QED BY <1>1, <1>2, <1>3, <1>4, JudgingAssumption DEF InboxInv

LEMMA NotYetRead ==
    ASSUME ReaderIs', v10'.pc \notin {"files", "creatives", "suggestions"}
    PROVE  ReaderInv'
<1>1. ~RulingsRead' /\ ~FilesRead' /\ v10'.pc # "suggestions" BY DEF RulingsRead, FilesRead
<1> QED BY <1>1 DEF ReaderInv

(* What leaves the untouched pairs as they were leaves a request in step.    *)
LEMMA UntouchedKeeps ==
    ASSUME ReaderInv, v10' = v10, v10.pc # "idle" => v13 \subseteq v13',
           \A p : AskedOf(p)' => /\ (Inbox!Names(p) \in ClosedNames)' <=> Inbox!Names(p) \in ClosedNames
                                 /\ \A c \in p : v1'[c] = v1[c]
                                 /\ \A c \in p : (v2'[c] = "active" <=> v2[c] = "active")
    PROVE  ReaderInv'
<1>1. \A p : Inbox!Names(p) = {v1[c] : c \in p} /\ Inbox!Names(p)' = {v1'[c] : c \in p}
  BY DEF Inbox!Names
<1>2. ASSUME v10.pc # "idle", NEW p, AskedOf(p)'
      PROVE  AskedOf(p) /\ Inbox!Names(p)' = Inbox!Names(p)
  BY <1>1, <1>2 DEF AskedOf
<1>0. ReaderIs' BY DEF ReaderInv, ReaderIs
<1>3. CASE v10.pc = "idle" BY <1>0, <1>3, NotYetRead
<1>4. CASE v10.pc # "idle"
  <2>1. ASSUME RulingsRead, NEW p, AskedOf(p)'
        PROVE  (Inbox!Names(p) \in v10.ruled)' <=> (Inbox!Names(p) \in ClosedNames)'
    BY <1>2, <1>4, <2>1 DEF ReaderInv
  <2>2. ASSUME FilesRead, NEW p, AskedOf(p)', NEW c \in p
        PROVE  (c \in v10.filed => v2'[c] = "active") /\ (c \in v10.filed => v10.names[c] = v1'[c])
    BY <1>2, <1>4, <2>2 DEF ReaderInv
  <2>3. ASSUME v10.pc = "suggestions", NEW p, AskedOf(p)', NEW c \in p
        PROVE  v10.names[c] = v1'[c] /\ (c \in v10.current <=> v2'[c] = "active")
    BY <1>2, <1>4, <2>3 DEF ReaderInv
  <2> QED BY <1>0, <2>1, <2>2, <2>3 DEF ReaderInv, RulingsRead, FilesRead
<1> QED BY <1>3, <1>4

LEMMA ChangesKeepTheInbox ==
    ASSUME InboxInv
    PROVE  /\ \A p \in Inbox!Pairs : Inbox!Observe(p) \/ Inbox!Conclude(p) \/ Inbox!Suggest(p) => InboxInv'
           /\ \A c \in Creatives : Inbox!Rename(c) \/ Inbox!SetState(c) => InboxInv'
<1> USE DEF Inbox!Act, AskedOf
<1>1. ASSUME NEW p \in Inbox!Pairs, Inbox!Observe(p) PROVE InboxInv'
  <2>1. UNCHANGED <<v1, v2, v5, v6>> BY <1>1 DEF Inbox!Observe
  <2>2. ReaderInv'
    BY <1>1, <2>1, UntouchedKeeps DEF InboxInv, Inbox!Observe, Inbox!Names, ClosedNames
  <2> QED BY <2>1, <2>2 DEF InboxInv
<1>2. ASSUME NEW p \in Inbox!Pairs, Inbox!Conclude(p) PROVE InboxInv'
  <2>1. UNCHANGED <<v1, v2, v6, v10>> BY <1>2 DEF Inbox!Conclude
  <2>2. v5' = v5 \cup {[names |-> Inbox!Names(p), ids |-> p]} BY <1>2 DEF Inbox!Conclude
  <2>3. \A r \in v5' : r.ids \subseteq Creatives
    <3>1. p \subseteq Creatives BY PairsAreOfTwo
    <3> QED BY <2>2, <3>1 DEF InboxInv
  <2>4. \A q : Inbox!Names(q)' = Inbox!Names(q) BY <2>1 DEF Inbox!Names
  <2>5. ClosedNames' = ClosedNames \cup {Inbox!Names(p)}
    <3>1. PICK x : x.names = Inbox!Names(p) /\ v5' = v5 \cup {x} BY <2>2
    <3> QED BY <3>1 DEF ClosedNames
  <2>6. CASE v10.pc = "idle"
    <3>1. ReaderIs' BY <2>1 DEF InboxInv, ReaderInv, ReaderIs
    <3> QED BY <2>1, <2>3, <2>6, <3>1, NotYetRead DEF InboxInv
  <2>7. CASE v10.pc # "idle"
    <3>1. v13' = v13 \cup {q \in Inbox!Pairs : Inbox!Names(q) = Inbox!Names(p)}
      BY <1>2, <2>7 DEF Inbox!Conclude
    <3>2. \A q : AskedOf(q)' => Inbox!Names(q) # Inbox!Names(p) BY <3>1
    <3>3. \A q : AskedOf(q)' => ((Inbox!Names(q) \in ClosedNames)' <=> Inbox!Names(q) \in ClosedNames)
      BY <2>4, <2>5, <3>2
    <3>4. v13 \subseteq v13' BY <3>1
    <3>5. ReaderInv BY DEF InboxInv
    <3> HIDE DEF AskedOf, Inbox!Act
    <3> QED BY <2>1, <2>3, <3>3, <3>4, <3>5, UntouchedKeeps DEF InboxInv
  <2>8. ReaderInv' => InboxInv' BY <2>1, <2>3 DEF InboxInv
  <2> QED BY <2>6, <2>7, <2>8
<1>3. ASSUME NEW p \in Inbox!Pairs, Inbox!Suggest(p) PROVE InboxInv'
  <2>1. UNCHANGED <<v1, v2, v5>> /\ v6' \subseteq Inbox!Pairs BY <1>3 DEF InboxInv, Inbox!Suggest
  <2>2. ReaderInv'
    BY <1>3, <2>1, UntouchedKeeps DEF InboxInv, Inbox!Suggest, Inbox!Names, ClosedNames
  <2> QED BY <2>1, <2>2 DEF InboxInv
<1>4. ASSUME NEW c \in Creatives, Inbox!Rename(c) \/ Inbox!SetState(c) PROVE InboxInv'
  <2>1. /\ v5' = v5 /\ v6' = v6 /\ v10' = v10
        /\ DOMAIN v1' = Creatives /\ v1' = [d \in Creatives |-> v1'[d]]
        /\ DOMAIN v2' = Creatives /\ v2' = [d \in Creatives |-> v2'[d]]
        /\ \A d \in Creatives : v1'[d] \in {FirstName(d), NewName(d)}
        /\ \A d \in Creatives : d # c => v1'[d] = v1[d] /\ v2'[d] = v2[d]
    <3>1. CASE Inbox!Rename(c) BY <3>1 DEF InboxInv, Inbox!Rename
    <3>2. CASE Inbox!SetState(c) BY <3>2 DEF InboxInv, Inbox!SetState
    <3> QED BY <1>4, <3>1, <3>2
  <2>2. CASE v10.pc = "idle"
    <3>1. ReaderIs' BY <2>1 DEF InboxInv, ReaderInv, ReaderIs
    <3> QED BY <2>1, <2>2, <3>1, NotYetRead DEF InboxInv
  <2>3. CASE v10.pc # "idle"
    <3>1. v13' = v13 \cup Inbox!With(c) BY <1>4, <2>3 DEF Inbox!Rename, Inbox!SetState
    <3>2. \A q : AskedOf(q)' => c \notin q /\ q \subseteq Creatives
      BY <3>1, PairsAreOfTwo DEF Inbox!With
    <3>3. \A q : AskedOf(q)' => \A d \in q : v1'[d] = v1[d] /\ v2'[d] = v2[d] BY <2>1, <3>2
    <3>4. \A q : AskedOf(q)' => Inbox!Names(q)' = Inbox!Names(q) BY <3>3 DEF Inbox!Names
    <3>5. ClosedNames' = ClosedNames BY <2>1 DEF ClosedNames
    <3>6. v13 \subseteq v13' BY <3>1
    <3>7. ReaderInv BY DEF InboxInv
    <3> HIDE DEF AskedOf, Inbox!Act
    <3> QED BY <2>1, <3>3, <3>4, <3>5, <3>6, <3>7, UntouchedKeeps DEF InboxInv
  <2>4. ReaderInv' => InboxInv' BY <2>1 DEF InboxInv
  <2> QED BY <2>2, <2>3, <2>4
<1> QED BY <1>1, <1>2, <1>3, <1>4

(* A name is no id: what the rulings read call a pair is what it is called.  *)
LEMMA NamesAreNotIds ==
    ASSUME InboxInv, NEW p \in Inbox!Pairs
    PROVE  \A r \in v5 : Inbox!Names(p) # r.ids
<1>1. PICK a \in p : a \in Creatives BY PairsAreOfTwo
<1>2. v1[a] \in Inbox!Names(p) /\ v1[a] \notin Creatives
  BY <1>1, JudgingAssumption DEF Inbox!Names, InboxInv
<1> QED BY <1>2 DEF InboxInv

LEMMA ReadsKeepTheInbox ==
    ASSUME InboxInv, Inbox!Read
    PROVE  InboxInv'
<1>1. UNCHANGED <<v1, v2, v5, v6>>
  BY DEF Inbox!Read, Inbox!Reads, Inbox!LookUp, Inbox!Remember, Inbox!ReadRulings,
         Inbox!ReadFiles, Inbox!ReadCreatives, Inbox!data
<1>2. ReaderInv' => InboxInv' BY <1>1 DEF InboxInv
<1>3. ReaderInv BY DEF InboxInv
<1>4. \A p : Inbox!Names(p)' = Inbox!Names(p) BY <1>1 DEF Inbox!Names
<1>5. ClosedNames' = ClosedNames BY <1>1 DEF ClosedNames
<1>6. CASE Inbox!LookUp
  <2>1. \E x \in {"remember", "rulings"} : \E y :
            v10' = [Inbox!Waiting EXCEPT !.pc = x, !.seen = y]
    BY <1>6 DEF Inbox!LookUp, Inbox!Reads
  <2>2. ReaderIs' /\ v10'.pc \in {"remember", "rulings"} BY <2>1 DEF ReaderIs, Inbox!Waiting
  <2>3. v10'.pc \notin {"files", "creatives", "suggestions"} BY <2>2
  <2> QED BY <1>2, <2>2, <2>3, NotYetRead
<1>7. CASE Inbox!Remember
  <2>1. v10' = [v10 EXCEPT !.pc = "rulings"]
    BY <1>7 DEF Inbox!Remember, Inbox!Reads
  <2>2. ReaderIs' /\ v10'.pc = "rulings" BY <1>3, <2>1 DEF ReaderInv, ReaderIs
  <2>3. v10'.pc \notin {"files", "creatives", "suggestions"} BY <2>2
  <2> QED BY <1>2, <2>2, <2>3, NotYetRead
<1>8. CASE Inbox!ReadRulings
  <2>1. v10' = [v10 EXCEPT !.pc = "files", !.ruled = ClosedNames \cup {r.ids : r \in v5}]
    BY <1>8 DEF Inbox!ReadRulings, Inbox!Reads, ClosedNames
  <2>2. v10'.pc = "files" /\ v10'.ruled = ClosedNames \cup {r.ids : r \in v5}
    BY <1>3, <2>1 DEF ReaderInv, ReaderIs
  <2>3. \A p : AskedOf(p)' => (Inbox!Names(p) \in v10'.ruled <=> Inbox!Names(p) \in ClosedNames)
    BY <2>2, NamesAreNotIds DEF AskedOf
  <2>4. ReaderIs' BY <1>3, <2>1 DEF ReaderInv, ReaderIs
  <2>5. ~FilesRead' /\ v10'.pc # "suggestions" BY <2>2 DEF FilesRead
  <2>6. \A p : AskedOf(p)' => (Inbox!Names(p)' \in v10'.ruled <=> Inbox!Names(p)' \in ClosedNames')
    BY <1>4, <1>5, <2>3
  <2>7. RulingsRead' => \A p : AskedOf(p)' => (Inbox!Names(p) \in v10.ruled <=> Inbox!Names(p) \in ClosedNames)'
    BY <2>6
  <2> QED BY <1>2, <2>4, <2>5, <2>7 DEF ReaderInv
<1>9. CASE Inbox!ReadFiles
  <2>1. /\ v10.pc = "files" /\ v13' = v13
        /\ v10' = [v10 EXCEPT !.pc = "creatives", !.names = v1,
                              !.filed = {c \in Inbox!Current : v3[c] # {}}]
    BY <1>9 DEF Inbox!ReadFiles, Inbox!Reads
  <2>2. /\ v10'.pc = "creatives" /\ v10'.names = v1 /\ v10'.ruled = v10.ruled
        /\ v10'.filed \subseteq Inbox!Current
    BY <1>3, <2>1 DEF ReaderInv, ReaderIs
  <2>3. v10'.filed \subseteq Creatives /\ \A c \in v10'.filed : v2[c] = "active"
    BY <2>2 DEF Inbox!Current
  <2>4. ReaderIs' BY <1>3, <2>1 DEF ReaderInv, ReaderIs
  <2>5. \A p : AskedOf(p)' => (Inbox!Names(p) \in v10'.ruled <=> Inbox!Names(p) \in ClosedNames)
    BY <1>3, <2>1, <2>2 DEF AskedOf, ReaderInv, RulingsRead
  <2> QED BY <1>1, <1>4, <1>5, <2>2, <2>3, <2>4, <2>5 DEF InboxInv, ReaderInv, RulingsRead, FilesRead
<1>10. CASE Inbox!ReadCreatives
  <2> DEFINE met == [c \in Creatives |-> IF c \in v10.filed THEN v10.names[c] ELSE v1[c]]
  <2>1. /\ v10.pc = "creatives" /\ v13' = v13
        /\ v10' = [v10 EXCEPT !.pc = "suggestions", !.current = Inbox!Current, !.names = met]
    BY <1>10 DEF Inbox!ReadCreatives, Inbox!Reads
  <2>2. /\ v10'.pc = "suggestions" /\ v10'.names = met /\ v10'.ruled = v10.ruled
        /\ v10'.filed = v10.filed /\ v10'.current = Inbox!Current
    BY <1>3, <2>1 DEF ReaderInv, ReaderIs
  <2>3. ReaderIs' BY <1>3, <2>1 DEF ReaderInv, ReaderIs
  <2>4. \A p : AskedOf(p)' => (Inbox!Names(p) \in v10'.ruled <=> Inbox!Names(p) \in ClosedNames)
    BY <1>3, <2>1, <2>2 DEF AskedOf, ReaderInv, RulingsRead
  <2>5. ASSUME NEW p, AskedOf(p)', NEW c \in p
        PROVE  /\ v10'.names[c] = v1[c] /\ (c \in v10'.filed => v2[c] = "active")
               /\ c \in v10'.current <=> v2[c] = "active"
    <3>1. AskedOf(p) /\ c \in Creatives BY <2>1, <2>5, PairsAreOfTwo DEF AskedOf
    <3>2. c \in v10.filed => v10.names[c] = v1[c] /\ v2[c] = "active"
      BY <1>3, <2>1, <3>1 DEF ReaderInv, FilesRead
    <3> QED BY <2>2, <3>1, <3>2 DEF Inbox!Current
  <2>6. v10'.filed \subseteq Creatives /\ v10'.current \subseteq Creatives
    BY <1>3, <2>1, <2>2 DEF ReaderInv, FilesRead, Inbox!Current
  <2>7. \A p : AskedOf(p)' => (Inbox!Names(p)' \in v10'.ruled <=> Inbox!Names(p)' \in ClosedNames')
    BY <1>4, <1>5, <2>4
  <2>8. v10'.pc # "creatives" BY <2>2
  <2> HIDE DEF met
  <2>9. /\ \A p : AskedOf(p)' => (Inbox!Names(p) \in v10.ruled <=> Inbox!Names(p) \in ClosedNames)'
        /\ \A p : AskedOf(p)' => \A c \in p : (c \in v10'.filed => v2'[c] = "active")
        /\ \A p : AskedOf(p)' => \A c \in p : v10'.names[c] = v1'[c]
        /\ \A p : AskedOf(p)' => \A c \in p : (c \in v10'.current <=> v2'[c] = "active")
    BY <1>1, <2>5, <2>7
  <2> QED BY <1>2, <2>3, <2>6, <2>8, <2>9 DEF ReaderInv
<1> QED BY <1>2, <1>6, <1>7, <1>8, <1>9, <1>10 DEF Inbox!Read

LEMMA InboxGoesOn == InboxInv /\ Inbox!Next => InboxInv'
<1> SUFFICES ASSUME InboxInv, Inbox!Next PROVE InboxInv'
  OBVIOUS
<1>1. CASE Inbox!Neo4j \/ Inbox!Expire
  <2>1. UNCHANGED <<v1, v2, v5, v6, v10>>
    BY <1>1 DEF Inbox!Neo4j, Inbox!Expire, Inbox!data, Inbox!Act
  <2>2. v10.pc # "idle" => v13 \subseteq v13'
    BY <1>1 DEF Inbox!Neo4j, Inbox!Expire, Inbox!data, Inbox!Act
  <2>3. /\ ClosedNames' = ClosedNames /\ \A p : Inbox!Names(p)' = Inbox!Names(p)
    BY <2>1 DEF Inbox!Names, ClosedNames
  <2>4. ReaderInv'
    BY <2>1, <2>2, <2>3, UntouchedKeeps DEF InboxInv
  <2> QED BY <2>1, <2>4 DEF InboxInv
<1>2. CASE Inbox!Answer
  <2>1. UNCHANGED <<v1, v2, v5, v6>> /\ v10' = Inbox!Waiting BY <1>2 DEF Inbox!Answer, Inbox!data
  <2>2. ReaderInv' BY <2>1, NotYetRead DEF ReaderIs, Inbox!Waiting
  <2> QED BY <2>1, <2>2 DEF InboxInv
<1> QED BY <1>1, <1>2, ChangesKeepTheInbox, ReadsKeepTheInbox DEF Inbox!Next, Inbox!Change

(* The pair of a group consists of two of its creatives.                    *)
LEMMA TwinsAreFiled ==
    ASSUME NEW k, Inbox!Cardinality(Inbox!Group(k)) >= 2, NEW f \in Inbox!Group(k),
           v10.filed \subseteq Creatives
    PROVE  Inbox!TwinOf(k, f) \subseteq v10.filed /\ Inbox!TwinOf(k, f) \in Inbox!Pairs
<1> DEFINE G == Inbox!Group(k)
<1>1. G \subseteq v10.filed /\ G \subseteq Creatives BY DEF Inbox!Group
<1>2. IsFiniteSet(G) BY <1>1, FS_Subset, JudgingAssumption
<1>3. Cardinality(G) >= 2 /\ Cardinality(G) \in Nat BY <1>2, InboxCount, FS_CardinalityType
<1>4. G \ {f} # {}
  <2> HIDE DEF G
  <2>1. G # {f} BY <1>3, FS_Singleton
  <2>2. G # {} BY <1>3, FS_EmptySet
  <2> QED BY <2>1, <2>2
<1>5. G \ {f} \subseteq Nat BY <1>1, JudgingAssumption
<1>6. Inbox!Min(G \ {f}) \in G \ {f}
  <2> HIDE DEF G
  <2>1. \E x \in G \ {f} : \A y \in G \ {f} : x <= y BY <1>4, <1>5, LeastNumber
  <2> QED BY <2>1 DEF Inbox!Min
<1> HIDE DEF G
<1>7. Inbox!TwinOf(k, f) = {f, Inbox!Min(G \ {f})} BY DEF Inbox!TwinOf, G
<1>8. f \in G BY DEF G
<1>9. PICK m \in G : m # f /\ Inbox!TwinOf(k, f) = {f, m} BY <1>6, <1>7
<1> QED BY <1>1, <1>8, <1>9, PairsAreOfTwo

LEMMA ScoresAreNumbers == \A p \in Inbox!Pairs : Inbox!Score(p) \in Nat
<1> SUFFICES ASSUME NEW p \in Inbox!Pairs PROVE Inbox!Score(p) \in Nat
  OBVIOUS
<1>1. p \subseteq Nat BY PairsAreOfTwo, JudgingAssumption
<1>2. PICK a \in p, b \in p : p = {a, b} BY PairsAreOfTwo
<1>3. \E x \in p : \A y \in p : x >= y BY <1>1, <1>2
<1>4. \E x \in p : \A y \in p : x <= y BY <1>1, <1>2
<1>5. Inbox!Max(p) \in p BY <1>3 DEF Inbox!Max
<1>6. Inbox!Min(p) \in p BY <1>4 DEF Inbox!Min
<1>7. Inbox!Max(p) \in Nat /\ Inbox!Min(p) \in Nat BY <1>1, <1>5, <1>6
<1>8. Inbox!Score(p) = Inbox!Max(p) * 10 + Inbox!Min(p) BY DEF Inbox!Score
<1> QED BY <1>7, <1>8

(* The cap of the page cuts nothing off.                                    *)
LEMMA AllAreBest ==
    ASSUME NEW cap
    PROVE  Inbox!Best(Inbox!InBand, cap) \subseteq
               Inbox!Best(Inbox!InBand, Inbox!Cardinality(Inbox!Pairs))
<1> DEFINE B == Inbox!InBand
           Above(p) == {q \in B : Inbox!Score(q) > Inbox!Score(p)}
<1>1. B \subseteq Inbox!Pairs BY DEF Inbox!InBand
<1> HIDE DEF B
<1>2. ASSUME NEW p \in B
      PROVE  Inbox!Cardinality(Above(p)) < Inbox!Cardinality(Inbox!Pairs)
  <2>1. Above(p) \subseteq Inbox!Pairs /\ p \in Inbox!Pairs BY <1>1
  <2>2. p \notin Above(p) BY <2>1, ScoresAreNumbers
  <2>3. Cardinality(Above(p)) <= Cardinality(Inbox!Pairs) /\ Above(p) # Inbox!Pairs
    BY <2>1, <2>2, PairsAreOfTwo, FS_Subset
  <2> HIDE DEF Above
  <2>4. Cardinality(Above(p)) # Cardinality(Inbox!Pairs)
    BY <2>1, <2>3, PairsAreOfTwo, FS_Subset
  <2>5. Cardinality(Above(p)) \in Nat /\ Cardinality(Inbox!Pairs) \in Nat
    BY <2>1, PairsAreOfTwo, FS_Subset, FS_CardinalityType
  <2> QED BY <2>3, <2>4, <2>5, InboxCount
<1>3. \A p \in B : Inbox!Cardinality({q \in B : Inbox!Score(q) > Inbox!Score(p)})
                       < Inbox!Cardinality(Inbox!Pairs)
  BY <1>2
<1> QED BY <1>3 DEF Inbox!Best, B

(* What a request makes of a pair that nothing happened to since it began.   *)
LEMMA UntouchedIsSeenAsItIs ==
    ASSUME InboxInv, v10.pc = "suggestions", NEW p, AskedOf(p)
    PROVE  /\ Inbox!Called(p) = Inbox!Names(p)
           /\ Inbox!Open(p) <=> p \subseteq v10.current /\ Inbox!Called(p) \notin v10.ruled
           /\ p \subseteq v10.filed => p \subseteq v10.current
<1>1. /\ \A c \in p : v10.names[c] = v1[c]
      /\ \A c \in p : (c \in v10.current <=> v2[c] = "active")
      /\ \A c \in p : (c \in v10.filed => v2[c] = "active")
      /\ Inbox!Names(p) \in v10.ruled <=> Inbox!Names(p) \in ClosedNames
  BY DEF InboxInv, ReaderInv, RulingsRead, FilesRead
<1>2. Inbox!Called(p) = Inbox!Names(p) BY <1>1 DEF Inbox!Called, Inbox!Names
<1>3. p \subseteq Creatives BY PairsAreOfTwo DEF AskedOf
<1>4. p \subseteq Inbox!Current <=> p \subseteq v10.current BY <1>1, <1>3 DEF Inbox!Current
<1>5. Inbox!Open(p) <=> p \subseteq Inbox!Current /\ Inbox!Names(p) \notin ClosedNames
  BY DEF Inbox!Open, ClosedNames
<1> QED BY <1>1, <1>2, <1>4, <1>5

LEMMA PagesAreOpen == InboxInv => Inbox!PageStep
<1> SUFFICES ASSUME InboxInv, Inbox!Answer PROVE Inbox!PageStep
  BY DEF Inbox!PageStep
<1> DEFINE N == Inbox!Cardinality(Inbox!Pairs)
           shown(cap, f) == Inbox!Twins(f) \cup Inbox!Borderline(cap)
           free(p) == /\ p \in Inbox!Pairs /\ ~Inbox!Handled(p)
                      /\ p \subseteq v10.current \/ p \subseteq v10.filed
<1>1. PICK f \in [FileKeys -> Creatives] :
          /\ \A k \in FileKeys : Inbox!Group(k) # {} => f[k] \in Inbox!Group(k)
          /\ v11' = Inbox!Deduped(Inbox!Candidates(f, N))
          /\ v12' = Inbox!Candidates(f, BorderlineLimit)
  BY DEF Inbox!Answer
<1>2. \A cap : Inbox!Candidates(f, cap) = shown(cap, f) \cup Inbox!Recalled(shown(cap, f))
  BY DEF Inbox!Candidates
<1>0. v10.pc = "suggestions" /\ v10.filed \subseteq Creatives
  BY DEF Inbox!Answer, InboxInv, ReaderInv, FilesRead
<1>3. ASSUME NEW i \in Inbox!Twins(f)
      PROVE  i = Inbox!Item("twins", i.pair) /\ free(i.pair)
  <2>1. PICK k \in FileKeys : /\ Inbox!Cardinality(Inbox!Group(k)) >= 2
                              /\ ~Inbox!Handled(Inbox!TwinOf(k, f[k]))
                              /\ i = Inbox!Item("twins", Inbox!TwinOf(k, f[k]))
    BY DEF Inbox!Twins
  <2>2. Inbox!Group(k) # {} BY <2>1, InboxCount, FS_EmptySet
  <2>3. /\ Inbox!TwinOf(k, f[k]) \subseteq v10.filed
        /\ Inbox!TwinOf(k, f[k]) \in Inbox!Pairs
    BY <1>0, <1>1, <2>1, <2>2, TwinsAreFiled
  <2>4. i.pair = Inbox!TwinOf(k, f[k]) BY <2>1 DEF Inbox!Item
  <2> QED BY <2>1, <2>3, <2>4
<1>4. ASSUME NEW cap, NEW i \in Inbox!Borderline(cap)
      PROVE  i = Inbox!Item("borderline", i.pair) /\ free(i.pair)
  <2>1. PICK p \in Inbox!InBand : i = Inbox!Item("borderline", p)
    BY DEF Inbox!Borderline, Inbox!Best
  <2>2. i.pair = p BY <2>1 DEF Inbox!Item
  <2> QED BY <2>1, <2>2 DEF Inbox!InBand
<1>5. ASSUME NEW S, NEW i \in Inbox!Recalled(S)
      PROVE  /\ i = Inbox!Item("recall", i.pair) /\ free(i.pair)
             /\ i.pair \in v6 /\ \A j \in S : i.pair # j.pair
             /\ Inbox!Recallable(i.pair) /\ i.pair \subseteq v10.current
  <2>1. PICK p \in v6 : /\ p \subseteq v10.current /\ Inbox!Recallable(p)
                        /\ p \notin {j.pair : j \in S} /\ i = Inbox!Item("recall", p)
    BY DEF Inbox!Recalled
  <2>2. i.pair = p BY <2>1 DEF Inbox!Item
  <2> QED BY <2>1, <2>2 DEF Inbox!Recallable, InboxInv
<1>6. \A p : /\ Inbox!Item("borderline", p).channel = "borderline"
             /\ Inbox!Item("twins", p).channel = "twins"
  BY DEF Inbox!Item
<1> DEFINE P == Inbox!Candidates(f, N)
<1>7. ASSUME NEW i \in P PROVE i.pair \in v13 \/ Inbox!Open(i.pair)
  <2>1. \/ i \in Inbox!Twins(f) \/ i \in Inbox!Borderline(N)
        \/ i \in Inbox!Recalled(shown(N, f))
    BY <1>2
  <2>2. free(i.pair)
    <3>1. CASE i \in Inbox!Twins(f) BY <1>3, <3>1
    <3>2. CASE i \in Inbox!Borderline(N) BY <1>4, <3>2
    <3>3. CASE i \in Inbox!Recalled(shown(N, f)) BY <1>5, <3>3
    <3> QED BY <2>1, <3>1, <3>2, <3>3
  <2> QED BY <1>0, <2>2, UntouchedIsSeenAsItIs DEF AskedOf, Inbox!Handled
<1>8. ASSUME NEW i \in v11', NEW j \in v11', i.pair = j.pair PROVE i = j
  <2>1. i \in P /\ j \in P BY <1>1 DEF Inbox!Deduped
  <2>2. /\ i.channel = "twins" \/ Inbox!Item("twins", i.pair) \notin P
        /\ j.channel = "twins" \/ Inbox!Item("twins", i.pair) \notin P
    BY <1>1, <1>8 DEF Inbox!Deduped
  <2>3. CASE i \in shown(N, f) /\ j \in shown(N, f)
    <3>1. CASE i \in Inbox!Twins(f) \/ j \in Inbox!Twins(f)
      <4>1. Inbox!Item("twins", i.pair) \in P BY <1>2, <1>3, <1>8, <3>1
      <4>2. i.channel = "twins" /\ j.channel = "twins" BY <2>2, <4>1
      <4>3. i \in Inbox!Twins(f) /\ j \in Inbox!Twins(f) BY <1>4, <1>6, <2>3, <4>2
      <4> QED BY <1>3, <1>8, <4>3
    <3>2. CASE i \in Inbox!Borderline(N) /\ j \in Inbox!Borderline(N)
      BY <1>4, <1>8, <3>2
    <3> QED BY <2>3, <3>1, <3>2
  <2>4. CASE i \in Inbox!Recalled(shown(N, f)) /\ j \in Inbox!Recalled(shown(N, f))
    BY <1>5, <1>8, <2>4
  <2>5. i \in shown(N, f) => j \notin Inbox!Recalled(shown(N, f)) BY <1>5, <1>8
  <2>6. j \in shown(N, f) => i \notin Inbox!Recalled(shown(N, f)) BY <1>5, <1>8
  <2> QED BY <1>2, <2>1, <2>3, <2>4, <2>5, <2>6
<1>9. \A i \in v11' : i.pair \in v13 \/ Inbox!Open(i.pair) BY <1>1, <1>7 DEF Inbox!Deduped
(* Every pair of a candidate is on the page, under its first channel.       *)
<1>10. ASSUME NEW i \in P PROVE \E j \in v11' : j.pair = i.pair
  <2>1. CASE Inbox!Item("twins", i.pair) \in P
    <3>1. Inbox!Item("twins", i.pair).pair = i.pair BY DEF Inbox!Item
    <3>2. Inbox!Item("twins", i.pair) \in v11' BY <1>1, <1>6, <2>1 DEF Inbox!Deduped
    <3> QED BY <3>1, <3>2
  <2>2. CASE Inbox!Item("twins", i.pair) \notin P BY <1>1, <2>2 DEF Inbox!Deduped
  <2> QED BY <2>1, <2>2
<1>11. ASSUME NEW q \in v6, q \subseteq v10.current, Inbox!Recallable(q)
       PROVE  \E i \in P : i.pair = q
  <2>1. CASE q \in {i.pair : i \in shown(N, f)} BY <1>2, <2>1
  <2>2. CASE q \notin {i.pair : i \in shown(N, f)}
    <3>1. Inbox!Item("recall", q) \in Inbox!Recalled(shown(N, f))
      BY <1>11, <2>2 DEF Inbox!Recalled
    <3> QED BY <1>2, <3>1 DEF Inbox!Item
  <2> QED BY <2>1, <2>2
<1>12. ASSUME NEW i \in v12' PROVE \E j \in v11' : j.pair = i.pair
  <2>1. CASE i \in shown(BorderlineLimit, f)
    <3>1. i \in shown(N, f) BY <2>1, AllAreBest DEF Inbox!Borderline
    <3> QED BY <1>2, <1>10, <3>1
  <2>2. CASE i \in Inbox!Recalled(shown(BorderlineLimit, f))
    <3>1. i.pair \in v6 /\ i.pair \subseteq v10.current /\ Inbox!Recallable(i.pair)
      BY <1>5, <2>2
    <3> QED BY <1>10, <1>11, <3>1
  <2> QED BY <1>1, <1>2, <2>1, <2>2
<1>13. ASSUME NEW q \in v6, Inbox!Open(q), q \notin v13, q \notin v10.seen
       PROVE  \E j \in v11' : j.pair = q
  <2>1. AskedOf(q) BY <1>13 DEF InboxInv, AskedOf
  <2>2. q \subseteq v10.current /\ Inbox!Recallable(q)
    BY <1>0, <1>13, <2>1, UntouchedIsSeenAsItIs DEF Inbox!Recallable, Inbox!Handled
  <2> QED BY <1>10, <1>11, <2>2
<1> HIDE DEF P
<1> QED BY <1>8, <1>9, <1>12, <1>13 DEF Inbox!PageStep, Inbox!PairsOf

(* services/review.py: the merge page shows a pair once whichever channels   *)
(* found it, and all the judge would be asked about by the same reads; of    *)
(* the pairs nothing happens to while it is made it shows none that was      *)
(* closed under these names, archived or lost, and all open ones the judge   *)
(* would merge: for any creatives, files and rulings, and whatever happens   *)
(* between any two of its reads.                                            *)
THEOREM ThePageIsOpen == MCSpec => InboxIsOpen
<1> DEFINE J == part = "inbox" => InboxInv
           S == part = "inbox" => Inbox!PageStep
<1>1. MCInit => J BY InboxStarts
<1>2. ASSUME J, [MCNext]_MCvars PROVE J'
  <2> SUFFICES ASSUME part = "inbox", InboxInv PROVE InboxInv'
    BY <1>2 DEF MCNext, MCvars
  <2>1. CASE Inbox!Next BY <2>1, InboxGoesOn
  <2>2. CASE UNCHANGED others
    <3>1. UNCHANGED <<v1, v2, v5, v6, v10, v13>>
      BY <2>2 DEF others, from2, from4, from5, from7, from8
    <3>2. /\ ClosedNames' = ClosedNames /\ \A p : Inbox!Names(p)' = Inbox!Names(p)
      BY <3>1 DEF Inbox!Names, ClosedNames
    <3>3. ReaderInv' BY <3>1, <3>2, UntouchedKeeps DEF InboxInv
    <3> QED BY <3>1, <3>3 DEF InboxInv
  <2> QED BY <1>2, <2>1, <2>2 DEF MCNext, MCvars, Other
<1>3. J => S BY PagesAreOpen
<1>4. InboxIsOpen <=> [][S]_MCvars BY DEF InboxIsOpen
<1> HIDE DEF J, S
<1> QED BY <1>1, <1>2, <1>3, <1>4, PTL DEF MCSpec

(***************************************************************************)
(* The sample of the experiment, for any variants, families, endings and    *)
(* quotas.                                                                  *)
(***************************************************************************)
LEMMA SampleCount ==
    /\ \A S : Sampling!Cardinality(S) = Cardinality(S)
    /\ \A S : Sampling!IsFiniteSet(S) <=> IsFiniteSet(S)
BY DEF Sampling!Cardinality, Cardinality, Sampling!IsFiniteSet, IsFiniteSet

BothGolds == {"same", "diff"}
StrataOf(g) == {Sampling!Stratum(p) : p \in Sampling!Pool(g)}

(* The pairs of the variants are finite in number, and so are the strata.   *)
LEMMA PairsAreFinite == IsFiniteSet(Sampling!Pairs)
<1>1. IsFiniteSet(Confirmed \X Confirmed) BY JudgingAssumption, FS_Product
<1> QED BY <1>1, FS_Subset DEF Sampling!Pairs

LEMMA StrataAreFinite == ASSUME NEW g PROVE IsFiniteSet(StrataOf(g))
<1> DEFINE f == [p \in Sampling!Pool(g) |-> Sampling!Stratum(p)]
<1>1. IsFiniteSet(Sampling!Pool(g)) BY PairsAreFinite, FS_Subset DEF Sampling!Pool
<1>2. f \in Surjection(Sampling!Pool(g), StrataOf(g))
  <2>1. f \in [Sampling!Pool(g) -> StrataOf(g)] BY DEF StrataOf
  <2>2. \A s \in StrataOf(g) : \E p \in Sampling!Pool(g) : f[p] = s BY DEF StrataOf
  <2> HIDE DEF f
  <2> QED BY <2>1, <2>2 DEF Surjection
<1> QED BY <1>1, <1>2, FS_Surjection

(* The strata of a pool in a row: each once.                                *)
LEMMA StrataInARow ==
    ASSUME NEW g
    PROVE  /\ Len(Sampling!Strata(g)) \in Nat
           /\ Sampling!Strata(g) \in [1..Len(Sampling!Strata(g)) -> StrataOf(g)]
           /\ \A i, j \in 1..Len(Sampling!Strata(g)) :
                  Sampling!Strata(g)[i] = Sampling!Strata(g)[j] => i = j
           /\ \A s \in StrataOf(g) : \E i \in 1..Len(Sampling!Strata(g)) : Sampling!Strata(g)[i] = s
<1> DEFINE S == StrataOf(g)
           n == Cardinality(S)
           q == Sampling!Strata(g)
<1>1. IsFiniteSet(S) /\ n \in Nat /\ ExistsBijection(1..n, S)
  BY StrataAreFinite, FS_CardinalityType
<1>2. \E f \in [1..n -> S] : \A a, b \in 1..n : f[a] = f[b] => a = b
  BY <1>1 DEF ExistsBijection, Bijection, Injection, IsInjective
<1>3. q = CHOOSE f \in [1..n -> S] : \A a, b \in DOMAIN f : f[a] = f[b] => a = b
  BY SampleCount DEF Sampling!Strata, Sampling!SetToSeq, Sampling!IsInjective, StrataOf
<1>4. q \in [1..n -> S] /\ \A a, b \in 1..n : q[a] = q[b] => a = b
  <2>1. \E f \in [1..n -> S] : \A a, b \in DOMAIN f : f[a] = f[b] => a = b BY <1>2
  <2> HIDE DEF q, n, S
  <2>2. q \in [1..n -> S] /\ \A a, b \in DOMAIN q : q[a] = q[b] => a = b
    BY <1>3, <2>1, Zenon
  <2> QED BY <2>2
<1>5. Len(q) = n BY <1>1, <1>4, LenProperties, SeqDef
<1>6. q \in Injection(1..n, S)
  <2> HIDE DEF q, n, S
  <2> QED BY <1>4 DEF Injection, IsInjective
<1>7. Cardinality(1..n) = Cardinality(S) BY <1>1, FS_Interval
<1>8. q \in Surjection(1..n, S) BY <1>1, <1>6, <1>7, FS_Injection
<1>9. \A s \in S : \E i \in 1..n : q[i] = s
  <2> HIDE DEF q, n, S
  <2> QED BY <1>8 DEF Surjection
<1> QED BY <1>1, <1>4, <1>5, <1>9

-----------------------------------------------------------------------------
(* Turns go round.                                                          *)
LEMMA Division ==
    ASSUME NEW n \in Nat \ {0}, NEW c \in Nat
    PROVE  /\ c \div n \in Nat /\ c % n \in 0..(n - 1)
           /\ c = n * (c \div n) + (c % n)
OBVIOUS

LEMMA DivisionIsUnique ==
    ASSUME NEW n \in Nat \ {0}, NEW c \in Nat, NEW q \in Nat, NEW r \in 0..(n - 1), c = n * q + r
    PROVE  c \div n = q /\ c % n = r
<1> DEFINE d == c \div n e == c % n
<1>1. d \in Nat /\ e \in 0..(n - 1) /\ c = n * d + e BY Division
<1> HIDE DEF d, e
<1>2. ASSUME NEW x \in Nat, NEW y \in Nat, x < y PROVE n * y >= n * x + n
  <2>1. PICK z \in Nat : y = x + 1 + z
    <3>1. y - x - 1 \in Nat /\ y = x + 1 + (y - x - 1) BY <1>2
    <3> QED BY <3>1
  <2>2. n * y = n * x + n + n * z BY <2>1
  <2>3. n * z >= 0 BY <2>1
  <2>4. n * y \in Int /\ n * x \in Int /\ n * z \in Int OBVIOUS
  <2> QED BY <2>2, <2>3, <2>4
<1>3. ~(d < q)
  <2> SUFFICES ASSUME d < q PROVE FALSE OBVIOUS
  <2>1. n * q >= n * d + n BY <1>1, <1>2
  <2>2. n * q \in Int /\ n * d \in Int BY <1>1
  <2> QED BY <1>1, <2>1, <2>2
<1>4. ~(q < d)
  <2> SUFFICES ASSUME q < d PROVE FALSE OBVIOUS
  <2>1. n * d >= n * q + n BY <1>1, <1>2
  <2>2. n * q \in Int /\ n * d \in Int BY <1>1
  <2> QED BY <1>1, <2>1, <2>2
<1>5. d = q BY <1>1, <1>3, <1>4
<1>6. e = r
  <2>1. n * q \in Int OBVIOUS
  <2> QED BY <1>1, <1>5, <2>1
<1> QED BY <1>5, <1>6 DEF d, e

Turns(n, c, i) == (c \div n) + (IF i <= c % n THEN 1 ELSE 0)

LEMMA NextTurn ==
    ASSUME NEW n \in Nat \ {0}, NEW c \in Nat
    PROVE  /\ (c % n) + 1 \in 1..n
           /\ \A i \in 1..n :
                 /\ Turns(n, c, i) \in Nat /\ Turns(n, 0, i) = 0
                 /\ \A j \in 1..n : Turns(n, c, i) <= Turns(n, c, j) + 1
                 /\ Turns(n, c + 1, i)
                       = IF i = (c % n) + 1 THEN Turns(n, c, i) + 1 ELSE Turns(n, c, i)
<1> DEFINE q == c \div n r == c % n
           Goal == /\ r + 1 \in 1..n
                   /\ \A i \in 1..n :
                         /\ Turns(n, c, i) \in Nat /\ Turns(n, 0, i) = 0
                         /\ \A j \in 1..n : Turns(n, c, i) <= Turns(n, c, j) + 1
                         /\ Turns(n, c + 1, i)
                               = IF i = r + 1 THEN Turns(n, c, i) + 1 ELSE Turns(n, c, i)
<1>1. q \in Nat /\ r \in 0..(n - 1) /\ c = n * q + r BY Division
<1>4. \A i \in 1..n : Turns(n, c, i) = q + (IF i <= r THEN 1 ELSE 0) /\ Turns(n, 0, i) = 0
  <2>1. 0 \div n = 0 /\ 0 % n = 0
    <3>1. 0 = n * 0 + 0 /\ 0 \in 0..(n - 1) OBVIOUS
    <3> QED BY <3>1, DivisionIsUnique
  <2> QED BY <2>1 DEF Turns
<1>2. ASSUME r + 1 < n PROVE Goal
  <2>1. c + 1 = n * q + (r + 1) /\ r + 1 \in 0..(n - 1) /\ c + 1 \in Nat
    <3> HIDE DEF q, r
    <3>1. n * q \in Int BY <1>1
    <3> QED BY <1>1, <1>2, <3>1
  <2>2. (c + 1) \div n = q /\ (c + 1) % n = r + 1
    <3> HIDE DEF q, r
    <3> QED BY <1>1, <2>1, DivisionIsUnique
  <2>3. \A i : Turns(n, c + 1, i) = q + (IF i <= r + 1 THEN 1 ELSE 0) BY <2>2 DEF Turns
  <2> HIDE DEF q, r
  <2> QED BY <1>1, <1>2, <1>4, <2>3
<1>3. ASSUME r + 1 = n PROVE Goal
  <2>1. c + 1 = n * (q + 1) + 0 /\ 0 \in 0..(n - 1) /\ c + 1 \in Nat /\ q + 1 \in Nat
    <3> HIDE DEF q, r
    <3>1. n * q \in Int /\ n * (q + 1) = n * q + n BY <1>1
    <3> QED BY <1>1, <1>3, <3>1
  <2>2. (c + 1) \div n = q + 1 /\ (c + 1) % n = 0
    <3> HIDE DEF q, r
    <3> QED BY <1>1, <2>1, DivisionIsUnique
  <2>3. \A i : Turns(n, c + 1, i) = q + 1 + (IF i <= 0 THEN 1 ELSE 0) BY <2>2 DEF Turns
  <2> HIDE DEF q, r
  <2> QED BY <1>1, <1>3, <1>4, <2>3
<1>5. r + 1 < n \/ r + 1 = n BY <1>1
<1>6. Goal
  <2> HIDE DEF Goal
  <2> QED BY <1>2, <1>3, <1>5
<1> QED BY <1>6

-----------------------------------------------------------------------------
(* With P picked, the c turns of a pool so far have served its strata in     *)
(* turn: each has given a pair for every turn it had, or all it has.         *)
Served(s, P) == Sampling!Bucket(s) \cap P
InTurn(g, c, P) ==
    \A i \in 1..Len(Sampling!Strata(g)) :
        Cardinality(Served(Sampling!Strata(g)[i], P))
            = Sampling!Smaller(Turns(Len(Sampling!Strata(g)), c, i),
                               Cardinality(Sampling!Bucket(Sampling!Strata(g)[i])))

LEMMA Buckets ==
    ASSUME NEW s, NEW P
    PROVE  /\ IsFiniteSet(Sampling!Bucket(s)) /\ Cardinality(Sampling!Bucket(s)) \in Nat
           /\ IsFiniteSet(Served(s, P)) /\ Cardinality(Served(s, P)) \in Nat
           /\ Cardinality(Served(s, P)) <= Cardinality(Sampling!Bucket(s))
           /\ Cardinality(Served(s, P)) = Cardinality(Sampling!Bucket(s))
                  => Sampling!Bucket(s) \subseteq P
<1>1. IsFiniteSet(Sampling!Bucket(s)) BY PairsAreFinite, FS_Subset DEF Sampling!Bucket
<1>2. Served(s, P) \subseteq Sampling!Bucket(s) BY DEF Served
<1>3. /\ IsFiniteSet(Served(s, P)) /\ Cardinality(Served(s, P)) <= Cardinality(Sampling!Bucket(s))
      /\ Cardinality(Served(s, P)) = Cardinality(Sampling!Bucket(s)) => Sampling!Bucket(s) = Served(s, P)
  BY <1>1, <1>2, FS_Subset
<1> QED BY <1>1, <1>3, FS_CardinalityType DEF Served

(* The stratum of a pool is of its gold.                                    *)
LEMMA StrataAreApart ==
    ASSUME NEW g, NEW h, g # h, NEW s \in StrataOf(g), NEW u \in StrataOf(h)
    PROVE  Sampling!Bucket(s) \cap Sampling!Bucket(u) = {}
<1>1. s.gold = g /\ u.gold = h BY DEF StrataOf, Sampling!Pool, Sampling!Stratum
<1> QED BY <1>1 DEF Sampling!Bucket

LEMMA BucketsOfPool ==
    ASSUME NEW g, NEW s \in StrataOf(g)
    PROVE  Sampling!Bucket(s) \subseteq Sampling!Pool(g)
BY DEF StrataOf, Sampling!Pool, Sampling!Bucket, Sampling!Stratum

LEMMA StrataServeInTurn ==
    ASSUME NEW g, NEW c \in Nat, NEW P, InTurn(g, c, P), StrataOf(g) # {}, NEW R,
           LET s == Sampling!Strata(g)[(c % Len(Sampling!Strata(g))) + 1] IN
           \/ Sampling!Bucket(s) \ P = {} /\ R = P
           \/ \E p \in Sampling!Bucket(s) \ P : R = P \cup {p}
    PROVE  /\ InTurn(g, c + 1, R)
           /\ \A h, d : h # g /\ InTurn(h, d, P) => InTurn(h, d, R)
           /\ \A h : h # g => R \cap Sampling!Pool(h) = P \cap Sampling!Pool(h)
<1> DEFINE q == Sampling!Strata(g) n == Len(q) k == (c % n) + 1 s == q[k]
           all(u) == Cardinality(Sampling!Bucket(u))
<1>1. /\ n \in Nat /\ q \in [1..n -> StrataOf(g)]
      /\ \A i, j \in 1..n : q[i] = q[j] => i = j
      /\ \A u \in StrataOf(g) : \E i \in 1..n : q[i] = u
  BY StrataInARow
<1>2. n \in Nat \ {0}
  <2> HIDE DEF q, n
  <2> QED BY <1>1
<1>3. k \in 1..n /\ s \in StrataOf(g)
  <2>1. k \in 1..n
    <3> HIDE DEF n
    <3> QED BY <1>2, NextTurn
  <2> HIDE DEF q, n, k
  <2> QED BY <1>1, <2>1
<1>4. /\ \A i \in 1..n : /\ Turns(n, c, i) \in Nat
                        /\ Turns(n, c + 1, i) = IF i = k THEN Turns(n, c, i) + 1 ELSE Turns(n, c, i)
  <2> HIDE DEF n
  <2> QED BY <1>2, NextTurn
<1>5. \/ Sampling!Bucket(s) \ P = {} /\ R = P
      \/ \E p \in Sampling!Bucket(s) \ P : R = P \cup {p}
  OBVIOUS
<1>6. \A i \in 1..n : Cardinality(Served(q[i], P)) = Sampling!Smaller(Turns(n, c, i), all(q[i]))
  BY DEF InTurn
<1>7. \A u : Sampling!Bucket(u) \cap Sampling!Bucket(s) = {} => Served(u, R) = Served(u, P)
  <2> HIDE DEF s
  <2> QED BY <1>5 DEF Served
<1>8. \A i \in 1..n : i # k => Served(q[i], R) = Served(q[i], P)
  <2> SUFFICES ASSUME NEW i \in 1..n, i # k PROVE Served(q[i], R) = Served(q[i], P) OBVIOUS
  <2>1. q[i] # s
    <3> HIDE DEF n, q
    <3> QED BY <1>1, <1>3
  <2>2. Sampling!Bucket(q[i]) \cap Sampling!Bucket(s) = {}
    <3> HIDE DEF s
    <3> QED BY <2>1 DEF Sampling!Bucket
  <2> QED BY <1>7, <2>2
<1>9. Cardinality(Served(s, R)) = Sampling!Smaller(Turns(n, c + 1, k), all(s))
  <2> DEFINE t == Turns(n, c, k) m == Cardinality(Served(s, P))
  <2>1. m = Sampling!Smaller(t, all(s)) /\ t \in Nat BY <1>3, <1>4, <1>6
  <2>2. m \in Nat /\ all(s) \in Nat /\ m <= all(s) /\ IsFiniteSet(Served(s, P)) BY Buckets
  <2>3. Turns(n, c + 1, k) = t + 1 BY <1>3, <1>4
  <2>4. CASE Sampling!Bucket(s) \ P = {} /\ R = P
    <3>1. Served(s, P) = Sampling!Bucket(s) BY <2>4 DEF Served
    <3>2. m = all(s) BY <3>1
    <3> HIDE DEF t, m, all, s, k
    <3> QED BY <2>1, <2>2, <2>3, <2>4, <3>2 DEF Sampling!Smaller, m
  <2>5. ASSUME NEW p \in Sampling!Bucket(s) \ P, R = P \cup {p}
        PROVE  Cardinality(Served(s, R)) = Sampling!Smaller(t + 1, all(s))
    <3>1. Served(s, R) = Served(s, P) \cup {p} /\ p \notin Served(s, P)
      <4> HIDE DEF s
      <4> QED BY <2>5 DEF Served
    <3>2. Cardinality(Served(s, R)) = m + 1
      <4> HIDE DEF s
      <4> QED BY <2>2, <3>1, FS_AddElement
    <3>3. m # all(s)
      <4>1. ~(Sampling!Bucket(s) \subseteq P) BY <2>5
      <4> QED BY <4>1, Buckets
    <3> HIDE DEF t, m, all, s, k
    <3> QED BY <2>1, <2>2, <3>2, <3>3 DEF Sampling!Smaller
  <2> HIDE DEF t, all, s, k, n
  <2> QED BY <1>5, <2>3, <2>4, <2>5
<1>10. InTurn(g, c + 1, R)
  <2> SUFFICES ASSUME NEW i \in 1..n
               PROVE  Cardinality(Served(q[i], R)) = Sampling!Smaller(Turns(n, c + 1, i), all(q[i]))
    BY DEF InTurn
  <2>1. CASE i = k BY <1>9, <2>1
  <2>2. CASE i # k BY <1>4, <1>6, <1>8, <2>2
  <2> QED BY <2>1, <2>2
<1>11. ASSUME NEW h, NEW d, h # g, InTurn(h, d, P) PROVE InTurn(h, d, R)
  <2> DEFINE e == Sampling!Strata(h)
  <2> SUFFICES ASSUME NEW i \in 1..Len(e) PROVE Served(e[i], R) = Served(e[i], P)
    BY <1>11 DEF InTurn
  <2>1. e[i] \in StrataOf(h)
    <3>1. e \in [1..Len(e) -> StrataOf(h)] BY StrataInARow
    <3> HIDE DEF e
    <3> QED BY <3>1
  <2> HIDE DEF e, s
  <2> QED BY <1>3, <1>7, <1>11, <2>1, StrataAreApart
<1>12. ASSUME NEW h, h # g PROVE R \cap Sampling!Pool(h) = P \cap Sampling!Pool(h)
  <2>1. Sampling!Bucket(s) \cap Sampling!Pool(h) = {}
    <3>1. Sampling!Bucket(s) \subseteq Sampling!Pool(g)
      <4> HIDE DEF s
      <4> QED BY <1>3, BucketsOfPool
    <3> HIDE DEF s
    <3> QED BY <1>12, <3>1 DEF Sampling!Pool
  <2> HIDE DEF s
  <2> QED BY <1>5, <2>1
<1> QED BY <1>10, <1>11, <1>12

(* The pool in progress has been served in turn so far, those before it as   *)
(* often as they were, and those after it not at all.                       *)
ServedWith(g, c, P) ==
    /\ g \in BothGolds \cup {"backfill", "cluster"} /\ c \in Nat
    /\ \A h \in BothGolds : \E d \in Nat : InTurn(h, d, P)
    /\ g \in BothGolds => InTurn(g, c, P)
    /\ g = "same" => P \cap Sampling!Pool("diff") = {}
ServedInv == \A g, c, P : g = v2 /\ c = v3 /\ P = v4 => ServedWith(g, c, P)

LEMMA NoneServed ==
    ASSUME NEW g, NEW P, P \cap Sampling!Pool(g) = {}
    PROVE  InTurn(g, 0, P)
<1> DEFINE q == Sampling!Strata(g) n == Len(q)
<1> SUFFICES ASSUME NEW i \in 1..n
             PROVE  Cardinality(Served(q[i], P))
                        = Sampling!Smaller(Turns(n, 0, i), Cardinality(Sampling!Bucket(q[i])))
  BY DEF InTurn
<1>1. q[i] \in StrataOf(g) /\ n \in Nat \ {0}
  <2>1. n \in Nat /\ q \in [1..n -> StrataOf(g)] BY StrataInARow
  <2> HIDE DEF q
  <2> QED BY <2>1
<1>2. Turns(n, 0, i) = 0
  <2> HIDE DEF n
  <2> QED BY <1>1, NextTurn
<1> HIDE DEF q
<1>3. Served(q[i], P) = {} BY <1>1, BucketsOfPool DEF Served
<1>4. Cardinality(Served(q[i], P)) = 0 BY <1>3, FS_EmptySet
<1>5. Cardinality(Sampling!Bucket(q[i])) \in Nat BY Buckets
<1> QED BY <1>2, <1>4, <1>5 DEF Sampling!Smaller

LEMMA ServedStarts == Sampling!Init => ServedInv
<1> SUFFICES ASSUME Sampling!Init PROVE ServedInv OBVIOUS
<1>1. v2 \in {"same", "cluster"} /\ v3 = 0 /\ v4 = {} BY DEF Sampling!Init
<1>2. \A g : InTurn(g, 0, v4) BY <1>1, NoneServed
<1> QED BY <1>1, <1>2 DEF ServedInv, ServedWith, BothGolds

(* Strata that were served in turn were served evenly.                      *)
LEMMA InTurnIsEvenly == ServedInv => Sampling!Evenly
<1> SUFFICES ASSUME ServedInv, NEW g \in BothGolds, NEW s \in StrataOf(g), NEW u \in StrataOf(g),
                    Sampling!Cardinality(Sampling!Bucket(s) \cap v4)
                        > Sampling!Cardinality(Sampling!Bucket(u) \cap v4) + 1
             PROVE  Sampling!Left(u) = {}
  BY DEF Sampling!Evenly, BothGolds, StrataOf
<1>1. Cardinality(Served(s, v4)) > Cardinality(Served(u, v4)) + 1
  BY SampleCount DEF Served
<1>2. PICK c \in Nat : InTurn(g, c, v4) BY DEF ServedInv, ServedWith
<1> DEFINE q == Sampling!Strata(g) n == Len(q)
<1>3. n \in Nat /\ \A x \in StrataOf(g) : \E i \in 1..n : q[i] = x BY StrataInARow
<1>4. PICK i \in 1..n, j \in 1..n : q[i] = s /\ q[j] = u BY <1>3
<1>10. n \in Nat \ {0}
  <2> HIDE DEF n
  <2> QED BY <1>3, <1>4
<1>5. /\ Cardinality(Served(s, v4)) = Sampling!Smaller(Turns(n, c, i), Cardinality(Sampling!Bucket(s)))
      /\ Cardinality(Served(u, v4)) = Sampling!Smaller(Turns(n, c, j), Cardinality(Sampling!Bucket(u)))
  BY <1>2, <1>4 DEF InTurn
<1>6. Turns(n, c, i) \in Nat /\ Turns(n, c, j) \in Nat /\ Turns(n, c, i) <= Turns(n, c, j) + 1
  <2> HIDE DEF n
  <2> QED BY <1>10, NextTurn
<1>7. /\ Cardinality(Served(s, v4)) \in Nat /\ Cardinality(Sampling!Bucket(s)) \in Nat
      /\ Cardinality(Served(u, v4)) \in Nat /\ Cardinality(Sampling!Bucket(u)) \in Nat
  BY Buckets
<1>8. Cardinality(Served(u, v4)) = Cardinality(Sampling!Bucket(u))
  <2> HIDE DEF n, q
  <2> QED BY <1>1, <1>5, <1>6, <1>7 DEF Sampling!Smaller
<1>9. Sampling!Bucket(u) \subseteq v4 BY <1>8, Buckets
<1> QED BY <1>9 DEF Sampling!Left

(* What the variants are does not change.                                   *)
LEMMA VariantsStand ==
    ASSUME v1' = v1
    PROVE  /\ \A g : Sampling!Pool(g)' = Sampling!Pool(g) /\ Sampling!Strata(g)' = Sampling!Strata(g)
           /\ \A s : Sampling!Bucket(s)' = Sampling!Bucket(s)
           /\ \A g, c, P : InTurn(g, c, P)' <=> InTurn(g, c, P)
<1>1. \A q : Sampling!Gold(q)' = Sampling!Gold(q) BY DEF Sampling!Gold
<1>2. \A q : Sampling!Stratum(q)' = Sampling!Stratum(q) BY <1>1 DEF Sampling!Stratum
<1>3. \A g : Sampling!Pool(g)' = Sampling!Pool(g) BY <1>1 DEF Sampling!Pool, Sampling!Pairs
<1>4. \A g : Sampling!Strata(g)' = Sampling!Strata(g)
  <2> SUFFICES ASSUME NEW g PROVE Sampling!Strata(g)' = Sampling!Strata(g) OBVIOUS
  <2>1. {Sampling!Stratum(q) : q \in Sampling!Pool(g)}' = {Sampling!Stratum(q) : q \in Sampling!Pool(g)}
    BY <1>2, <1>3
  <2> QED BY <2>1 DEF Sampling!Strata
<1>5. \A s : Sampling!Bucket(s)' = Sampling!Bucket(s) BY <1>2 DEF Sampling!Bucket, Sampling!Pairs
<1>6. \A g, c, P : InTurn(g, c, P)' <=> InTurn(g, c, P)
  <2> SUFFICES ASSUME NEW g, NEW c, NEW P PROVE InTurn(g, c, P)' <=> InTurn(g, c, P) OBVIOUS
  <2> QED BY <1>4, <1>5 DEF InTurn, Served
<1> QED BY <1>3, <1>4, <1>5, <1>6

LEMMA SamplingServes ==
    ASSUME ServedInv, Sampling!Next PROVE ServedInv'
<1>1. v1' = v1
  BY DEF Sampling!Next, Sampling!Take, Sampling!NextPool, Sampling!Backfill, Sampling!Link
<1>2. ServedWith(v2, v3, v4) BY DEF ServedInv
<1>3. ServedWith(v2', v3', v4')
  <2>1. CASE Sampling!Take
    <3> DEFINE s == Sampling!Turn(v2)
    <3>1. /\ v2 \in BothGolds /\ v2' = v2 /\ v3' = v3 + 1 /\ ~Sampling!QuotaFilled(v2)
          /\ IF Sampling!Left(s) = {} THEN v4' = v4
             ELSE \E p \in Sampling!Left(s) : v4' = v4 \cup {p}
      BY <2>1 DEF Sampling!Take, BothGolds
    <3>2. s = Sampling!Strata(v2)[(v3 % Len(Sampling!Strata(v2))) + 1]
      BY DEF Sampling!Turn
    <3>3. \/ Sampling!Bucket(s) \ v4 = {} /\ v4' = v4
          \/ \E p \in Sampling!Bucket(s) \ v4 : v4' = v4 \cup {p}
      BY <3>1 DEF Sampling!Left
    <3>4. StrataOf(v2) # {}
      <4> SUFFICES ASSUME StrataOf(v2) = {} PROVE FALSE OBVIOUS
      <4>1. Sampling!Pool(v2) = {} BY DEF StrataOf
      <4>2. v4 \cap Sampling!Pool(v2) = {} BY <4>1
      <4>3. Cardinality({}) = 0 BY FS_EmptySet
      <4>4. Sampling!QuotaFilled(v2)
        BY <4>1, <4>2, <4>3, SampleCount, JudgingAssumption
        DEF Sampling!QuotaFilled, Sampling!Smaller
      <4> QED BY <3>1, <4>4
    <3>5. v3 \in Nat /\ InTurn(v2, v3, v4) BY <1>2, <3>1 DEF ServedWith
    <3> HIDE DEF s
    <3>6. /\ InTurn(v2, v3 + 1, v4')
          /\ \A h, d : h # v2 /\ InTurn(h, d, v4) => InTurn(h, d, v4')
          /\ \A h : h # v2 => v4' \cap Sampling!Pool(h) = v4 \cap Sampling!Pool(h)
      BY <3>2, <3>3, <3>4, <3>5, StrataServeInTurn
    <3> QED BY <1>2, <3>1, <3>5, <3>6 DEF ServedWith, BothGolds
  <2>2. CASE Sampling!NextPool
    <3>1. /\ v2 \in BothGolds /\ v2' = (IF v2 = "same" THEN "diff" ELSE "backfill") /\ v3' = 0 /\ v4' = v4
      BY <2>2 DEF Sampling!NextPool, BothGolds
    <3>2. v2 = "same" => InTurn("diff", 0, v4) BY <1>2, NoneServed DEF ServedWith
    <3> QED BY <1>2, <3>1, <3>2 DEF ServedWith, BothGolds
  <2>3. CASE Sampling!Backfill \/ Sampling!Link
    <3>1. v2' = v2 /\ v3' = v3 /\ v4' = v4 BY <2>3 DEF Sampling!Backfill, Sampling!Link
    <3> QED BY <1>2, <3>1
  <2> QED BY <2>1, <2>2, <2>3 DEF Sampling!Next
<1> SUFFICES ASSUME NEW g, NEW c, NEW P, g = v2', c = v3', P = v4' PROVE ServedWith(g, c, P)'
  BY DEF ServedInv
<1> QED BY <1>1, <1>3, VariantsStand DEF ServedWith

-----------------------------------------------------------------------------
(* The trees of the union-find: f is the root of each variant, d its depth.  *)
Rooted(t, f, d) ==
    /\ t \in [Confirmed -> Confirmed] /\ f \in [Confirmed -> Confirmed] /\ d \in [Confirmed -> Nat]
    /\ \A v \in Confirmed : f[v] = IF t[v] = v THEN v ELSE f[t[v]]
    /\ \A v \in Confirmed : t[v] # v => d[t[v]] < d[v]
(* Pairs that were judged the same have one root, and variants with one root *)
(* are in the same sets of those that hold both of such a pair or none.      *)
Joins(f, J) ==
    /\ \A q \in J : f[q[1]] = f[q[2]]
    /\ \A S \in SUBSET Confirmed : (\A q \in J : q[1] \in S <=> q[2] \in S) =>
           \A v, w \in Confirmed : f[v] = f[w] => (v \in S <=> w \in S)
TreesInv == v6 \subseteq Sampling!Pairs /\ \E f, d : Rooted(v7, f, d) /\ Joins(f, v6)

LEMMA TreesStart == Sampling!Init => TreesInv
<1> SUFFICES ASSUME Sampling!Init PROVE TreesInv OBVIOUS
<1>1. v6 = {} /\ v7 = [v \in Confirmed |-> v] BY DEF Sampling!Init
<1>2. Rooted(v7, v7, [v \in Confirmed |-> 0]) BY <1>1 DEF Rooted
<1>3. Joins(v7, v6) BY <1>1 DEF Joins
<1> QED BY <1>1, <1>2, <1>3 DEF TreesInv

(* Of variants, one is not deeper than the others.                          *)
LEMMA Shallowest ==
    ASSUME NEW d \in [Confirmed -> Nat], NEW Bad, Bad \subseteq Confirmed, Bad # {}
    PROVE  \E v \in Bad : \A w \in Bad : d[v] <= d[w]
<1> DEFINE depths == {d[v] : v \in Bad}
<1>1. depths \subseteq Nat /\ depths # {} OBVIOUS
<1>2. PICK n \in depths : \A m \in depths : n <= m BY <1>1, LeastNumber
<1> QED BY <1>2

LEMMA RootsAreRoots ==
    ASSUME NEW t, NEW f, NEW d, Rooted(t, f, d)
    PROVE  \A v \in Confirmed : t[f[v]] = f[v] /\ f[f[v]] = f[v]
<1> DEFINE Bad == {v \in Confirmed : t[f[v]] # f[v]}
<1>1. Bad = {}
  <2> SUFFICES ASSUME Bad # {} PROVE FALSE OBVIOUS
  <2>1. PICK v \in Bad : \A w \in Bad : d[v] <= d[w]
    <3> Bad \subseteq Confirmed OBVIOUS
    <3> HIDE DEF Bad
    <3> QED BY Shallowest DEF Rooted
  <2>2. t[v] # v /\ t[v] \in Confirmed BY DEF Rooted
  <2>3. t[v] \in Bad BY <2>2 DEF Rooted
  <2>4. d[t[v]] < d[v] /\ d[v] \in Nat /\ d[t[v]] \in Nat BY <2>2 DEF Rooted
  <2> QED BY <2>1, <2>3, <2>4
<1> QED BY <1>1 DEF Rooted

LEMMA RootIsRoot ==
    ASSUME NEW f, NEW d, Rooted(v7, f, d)
    PROVE  \A v \in Confirmed : Sampling!Root[v] = f[v]
<1> DEFINE g == Sampling!Root
           Bad == {v \in Confirmed : g[v] # f[v]}
<1>1. f = [v \in Confirmed |-> IF v7[v] = v THEN v ELSE f[v7[v]]] BY DEF Rooted
<1>2. g = [v \in Confirmed |-> IF v7[v] = v THEN v ELSE g[v7[v]]] BY <1>1 DEF Sampling!Root
<1> HIDE DEF g
<1> SUFFICES ASSUME Bad # {} PROVE FALSE BY DEF g
<1>3. PICK v \in Bad : \A w \in Bad : d[v] <= d[w]
  <2> Bad \subseteq Confirmed OBVIOUS
  <2> HIDE DEF Bad
  <2> QED BY Shallowest DEF Rooted
<1>4. v7[v] # v /\ v7[v] \in Confirmed BY <1>2 DEF Rooted
<1>5. v7[v] \in Bad BY <1>2, <1>4 DEF Rooted
<1>6. d[v7[v]] < d[v] /\ d[v] \in Nat /\ d[v7[v]] \in Nat BY <1>4 DEF Rooted
<1> QED BY <1>3, <1>5, <1>6

LEMMA LinkJoins ==
    ASSUME NEW t, NEW f, NEW d, Rooted(t, f, d), NEW J, J \subseteq Sampling!Pairs, Joins(f, J),
           NEW p \in Sampling!Pairs
    PROVE  \E g, e : Rooted([t EXCEPT ![f[p[1]]] = f[p[2]]], g, e) /\ Joins(g, J \cup {p})
<1> DEFINE r == f[p[1]] u == f[p[2]]
           g == [v \in Confirmed |-> IF f[v] = r THEN u ELSE f[v]]
           e == [v \in Confirmed |-> IF f[v] = r /\ r # u THEN d[v] + d[u] + 1 ELSE d[v]]
           s == [t EXCEPT ![r] = u]
<1>1. /\ t \in [Confirmed -> Confirmed] /\ f \in [Confirmed -> Confirmed] /\ d \in [Confirmed -> Nat]
      /\ \A v \in Confirmed : f[v] = IF t[v] = v THEN v ELSE f[t[v]]
      /\ \A v \in Confirmed : t[v] # v => d[t[v]] < d[v]
  BY DEF Rooted
<1>2. /\ r \in Confirmed /\ u \in Confirmed /\ p[1] \in Confirmed /\ p[2] \in Confirmed
      /\ t[r] = r /\ t[u] = u /\ f[r] = r /\ f[u] = u
  <2>1. p[1] \in Confirmed /\ p[2] \in Confirmed BY DEF Sampling!Pairs
  <2> QED BY <1>1, <2>1, RootsAreRoots
<1>3. /\ s \in [Confirmed -> Confirmed] /\ s[r] = u
      /\ \A v \in Confirmed : v # r => s[v] = t[v]
  <2> HIDE DEF r, u
  <2> QED BY <1>1, <1>2
<1>4. /\ g \in [Confirmed -> Confirmed] /\ e \in [Confirmed -> Nat]
      /\ \A v \in Confirmed : g[v] = IF f[v] = r THEN u ELSE f[v]
      /\ \A v \in Confirmed : e[v] = IF f[v] = r /\ r # u THEN d[v] + d[u] + 1 ELSE d[v]
  <2> HIDE DEF r, u
  <2> QED BY <1>1, <1>2
<1>5. g[p[1]] = u /\ g[p[2]] = u BY <1>2, <1>4
<1> HIDE DEF g, e, s
<1>6. ASSUME NEW v \in Confirmed
      PROVE  /\ g[v] = IF s[v] = v THEN v ELSE g[s[v]]
             /\ s[v] # v => e[s[v]] < e[v]
  <2> HIDE DEF r, u
  <2>1. CASE v = r BY <1>1, <1>2, <1>3, <1>4, <2>1
  <2>2. CASE v # r
    <3>1. s[v] = t[v] /\ t[v] \in Confirmed BY <1>1, <1>3, <2>2
    <3>2. CASE t[v] = v BY <1>1, <1>4, <2>2, <3>1, <3>2
    <3>3. CASE t[v] # v
      <4>1. f[v] = f[t[v]] /\ d[t[v]] < d[v] BY <1>1, <3>3
      <4>2. d[v] \in Nat /\ d[t[v]] \in Nat /\ d[u] \in Nat BY <1>1, <1>2, <3>1
      <4> QED BY <1>4, <3>1, <3>3, <4>1, <4>2
    <3> QED BY <3>2, <3>3
  <2> QED BY <2>1, <2>2
<1>7. Rooted(s, g, e) BY <1>3, <1>4, <1>6 DEF Rooted
<1>8. Joins(g, J \cup {p})
  <2>1. ASSUME NEW q \in J PROVE g[q[1]] = g[q[2]]
    <3>1. f[q[1]] = f[q[2]] /\ q[1] \in Confirmed /\ q[2] \in Confirmed BY DEF Joins, Sampling!Pairs
    <3> QED BY <1>4, <3>1
  <2>2. ASSUME NEW S \in SUBSET Confirmed, \A q \in J \cup {p} : q[1] \in S <=> q[2] \in S,
               NEW v \in Confirmed, NEW w \in Confirmed, g[v] = g[w]
        PROVE  v \in S <=> w \in S
    <3>1. \A x, y \in Confirmed : f[x] = f[y] => (x \in S <=> y \in S) BY <2>2 DEF Joins
    <3>2. p[1] \in S <=> p[2] \in S BY <2>2
    <3> QED BY <1>2, <1>4, <2>2, <3>1, <3>2
  <2> QED BY <1>5, <2>1, <2>2 DEF Joins
<1> QED BY <1>7, <1>8 DEF s

LEMMA SamplingLinks ==
    ASSUME TreesInv, Sampling!Next PROVE TreesInv'
<1>1. CASE UNCHANGED <<v6, v7>> BY <1>1 DEF TreesInv, Sampling!Pairs
<1>2. CASE Sampling!Link
  <2>1. PICK p \in Sampling!Pairs : v6' = v6 \cup {p} /\ v7' = Sampling!Linked(p)
    BY <1>2 DEF Sampling!Link
  <2>2. v6 \subseteq Sampling!Pairs BY DEF TreesInv
  <2>3. PICK f, d : Rooted(v7, f, d) /\ Joins(f, v6) BY DEF TreesInv
  <2>4. v7' = [v7 EXCEPT ![f[p[1]]] = f[p[2]]]
    <3>1. p[1] \in Confirmed /\ p[2] \in Confirmed BY DEF Sampling!Pairs
    <3>2. Sampling!Root[p[1]] = f[p[1]] /\ Sampling!Root[p[2]] = f[p[2]]
      BY <2>3, <3>1, RootIsRoot
    <3> QED BY <2>1, <3>2 DEF Sampling!Linked
  <2> DEFINE t == [v7 EXCEPT ![f[p[1]]] = f[p[2]]]
             J == v6 \cup {p}
  <2>5. \E g, e : Rooted(v7', g, e) /\ Joins(g, v6')
    <3>1. \E g, e : Rooted(t, g, e) /\ Joins(g, J) BY <2>2, <2>3, LinkJoins
    <3> HIDE DEF t, J
    <3>2. v7' = t /\ v6' = J BY <2>1, <2>4 DEF t, J
    <3> QED BY <3>1, <3>2
  <2>6. v6' \subseteq Sampling!Pairs BY <2>1, <2>2
  <2> QED BY <2>5, <2>6 DEF TreesInv, Rooted, Joins, Sampling!Pairs
<1> QED BY <1>1, <1>2 DEF Sampling!Next, Sampling!Take, Sampling!NextPool, Sampling!Backfill

(* One root is one cluster: the variants with the root of one are a set that *)
(* the pairs judged the same do not leave.                                  *)
LEMMA TreesAreClusters == TreesInv => Sampling!ClustersConnect
<1> SUFFICES ASSUME TreesInv, NEW v \in Confirmed, NEW w \in Confirmed
             PROVE  (Sampling!Root[v] = Sampling!Root[w]) = Sampling!Connected(v, w)
  BY DEF Sampling!ClustersConnect
<1>1. PICK f, d : Rooted(v7, f, d) /\ Joins(f, v6) BY DEF TreesInv
<1>2. Sampling!Root[v] = f[v] /\ Sampling!Root[w] = f[w] BY <1>1, RootIsRoot
<1>3. f[v] = f[w] => Sampling!Connected(v, w)
  BY <1>1 DEF Joins, Sampling!Connected
<1>4. Sampling!Connected(v, w) => f[v] = f[w]
  <2> DEFINE S == {x \in Confirmed : f[x] = f[v]}
  <2>1. ASSUME NEW q \in v6 PROVE q[1] \in S <=> q[2] \in S
    <3>1. f[q[1]] = f[q[2]] /\ q[1] \in Confirmed /\ q[2] \in Confirmed
      BY <1>1 DEF Joins, TreesInv, Sampling!Pairs
    <3> QED BY <3>1
  <2>2. S \in SUBSET Confirmed /\ v \in S /\ (w \in S => f[w] = f[v]) OBVIOUS
  <2> HIDE DEF S
  <2> QED BY <2>1, <2>2 DEF Sampling!Connected
<1>5. f[v] = f[w] <=> Sampling!Connected(v, w) BY <1>3, <1>4
<1> QED BY <1>2, <1>5 DEF Sampling!Connected

(* scripts/run_merge_family_experiment.py: the strata of a pool give pairs   *)
(* in turn, so that one has more than another, by more than a pair, only     *)
(* once that one has no more; and the clusters of the union-find are what    *)
(* the pairs judged the same connect; for any variants, families, endings    *)
(* and quotas, and any order within the strata.                             *)
THEOREM SamplesAreEven == MCSpec => []SampledEvenly
<1> DEFINE I == part = "sampling" => ServedInv /\ TreesInv
<1>1. MCInit => I
  <2> SUFFICES ASSUME MCInit, part = "sampling" PROVE ServedInv /\ TreesInv OBVIOUS
  <2>1. Sampling!Init BY DEF MCInit
  <2> QED BY <2>1, ServedStarts, TreesStart
<1>2. I /\ [MCNext]_MCvars => I'
  <2> SUFFICES ASSUME ServedInv, TreesInv, part = "sampling", [MCNext]_MCvars
               PROVE  ServedInv' /\ TreesInv'
    BY DEF MCNext, MCvars
  <2>1. CASE Sampling!Next BY <2>1, SamplingServes, SamplingLinks
  <2>2. CASE UNCHANGED <<v1, v2, v3, v4, v6, v7>>
    <3>1. ServedInv'
      <4>1. ServedWith(v2, v3, v4) BY DEF ServedInv
      <4> SUFFICES ASSUME NEW g, NEW c, NEW P, g = v2', c = v3', P = v4' PROVE ServedWith(g, c, P)'
        BY DEF ServedInv
      <4> QED BY <2>2, <4>1, VariantsStand DEF ServedWith
    <3>2. TreesInv' BY <2>2 DEF TreesInv, Rooted, Joins, Sampling!Pairs
    <3> QED BY <3>1, <3>2
  <2> QED BY <2>1, <2>2 DEF MCNext, MCvars, Other, others, from2, from4, from5, from7
<1>3. I => SampledEvenly
  BY InTurnIsEvenly, TreesAreClusters DEF SampledEvenly, Sampling!SampledEvenly
<1> HIDE DEF I
<1> QED BY <1>1, <1>2, <1>3, PTL DEF MCSpec

(***************************************************************************)
(* The observation policy, for any days, rows and thresholds.               *)
(***************************************************************************)
LEMMA PolicyCount ==
    /\ \A S : Policy!Cardinality(S) = Cardinality(S)
    /\ \A S : Policy!IsFiniteSet(S) <=> IsFiniteSet(S)
BY DEF Policy!Cardinality, Cardinality, Policy!IsFiniteSet, IsFiniteSet

(* What the rows of an arm add up to are totals.                            *)
LEMMA PolicyTotals ==
    ASSUME NEW R, IsFiniteSet(R), \A r \in R : r.spend \in Nat /\ r.results \in Nat, NEW x
    PROVE  /\ Policy!Spend(x, R) = Total(Policy!Of(x, R), [r \in Policy!Of(x, R) |-> r.spend])
           /\ Policy!Result(x, R) = Total(Policy!Of(x, R), [r \in Policy!Of(x, R) |-> r.results])
           /\ Policy!Spend(x, R) \in Nat /\ Policy!Result(x, R) \in Nat
<1> DEFINE S == Policy!Of(x, R)
           spend == [r \in S |-> r.spend]
           wins == [r \in S |-> r.results]
<1>1. IsFiniteSet(S) BY FS_Subset DEF Policy!Of
<1>2. \A r \in S : spend[r] \in Nat /\ wins[r] \in Nat BY DEF Policy!Of
<1> HIDE DEF S
<1>3. \A h : ChoosingSum(h, S, spend) <=>
               h = [s \in SUBSET S |-> IF s = {} THEN 0
                     ELSE (CHOOSE r \in s : TRUE).spend + h[s \ {CHOOSE r \in s : TRUE}]]
  BY DEF ChoosingSum
<1>4. \A h : ChoosingSum(h, S, wins) <=>
               h = [s \in SUBSET S |-> IF s = {} THEN 0
                     ELSE (CHOOSE r \in s : TRUE).results + h[s \ {CHOOSE r \in s : TRUE}]]
  BY DEF ChoosingSum
<1>5. Policy!Spend(x, R) = (CHOOSE h : ChoosingSum(h, S, spend))[S]
  <2>1. Policy!Spend(x, R)
          = (CHOOSE h : h = [s \in SUBSET S |-> IF s = {} THEN 0
                 ELSE (CHOOSE r \in s : TRUE).spend + h[s \ {CHOOSE r \in s : TRUE}]])[S]
    BY DEF Policy!Spend, Policy!MapThenSumSet, Policy!MapThenFoldSet, S
  <2> QED BY <1>3, <2>1
<1>6. Policy!Result(x, R) = (CHOOSE h : ChoosingSum(h, S, wins))[S]
  <2>1. Policy!Result(x, R)
          = (CHOOSE h : h = [s \in SUBSET S |-> IF s = {} THEN 0
                 ELSE (CHOOSE r \in s : TRUE).results + h[s \ {CHOOSE r \in s : TRUE}]])[S]
    BY DEF Policy!Result, Policy!MapThenSumSet, Policy!MapThenFoldSet, S
  <2> QED BY <1>4, <2>1
<1> DEFINE first == CHOOSE h : ChoosingSum(h, S, spend)
           second == CHOOSE h : ChoosingSum(h, S, wins)
<1> HIDE DEF spend, wins
<1>7. /\ \E h : ChoosingSum(h, S, spend)
      /\ \A h : ChoosingSum(h, S, spend) => h[S] = Total(S, spend)
      /\ \E h : ChoosingSum(h, S, wins)
      /\ \A h : ChoosingSum(h, S, wins) => h[S] = Total(S, wins)
  BY <1>1, <1>2, SumChosen
<1>8. ChoosingSum(first, S, spend) /\ ChoosingSum(second, S, wins) BY <1>7
<1> HIDE DEF first, second
<1>9. first[S] = Total(S, spend) /\ second[S] = Total(S, wins) BY <1>7, <1>8
<1>10. Total(S, spend) \in Nat /\ Total(S, wins) \in Nat BY <1>1, <1>2, TotalIsThis
<1> QED BY <1>5, <1>6, <1>9, <1>10 DEF first, second, S, spend, wins

(* Powers and factorials are numbers.                                       *)
LEMMA PowersAreNumbers ==
    ASSUME NEW b \in Nat, NEW n \in Nat PROVE Policy!Power(b, n) \in Nat
<1> DEFINE step == [q \in Nat \X Nat |-> b * q[2]]
           Is(h) == h = [i \in 0..n |-> IF i = 0 THEN 1 ELSE b * h[i - 1]]
           power == CHOOSE h : Is(h)
<1>1. step \in [Nat \X Nat -> Nat] /\ 1 \in Nat OBVIOUS
<1>2. PICK g \in [Nat -> Nat] : Follows(g, 1, step)
  <2> HIDE DEF step
  <2> QED BY <1>1, RecursionExists
<1>3. g[0] = 1 /\ \A i \in Nat : g[i + 1] = b * g[i] BY <1>2 DEF Follows
<1>4. \E h : Is(h)
  <2> DEFINE h == [i \in 0..n |-> g[i]]
  <2>1. \A i \in 0..n : h[i] = IF i = 0 THEN 1 ELSE b * h[i - 1]
    <3> SUFFICES ASSUME NEW i \in 0..n, i # 0 PROVE g[i] = b * h[i - 1] BY <1>3
    <3>1. i - 1 \in Nat /\ i - 1 \in 0..n /\ (i - 1) + 1 = i OBVIOUS
    <3>2. g[(i - 1) + 1] = b * g[i - 1] BY <1>3, <3>1
    <3> QED BY <3>1, <3>2
  <2>2. h = [i \in 0..n |-> IF i = 0 THEN 1 ELSE b * h[i - 1]]
    <3> DOMAIN h = 0..n OBVIOUS
    <3>1. h = [i \in 0..n |-> h[i]] OBVIOUS
    <3> HIDE DEF h
    <3> QED BY <2>1, <3>1
  <2> QED BY <2>2
<1>5. Is(power) BY <1>4
<1> HIDE DEF power
<1>6. power[n] = g[n]
  <2> DEFINE Bad == {i \in 0..n : power[i] # g[i]}
  <2>1. Bad = {}
    <3> SUFFICES ASSUME Bad # {} PROVE FALSE OBVIOUS
    <3>1. PICK i \in Bad : \A j \in Bad : i <= j
      <4> Bad \subseteq Nat OBVIOUS
      <4> HIDE DEF Bad
      <4> QED BY LeastNumber
    <3>2. i # 0 BY <1>3, <1>5
    <3>3. i \in 0..n /\ i - 1 \in 0..n /\ i - 1 \notin Bad
      <4> i \in 0..n OBVIOUS
      <4> HIDE DEF Bad
      <4> QED BY <3>1, <3>2
    <3>4. power[i] = b * power[i - 1] BY <1>5, <3>2, <3>3
    <3>5. g[(i - 1) + 1] = b * g[i - 1] BY <1>3, <3>3
    <3>6. (i - 1) + 1 = i BY <3>3
    <3> QED BY <3>3, <3>4, <3>5, <3>6
  <2> QED BY <2>1
<1>7. Policy!Power(b, n) = power[n] BY DEF Policy!Power, power
<1> QED BY <1>2, <1>6, <1>7

LEMMA FactorialsAreNumbers == \A n \in Nat : Policy!factorial[n] \in Nat \ {0}
<1> DEFINE T == Nat \ {0}
           step == [q \in Nat \X T |-> (q[1] + 1) * q[2]]
           Is(h) == h = [n \in Nat |-> IF n = 0 THEN 1 ELSE n * h[n - 1]]
           f == Policy!factorial
<1>1. step \in [Nat \X T -> T] /\ 1 \in T
  <2>1. \A x \in Nat, y \in T : (x + 1) * y \in T
    <3> SUFFICES ASSUME NEW x \in Nat, NEW y \in T PROVE (x + 1) * y \in T OBVIOUS
    <3>1. (x + 1) * y = x * y + y /\ x * y \in Nat OBVIOUS
    <3> QED BY <3>1
  <2> QED BY <2>1
<1>2. PICK g \in [Nat -> T] : Follows(g, 1, step)
  <2> HIDE DEF step, T
  <2> QED BY <1>1, RecursionExists
<1>3. g[0] = 1 /\ \A i \in Nat : g[i + 1] = (i + 1) * g[i] BY <1>2 DEF Follows
<1>4. Is(g)
  <2>1. \A n \in Nat : g[n] = IF n = 0 THEN 1 ELSE n * g[n - 1]
    <3> SUFFICES ASSUME NEW n \in Nat, n # 0 PROVE g[n] = n * g[n - 1] BY <1>3
    <3>1. n - 1 \in Nat /\ (n - 1) + 1 = n OBVIOUS
    <3> QED BY <1>3, <3>1
  <2> QED BY <2>1
<1>5. Is(f)
  <2>1. f = CHOOSE h : Is(h) BY DEF Policy!factorial
  <2>2. \E h : Is(h) BY <1>4
  <2> HIDE DEF f, Is
  <2> QED BY <2>1, <2>2
<1> HIDE DEF f
<1> DEFINE Bad == {n \in Nat : f[n] # g[n]}
<1>6. Bad = {}
  <2> SUFFICES ASSUME Bad # {} PROVE FALSE OBVIOUS
  <2>1. PICK n \in Bad : \A m \in Bad : n <= m
    <3> Bad \subseteq Nat OBVIOUS
    <3> HIDE DEF Bad
    <3> QED BY LeastNumber
  <2>2. n # 0 BY <1>3, <1>5
  <2>3. n \in Nat /\ n - 1 \in Nat /\ n - 1 \notin Bad
    <3> n \in Nat OBVIOUS
    <3> HIDE DEF Bad
    <3> QED BY <2>1, <2>2
  <2>4. f[n] = n * f[n - 1] BY <1>5, <2>2
  <2>5. g[n] = n * g[n - 1] BY <1>4, <2>2
  <2> QED BY <2>3, <2>4, <2>5
<1> QED BY <1>2, <1>6 DEF f

LEMMA ChoicesAreNumbers ==
    ASSUME NEW k \in Nat, NEW l \in Nat
    PROVE  /\ Policy!choose(k + l + 2, k + 1) \in Nat
           /\ Policy!choose(l + k + 2, l + 1) = Policy!choose(k + l + 2, k + 1)
<1> DEFINE f == Policy!factorial
<1>1. f[k + 1] \in Nat \ {0} /\ f[l + 1] \in Nat \ {0} /\ f[k + l + 2] \in Nat \ {0}
  BY FactorialsAreNumbers
<1>2. Policy!choose(k + l + 2, k + 1) = f[k + l + 2] \div (f[k + 1] * f[l + 1])
  <2>1. (k + l + 2) - (k + 1) = l + 1 OBVIOUS
  <2> QED BY <2>1 DEF Policy!choose
<1>3. Policy!choose(l + k + 2, l + 1) = f[k + l + 2] \div (f[l + 1] * f[k + 1])
  <2>1. (l + k + 2) - (l + 1) = k + 1 /\ l + k + 2 = k + l + 2 OBVIOUS
  <2> QED BY <2>1 DEF Policy!choose
<1> HIDE DEF f
<1>4. f[k + 1] * f[l + 1] = f[l + 1] * f[k + 1] /\ f[k + 1] * f[l + 1] \in Nat \ {0}
  <2> SUFFICES ASSUME NEW x \in Nat \ {0}, NEW y \in Nat \ {0}
               PROVE  x * y = y * x /\ x * y \in Nat \ {0}
    BY <1>1
  <2>1. y - 1 \in Nat /\ x * y = x * (y - 1) + x /\ x * (y - 1) \in Nat OBVIOUS
  <2> QED BY <2>1
<1>5. f[k + l + 2] \div (f[k + 1] * f[l + 1]) \in Nat BY <1>1, <1>4
<1> QED BY <1>2, <1>3, <1>4, <1>5

-----------------------------------------------------------------------------
(* The rows of two creatives, and the same with a called b and b called a.   *)
IsRow(r) ==
    /\ r = PolicyRow(r.arm, r.day, r.objective, r.market, r.spend, r.results)
    /\ r.arm \in {"a", "b"} /\ r.day \in Nat /\ r.spend \in Nat /\ r.results \in Nat
Delivery(R) == IsFiniteSet(R) /\ \A r \in R : IsRow(r)
OtherArm(x) == IF x = "a" THEN "b" ELSE "a"
Swap(r) == [r EXCEPT !.arm = OtherArm(r.arm)]

LEMMA SwappedRow ==
    ASSUME NEW r, IsRow(r)
    PROVE  /\ IsRow(Swap(r)) /\ Swap(r).arm = OtherArm(r.arm) /\ Swap(r).day = r.day
           /\ Swap(r).objective = r.objective /\ Swap(r).market = r.market
           /\ Swap(r).spend = r.spend /\ Swap(r).results = r.results
           /\ Swap(Swap(r)) = r
<1>1. Swap(r) = PolicyRow(OtherArm(r.arm), r.day, r.objective, r.market, r.spend, r.results)
  BY DEF IsRow, Swap, PolicyRow
<1>2. \A x, d, o, m, s, n :
          LET q == PolicyRow(x, d, o, m, s, n) IN
          /\ q.arm = x /\ q.day = d /\ q.objective = o /\ q.market = m /\ q.spend = s /\ q.results = n
          /\ [q EXCEPT !.arm = r.arm] = PolicyRow(r.arm, d, o, m, s, n)
  BY DEF PolicyRow
<1>3. OtherArm(r.arm) \in {"a", "b"} /\ OtherArm(OtherArm(r.arm)) = r.arm BY DEF OtherArm, IsRow
<1>4. Swap(Swap(r)) = r
  <2> DEFINE q == PolicyRow(OtherArm(r.arm), r.day, r.objective, r.market, r.spend, r.results)
  <2>1. q.arm = OtherArm(r.arm) BY <1>2
  <2>2. [q EXCEPT !.arm = r.arm] = PolicyRow(r.arm, r.day, r.objective, r.market, r.spend, r.results)
    BY <1>2
  <2> HIDE DEF q
  <2>3. Swap(q) = [q EXCEPT !.arm = r.arm] BY <1>3, <2>1 DEF Swap
  <2> QED BY <1>1, <2>2, <2>3 DEF IsRow, q
<1> QED BY <1>1, <1>2, <1>3, <1>4 DEF IsRow

(* The rows that are swapped correspond.                                    *)
LEMMA SwappedRows ==
    ASSUME NEW R, Delivery(R)
    PROVE  /\ Policy!Swapped(R) = {Swap(r) : r \in R}
           /\ Delivery(Policy!Swapped(R))
           /\ Cardinality(Policy!Swapped(R)) = Cardinality(R)
<1> DEFINE T == {Swap(r) : r \in R}
           b == [r \in R |-> Swap(r)]
<1>1. Policy!Swapped(R) = T BY DEF Policy!Swapped, Swap, OtherArm
<1>2. b \in Bijection(R, T)
  <2>1. b \in [R -> T] BY DEF b
  <2>2. ASSUME NEW r \in R, NEW q \in R, b[r] = b[q] PROVE r = q
    <3>1. Swap(r) = Swap(q) BY <2>2
    <3>2. IsRow(r) /\ IsRow(q) BY DEF Delivery
    <3>3. Swap(Swap(r)) = r /\ Swap(Swap(q)) = q BY <3>2, SwappedRow
    <3> QED BY <3>1, <3>3
  <2>3. \A z \in T : \E r \in R : b[r] = z OBVIOUS
  <2> HIDE DEF b, T
  <2> QED BY <2>1, <2>2, <2>3 DEF Bijection, Injection, Surjection, IsInjective
<1>3. IsFiniteSet(T) /\ Cardinality(T) = Cardinality(R)
  BY <1>2, FS_Bijection DEF ExistsBijection, Delivery
<1>4. \A z \in T : IsRow(z) BY SwappedRow DEF Delivery
<1> QED BY <1>1, <1>3, <1>4 DEF Delivery

LEMMA PartsOfDelivery ==
    ASSUME NEW R, Delivery(R), NEW S, S \subseteq R PROVE Delivery(S)
BY FS_Subset DEF Delivery

(* Each arm gets the rows of the other.                                     *)
LEMMA SwappedArms ==
    ASSUME NEW R, Delivery(R), NEW x \in {"a", "b"}
    PROVE  /\ Policy!Of(x, Policy!Swapped(R)) = Policy!Swapped(Policy!Of(OtherArm(x), R))
           /\ Delivery(Policy!Of(x, R))
<1>1. Policy!Of(OtherArm(x), R) \subseteq R /\ Policy!Of(x, R) \subseteq R BY DEF Policy!Of
<1>2. Delivery(Policy!Of(OtherArm(x), R)) /\ Delivery(Policy!Of(x, R)) BY <1>1, PartsOfDelivery
<1>3. \A r \in R : Swap(r).arm = x <=> r.arm = OtherArm(x)
  BY SwappedRow DEF Delivery, IsRow, OtherArm
<1>4. {q \in {Swap(r) : r \in R} : q.arm = x} = {Swap(r) : r \in {q \in R : q.arm = OtherArm(x)}}
  BY <1>3
<1> QED BY <1>2, <1>4, SwappedRows DEF Policy!Of

LEMMA SwappedSums ==
    ASSUME NEW R, Delivery(R), NEW x \in {"a", "b"}
    PROVE  /\ Policy!Spend(x, Policy!Swapped(R)) = Policy!Spend(OtherArm(x), R)
           /\ Policy!Result(x, Policy!Swapped(R)) = Policy!Result(OtherArm(x), R)
           /\ Policy!Spend(x, R) \in Nat /\ Policy!Result(x, R) \in Nat
<1> DEFINE W == Policy!Swapped(R)
           S == Policy!Of(OtherArm(x), R)
           T == Policy!Of(x, W)
           b == [r \in S |-> Swap(r)]
<1>1. T = {Swap(r) : r \in S} /\ Delivery(S) /\ Delivery(T) /\ Delivery(W)
  <2>1. OtherArm(x) \in {"a", "b"} BY DEF OtherArm
  <2> QED BY <2>1, SwappedArms, SwappedRows
<1>2. /\ Policy!Spend(x, W) = Total(T, [r \in T |-> r.spend])
      /\ Policy!Result(x, W) = Total(T, [r \in T |-> r.results])
      /\ Policy!Spend(OtherArm(x), R) = Total(S, [r \in S |-> r.spend])
      /\ Policy!Result(OtherArm(x), R) = Total(S, [r \in S |-> r.results])
      /\ Policy!Spend(x, R) \in Nat /\ Policy!Result(x, R) \in Nat
  <2> HIDE DEF W
  <2>1. /\ \A r \in R : r.spend \in Nat /\ r.results \in Nat
        /\ \A r \in W : r.spend \in Nat /\ r.results \in Nat
        /\ IsFiniteSet(R) /\ IsFiniteSet(W)
    BY <1>1 DEF Delivery, IsRow
  <2> QED BY <2>1, PolicyTotals
<1> HIDE DEF S, T, W
<1>3. /\ IsFiniteSet(S) /\ IsFiniteSet(T) /\ b \in [S -> T]
      /\ \A r \in S : r.spend \in Nat /\ r.results \in Nat
      /\ \A r \in S : b[r].spend = r.spend /\ b[r].results = r.results
      /\ \A r, q \in S : b[r] = b[q] => r = q
      /\ \A z \in T : \E r \in S : z = b[r]
  BY <1>1, SwappedRow DEF Delivery, IsRow
<1>4. Total(T, [r \in T |-> r.spend]) = Total(S, [r \in S |-> r.spend])
  <2> DEFINE v == [r \in S |-> r.spend] w == [r \in T |-> r.spend]
  <2>1. (\A r \in S : v[r] \in Nat) /\ (\A r \in S : w[b[r]] = v[r]) BY <1>3
  <2> HIDE DEF v, w, b
  <2>2. Total(T, w) = Total(S, v) BY <1>3, <2>1, TotalOfImage
  <2> QED BY <2>2 DEF v, w
<1>5. Total(T, [r \in T |-> r.results]) = Total(S, [r \in S |-> r.results])
  <2> DEFINE v == [r \in S |-> r.results] w == [r \in T |-> r.results]
  <2>1. (\A r \in S : v[r] \in Nat) /\ (\A r \in S : w[b[r]] = v[r]) BY <1>3
  <2> HIDE DEF v, w, b
  <2>2. Total(T, w) = Total(S, v) BY <1>3, <2>1, TotalOfImage
  <2> QED BY <2>2 DEF v, w
<1> QED BY <1>2, <1>4, <1>5 DEF W

LEMMA SwappedFields ==
    ASSUME NEW R, Delivery(R)
    PROVE  /\ Policy!OfObjective(Policy!Swapped(R)) = Policy!OfObjective(R)
           /\ Policy!OfMarket(Policy!Swapped(R)) = Policy!OfMarket(R)
           /\ Policy!DaysOf(Policy!Swapped(R)) = Policy!DaysOf(R)
<1>1. \A r \in R : Swap(r).objective = r.objective /\ Swap(r).market = r.market /\ Swap(r).day = r.day
  BY SwappedRow DEF Delivery
<1>2. Policy!Swapped(R) = {Swap(r) : r \in R} BY SwappedRows
<1>3. Policy!OfObjective(Policy!Swapped(R)) = Policy!OfObjective(R)
  BY <1>1, <1>2 DEF Policy!OfObjective
<1>4. Policy!OfMarket(Policy!Swapped(R)) = Policy!OfMarket(R) BY <1>1, <1>2 DEF Policy!OfMarket
<1>5. Policy!DaysOf(Policy!Swapped(R)) = Policy!DaysOf(R) BY <1>1, <1>2 DEF Policy!DaysOf
<1> QED BY <1>3, <1>4, <1>5

LEMMA SwappedMismatch ==
    ASSUME NEW R, Delivery(R)
    PROVE  Policy!Mismatch(Policy!Swapped(R)) = Policy!Mismatch(R)
<1> DEFINE W == Policy!Swapped(R)
<1>1. \A x \in {"a", "b"} : /\ Policy!OfObjective(Policy!Of(x, W)) = Policy!OfObjective(Policy!Of(OtherArm(x), R))
                          /\ Policy!OfMarket(Policy!Of(x, W)) = Policy!OfMarket(Policy!Of(OtherArm(x), R))
  <2> SUFFICES ASSUME NEW x \in {"a", "b"}
               PROVE  /\ Policy!OfObjective(Policy!Of(x, W)) = Policy!OfObjective(Policy!Of(OtherArm(x), R))
                      /\ Policy!OfMarket(Policy!Of(x, W)) = Policy!OfMarket(Policy!Of(OtherArm(x), R))
    OBVIOUS
  <2>1. OtherArm(x) \in {"a", "b"} BY DEF OtherArm
  <2>2. Policy!Of(x, W) = Policy!Swapped(Policy!Of(OtherArm(x), R)) /\ Delivery(Policy!Of(OtherArm(x), R))
    BY <2>1, SwappedArms
  <2> QED BY <2>2, SwappedFields
<1>2. Policy!OfObjective(W) = Policy!OfObjective(R) /\ Policy!OfMarket(W) = Policy!OfMarket(R)
  BY SwappedFields
<1> HIDE DEF W
<1>3. /\ OtherArm("a") = "b" /\ OtherArm("b") = "a" BY DEF OtherArm
<1>4. (\E x \in Policy!Arms : Policy!Cardinality(Policy!OfObjective(Policy!Of(x, W))) # 1)
        <=> \E x \in Policy!Arms : Policy!Cardinality(Policy!OfObjective(Policy!Of(x, R))) # 1
  BY <1>1, <1>3 DEF Policy!Arms
<1>5. (\E x \in Policy!Arms : Policy!Cardinality(Policy!OfMarket(Policy!Of(x, W))) # 1)
        <=> \E x \in Policy!Arms : Policy!Cardinality(Policy!OfMarket(Policy!Of(x, R))) # 1
  BY <1>1, <1>3 DEF Policy!Arms
<1> QED BY <1>2, <1>4, <1>5 DEF Policy!Mismatch, W

(* Who was more efficient, by how much and how surely.                      *)
Flipped(m) == IF m \in {"a", "b"} THEN OtherArm(m) ELSE m

LEMMA SwappedEfficiency ==
    ASSUME NEW R, Delivery(R)
    PROVE  /\ Policy!MoreEfficient(Policy!Swapped(R)) = Flipped(Policy!MoreEfficient(R))
           /\ Policy!MoreEfficient(R) \in {"unknown", "a", "b", "equal"}
           /\ Policy!CostRatioReaches(Policy!Swapped(R)) <=> Policy!CostRatioReaches(R)
           /\ Policy!ThresholdCrossed(Policy!Swapped(R)) <=> Policy!ThresholdCrossed(R)
           /\ Policy!Spends(Policy!Swapped(R)) = Policy!Spends(R)
           /\ Policy!Results(Policy!Swapped(R)) = Policy!Results(R)
<1> DEFINE W == Policy!Swapped(R)
           a == Policy!Spend("a", R) b == Policy!Spend("b", R)
           k == Policy!Result("a", R) l == Policy!Result("b", R)
<1>1. /\ Policy!Spend("a", W) = b /\ Policy!Spend("b", W) = a
      /\ Policy!Result("a", W) = l /\ Policy!Result("b", W) = k
  BY SwappedSums DEF OtherArm
<1>2. a \in Nat /\ b \in Nat /\ k \in Nat /\ l \in Nat BY SwappedSums
<1>3. Policy!Spends(W) = Policy!Spends(R) /\ Policy!Results(W) = Policy!Results(R)
  BY <1>1 DEF Policy!Spends, Policy!Results, Policy!Arms
<1> HIDE DEF W
<1>4. Policy!CostRatioReaches(W) <=> Policy!CostRatioReaches(R)
  BY <1>1 DEF Policy!CostRatioReaches, Policy!Arms
<1>5. /\ Policy!MoreEfficient(W) = Flipped(Policy!MoreEfficient(R))
      /\ Policy!MoreEfficient(R) \in {"unknown", "a", "b", "equal"}
  <2> DEFINE unknown == k = 0 \/ l = 0
  <2>1. (\E x \in Policy!Arms : Policy!Result(x, R) = 0) <=> unknown BY DEF Policy!Arms
  <2>2. (\E x \in Policy!Arms : Policy!Result(x, W) = 0) <=> unknown BY <1>1 DEF Policy!Arms
  <2>3. Policy!MoreEfficient(R) = IF unknown THEN "unknown" ELSE IF a * l < b * k THEN "a"
                                 ELSE IF b * k < a * l THEN "b" ELSE "equal"
    BY <2>1 DEF Policy!MoreEfficient
  <2>4. Policy!MoreEfficient(W) = IF unknown THEN "unknown" ELSE IF b * k < a * l THEN "a"
                                 ELSE IF a * l < b * k THEN "b" ELSE "equal"
    BY <1>1, <2>2 DEF Policy!MoreEfficient
  <2>5. a * l \in Nat /\ b * k \in Nat BY <1>2
  <2> HIDE DEF unknown, a, b, k, l
  <2> QED BY <2>3, <2>4, <2>5 DEF Flipped, OtherArm
<1>6. Policy!ThresholdCrossed(W) <=> Policy!ThresholdCrossed(R)
  <2> DEFINE chosen == Policy!choose(k + l + 2, k + 1)
             p == Policy!Power(a, k) q == Policy!Power(b, l)
             odds == 2 * Odds - 1
             left == 6 * Policy!Power(a + b, k + l)
  <2>1. chosen \in Nat /\ Policy!choose(l + k + 2, l + 1) = chosen
    <3> HIDE DEF k, l
    <3> QED BY <1>2, ChoicesAreNumbers
  <2>2. p \in Nat /\ q \in Nat
    <3> HIDE DEF a, b, k, l
    <3> QED BY <1>2, PowersAreNumbers
  <2>3. odds \in Int BY JudgingAssumption
  <2>4. Policy!ThresholdCrossed(R) <=> left >= odds * (k + l + 3) * chosen * p * q
    BY DEF Policy!ThresholdCrossed
  <2>5. Policy!ThresholdCrossed(W) <=>
          6 * Policy!Power(b + a, l + k) >= odds * (l + k + 3) * Policy!choose(l + k + 2, l + 1) * q * p
    BY <1>1 DEF Policy!ThresholdCrossed
  <2>6. b + a = a + b /\ l + k = k + l BY <1>2
  <2>7. odds * (k + l + 3) * chosen * p * q = odds * (l + k + 3) * chosen * q * p
    <3> HIDE DEF odds, chosen, p, q, k, l
    <3> DEFINE c == odds * (k + l + 3) * chosen
    <3>1. c \in Int BY <1>2, <2>1, <2>3
    <3> HIDE DEF c
    <3>2. c * p * q = c * q * p BY <2>2, <3>1
    <3> QED BY <2>6, <3>2 DEF c
  <2> HIDE DEF odds, chosen, p, q, k, l, a, b
  <2> QED BY <2>1, <2>4, <2>5, <2>6, <2>7
<1> QED BY <1>3, <1>4, <1>5, <1>6 DEF W

(* The halves of the swapped rows are the halves, swapped.                   *)
LEMMA SwappedHalves ==
    ASSUME NEW R, Delivery(R)
    PROVE  /\ \A H \in Policy!Halves(R) : Delivery(H)
           /\ Policy!Halves(Policy!Swapped(R)) = {Policy!Swapped(H) : H \in Policy!Halves(R)}
<1> DEFINE W == Policy!Swapped(R)
           F == Policy!FirstDays(R)
           H1 == {r \in R : r.day \in F}
           H2 == {r \in R : r.day \notin F}
<1>1. Delivery(H1) /\ Delivery(H2)
  <2>1. H1 \subseteq R /\ H2 \subseteq R OBVIOUS
  <2> HIDE DEF H1, H2
  <2> QED BY <2>1, PartsOfDelivery
<1>2. Policy!FirstDays(W) = F BY SwappedFields DEF Policy!FirstDays
<1>3. W = {Swap(r) : r \in R} BY SwappedRows
<1>4. \A r \in R : Swap(r).day = r.day BY SwappedRow DEF Delivery
<1> HIDE DEF F, W
<1>5. {r \in W : r.day \in F} = Policy!Swapped(H1) /\ {r \in W : r.day \notin F} = Policy!Swapped(H2)
  <2>1. Policy!Swapped(H1) = {Swap(r) : r \in H1} /\ Policy!Swapped(H2) = {Swap(r) : r \in H2}
    <3> HIDE DEF H1, H2
    <3> QED BY <1>1, SwappedRows
  <2> QED BY <1>3, <1>4, <2>1
<1>6. Policy!Halves(W) = {Policy!Swapped(H1), Policy!Swapped(H2)}
  BY <1>2, <1>5 DEF Policy!Halves
<1>7. Policy!Halves(R) = {H1, H2} BY DEF Policy!Halves, F
<1> HIDE DEF H1, H2
<1> QED BY <1>1, <1>6, <1>7 DEF W

LEMMA SwappedWaiting ==
    ASSUME NEW R, Delivery(R)
    PROVE  Policy!WaitingFor(Policy!Swapped(R)) = Policy!WaitingFor(R)
<1> DEFINE W == Policy!Swapped(R)
<1>1. Delivery(W) BY SwappedRows
<1>2. /\ Policy!MoreEfficient(W) = Flipped(Policy!MoreEfficient(R))
      /\ Policy!MoreEfficient(R) \in {"unknown", "a", "b", "equal"}
      /\ Policy!CostRatioReaches(W) <=> Policy!CostRatioReaches(R)
      /\ Policy!ThresholdCrossed(W) <=> Policy!ThresholdCrossed(R)
      /\ Policy!Spends(W) = Policy!Spends(R) /\ Policy!Results(W) = Policy!Results(R)
  BY SwappedEfficiency
<1>3. Policy!DaysOf(W) = Policy!DaysOf(R) BY SwappedFields
<1>4. \A H \in Policy!Halves(R) :
          /\ Policy!MoreEfficient(Policy!Swapped(H)) = Flipped(Policy!MoreEfficient(H))
          /\ Policy!MoreEfficient(H) \in {"unknown", "a", "b", "equal"}
          /\ Policy!CostRatioReaches(Policy!Swapped(H)) <=> Policy!CostRatioReaches(H)
          /\ Policy!Spends(Policy!Swapped(H)) = Policy!Spends(H)
          /\ Policy!Results(Policy!Swapped(H)) = Policy!Results(H)
  BY SwappedHalves, SwappedEfficiency
<1>5. Policy!Halves(W) = {Policy!Swapped(H) : H \in Policy!Halves(R)} BY SwappedHalves
<1> HIDE DEF W
<1>6. \A m, n \in {"unknown", "a", "b", "equal"} : Flipped(m) = Flipped(n) <=> m = n
  BY DEF Flipped, OtherArm
<1>7. Policy!Stable(W) <=> Policy!Stable(R)
  BY <1>2, <1>4, <1>5, <1>6 DEF Policy!Stable
<1>8. (\E H \in Policy!Halves(W) : 0 \in Policy!Spends(H) \cup Policy!Results(H))
        <=> \E H \in Policy!Halves(R) : 0 \in Policy!Spends(H) \cup Policy!Results(H)
  BY <1>4, <1>5
<1>9. Policy!Insufficient(W) = Policy!Insufficient(R) BY <1>2 DEF Policy!Insufficient
<1> QED BY <1>2, <1>3, <1>7, <1>8, <1>9 DEF Policy!WaitingFor, W

(* What counts of the swapped rows is what counts, swapped.                  *)
LEMMA SwappedEligible ==
    ASSUME NEW R, Delivery(R)
    PROVE  /\ Policy!Eligible(Policy!Swapped(R)) = Policy!Swapped(Policy!Eligible(R))
           /\ Delivery(Policy!Eligible(R))
<1>1. Policy!Eligible(R) \subseteq R BY DEF Policy!Eligible
<1>2. Delivery(Policy!Eligible(R)) BY <1>1, PartsOfDelivery
<1>3. /\ Policy!Swapped(R) = {Swap(r) : r \in R}
      /\ Policy!Swapped(Policy!Eligible(R)) = {Swap(r) : r \in Policy!Eligible(R)}
  BY <1>2, SwappedRows
<1>4. \A r \in R : Swap(r).day = r.day BY SwappedRow DEF Delivery
<1> QED BY <1>2, <1>3, <1>4 DEF Policy!Eligible

LEMMA SwappedVerdict ==
    ASSUME NEW R, Delivery(R) PROVE Policy!Evaluate(Policy!Swapped(R)) = Policy!Evaluate(R)
<1> DEFINE E == Policy!Eligible(R)
           W == Policy!Swapped(R)
<1>1. Policy!Eligible(W) = Policy!Swapped(E) /\ Delivery(E) BY SwappedEligible
<1>2. W = {} <=> R = {} BY SwappedRows
<1>3. \A x \in {"a", "b"} : Policy!Of(x, Policy!Eligible(W)) = {} <=> Policy!Of(OtherArm(x), E) = {}
  <2> SUFFICES ASSUME NEW x \in {"a", "b"}
               PROVE  Policy!Of(x, Policy!Eligible(W)) = {} <=> Policy!Of(OtherArm(x), E) = {}
    OBVIOUS
  <2>1. OtherArm(x) \in {"a", "b"} BY DEF OtherArm
  <2> HIDE DEF E, W
  <2>2. /\ Policy!Of(x, Policy!Swapped(E)) = Policy!Swapped(Policy!Of(OtherArm(x), E))
        /\ Delivery(Policy!Of(OtherArm(x), E))
    BY <1>1, <2>1, SwappedArms
  <2> QED BY <1>1, <2>2, SwappedRows
<1> HIDE DEF E, W
<1>4. (\E x \in Policy!Arms : Policy!Of(x, Policy!Eligible(W)) = {})
        <=> \E x \in Policy!Arms : Policy!Of(x, E) = {}
  BY <1>3 DEF Policy!Arms, OtherArm
<1>5. /\ Policy!Mismatch(Policy!Eligible(W)) = Policy!Mismatch(E)
      /\ Policy!WaitingFor(Policy!Eligible(W)) = Policy!WaitingFor(E)
  BY <1>1, SwappedMismatch, SwappedWaiting
<1> QED BY <1>2, <1>4, <1>5 DEF Policy!Evaluate, E, W

(* The rows there are, and days that are numbers.                           *)
PolicyInv ==
    /\ v4 \subseteq DeliveryRow /\ IsFiniteSet(v4)
    /\ v1 \in Nat /\ v2 \in Nat /\ v3 \in Nat

LEMMA PolicyStarts == MCInit /\ part = "policy" => PolicyInv
<1> SUFFICES ASSUME MCInit, part = "policy" PROVE PolicyInv OBVIOUS
<1>1. Policy!Init BY DEF MCInit
<1> QED BY <1>1, JudgingAssumption, FS_EmptySet DEF Policy!Init, Policy!NoDay, PolicyInv

LEMMA PolicyGoesOn == ASSUME PolicyInv, Policy!Next PROVE PolicyInv'
<1>1. CASE Policy!Import
  BY <1>1, FS_AddElement DEF Policy!Import, PolicyInv
<1>2. CASE Policy!NextDay
  BY <1>2, JudgingAssumption DEF Policy!NextDay, PolicyInv
<1> QED BY <1>1, <1>2 DEF Policy!Next

LEMMA PolicyDecides == PolicyInv => Policy!EvidenceDecides
<1> SUFFICES ASSUME PolicyInv PROVE Policy!EvidenceDecides OBVIOUS
<1>1. \A r \in v4 : IsRow(r) BY JudgingAssumption DEF PolicyInv, IsRow
<1>2. Delivery(v4) BY <1>1 DEF Delivery, PolicyInv
<1>3. Policy!Evaluate(Policy!Swapped(v4)) = Policy!Evaluate(v4) BY <1>2, SwappedVerdict
<1> DEFINE known == {r \in v4 : Policy!InWindow(r)}
<1>4. ASSUME v1 # Policy!NoDay, v2 # Policy!NoDay, known # {}
      PROVE  Policy!Evaluate(known) = Policy!Evaluate(v4)
  <2>1. \A r \in v4 : r.day \in Nat BY <1>1 DEF IsRow
  <2>2. Policy!Eligible(known) = Policy!Eligible(v4)
    BY <2>1 DEF Policy!Eligible, Policy!InWindow, Policy!EffectiveStart, Policy!Later, PolicyInv
  <2>3. v4 # {} BY <1>4
  <2> HIDE DEF known
  <2> QED BY <1>4, <2>2, <2>3 DEF Policy!Evaluate
<1> QED BY <1>3, <1>4 DEF Policy!EvidenceDecides

(* services/observation_policy.py: whether the delivery data tell two         *)
(* creatives apart depends neither on which of them is called a nor on rows   *)
(* from outside the evidence; for any rows, days and thresholds.              *)
THEOREM TheEvidenceDecides == MCSpec => []EvidenceDecides
<1> DEFINE I == part = "policy" => PolicyInv
<1>1. MCInit => I BY PolicyStarts
<1>2. I /\ [MCNext]_MCvars => I'
  <2> SUFFICES ASSUME PolicyInv, part = "policy", [MCNext]_MCvars PROVE PolicyInv'
    BY DEF MCNext, MCvars
  <2>1. CASE Policy!Next BY <2>1, PolicyGoesOn
  <2>2. CASE UNCHANGED <<v1, v2, v3, v4>> BY <2>2 DEF PolicyInv
  <2>3. UNCHANGED others => UNCHANGED <<v1, v2, v3, v4>> BY DEF others, from2, from4
  <2>4. UNCHANGED MCvars => UNCHANGED others BY DEF MCvars
  <2>5. Other => Policy!Next BY DEF Other
  <2> QED BY <2>1, <2>2, <2>3, <2>4, <2>5 DEF MCNext
<1>3. I => EvidenceDecides BY PolicyDecides DEF EvidenceDecides
<1> HIDE DEF I
<1> QED BY <1>1, <1>2, <1>3, PTL DEF MCSpec
==============================================================================
