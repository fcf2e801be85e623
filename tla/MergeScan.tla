------------------------------ MODULE MergeScan ------------------------------
(***************************************************************************)
(* The automatic merge of creatives.  After an analysis a judge phase     *)
(* (run_post_analysis) takes the candidate pairs of its creative and then *)
(* scans for pairs the candidates missed; the periodic consolidation      *)
(* scans all creatives.  A pair goes through one model call, one frame    *)
(* measurement and, when everything agrees, merge_creatives, which itself *)
(* rescans the surviving creative before it returns.  Every phase owns a  *)
(* session: what it writes for a pair becomes visible at its commit, and  *)
(* the rows it writes stay locked until then.                             *)
(*                                                                         *)
(* Creatives are numbered in the order of their names, the order in which  *)
(* a full scan pairs them.  The recall channels (text, analysis, frames,   *)
(* vectors) only decide which pairs reach the model: a pair they leave out *)
(* behaves as one the model declines, so a scan starts from every pair it  *)
(* may recall.                                                             *)
(*                                                                         *)
(* CommitKeepsMirror (the lock belongs to the session, not to the          *)
(* transaction), AbsorbedIsAnchor (the arguments of the merge are swapped) *)
(* and NeverBlocked are the bugs the properties are known to catch:        *)
(* nothing below uses them.                                                *)
(***************************************************************************)
EXTENDS Naturals, FiniteSets, Sequences

CONSTANTS Creatives,   \* the creatives that exist at the start, numbers
          Phases,      \* judge phases, each for one analysed creative
          Sweepers,    \* background consolidation threads
          MaxHuman     \* bound on the rulings and merges of people

ASSUME ScanAssumption == Creatives \subseteq Nat \ {0} /\ MaxHuman \in Nat

VARIABLES live,        \* committed rows of creatives
          ruled,       \* pairs with a split ruling
          old,         \* those of them ruled more than 90 days ago
          th,          \* the state of each thread
          human        \* how many times people acted

vars == <<live, ruled, old, th, human>>

Threads == Phases \cup Sweepers
None == 0
NoPair == <<None, None>>
Pairs == {p \in Creatives \X Creatives : p[1] # p[2]}
SetOf(p) == {p[1], p[2]}

(***************************************************************************)
(* A thread keeps a stack of loops over pairs.  "judge" is the loop of     *)
(* run_merge_judgements, "scan" the loop of scan_missed_merges under       *)
(* commit=True, "rescan" the same loop under commit=False, started by the  *)
(* merge whose target is its anchor; by is that merge's pair.              *)
(***************************************************************************)
Frames == [kind : {"judge", "scan", "rescan"}, anchor : Creatives \cup {None},
           by : Pairs \cup {NoPair}, todo : SUBSET Pairs, alive : SUBSET Creatives]

Top(t) == th[t].stack[Len(th[t].stack)]
Outermost(t) == th[t].stack[1]
InTop(t, f) == [th[t].stack EXCEPT ![Len(th[t].stack)] = f]

(* What a statement of thread t reads: the committed rows and its own.     *)
View(t) == live \ th[t].open

(* A merge updates the target's row and deletes the source's; both stay    *)
(* locked until the transaction ends, and so does the mirror.              *)
Blocks(u, t) ==
    /\ u # t
    /\ \/ th[t].stage = "guard" /\ SetOf(th[t].pair) \cap th[u].locks # {}
       \/ th[t].stage = "mirror" /\ th[u].mirror
Runnable(t) == \A u \in Threads : ~Blocks(u, t)

(* A thread: what it does next, its loops from the outermost in, the pair   *)
(* it is at, the creatives it merged away, those of them that are not       *)
(* committed, the rows its transaction wrote, whether it holds the lock of  *)
(* the mirror or needs a rollback, and what was ruled when the model        *)
(* answered.                                                               *)
Init ==
    /\ live = Creatives
    /\ ruled = {} /\ old = {} /\ human = 0
    /\ th = [t \in Threads |->
          [stage |-> "begin", stack |-> <<>>, pair |-> NoPair, gone |-> {},
           open |-> {}, locks |-> {}, mirror |-> FALSE, broken |-> FALSE,
           ruledThen |-> {}, counted |-> FALSE]]

-----------------------------------------------------------------------------
(* Which pairs a loop starts from.                                         *)

(* merge_candidate_items: the borderline pairs, smaller name first, without *)
(* the pairs already ruled.                                                 *)
JudgeFrame(t, x) ==
    [kind |-> "judge", anchor |-> x, by |-> NoPair, alive |-> {},
     todo |-> {p \in Pairs : /\ SetOf(p) \subseteq View(t)
                             /\ p[1] < p[2]
                             /\ x \in SetOf(p) /\ SetOf(p) \notin ruled}]

(* recall_pairs: the anchor against all others, or all pairs by name.      *)
ScanFrame(t, x, kind, by) ==
    [kind |-> kind, anchor |-> x, by |-> by, alive |-> View(t),
     todo |-> {p \in Pairs : /\ SetOf(p) \subseteq View(t)
                             /\ SetOf(p) \notin ruled
                             /\ IF x = None THEN p[1] < p[2] ELSE p[1] = x}]

(* run_post_analysis starts with the candidates of the analysed creative;  *)
(* maybe_consolidate scans everything.                                     *)
Begin(t) ==
    /\ th[t].stage = "begin"
    /\ \E x \in live :
         th' = [th EXCEPT ![t].stage = "next",
                          ![t].stack = <<IF t \in Sweepers
                                         THEN ScanFrame(t, None, "scan", NoPair)
                                         ELSE JudgeFrame(t, x)>>]
    /\ UNCHANGED <<live, ruled, old, human>>

-----------------------------------------------------------------------------
(* Commit and rollback of a thread's transaction.                          *)

Keep(t, row) == th' = [th EXCEPT ![t] = row] /\ UNCHANGED live

CommitKeepsMirror(t, row) ==
    /\ live' = View(t)
    /\ th' = [th EXCEPT ![t] = [row EXCEPT !.open = {}, !.locks = {}]]

Commit(t, row) ==
    /\ live' = View(t)
    /\ th' = [th EXCEPT ![t] = [row EXCEPT !.open = {}, !.locks = {},
                                           !.mirror = FALSE]]

(* The pair is over, with its suggestion written or deleted: its short     *)
(* transaction commits, unless the loop runs inside a merge, whose caller  *)
(* commits.                                                                *)
EndPair(t, row) ==
    LET over == [row EXCEPT !.stage = "next", !.pair = NoPair, !.ruledThen = {}]
    IN IF Len(over.stack) = 1 THEN Commit(t, over) ELSE Keep(t, over)

(* A failed flush rolled the transaction back.  The judge loop rolls the   *)
(* session back and goes on with the next pair; a scan is abandoned with   *)
(* the session as it is, and only maybe_consolidate rolls back.            *)
Abandon(t) ==
    LET row  == [th[t] EXCEPT !.open = {}, !.locks = {}, !.mirror = FALSE,
                              !.gone = @ \ th[t].open, !.pair = NoPair,
                              !.ruledThen = {}]
    IN IF Outermost(t).kind = "judge"
       THEN Keep(t, [row EXCEPT !.stage = "next", !.stack = <<Outermost(t)>>])
       ELSE Keep(t, [row EXCEPT !.stage = "note", !.stack = <<>>,
                                !.broken = t \in Phases])

-----------------------------------------------------------------------------
(* The loop over pairs.  A pair that was ruled or lost a creative since it  *)
(* was listed is passed over: the judge loop reads both again, a scan asks *)
(* its own set of living creatives.  Neither comes back, so the loop is    *)
(* over when only such pairs are left.                                     *)
Worth(t) ==
    {p \in Top(t).todo :
       IF Top(t).kind = "judge"
       THEN SetOf(p) \notin ruled /\ SetOf(p) \subseteq View(t)
       ELSE SetOf(p) \subseteq Top(t).alive}

(* The candidates of the judge loop come in any order.  A scan recalls in   *)
(* the order of the names; a pair only the frames or the vectors found      *)
(* would come after the others, which the model leaves out.                 *)
InNameOrder(p, q) == p[1] < q[1] \/ (p[1] = q[1] /\ p[2] <= q[2])

LoopOver(t) == th[t].stage = "next" /\ th[t].stack # <<>> /\ Worth(t) = {}

TakePair(t) ==
    /\ th[t].stage = "next" /\ th[t].stack # <<>>
    /\ \E p \in Worth(t) :
         /\ Top(t).kind = "judge" \/ \A q \in Worth(t) : InNameOrder(p, q)
         /\ th' = [th EXCEPT ![t].stack = InTop(t, [Top(t) EXCEPT !.todo = Worth(t) \ {p}]),
                          ![t].pair = p, ![t].stage = "ask"]
    /\ UNCHANGED <<live, ruled, old, human>>

(* judge_pair answers.  A declined pair writes nothing.  A split verdict,  *)
(* or a merge verdict the frames do not support, is a suggestion; the      *)
(* measurement needs a video on both sides, so it finds nothing for a      *)
(* creative whose variants moved away.  A supported merge goes on.         *)
Answered(t) ==
    /\ th[t].stage = "ask"
    /\ \/ Keep(t, [th[t] EXCEPT !.stage = "next", !.pair = NoPair])
       \/ EndPair(t, th[t])
       \/ /\ SetOf(th[t].pair) \subseteq View(t)
          /\ Keep(t, [th[t] EXCEPT !.stage = "guard", !.ruledThen = ruled])
    /\ UNCHANGED <<ruled, old, human>>

(* The loops call merge_creatives(pair[2], pair[1]): the second of a pair  *)
(* is absorbed by the first.                                               *)
Survivor(p) == p[1]
AbsorbedIsAnchor(p) == p[1]
Absorbed(p) == p[2]

(* merge_creatives(auto=True) up to the deletion of the source.  A ruling  *)
(* blocks it for 90 days (an older one only warns) and a suggestion is left. *)
(* The judge loop holds ids, so the lookup misses a creative another session *)
(* deleted and the pair is skipped.  A scan holds the rows, which stay in    *)
(* the session's identity map: a deleted source goes unnoticed, and for a    *)
(* deleted target the variants' foreign key fails.                          *)
Missed(t, p) == Top(t).kind = "judge" /\ ~(SetOf(p) \subseteq View(t))
NeverBlocked(p) == FALSE
BlockedByRuling(p) == SetOf(p) \in ruled \ old

Guarded(t) ==
    /\ th[t].stage = "guard" /\ Runnable(t)
    /\ LET p == th[t].pair IN
       IF Missed(t, p)
       THEN Keep(t, [th[t] EXCEPT !.stage = "next", !.pair = NoPair, !.ruledThen = {}])
       ELSE IF BlockedByRuling(p) THEN EndPair(t, th[t])
       ELSE IF Survivor(p) \notin View(t) THEN Abandon(t)
       ELSE Keep(t, [th[t] EXCEPT !.stage = "mirror",
                                  !.open = @ \cup {Absorbed(p)},
                                  !.gone = @ \cup {Absorbed(p)},
                                  !.locks = @ \cup SetOf(p)])
    /\ UNCHANGED <<ruled, old, human>>

(* rebuild_mirror takes the advisory lock until the commit; then           *)
(* scan_for_creative(commit=False) scans the target.                       *)
Rescan(t) ==
    /\ th[t].stage = "mirror" /\ Runnable(t)
    /\ LET p == th[t].pair IN
       th' = [th EXCEPT ![t].stage = "next", ![t].mirror = TRUE,
                        ![t].pair = NoPair, ![t].ruledThen = {},
                        ![t].stack = Append(@, ScanFrame(t, Survivor(p), "rescan", p))]
    /\ UNCHANGED <<live, ruled, old, human>>

(* The merge returns to its loop, which forgets the source and deletes the *)
(* suggestions about the pair.                                             *)
RescanEnds(t) ==
    /\ LoopOver(t) /\ Len(th[t].stack) > 1
    /\ LET n == Len(th[t].stack) - 1
           rest == [SubSeq(th[t].stack, 1, n) EXCEPT ![n].alive = @ \ {Absorbed(Top(t).by)}]
       IN EndPair(t, [th[t] EXCEPT !.stack = rest])
    /\ UNCHANGED <<ruled, old, human>>

(* The candidates are done: the phase scans for its creative, unless that  *)
(* one was merged away (no anchor, no pairs).  The scan is done: the       *)
(* remaining writes commit.                                                *)
LoopEnds(t) ==
    /\ LoopOver(t) /\ Len(th[t].stack) = 1
    /\ LET x == Top(t).anchor IN
       IF Top(t).kind = "judge"
       THEN Keep(t, [th[t] EXCEPT !.stack = <<ScanFrame(t, x, "scan", NoPair)>>])
       ELSE Commit(t, [th[t] EXCEPT !.stage = "note", !.stack = <<>>])
    /\ UNCHANGED <<ruled, old, human>>

(* note_analysis_completed is the phase's next statement on the session.   *)
Note(t) ==
    /\ th[t].stage = "note"
    /\ th' = [th EXCEPT ![t].stage = "done",
                        ![t].counted = t \in Phases /\ ~th[t].broken]
    /\ UNCHANGED <<live, ruled, old, human>>

(* The database ends a cycle of waits by failing one of the statements.    *)
DeadlockVictim(t) ==
    /\ \E u \in Threads : Blocks(u, t) /\ Blocks(t, u)
    /\ Abandon(t)
    /\ UNCHANGED <<ruled, old, human>>

-----------------------------------------------------------------------------
(* People rule a pair split, or merge one; a merge by hand commits at once *)
(* and waits for rows under change.                                        *)
Rule ==
    /\ human < MaxHuman /\ human' = human + 1
    /\ \E p \in Pairs : /\ SetOf(p) \subseteq live /\ SetOf(p) \notin ruled
                        /\ ruled' = ruled \cup {SetOf(p)}
    /\ UNCHANGED <<live, old, th>>

MergeByHand ==
    /\ human < MaxHuman /\ human' = human + 1
    /\ \E p \in Pairs :
         /\ SetOf(p) \subseteq live
         /\ \A t \in Threads : SetOf(p) \cap th[t].locks = {}
         /\ live' = live \ {Absorbed(p)}
    /\ UNCHANGED <<ruled, old, th>>

(* A ruling decays: nothing lists its pair again, but the guard gives way.   *)
Decay == \E p \in ruled \ old : old' = old \cup {p} /\ UNCHANGED <<live, ruled, th, human>>

Step(t) == \/ Begin(t) \/ TakePair(t) \/ Answered(t) \/ Guarded(t) \/ Rescan(t)
           \/ RescanEnds(t) \/ LoopEnds(t) \/ Note(t) \/ DeadlockVictim(t)

Over == (\A t \in Threads : th[t].stage = "done") /\ UNCHANGED vars

Next == (\E t \in Threads : Step(t)) \/ Rule \/ MergeByHand \/ Decay \/ Over

Fairness == \A t \in Threads : WF_vars(Step(t))

Spec == Init /\ [][Next]_vars /\ Fairness

-----------------------------------------------------------------------------
Thread ==
    [stage : {"begin", "next", "ask", "guard", "mirror", "note", "done"}, stack : Seq(Frames),
     pair : Pairs \cup {NoPair}, gone : SUBSET Creatives, open : SUBSET Creatives,
     locks : SUBSET Creatives, mirror : BOOLEAN, broken : BOOLEAN,
     ruledThen : SUBSET SUBSET Creatives, counted : BOOLEAN]

TypeOK ==
    /\ live \subseteq Creatives /\ ruled \subseteq SUBSET Creatives /\ old \subseteq ruled
    /\ human \in 0..MaxHuman /\ th \in [Threads -> Thread]

(* The creative a rescan was started for is never merged away by that      *)
(* rescan or by one below it: the merge that waits for the rescan would     *)
(* otherwise have moved its variants into a creative that is gone.          *)
SurvivorSurvives ==
    \A t \in Threads : \A i \in 1..Len(th[t].stack) :
        th[t].stack[i].kind = "rescan" => th[t].stack[i].anchor \in View(t)

(* A pair that people had ruled split by the time the model answered is    *)
(* not merged automatically, although the candidates were listed earlier,   *)
(* as long as that ruling is not older than 90 days.                        *)
RulingStep ==
    \A t \in Threads : th'[t].open \ th[t].open # {} =>
        SetOf(th[t].pair) \notin th[t].ruledThen \ old
RulingBeatsAnswer == [][RulingStep]_vars

(* Every phase ends: the rescans that merges start inside merges run out   *)
(* of creatives, and the database breaks the waits for each other's rows.   *)
EveryPhaseEnds == \A t \in Threads : <>(th[t].stage = "done")

(* scan_missed_merges: a model call never spans writes that are not         *)
(* committed.  Not kept by the rescan that a merge starts before its caller *)
(* commits.                                                                *)
NoCallAcrossWrites == \A t \in Threads : th[t].stage = "ask" => th[t].open = {}
=============================================================================
