--------------------------- MODULE MergeExperiment ---------------------------
(***************************************************************************)
(* scripts/run_merge_family_experiment.py: an experiment kept in the files  *)
(* of a work directory.  prepare, freeze and sample write files that are   *)
(* never overwritten; run judges the sampled pairs with two systems within *)
(* a number of model requests that holds across crashes and restarts;      *)
(* report sums up what run left behind.  What the model answers, and what  *)
(* the rules make of the cards, is any of the possible outcomes.           *)
(*                                                                         *)
(* CountsBefore (the ledger is written before the request is counted) and  *)
(* TerminalIsEnough (a result of another model is taken over) are the bugs *)
(* the properties are known to catch: nothing below uses them.             *)
(***************************************************************************)
EXTENDS Naturals, Sequences, FiniteSets

CONSTANTS Variants,      \* 1..n, the variants of the review universe
          Empty,         \* those whose analysis holds no evidence
          PairSeq,       \* the sampled pairs, in order
          Procs,         \* processes started with the same work directory
          Models,
          Limit,         \* REQUEST_BUDGET_LIMIT
          Resends,       \* max_retries of the OpenAI client, which is built without
          MaxAttempts,   \* MAX_CALL_FAILURE_ATTEMPTS
          MaxChanges     \* bound on analyses redone, models chosen, files removed

None == "none"
ASSUME ExperimentAssumption ==
    /\ IsFiniteSet(Variants) /\ Variants = 1..Cardinality(Variants)
    /\ PairSeq \in Seq(Variants \X Variants)
    /\ None \notin Procs
    /\ Limit \in Nat /\ Resends \in Nat /\ MaxAttempts \in Nat \ {0} /\ MaxChanges \in Nat

VARIABLES universe,      \* review_universe.json: the families confirmed in it
          manifest,      \* gold_manifest.json: gold and evidence, frozen
          sample,        \* sample20.json: the manifest it was drawn from
          ledger,        \* request_ledger.json
          cache,         \* the caches of cards, differences and adjudications
          results,       \* results.jsonl
          metadata,      \* run_metadata.json
          report,        \* pilot_metrics.json
          evidence,      \* the analyses in the database
          model,         \* the model configured
          lock,          \* run.lock
          proc,          \* what each process does
          sent,          \* history: requests that left
          changes

files == <<universe, manifest, sample, ledger, cache, results, metadata, report>>
vars == <<files, evidence, model, lock, proc, sent, changes>>

NoFile == [none |-> TRUE]
Systems == <<"baseline", "vnext">>
SystemSet == {"baseline", "vnext"}
Terminal == {"same", "diff", "grey"}
Pairs == {PairSeq[i] : i \in DOMAIN PairSeq}

(* The work of a run, in order: both cards of every variant, then both      *)
(* judgements of every pair.                                               *)
Task(k, i, s) == [kind |-> k, item |-> i, system |-> s]
CardTasks == [n \in 1..(2 * Cardinality(Variants)) |->
                 Task("card", (n + 1) \div 2, Systems[2 - (n % 2)])]
PairTasks == [n \in 1..(2 * Len(PairSeq)) |->
                 Task("pair", (n + 1) \div 2, Systems[2 - (n % 2)])]
Tasks == CardTasks \o PairTasks

Idle == [pc |-> "idle", model |-> None, frozen |-> NoFile, used |-> 0, temperature |-> TRUE,
         task |-> 1, attempt |-> 1, stage |-> "rule", card |-> <<>>, verdict |-> <<>>,
         done |-> {}]

Init ==
    /\ universe = None /\ manifest = NoFile /\ sample = NoFile
    /\ ledger = 0 /\ cache = {}
    /\ results = [p \in Pairs |-> NoFile] /\ metadata = NoFile /\ report = None
    /\ evidence = [v \in Variants |-> 0] /\ model \in Models
    /\ lock = None /\ proc = [p \in Procs |-> Idle] /\ sent = 0 /\ changes = 0

-----------------------------------------------------------------------------
(* prepare writes the list, people confirm families in it, freeze and      *)
(* sample refuse to overwrite their files.                                 *)
Prepare ==
    /\ universe = None /\ universe' = "pending"
    /\ UNCHANGED <<manifest, sample, ledger, cache, results, metadata, report,
                   evidence, model, lock, proc, sent, changes>>
Confirm ==
    /\ universe = "pending" /\ \E g \in {"g1", "g2"} : universe' = g
    /\ UNCHANGED <<manifest, sample, ledger, cache, results, metadata, report,
                   evidence, model, lock, proc, sent, changes>>
Freeze ==
    /\ universe \notin {None, "pending"} /\ manifest = NoFile
    /\ manifest' = [gold |-> universe, evidence |-> evidence]
    /\ UNCHANGED <<universe, sample, ledger, cache, results, metadata, report,
                   evidence, model, lock, proc, sent, changes>>
Sample ==
    /\ manifest # NoFile /\ sample = NoFile /\ sample' = manifest
    /\ UNCHANGED <<universe, manifest, ledger, cache, results, metadata, report,
                   evidence, model, lock, proc, sent, changes>>

(* What people do meanwhile: an analysis is redone, another model is        *)
(* configured, the frozen files are removed to start over.                 *)
Meanwhile ==
    /\ changes < MaxChanges /\ changes' = changes + 1
    /\ \/ \E v \in Variants : evidence' = [evidence EXCEPT ![v] = @ + 1]
          /\ UNCHANGED <<universe, manifest, sample, model>>
       \/ model' \in Models \ {model} /\ UNCHANGED <<universe, manifest, sample, evidence>>
       \/ universe' = "pending" /\ manifest' = NoFile /\ sample' = NoFile
          /\ manifest # NoFile /\ UNCHANGED <<evidence, model>>
    /\ UNCHANGED <<ledger, cache, results, metadata, report, lock, proc, sent>>

-----------------------------------------------------------------------------
(* A record carries the context it was judged in.                          *)
ContextOf(pair, m, frozen) ==
    [model |-> m, gold |-> frozen.gold,
     evidence |-> <<frozen.evidence[pair[1]], frozen.evidence[pair[2]]>>]
Judged(pair) == results[pair] # NoFile
                /\ \A s \in SystemSet : results[pair].status[s] \in Terminal
TerminalIsEnough(pair, m, frozen) == Judged(pair)
Reusable(pair, m, frozen) == Judged(pair) /\ results[pair].context = ContextOf(pair, m, frozen)

(* What the ledger says earlier runs have used.                            *)
Carried == ledger

(* The run takes the lock, checks that sample and evidence are those that  *)
(* were frozen, and goes on where the ledger and the results left off.     *)
Admitted(p) == proc[p].pc = "idle" /\ lock = None
StartRun(p) ==
    /\ Admitted(p) /\ manifest # NoFile /\ sample = manifest
    /\ evidence = manifest.evidence
    /\ lock' = p
    /\ LET done == {q \in Pairs : Reusable(q, model, manifest)} IN
       proc' = [proc EXCEPT ![p] =
           [Idle EXCEPT !.pc = IF done = Pairs THEN "finish" ELSE "work", !.model = model,
                        !.frozen = manifest, !.used = Carried, !.done = done]]
    /\ UNCHANGED <<files, evidence, model, sent, changes>>

Current(p) == Tasks[proc[p].task]
AtCard(p) == proc[p].task <= Len(CardTasks)
PairOf(p) == PairSeq[Current(p).item]
Exhausted(p) == proc[p].used >= Limit

(* What a cached answer depends on: the evidence asked about and the model. *)
Key(p, stage) ==
    LET who == IF AtCard(p) THEN <<Current(p).item>> ELSE PairOf(p) IN
    [stage |-> stage, system |-> Current(p).system, who |-> who, model |-> proc[p].model,
     evidence |-> [i \in DOMAIN who |-> proc[p].frozen.evidence[who[i]]]]

NextTask(pr) ==
    [pr EXCEPT !.task = @ + 1, !.attempt = 1, !.stage = "rule",
               !.pc = IF pr.task = Len(Tasks) THEN "finish" ELSE "work"]
CardIs(p, c) ==
    proc' = [proc EXCEPT ![p] = NextTask([proc[p] EXCEPT !.card = Append(@, c)])]
VerdictIs(p, v) ==
    proc' = [proc EXCEPT ![p] =
        IF Current(p).system = "baseline" THEN NextTask([proc[p] EXCEPT !.verdict = <<v>>])
        ELSE [proc[p] EXCEPT !.verdict = Append(@, v), !.pc = "write"]]
AskFor(p, stage) == proc' = [proc EXCEPT ![p].pc = "ask", ![p].stage = stage]

(* The prepass: a card from the cache, or a request for one.               *)
Card(p) ==
    /\ proc[p].pc = "work" /\ AtCard(p)
    /\ \/ Current(p).item \in Empty /\ CardIs(p, "no_evidence")
       \/ Current(p).item \notin Empty /\ Exhausted(p) /\ CardIs(p, "not_run")
       \/ /\ Current(p).item \notin Empty /\ ~Exhausted(p)
          /\ IF Key(p, "card") \in cache THEN CardIs(p, "ok") ELSE AskFor(p, "card")
    /\ UNCHANGED <<files, evidence, model, lock, sent, changes>>

(* The two cards the judgement needs; without them it is decided at once.  *)
CardsOfPair(p) ==
    LET at(v) == 2 * v - (IF Current(p).system = "baseline" THEN 1 ELSE 0) IN
    {proc[p].card[at(PairOf(p)[1])], proc[p].card[at(PairOf(p)[2])]}
WithoutCards(p) ==
    IF "no_evidence" \in CardsOfPair(p) THEN "grey"
    ELSE IF "not_run" \in CardsOfPair(p) THEN "not_run" ELSE "error"

(* The rules alone decide, or the baseline's split is rechecked, or vnext   *)
(* asks for the differences and then has them adjudicated.                 *)
ByRule(p) ==
    /\ proc[p].stage = "rule"
    /\ \/ VerdictIs(p, "same")
       \/ Current(p).system = "baseline" /\ VerdictIs(p, "grey")
       \/ Current(p).system = "vnext" /\ VerdictIs(p, "diff")
ByModel(p) ==
    IF Current(p).system = "baseline" THEN AskFor(p, "recheck")
    ELSE IF Key(p, "differences") \notin cache THEN AskFor(p, "differences")
    ELSE IF Key(p, "adjudicate") \notin cache THEN AskFor(p, "adjudicate")
    ELSE \E v \in Terminal : VerdictIs(p, v)

Judge(p) ==
    /\ proc[p].pc = "work" /\ ~AtCard(p) /\ PairOf(p) \notin proc[p].done
    /\ \/ CardsOfPair(p) # {"ok"} /\ VerdictIs(p, WithoutCards(p))
       \/ CardsOfPair(p) = {"ok"} /\ Exhausted(p) /\ VerdictIs(p, "not_run")
       \/ CardsOfPair(p) = {"ok"} /\ ~Exhausted(p) /\ (ByRule(p) \/ ByModel(p))
    /\ UNCHANGED <<files, evidence, model, lock, sent, changes>>
Skip(p) ==
    /\ proc[p].pc = "work" /\ ~AtCard(p) /\ PairOf(p) \in proc[p].done
    /\ proc' = [proc EXCEPT ![p] = NextTask(@)]
    /\ UNCHANGED <<files, evidence, model, lock, sent, changes>>

-----------------------------------------------------------------------------
(* A call is counted, in memory and in the ledger, before it is made.      *)
CountsBefore(p) == proc[p].used
Counted(p) == proc[p].used + 1
Ask(p) ==
    /\ proc[p].pc = "ask" /\ ~Exhausted(p)
    /\ proc' = [proc EXCEPT ![p].used = @ + 1, ![p].pc = "send"] /\ ledger' = Counted(p)
    /\ UNCHANGED <<universe, manifest, sample, cache, results, metadata, report,
                   evidence, model, lock, sent, changes>>

(* A call that failed is tried again, unless nothing is left of the budget *)
(* or this was the last attempt.                                           *)
Failed(p) ==
    IF Exhausted(p) \/ proc[p].attempt = MaxAttempts
    THEN IF AtCard(p) THEN CardIs(p, IF Exhausted(p) THEN "not_run" ELSE "failed")
         ELSE VerdictIs(p, IF Exhausted(p) THEN "not_run" ELSE "error")
    ELSE proc' = [proc EXCEPT ![p].attempt = @ + 1, ![p].pc = "work"]

(* An answer is used; that of a card or of vnext is kept for later runs.   *)
Answered(p) ==
    CASE proc[p].stage = "card" -> CardIs(p, "ok")
      [] proc[p].stage = "recheck" -> \E v \in {"diff", "grey"} : VerdictIs(p, v)
      [] proc[p].stage = "differences" -> proc' = [proc EXCEPT ![p].pc = "work"]
      [] OTHER -> \E v \in Terminal : VerdictIs(p, v)
Kept(p) == IF proc[p].stage = "recheck" THEN {} ELSE {Key(p, proc[p].stage)}

(* The wrapper counts calls of create.  The client it wraps sends a request  *)
(* that fails for the moment up to Resends times more, and says nothing.     *)
PerCall == 1 + Resends
Leaves == \E n \in 1..PerCall : sent' = sent + n
Send(p) ==
    /\ proc[p].pc = "send" /\ Leaves
    /\ \/ Answered(p) /\ cache' = cache \cup Kept(p)
       \/ Failed(p) /\ UNCHANGED cache
    /\ UNCHANGED <<universe, manifest, sample, ledger, results, metadata, report,
                   evidence, model, lock, changes>>

(* The endpoint refuses a temperature: the same call asks again without,   *)
(* unless the budget refuses it.                                           *)
SendRefused(p) ==
    /\ proc[p].pc = "send" /\ proc[p].temperature /\ Leaves
    /\ proc' = [proc EXCEPT ![p].temperature = FALSE, ![p].pc = "ask"]
    /\ UNCHANGED <<files, evidence, model, lock, changes>>
NoBudget(p) ==
    /\ proc[p].pc = "ask" /\ Exhausted(p) /\ Failed(p)
    /\ UNCHANGED <<files, evidence, model, lock, sent, changes>>

-----------------------------------------------------------------------------
(* Both judgements of a pair are written at once.                          *)
Write(p) ==
    /\ proc[p].pc = "write"
    /\ results' = [results EXCEPT ![PairOf(p)] =
           [context |-> ContextOf(PairOf(p), proc[p].model, proc[p].frozen),
            status |-> [s \in SystemSet |-> proc[p].verdict[IF s = "baseline" THEN 1 ELSE 2]]]]
    /\ proc' = [proc EXCEPT ![p] = NextTask([proc[p] EXCEPT !.verdict = <<>>])]
    /\ UNCHANGED <<universe, manifest, sample, ledger, cache, metadata, report,
                   evidence, model, lock, sent, changes>>

(* The run ends, or an exception ends it: the metadata say which.          *)
Metadata(p, s) == [status |-> s, model |-> proc[p].model, manifest |-> proc[p].frozen]
Leave(p, s) ==
    /\ metadata' = Metadata(p, s) /\ lock' = None
    /\ proc' = [proc EXCEPT ![p] = Idle]
    /\ UNCHANGED <<universe, manifest, sample, ledger, cache, results, report,
                   evidence, model, sent, changes>>
Finish(p) ==
    proc[p].pc = "finish"
    /\ Leave(p, IF \A q \in Pairs : Judged(q) THEN "completed" ELSE "partial")
Interrupted(p) == proc[p].pc \in {"work", "write"} /\ Leave(p, "interrupted")

(* The process dies: the lock goes with it, the files stay.                *)
Crash(p) ==
    /\ proc[p].pc # "idle" /\ proc' = [proc EXCEPT ![p] = Idle]
    /\ lock' = IF lock = p THEN None ELSE lock
    /\ UNCHANGED <<files, evidence, model, sent, changes>>

(* The report counts the records of the run that the metadata describe.    *)
Included(pair) == /\ results[pair] # NoFile
                  /\ results[pair].context = ContextOf(pair, metadata.model, manifest)
Complete(pair) == Included(pair) /\ Judged(pair)
Report ==
    /\ manifest # NoFile /\ sample = manifest
    /\ metadata # NoFile /\ metadata.manifest = manifest
    /\ report' = IF metadata.status = "completed" /\ \A q \in Pairs : Complete(q)
                 THEN "complete" ELSE "partial"
    /\ UNCHANGED <<universe, manifest, sample, ledger, cache, results, metadata,
                   evidence, model, lock, proc, sent, changes>>

Step(p) == StartRun(p) \/ Card(p) \/ Judge(p) \/ Skip(p) \/ Ask(p) \/ Send(p)
           \/ SendRefused(p) \/ NoBudget(p) \/ Write(p) \/ Finish(p)
Next ==
    \/ Prepare \/ Confirm \/ Freeze \/ Sample \/ Meanwhile \/ Report
    \/ \E p \in Procs : Step(p) \/ Interrupted(p) \/ Crash(p)
Spec == Init /\ [][Next]_vars

-----------------------------------------------------------------------------
Golds == {"g1", "g2"}
Manifest == [gold : Golds, evidence : [Variants -> Nat]]
Status == Terminal \cup {"not_run", "error"}
Record == [context : [model : Models, gold : Golds, evidence : Nat \X Nat],
           status : [SystemSet -> Status]]
Answer == [stage : {"card", "differences", "adjudicate"}, system : SystemSet,
           who : Seq(Variants), model : Models, evidence : Seq(Nat)]
Process == [pc : {"idle", "work", "ask", "send", "write", "finish"},
            model : Models \cup {None}, frozen : Manifest \cup {NoFile}, used : 0..Limit,
            temperature : BOOLEAN, task : 1..(Len(Tasks) + 1), attempt : 1..MaxAttempts,
            stage : {"rule", "card", "recheck", "differences", "adjudicate"},
            card : Seq({"ok", "no_evidence", "not_run", "failed"}), verdict : Seq(Status),
            done : SUBSET Pairs]

TypeOK ==
    /\ universe \in {None, "pending"} \cup Golds
    /\ manifest \in Manifest \cup {NoFile} /\ sample \in {NoFile, manifest}
    /\ ledger \in 0..Limit /\ cache \in SUBSET Answer
    /\ results \in [Pairs -> Record \cup {NoFile}]
    /\ metadata = NoFile \/ metadata \in [status : {"completed", "partial", "interrupted"},
                                          model : Models, manifest : Manifest]
    /\ report \in {None, "complete", "partial"}
    /\ evidence \in [Variants -> Nat] /\ model \in Models
    /\ lock \in Procs \cup {None} /\ proc \in [Procs -> Process]
    /\ sent \in Nat /\ changes \in 0..MaxChanges

(* The limit holds for the calls of all runs together: through crashes      *)
(* between counting and calling, retries, and processes started at once.    *)
(* Each may send as many requests as the client makes of a call.           *)
CallsWithinLimit == sent <= PerCall * Limit

(* The wrapper says so of the requests themselves                           *)
(* (run_merge_family_experiment.py:918): a hard limit, even if it crashes.   *)
SentWithinLimit == sent <= Limit

(* A run that calls itself completed leaves no record of an earlier model, *)
(* gold or analysis behind, and a complete report is about one run: not    *)
(* about the records that a later run had begun to replace.                *)
JudgedIn(q, m) == Judged(q) /\ results[q].context = ContextOf(q, m.model, m.manifest)
ContextStep ==
    /\ metadata' # metadata /\ metadata'.status = "completed" =>
           \A q \in Pairs : JudgedIn(q, metadata')
    /\ report' = "complete" /\ report # "complete" => \A q \in Pairs : JudgedIn(q, metadata)
OneContext == [][ContextStep]_vars
=============================================================================
