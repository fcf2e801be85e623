--------------------------- MODULE CreativeRefresh ---------------------------
(***************************************************************************)
(* What follows from imported performance data                             *)
(* (services/daily_brief.refresh_creative_states): every creative is judged *)
(* (Recommendation) and scored; low scores go on watch, people archive and  *)
(* restore (services/lifecycle.py), and a verdict that changed is kept as a *)
(* snapshot (services/verdict_snapshots.py).  Requests refresh concurrently. *)
(*                                                                         *)
(* IdleToday (days without spend are counted to today) is a bug the        *)
(* property is known to catch: nothing below uses it.                      *)
(***************************************************************************)
EXTENDS Integers, Sequences, FiniteSets, FiniteSetsExt, SequencesExt

CONSTANTS Creatives, Handlers,
          Offered,              \* rows an import may bring
          Contexts,             \* what else metrics and verdicts take in
          Lines, MinSpend, MinPayers, Significant, IdleDays,   \* see Recommendation
          Evolution(_), Confidence(_),   \* these two parts of a score
          Decay,                \* FRESHNESS_DECAY_DAYS
          ArchiveScore, ArchiveIdle, WatchScore,
          MaxRows, MaxDay, MaxRefreshes, MaxActs  \* bounds

VARIABLES rows,         \* performance rows: creative, day, spend, payers, objective
          today,
          lifecycle,    \* lifecycle_state of each creative
          snapshots,    \* verdict_snapshots of each creative: when, and what
          refresh,      \* each request: how far, what it read
          clock,        \* refreshes that came to write
          acts,         \* what people did
          last,         \* history: what the last refresh, were it undisturbed, had read
          context       \* observation partners, thresholds, derivations, variants
vars == <<rows, today, lifecycle, snapshots, refresh, clock, acts, last, context>>

None == -1
Idle == [pc |-> "idle", asOf |-> 0, in |-> None, seen |-> <<>>, live |-> {}, update |-> {}, known |-> <<>>,
         at |-> 0, alone |-> FALSE]

Init ==
    /\ rows = <<>> /\ today = 1
    /\ lifecycle = [c \in Creatives |-> "active"] /\ snapshots = [c \in Creatives |-> {}]
    /\ refresh = [h \in Handlers |-> Idle] /\ clock = 0 /\ acts = 0 /\ last = {}
    /\ context \in Contexts

R == INSTANCE Recommendation
         WITH Judged <- {}, pair <- <<>>, verdicts <- <<>>, MinInstalls <- 1,
              Market <- [reliable |-> FALSE, cpi |-> None, cpp |-> None, ctr |-> None]

-----------------------------------------------------------------------------
(* build_report: of a creative's rows those of the objective with most      *)
(* spend count, of two with as much the one that came first.               *)
Spend(rs) == FoldLeft(LAMBDA total, r : total + r.spend, 0, rs)
Payers(rs) == FoldLeft(LAMBDA total, r : total + r.payers, 0, rs)
RowsOf(c, rs) == SelectSeq(rs, LAMBDA r : r.creative = c)
Bucket(o, rs) == SelectSeq(rs, LAMBDA r : r.objective = o)
MainRows(c, rs) ==
    LET own == RowsOf(c, rs)
        most == {i \in DOMAIN own : \A j \in DOMAIN own :
                    Spend(Bucket(own[j].objective, own)) <= Spend(Bucket(own[i].objective, own))}
    IN IF own = <<>> THEN <<>> ELSE Bucket(own[Min(most)].objective, own)

(* aggregate: days without spend are counted to the last day of any row.    *)
Days(rs) == {rs[i].day : i \in DOMAIN rs}
IdleToday(main, rs) == IF main = <<>> THEN None ELSE today - Max(Days(main))
DaysIdle(main, rs) == IF main = <<>> THEN None ELSE Max(Days(rs)) - Max(Days(main))
Metrics(c, rs) ==
    LET main == MainRows(c, rs)
    IN [spend |-> Spend(main), payers |-> Payers(main),
        objective |-> IF main = <<>> THEN "" ELSE main[1].objective,
        idle |-> DaysIdle(main, rs), mixed |-> Spend(RowsOf(c, rs)) - Spend(main),
        impressions |-> Lines.impressions, installs |-> 0, exhausted |-> 0, roas |-> None,
        d3 |-> None, retention |-> None, ctr |-> None, recent |-> 0, before |-> 0, markets |-> 0]
(* _content_hash: of the verdict, the metrics and the thresholds.           *)
Content(c, rs, around) ==
    [verdict |-> R!Verdict(Metrics(c, rs)), metrics |-> Metrics(c, rs), context |-> around]

(* score_creative, in whole points; without payers or data it is neutral.   *)
Neutral == 50
Performance(m) ==
    IF m.payers = 0 THEN Neutral
    ELSE IF m.spend <= Lines.efficient * m.payers THEN 100
    ELSE IF m.spend >= Lines.pause * m.payers THEN 0
    ELSE (100 * (Lines.pause * m.payers - m.spend)) \div ((Lines.pause - Lines.efficient) * m.payers)
Freshness(m) == IF m.idle = None THEN Neutral ELSE Max({0, (100 * (Decay - m.idle)) \div Decay})
Score(c, m) == (40 * Performance(m) + 25 * Freshness(m) + 20 * Evolution(c) + 15 * Confidence(c))
               \div 100

AutoState(c, m) ==
    IF Score(c, m) < ArchiveScore /\ m.idle # None /\ m.idle > ArchiveIdle THEN "archived"
    ELSE IF Score(c, m) < WatchScore THEN "watch" ELSE "active"
Target(c, m) == IF AutoState(c, m) = "active" THEN "active" ELSE "watch"
Suggested == {c \in Creatives : /\ lifecycle[c] # "archived"
                                /\ AutoState(c, Metrics(c, rows)) = "archived"}

-----------------------------------------------------------------------------
Import(r) ==
    /\ Len(rows) < MaxRows /\ r.day <= today /\ rows' = Append(rows, r)
    /\ UNCHANGED <<today, lifecycle, snapshots, refresh, clock, acts, last, context>>
NextDay == /\ today < MaxDay /\ today' = today + 1
           /\ UNCHANGED <<rows, lifecycle, snapshots, refresh, clock, acts, last, context>>

(* A link is ruled, a threshold is set, a pair is observed, or Neo4j cannot  *)
(* be read for the pairs, and can be again.                                *)
Elsewhere == /\ acts < MaxActs /\ acts' = acts + 1
             /\ context' \in Contexts \ {context}
             /\ UNCHANGED <<rows, today, lifecycle, snapshots, refresh, clock, last>>

Locked(c) == \E h \in Handlers : c \in refresh[h].update
Set(c, state) ==
    /\ acts < MaxActs /\ acts' = acts + 1 /\ ~Locked(c) /\ lifecycle[c] # state
    /\ lifecycle' = [lifecycle EXCEPT ![c] = state]
    /\ UNCHANGED <<rows, today, snapshots, refresh, clock, last, context>>
Archive(c) == c \in Suggested /\ Set(c, "archived")
KeepWatching(c) == c \in Suggested /\ Set(c, "watch")
Restore(c) == lifecycle[c] = "archived" /\ Set(c, "active")

(* The request loads all creatives, rows and the rest...                    *)
Busy(h) == refresh[h].pc # "idle"
Read(h) ==
    /\ ~Busy(h) /\ clock + Cardinality({k \in Handlers : Busy(k)}) < MaxRefreshes
    /\ refresh' = [k \in Handlers |->
           IF k = h THEN [Idle EXCEPT !.pc = "read", !.asOf = Len(rows), !.in = context,
                                      !.seen = lifecycle, !.alone = \A g \in Handlers : ~Busy(g)]
           ELSE [refresh[k] EXCEPT !.alone = FALSE]]
    /\ UNCHANGED <<rows, today, lifecycle, snapshots, clock, acts, last, context>>

(* ... and, when all is computed, those that are not archived by then.      *)
Select(h) ==
    /\ refresh[h].pc = "read"
    /\ refresh' = [refresh EXCEPT ![h].pc = "selected",
                                  ![h].live = {c \in Creatives : lifecycle[c] # "archived"}]
    /\ UNCHANGED <<rows, today, lifecycle, snapshots, clock, acts, last, context>>

(* States are written where they differ from what was loaded; the rows stay *)
(* locked to the commit.                                                   *)
AsRead(h) == SubSeq(rows, 1, refresh[h].asOf)
Newest(c) == IF snapshots[c] = {} THEN {}
             ELSE {s \in snapshots[c] : \A t \in snapshots[c] : t.at <= s.at}
Flush(h) ==
    /\ refresh[h].pc = "selected"
    /\ LET changed == {c \in refresh[h].live :
                          Target(c, Metrics(c, AsRead(h))) # refresh[h].seen[c]}
       IN /\ \A c \in changed : ~Locked(c)
          /\ refresh' = [refresh EXCEPT ![h].pc = "flushed", ![h].update = changed,
                                        ![h].known = [c \in Creatives |-> Newest(c)],
                                        ![h].at = clock + 1]
    /\ clock' = clock + 1
    /\ UNCHANGED <<rows, today, lifecycle, snapshots, acts, last, context>>

Found(h) == [asOf |-> refresh[h].asOf, in |-> refresh[h].in]
Commit(h) ==
    /\ refresh[h].pc = "flushed"
    /\ lifecycle' = [c \in Creatives |->
           IF c \in refresh[h].update THEN Target(c, Metrics(c, AsRead(h))) ELSE lifecycle[c]]
    /\ snapshots' = [c \in Creatives |->
           LET content == Content(c, AsRead(h), refresh[h].in)
           IN IF \E s \in refresh[h].known[c] : s.content = content THEN snapshots[c]
              ELSE snapshots[c] \cup {[at |-> refresh[h].at, content |-> content]}]
    /\ refresh' = [refresh EXCEPT ![h] = Idle]
    /\ last' = IF refresh[h].alone THEN {Found(h)} ELSE {}
    /\ UNCHANGED <<rows, today, clock, acts, context>>

Next ==
    \/ NextDay \/ Elsewhere \/ \E r \in Offered : Import(r)
    \/ \E c \in Creatives : Archive(c) \/ KeepWatching(c) \/ Restore(c)
    \/ \E h \in Handlers : Read(h) \/ Select(h) \/ Flush(h) \/ Commit(h)
Spec == Init /\ [][Next]_vars

-----------------------------------------------------------------------------
(* A refresh that finds the rows the last one found, and the rest its        *)
(* verdicts take in as it was then, writes no snapshot, however many days    *)
(* have passed and whatever changed and changed back meanwhile, unless two  *)
(* refreshes overlap.  And what people had archived before a refresh         *)
(* selected its creatives it leaves archived, and it archives nothing.      *)
Quiet(h) == refresh[h].alone /\ last = {Found(h)}
RefreshStep ==
    \A h \in Handlers : Commit(h) =>
        /\ Quiet(h) => snapshots' = snapshots
        /\ \A c \in Creatives : lifecycle'[c] # lifecycle[c] =>
               /\ lifecycle'[c] # "archived" /\ c \in refresh[h].live
QuietRefreshIsSilent == [][RefreshStep]_vars

(* services/lifecycle.py:12: what a human has archived is not restored       *)
(* automatically. An archive between a refresh's select and its write is.   *)
StaysStep ==
    \A c \in Creatives : (acts' = acts /\ lifecycle[c] = "archived")
        => lifecycle'[c] = "archived"
ArchivedStays == [][StaysStep]_vars
=============================================================================
