---------------------------- MODULE CreativeGraph ----------------------------
(***************************************************************************)
(* The creatives and their variants, and the two copies of them: the       *)
(* Neo4j graph, written best effort after or before the SQL transaction,   *)
(* and the SQL mirror, rebuilt whole after every change.  Analyses attach  *)
(* variants and merge creatives afterwards, people merge, split, delete     *)
(* and edit, the Creative Lab marks uploads as material of competitors,    *)
(* the API reconciles Neo4j when it starts.                                *)
(*                                                                         *)
(* Asset and variant are one (asset_id is unique in creative_variants).    *)
(* Names, vectors and tags are left out, except the one tag that keeps     *)
(* competitors' material apart.  That a pair of creatives is similar, and   *)
(* what the guards, models and measurements say of it, is any choice.      *)
(*                                                                         *)
(* AnyCreative (competitors' creatives are matched as well) and            *)
(* CountsBefore (a cleanup that forgets the mirror) are the bugs the       *)
(* properties are known to catch: nothing below uses them.                 *)
(***************************************************************************)
EXTENDS Naturals, FiniteSets

CONSTANTS Assets,      \* uploaded videos and images
          Lab,         \* those uploaded through POST /lab/references
          Creatives,   \* ids for creatives
          Threads,     \* threads that run the pipeline
          Handlers,    \* open requests of people
          MaxRuns,     \* bound on the analyses
          MaxHuman     \* bound on the requests

VARIABLES asset,       \* analysis_status and whether the row exists
          marked,      \* assets with the sticky tag competitor-reference
          late,        \* history: marked after a thread had taken them
          regrouped,   \* history: merged or split, or unmarked by hand
          family,      \* creative_id of the asset's variant
          rows,        \* rows of creatives
          used,        \* ids ever given to a creative
          neo,         \* Neo4j: nodes and HAS_VARIANT edges
          mirror,      \* graph_nodes and graph_edges
          owed,        \* history: a change whose rebuild never came
          proc,        \* threads and handlers at work
          startup,     \* ids the reconciliation at startup has read
          count        \* analyses and requests so far

data == <<asset, marked, late, regrouped, family, rows, used>>
vars == <<data, neo, mirror, owed, proc, startup, count>>

None == "none"
Procs == Threads \cup Handlers
Idle == [pc |-> "idle", asset |-> None, to |-> None, from |-> None,
         moves |-> {}, mark |-> FALSE, erase |-> FALSE, held |-> {},
         copy |-> [nodes |-> {}, edges |-> {}]]
Judging == [Idle EXCEPT !.pc = "judge"]

Variants == {a \in Assets : family[a] # None}
Of(c) == {a \in Assets : family[a] = c}
Stored == {a \in Assets : asset[a] \notin {"absent", "deleted"}}
Nodes == Creatives \cup Assets
Copies == [nodes : SUBSET Nodes, edges : SUBSET (Creatives \X Assets)]
Blank == [nodes |-> {}, edges |-> {}]
Fresh == IF Creatives = used THEN {} ELSE {CHOOSE c \in Creatives : c \notin used}

Init ==
    /\ asset = [a \in Assets |-> "absent"] /\ marked = {} /\ late = {} /\ regrouped = {}
    /\ family = [a \in Assets |-> None] /\ rows = {} /\ used = {}
    /\ neo = Blank /\ mirror = Blank /\ owed = FALSE
    /\ proc = [p \in Procs |-> Idle]
    /\ startup = [pc |-> "before", ids |-> {}] /\ count = [runs |-> 0, human |-> 0]

Unclaimed(a) == \A p \in Procs : proc[p].asset # a
Become(p, r) == proc' = [proc EXCEPT ![p] = r]
At(p, pc) == proc[p].pc = pc
Goto(p, pc) == Become(p, [proc[p] EXCEPT !.pc = pc])

(* An automatic merge keeps its rows and the mirror's advisory lock until   *)
(* it commits; who needs them waits.                                       *)
Free(cs, as) == \A p \in Procs : At(p, "autocommit") =>
    cs \cap {proc[p].from, proc[p].to} = {} /\ as \cap proc[p].moves = {}
Unlocked == \A p \in Procs : ~At(p, "autocommit")

-----------------------------------------------------------------------------
(* Uploads.                                                                *)

(* ingest_files commits the asset with its queue row.  For the Lab, the     *)
(* request then writes the mark in a transaction of its own.               *)
Upload(a) ==
    /\ asset[a] = "absent"
    /\ asset' = [asset EXCEPT ![a] = "pending"]
    /\ UNCHANGED <<marked, late, regrouped, family, rows, used, neo, mirror, owed, proc,
                   startup, count>>

(* set_asset_tags replaces the tags by the mark.                           *)
MarkReference(a) ==
    /\ a \in Lab /\ asset[a] \notin {"absent", "deleted"} /\ a \notin marked
    /\ marked' = marked \cup {a}
    /\ late' = IF asset[a] = "pending" /\ Unclaimed(a) THEN late ELSE late \cup {a}
    /\ UNCHANGED <<asset, regrouped, family, rows, used, neo, mirror, owed, proc, startup,
                   count>>

-----------------------------------------------------------------------------
(* One analysis.                                                            *)

Start(t, a) ==
    /\ At(t, "idle") /\ a \in Stored /\ count.runs < MaxRuns
    /\ Become(t, [Idle EXCEPT !.pc = "tags", !.asset = a])
    /\ count' = [count EXCEPT !.runs = @ + 1]
    /\ UNCHANGED <<data, neo, mirror, owed, startup>>

(* _set_tags_preserving_sources reads the tags of the asset.               *)
ReadTags(t) ==
    /\ At(t, "tags")
    /\ Become(t, [proc[t] EXCEPT !.mark = proc[t].asset \in marked, !.pc = "retag"])
    /\ UNCHANGED <<data, neo, mirror, owed, startup, count>>

(* It deletes the rows that exist now and inserts the new tags with the    *)
(* sticky ones it read; others see that when the analysis commits.          *)
Erases(t) == proc[t].asset \in marked /\ ~proc[t].mark
WriteTags(t) ==
    /\ At(t, "retag")
    /\ Become(t, [proc[t] EXCEPT !.erase = Erases(t), !.pc = "cluster"])
    /\ UNCHANGED <<data, neo, mirror, owed, startup, count>>

(* _cluster reads the tags again, then the creatives without a variant of  *)
(* a competitor; a marked asset joins nobody.  The judge's gate, the text  *)
(* score and the frames decide: any choice.                                *)
Marked(t) == proc[t].mark \/ (proc[t].asset \in marked /\ ~proc[t].erase)
AnyCreative(t) == IF Marked(t) THEN {} ELSE rows
Open(t) == IF Marked(t) THEN {} ELSE {c \in rows : Of(c) \cap marked = {}}
Cluster(t) ==
    /\ At(t, "cluster")
    /\ \E c \in Open(t) \cup {None} :
         Become(t, [proc[t] EXCEPT !.to = c, !.pc = "attach",
                                   !.from = family[proc[t].asset]])
    /\ UNCHANGED <<data, neo, mirror, owed, startup, count>>

(* The variant is written and everything commits with completed.  A        *)
(* creative or asset that is gone, or a variant another analysis of the    *)
(* same asset has added or lost since, fails this one.                     *)
Attach(t) ==
    /\ At(t, "attach")
    /\ LET a == proc[t].asset IN
       /\ a \in Stored
       /\ proc[t].from # None <=> a \in Variants
       /\ Free({proc[t].to}, {a})
       /\ \E c \in (IF proc[t].to = None THEN Fresh ELSE {proc[t].to} \cap rows) :
            /\ rows' = rows \cup {c} /\ used' = used \cup {c}
            /\ family' = [family EXCEPT ![a] = c]
            /\ asset' = [asset EXCEPT ![a] = "completed"]
            /\ marked' = (IF proc[t].erase THEN marked \ {a} ELSE marked)
                           \cup (IF proc[t].mark THEN {a} ELSE {})
            /\ Become(t, [proc[t] EXCEPT !.to = c, !.held = {<<c, a>>},
                 !.pc = IF proc[t].from \in {None, c} THEN "sync" ELSE "count"])
    /\ UNCHANGED <<late, regrouped, neo, mirror, owed, startup, count>>

(* Before the commit any step may fail; the transaction is rolled back.    *)
Fails(p) ==
    /\ proc[p].pc \in {"tags", "retag", "cluster", "attach", "merge", "split", "delete"}
    /\ Become(p, Idle)
    /\ UNCHANGED <<data, neo, mirror, owed, startup, count>>

(* So may any after it, or the process may die: what has committed stays.   *)
(* An exception also makes the asset of an analysis failed.                 *)
Stops(p) ==
    /\ proc[p].pc \in {"count", "cleanup", "unlist", "sync", "rebuild", "neomerge",
                       "remirror", "neosplit"}
    /\ asset' \in {asset} \cup
         {[asset EXCEPT ![a] = "failed"] :
            a \in IF p \in Threads THEN {proc[p].asset} \cap Stored ELSE {}}
    /\ owed' = TRUE
    /\ Become(p, Idle)
    /\ UNCHANGED <<marked, late, regrouped, family, rows, used, neo, mirror, startup, count>>

-----------------------------------------------------------------------------
(* After the commit: the creative left behind, Neo4j, the mirror.          *)

(* cleanup_creative_if_empty counts the variants, then deletes; whatever    *)
(* was attached in between goes by ON DELETE CASCADE.                      *)
Cascade(c) == [a \in Assets |-> IF family[a] = c THEN None ELSE family[a]]
Empty(c) == c \in rows /\ Of(c) = {}
CountsBefore(p) == IF p \in Threads THEN "sync" ELSE "idle"
AfterCount(p) == IF p \in Threads THEN "sync" ELSE "rebuild"
CountVariants(p) ==
    /\ At(p, "count")
    /\ Goto(p, IF Empty(proc[p].from) THEN "cleanup" ELSE AfterCount(p))
    /\ UNCHANGED <<data, neo, mirror, owed, startup, count>>

Cleanup(p) ==
    /\ At(p, "cleanup") /\ Free({proc[p].from}, Of(proc[p].from))
    /\ LET c == proc[p].from IN
       /\ rows' = rows \ {c}
       /\ family' = Cascade(c)
    /\ Goto(p, "unlist")
    /\ UNCHANGED <<asset, marked, late, regrouped, used, neo, mirror, owed, startup, count>>

(* Neo4j calls swallow their exceptions: each happens or does not.         *)
Without(n) == [nodes |-> neo.nodes \ n,
               edges |-> {e \in neo.edges : e[1] \notin n /\ e[2] \notin n}]
Unlist(p) ==
    /\ At(p, "unlist")
    /\ neo' \in {neo, Without({proc[p].from})}
    /\ Goto(p, AfterCount(p))
    /\ UNCHANGED <<data, mirror, owed, startup, count>>

(* sync_asset_subgraph upserts both nodes and adds the edge.               *)
SyncAsset(t) ==
    /\ At(t, "sync")
    /\ LET c == proc[t].to  a == proc[t].asset IN
       neo' \in {neo, [nodes |-> neo.nodes \cup {c, a}, edges |-> neo.edges \cup {<<c, a>>}]}
    /\ Goto(t, "rebuild")
    /\ UNCHANGED <<data, mirror, owed, startup, count>>

(* rebuild_mirror, serialized by the advisory lock, reads all rows; an      *)
(* object the session still holds keeps the creative_id it had.  An         *)
(* analysis then judges, a merge rescans.                                  *)
Seen(p) == [a \in Variants |->
    IF \E c \in Creatives : <<c, a>> \in proc[p].held
    THEN CHOOSE c \in Creatives : <<c, a>> \in proc[p].held ELSE family[a]]
Rebuild(p) ==
    /\ proc[p].pc \in {"rebuild", "remirror"} /\ Unlocked
    /\ mirror' = [nodes |-> rows \cup Variants,
                  edges |-> {<<Seen(p)[a], a>> : a \in Variants}]
    /\ owed' = FALSE
    /\ Become(p, IF p \in Threads \/ At(p, "remirror") THEN Judging ELSE Idle)
    /\ UNCHANGED <<data, neo, startup, count>>

-----------------------------------------------------------------------------
(* Automatic merges: run_merge_judgements and scan_missed_merges after an   *)
(* analysis, the rescan of what a merge leaves, the full scan of a          *)
(* consolidation.  The pair was chosen before the models answered; then     *)
(* merge_creatives lists the variants of the source.  Guards, rescans       *)
(* inside a merge and row locks that wait are MergeScan's.                 *)
AutoMerge(p) ==
    /\ At(p, "judge")
    /\ \E c \in rows : \E d \in rows \ {c} :
         Become(p, [Idle EXCEPT !.pc = "automerge", !.from = c, !.to = d, !.moves = Of(c)])
    /\ UNCHANGED <<data, neo, mirror, owed, startup, count>>

Left(p) == rows \ {proc[p].from}
Merged(p) == [a \in Assets |-> IF a \in proc[p].moves THEN proc[p].to
                               ELSE Cascade(proc[p].from)[a]]
Together(p) == proc[p].moves \cup Of(proc[p].from) \cup Of(proc[p].to)
NeoMerged(p) ==
    LET c == proc[p].from  d == proc[p].to
        moved == IF d \in neo.nodes THEN {<<d, e[2]>> : e \in {x \in neo.edges : x[1] = c}}
                 ELSE {}
    IN [nodes |-> neo.nodes \ {c}, edges |-> {e \in neo.edges : e[1] # c} \cup moved]

(* merge_creatives(commit=False) moves the variants, deletes the source,    *)
(* merges in Neo4j and rebuilds the mirror, all before the commit.          *)
AutoMirror(p) ==
    /\ At(p, "automerge") /\ Unlocked
    /\ proc[p].to \in rows /\ proc[p].moves \subseteq Variants
    /\ neo' \in {neo, NeoMerged(p)}
    /\ LET after == {a \in Assets : Merged(p)[a] # None} IN
       Become(p, [proc[p] EXCEPT !.pc = "autocommit",
           !.copy = [nodes |-> Left(p) \cup after,
                     edges |-> {<<Merged(p)[a], a>> : a \in after}]])
    /\ UNCHANGED <<data, mirror, owed, startup, count>>

(* The caller commits, perhaps after rescans that ask models for minutes.   *)
AutoCommit(p) ==
    /\ At(p, "autocommit")
    /\ rows' = Left(p) /\ family' = Merged(p)
    /\ regrouped' = regrouped \cup Together(p)
    /\ mirror' = proc[p].copy
    /\ Become(p, Judging)
    /\ UNCHANGED <<asset, marked, late, used, neo, owed, startup, count>>

(* A pair that fails is rolled back and skipped; then, or whenever the      *)
(* judging is over or dies, the thread is free again.                      *)
AutoEnds(p) ==
    /\ proc[p].pc \in {"judge", "automerge", "autocommit"}
    /\ Become(p, IF At(p, "judge") THEN Idle ELSE Judging)
    /\ UNCHANGED <<data, neo, mirror, owed, startup, count>>

-----------------------------------------------------------------------------
(* What people do.                                                         *)

Request(h) == At(h, "idle") /\ count.human < MaxHuman
              /\ count' = [count EXCEPT !.human = @ + 1]

(* POST /graph/merge lists the variants of the source.                     *)
Merge(h) ==
    /\ Request(h)
    /\ \E c \in rows : \E d \in rows \ {c} :
         Become(h, [Idle EXCEPT !.pc = "merge", !.from = c, !.to = d, !.moves = Of(c)])
    /\ UNCHANGED <<data, neo, mirror, owed, startup>>

(* It moves them, wherever they are by now, and deletes the source.  Only  *)
(* the last variant of its loop stays in the session.                      *)
MergeCommit(h) ==
    /\ At(h, "merge") /\ proc[h].to \in rows /\ proc[h].moves \subseteq Variants
    /\ Free({proc[h].from, proc[h].to}, Together(h))
    /\ rows' = Left(h) /\ family' = Merged(h)
    /\ regrouped' = regrouped \cup Together(h)
    /\ \E last \in SUBSET proc[h].moves :
         /\ Cardinality(last) = IF proc[h].moves = {} THEN 0 ELSE 1
         /\ Become(h, [proc[h] EXCEPT !.pc = "neomerge", !.held = {proc[h].to} \X last])
    /\ UNCHANGED <<asset, marked, late, used, neo, mirror, owed, startup, count>>

(* In Neo4j the edges of the source move, if the target's node exists.     *)
NeoMerge(h) ==
    /\ At(h, "neomerge")
    /\ neo' \in {neo, NeoMerged(h)}
    /\ Goto(h, "remirror")
    /\ UNCHANGED <<data, mirror, owed, startup, count>>

(* POST /graph/split takes variants of one creative out into a new one.    *)
Split(h) ==
    /\ Request(h)
    /\ \E c \in rows : \E s \in (SUBSET Of(c)) \ {{}} :
         Become(h, [Idle EXCEPT !.pc = "split", !.from = c, !.moves = s])
    /\ UNCHANGED <<data, neo, mirror, owed, startup>>

SplitCommit(h) ==
    /\ At(h, "split") /\ proc[h].moves \subseteq Variants /\ Free({}, proc[h].moves)
    /\ \E c \in Fresh :
         /\ rows' = rows \cup {c} /\ used' = used \cup {c}
         /\ family' = [a \in Assets |-> IF a \in proc[h].moves THEN c ELSE family[a]]
         /\ Become(h, [proc[h] EXCEPT !.pc = "neosplit", !.to = c,
                                      !.held = {c} \X proc[h].moves])
    /\ regrouped' = regrouped \cup proc[h].moves
    /\ UNCHANGED <<asset, marked, late, neo, mirror, owed, startup, count>>

AfterSplit == "count"
NeoSplit(h) ==
    /\ At(h, "neosplit")
    /\ LET c == proc[h].to  s == proc[h].moves IN
       neo' \in {neo, [nodes |-> neo.nodes \cup {c},
                       edges |-> {e \in neo.edges : e[2] \notin s}
                                   \cup {<<c, a>> : a \in s \cap neo.nodes}]}
    /\ Goto(h, AfterSplit)
    /\ UNCHANGED <<data, mirror, owed, startup, count>>

(* DELETE /assets/{id}: Neo4j first, with a creative that has no other      *)
(* variant there, then the rows, then the creative read with them.         *)
Delete(h) ==
    /\ Request(h)
    /\ \E a \in Stored :
         LET left == {e[1] : e \in {x \in neo.edges : x[2] = a}}
             alone == {c \in left : \A e \in neo.edges : e[1] = c => e[2] = a}
         IN /\ neo' \in {neo, Without({a} \cup alone)}
            /\ Become(h, [Idle EXCEPT !.pc = "delete", !.asset = a, !.from = family[a]])
    /\ UNCHANGED <<data, mirror, owed, startup>>

DeleteCommit(h) ==
    /\ At(h, "delete") /\ Free({}, {proc[h].asset})
    /\ LET a == proc[h].asset  c == proc[h].from IN
       /\ asset' = [asset EXCEPT ![a] = "deleted"]
       /\ marked' = marked \ {a}
       /\ family' = [family EXCEPT ![a] = None]
       /\ Become(h, [proc[h] EXCEPT !.pc = IF c = None THEN "rebuild" ELSE "count"])
    /\ UNCHANGED <<late, regrouped, rows, used, neo, mirror, owed, startup, count>>

(* PUT /assets/{id} replaces the tags, the sticky one included, and upserts *)
(* the creative's and the asset's node.                                    *)
Edit(h) ==
    /\ Request(h)
    /\ \E a \in Stored :
         /\ marked' \in {marked \ {a}, marked}
         /\ regrouped' = regrouped \cup (marked \ marked')
         /\ neo' \in {neo, [neo EXCEPT !.nodes = @ \cup ({family[a]} \ {None}) \cup {a}]}
         /\ Become(h, [Idle EXCEPT !.pc = "rebuild",
                        !.held = IF family[a] = None THEN {} ELSE {<<family[a], a>>}])
    /\ UNCHANGED <<asset, late, family, rows, used, mirror, owed, startup>>

-----------------------------------------------------------------------------
(* reconcile_graph when the API starts: it reads the ids of the rows, then *)
(* prunes the nodes that are not among them.                               *)
ReconcileRead ==
    /\ startup.pc = "before"
    /\ startup' = [pc |-> "read", ids |-> rows \cup Variants]
    /\ UNCHANGED <<data, neo, mirror, owed, proc, count>>

Pruned == [nodes |-> neo.nodes \cap startup.ids,
           edges |-> {e \in neo.edges : {e[1], e[2]} \subseteq startup.ids}]
ReconcilePrune ==
    /\ startup.pc = "read"
    /\ neo' = Pruned
    /\ startup' = [pc |-> "done", ids |-> {}]
    /\ UNCHANGED <<data, mirror, owed, proc, count>>

-----------------------------------------------------------------------------
Analysis(t) ==
    \/ \E a \in Assets : Start(t, a)
    \/ ReadTags(t) \/ WriteTags(t) \/ Cluster(t) \/ Attach(t) \/ SyncAsset(t)
Handling(h) ==
    \/ Merge(h) \/ MergeCommit(h) \/ NeoMerge(h) \/ Split(h) \/ SplitCommit(h)
    \/ NeoSplit(h) \/ Delete(h) \/ DeleteCommit(h) \/ Edit(h)
Either(p) ==
    \/ Fails(p) \/ Stops(p) \/ CountVariants(p) \/ Cleanup(p) \/ Unlist(p) \/ Rebuild(p)
    \/ AutoMerge(p) \/ AutoMirror(p) \/ AutoCommit(p) \/ AutoEnds(p)

Next ==
    \/ \E a \in Assets : Upload(a) \/ MarkReference(a)
    \/ \E t \in Threads : Analysis(t)
    \/ \E h \in Handlers : Handling(h)
    \/ \E p \in Procs : Either(p)
    \/ ReconcileRead \/ ReconcilePrune

Spec == Init /\ [][Next]_vars

-----------------------------------------------------------------------------
Process ==
    [pc : {"idle", "tags", "retag", "cluster", "attach", "count", "cleanup", "unlist", "sync",
           "rebuild", "judge", "automerge", "autocommit", "merge", "neomerge", "remirror",
           "split", "neosplit", "delete"},
     asset : Assets \cup {None}, to : Creatives \cup {None}, from : Creatives \cup {None},
     moves : SUBSET Assets, mark : BOOLEAN, erase : BOOLEAN,
     held : SUBSET (Creatives \X Assets), copy : Copies]

TypeOK ==
    /\ asset \in [Assets -> {"absent", "pending", "completed", "failed", "deleted"}]
    /\ late \subseteq Lab /\ marked \subseteq Lab /\ regrouped \subseteq Assets
    /\ family \in [Assets -> rows \cup {None}] /\ rows \subseteq used /\ used \subseteq Creatives
    /\ neo \in Copies /\ mirror \in Copies /\ owed \in BOOLEAN
    /\ proc \in [Procs -> Process]
    /\ startup \in [pc : {"before", "read", "done"}, ids : SUBSET Nodes]
    /\ count \in [runs : 0..MaxRuns, human : 0..MaxHuman]

Resting == \A p \in Procs : At(p, "idle")

(* When nobody is at work the mirror has a node for every creative and     *)
(* every variant and no other, whichever order analyses, requests and       *)
(* automatic merges end in, until a thread stops between its change and the *)
(* rebuild, and again from the next rebuild on.                            *)
MirrorNodesAtRest ==
    Resting /\ ~owed /\ count.runs > 0 => mirror.nodes = rows \cup Variants

(* A competitor's video that was marked before a worker took it has a       *)
(* creative of its own, however analyses, retries of the same asset,        *)
(* requests and merges of others interleave, until somebody merges or       *)
(* splits this very creative or removes the mark.                          *)
MarkedApart(a) == \A b \in Assets \ {a} : family[a] = family[b] => family[a] = None
EarlyMarksKeepApart == \A a \in marked \ (late \cup regrouped) : MarkedApart(a)

(* services/pipeline.py:255: competitors' and own material do not mix in     *)
(* any creative, while people leave them alone.  Not kept: no automatic     *)
(* merge asks for the mark.                                                *)
CompetitorsApart ==
    count.human = 0 => \A a \in marked \ late, b \in Assets \ Lab :
        family[a] = family[b] => family[a] = None

(* services/pipeline.py:256: the mark is written before the worker's         *)
(* analysis.  Not kept: the queue row is committed before the mark.         *)
MarkedInTime == count.human = 0 => late = {}

(* models/creative.py: an analysed asset is wrapped by one variant.  Not    *)
(* kept: a cleanup that counted before the variant was attached cascades.   *)
VariantKept ==
    Resting => \A a \in Assets : asset[a] = "completed" => a \in Variants
=============================================================================
