----------------------------- MODULE MC_Curation -----------------------------
(***************************************************************************)
(* Two components that change creatives: part says which of them, among     *)
(* Parts, a behaviour is about.  What a behaviour is not about rests.       *)
(***************************************************************************)
EXTENDS MergeScan, TLC

CONSTANTS Parts, Assets, Lab, GraphCreatives, PoolThreads, Handlers, MaxRuns

VARIABLES part, asset, marked, late, regrouped, family, rows, used, neo, mirror, owed,
          proc, startup, count

Graph == INSTANCE CreativeGraph WITH Creatives <- GraphCreatives, Threads <- PoolThreads

(* The Lab's uploads are uploads, a request is no thread of the worker, and  *)
(* no creative has the name of nothing.                                    *)
ASSUME CurationAssumption ==
    /\ Lab \subseteq Assets /\ PoolThreads \cap Handlers = {}
    /\ Graph!None \notin GraphCreatives
    /\ MaxRuns \in Nat

graph == <<asset, marked, late, regrouped, family, rows, used, neo, mirror, owed, proc,
           startup, count>>
MCvars == <<part, graph, vars>>

MCInit == part \in Parts /\ Init /\ Graph!Init

MCNext ==
    /\ UNCHANGED part
    /\ \/ part = "graph" /\ Graph!Next /\ UNCHANGED vars
       \/ part = "scan" /\ Next /\ UNCHANGED graph

MCSpec == MCInit /\ [][MCNext]_MCvars

(* Nothing reads Neo4j back into the rows, the mirror or what is at work, so *)
(* states that differ there only are one; pool threads are interchangeable. *)
BesidesNeo == <<part, asset, marked, late, regrouped, family, rows, used, mirror, owed,
                proc, startup.pc, count, vars>>
Interchangeable == Permutations(PoolThreads)

(* repositories/graph_mirror.py: at rest, the mirror has exactly the nodes  *)
(* of the rows.                                                            *)
MirrorNodesAtRest == Graph!MirrorNodesAtRest
(* services/pipeline.py: a reference marked in time keeps a creative of its  *)
(* own unless that very creative is merged, split or unmarked.             *)
EarlyMarksKeepApart == Graph!EarlyMarksKeepApart
(* services/pipeline.py:255, 256: what its comments claim; neither is kept. *)
CompetitorsApart == Graph!CompetitorsApart
MarkedInTime == Graph!MarkedInTime
=============================================================================
