---------------------------- MODULE MC_Background ----------------------------
(***************************************************************************)
(* What must come to an end in the background, in one run: part says whether *)
(* a behaviour is about the consolidation that waits for the queue, or about *)
(* the judge phase and the scans of merges, whose variables have names of    *)
(* their own here.  The part a behaviour is not about rests in its first     *)
(* state.                                                                  *)
(***************************************************************************)
EXTENDS Consolidation, FiniteSets, Sequences

VARIABLES part, live, ruled, old, th, human
scanVars == <<live, ruled, old, th, human>>

(* One analysed creative and a sweep, over four creatives; no one merges or  *)
(* rules by hand.                                                          *)
ScanThreads == {"phase", "sweeper"}
Scan == INSTANCE MergeScan WITH
    Creatives <- 1..4, Phases <- {"phase"}, Sweepers <- {"sweeper"}, MaxHuman <- 0

-----------------------------------------------------------------------------
MCvars == <<part, vars, scanVars>>

MCInit ==
    /\ Init
    /\ \/ part = "scan" /\ backlog = FALSE /\ Scan!Init
       \/ part = "full" /\ live = {} /\ ruled = {} /\ old = {} /\ th = <<>> /\ human = 0

InScan == part = "scan" /\ UNCHANGED <<part, vars>>
InFull == part = "full" /\ UNCHANGED <<part, scanVars>>
MCNext == (InScan /\ Scan!Next) \/ (InFull /\ Next)

(* As in the two modules: no thread stops for ever in the middle.           *)
MCFairness ==
    /\ \A t \in ScanThreads : WF_MCvars(InScan /\ Scan!Step(t))
    /\ \A p \in Processes : \A t \in Daemons : WF_MCvars(InFull /\ Run(p, t))
MCSpec == MCInit /\ [][MCNext]_MCvars /\ MCFairness

-----------------------------------------------------------------------------
(* services/merge_ops.py:128: no merge that waits for its rescan loses the   *)
(* creative it keeps, however deep the scans are.                          *)
SurvivorSurvives == part = "scan" => Scan!SurvivorSurvives
(* services/missed_merge_scan.py: the rescans that merges start inside       *)
(* merges run out of creatives, and threads waiting for each other's rows    *)
(* are parted, so every phase ends.  services/consolidation.py: the lock of  *)
(* a consolidation is free again some day, even if the queue never drains.   *)
EveryPhaseEnds ==
    /\ \A t \in ScanThreads : part = "scan" ~> (part = "scan" /\ th[t].stage = "done")
    /\ \A p \in Processes : (part = "full" /\ lock[p]) ~> (part = "full" /\ ~lock[p])
=============================================================================
