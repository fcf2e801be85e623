------------------------- MODULE MC_AnalysisQueue -------------------------
(* Small instances of the analysis queue for TLC: the budgets of the runs. *)
EXTENDS AnalysisQueueRefinement, TLC

CONSTANTS a1, a2, w1, w2, t1, t2, r1, r2

(* Two workers with one thread each contend for one asset's row, with two  *)
(* retry handlers open: every interference the code admits can happen.     *)
StormBudget ==
    [crash |-> 1, lapse |-> 1, loss |-> 0, sync |-> 0, retry |-> 2]

(* Progress under one fault of each kind. *)
LiveBudget ==
    [crash |-> 1, lapse |-> 1, loss |-> 1, sync |-> 0, retry |-> 1]

(* Everything but lapsing leases and a second retry handler: the promise   *)
(* of JobLifecycle holds.                                                  *)
OrderlyBudget ==
    [crash |-> 2, lapse |-> 0, loss |-> 1, sync |-> 2, retry |-> 2]

(* Nothing goes wrong at all, but the user asks for the retry twice. *)
TwoRetriesBudget ==
    [crash |-> 0, lapse |-> 0, loss |-> 0, sync |-> 0, retry |-> 2]

Symmetry == Permutations({w1, w2}) \cup Permutations({r1, r2})
=============================================================================
