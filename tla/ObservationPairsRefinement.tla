--------------------- MODULE ObservationPairsRefinement ---------------------
(***************************************************************************)
(* Rows and rulings implement PairLifecycle, one instance per pair: the     *)
(* row's status is the pair's phase, the source of its ruling the verdict.  *)
(***************************************************************************)
EXTENDS ObservationPairs

PhaseOf(p) ==
    CASE row[p].status = "none" -> "unknown"
      [] row[p].status \in Open -> "watched"
      [] OTHER -> "split"

VerdictOf(p) ==
    CASE ruling[p].source = "none" -> "none"
      [] ruling[p].source = "inbox_close" -> "person"
      [] OTHER -> "machine"

Lifecycle(p) == INSTANCE PairLifecycle
    WITH Old <- p \in Ruled,
         phase <- PhaseOf(p), verdict <- VerdictOf(p), barred <- row[p].barred

(* As long as nobody else moves a pair between two steps of an operation    *)
(* on it, no registration ignores its ruling and no fault leaves its edge   *)
(* behind, the pair goes through exactly the lifecycle PairLifecycle        *)
(* promises: failed calls, rollbacks and crashes of requests and cycles,    *)
(* and what happens to other pairs, included.                              *)
ImplementsPairs ==
    /\ \A p \in Pairs : Lifecycle(p)!Init
    /\ [][\A p \in Pairs :
             marks'[p] = {} => [Lifecycle(p)!Next]_(Lifecycle(p)!vars)]_vars
=============================================================================
