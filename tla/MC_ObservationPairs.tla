------------------------ MODULE MC_ObservationPairs ------------------------
(* Instances of ObservationPairs for TLC. *)
EXTENDS ObservationPairsRefinement, TLC

(* Requests, and pairs with the same history, are interchangeable. *)
HandlerSymmetry == Permutations(Handlers)
=============================================================================
