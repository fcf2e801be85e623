--------------------------- MODULE PairLifecycle ---------------------------
(***************************************************************************)
(* What observation promises of one pair of creatives, whatever requests,  *)
(* cycles and failures do underneath: it is watched until a person or the  *)
(* certified policy splits it, only the policy's verdict is ever taken     *)
(* back, and the policy never splits a pair again that was.                *)
(***************************************************************************)
CONSTANT Old        \* may the pair have been split before it was known

VARIABLES phase,    \* unknown, watched or split
          verdict,  \* who split it: none, person or machine
          barred    \* the policy may not split it any more

vars == <<phase, verdict, barred>>

Init == /\ phase = "unknown" /\ barred = FALSE
        /\ verdict \in {"none", "person"} /\ (verdict = "person" => Old)

Watch == /\ phase = "unknown" /\ verdict = "none"
         /\ phase' = "watched"
         /\ UNCHANGED <<verdict, barred>>

PersonSplits == /\ phase # "split"
                /\ phase' = "split" /\ verdict' = "person"
                /\ UNCHANGED barred

(* A cycle that finds a new edge may split its pair before it is recorded  *)
(* as watched.                                                             *)
MachineSplits == /\ phase # "split" /\ verdict = "none" /\ ~barred
                 /\ phase' = "split" /\ verdict' = "machine"
                 /\ UNCHANGED barred

Reopen == /\ phase = "split" /\ verdict = "machine"
          /\ phase' = "watched" /\ verdict' = "none" /\ barred' = TRUE

Next == Watch \/ PersonSplits \/ MachineSplits \/ Reopen

Spec == Init /\ [][Next]_vars
=============================================================================
