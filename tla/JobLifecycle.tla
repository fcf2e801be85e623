--------------------------- MODULE JobLifecycle ---------------------------
(***************************************************************************)
(* What the analysis queue promises of one job, whatever workers, leases   *)
(* and HTTP handlers do underneath: it is worked on by one holder at a     *)
(* time, only its holder settles it, a holder that vanishes hands it back  *)
(* without using up a try, a retryable failure uses up one, and only a     *)
(* failed job is ever reopened.                                            *)
(***************************************************************************)
EXTENDS Naturals

CONSTANTS Holders, NoHolder, MaxTries

VARIABLES phase, holder, tries

vars == <<phase, holder, tries>>

Init == phase = "absent" /\ holder = NoHolder /\ tries = 0

Accept == /\ phase = "absent"
          /\ phase' = "waiting"
          /\ UNCHANGED <<holder, tries>>

Begin(h) == /\ phase = "waiting"
            /\ phase' = "working" /\ holder' = h
            /\ UNCHANGED tries

Succeed == /\ phase = "working" /\ holder # NoHolder
           /\ phase' = "done" /\ holder' = NoHolder
           /\ UNCHANGED tries

(* A failure the user must look at, or the last try used up. *)
GiveUp == /\ phase = "working" /\ holder # NoHolder
          /\ phase' = "failed" /\ holder' = NoHolder
          /\ tries' \in {tries} \cup ({tries + 1} \cap {MaxTries})

TryAgain == /\ phase = "working" /\ holder # NoHolder
            /\ tries + 1 < MaxTries
            /\ phase' = "waiting" /\ holder' = NoHolder /\ tries' = tries + 1

Vanish == /\ phase = "working" /\ holder # NoHolder
          /\ holder' = NoHolder
          /\ UNCHANGED <<phase, tries>>

HandBack == /\ phase = "working" /\ holder = NoHolder
            /\ phase' = "waiting"
            /\ UNCHANGED <<holder, tries>>

Reopen == /\ phase = "failed"
          /\ phase' = "waiting" /\ tries' = 0
          /\ UNCHANGED holder

Remove == /\ phase' = "absent" /\ holder' = NoHolder /\ tries' = 0

Next ==
    \/ Accept
    \/ \E h \in Holders : Begin(h)
    \/ Succeed
    \/ GiveUp
    \/ TryAgain
    \/ Vanish
    \/ HandBack
    \/ Reopen
    \/ Remove

Spec == Init /\ [][Next]_vars
=============================================================================
