----------------------------- MODULE JudgeBrake -----------------------------
(***************************************************************************)
(* The brake of the automatic judge.  A run reads the master gate and the  *)
(* gate of its kind once and then decides; people override decisions;      *)
(* run_calibration counts the decisions in one query and the overrides of  *)
(* each in later ones, then reads the gates, and flips them when its       *)
(* transaction commits.  The periodic run of a worker can meet the command *)
(* line's.  (The limits in the code are 3 % for observation pairs and 30 % *)
(* for the others, of at least thirty decisions; a gate that somebody      *)
(* writes into the settings by hand is left out.)                          *)
(*                                                                         *)
(* RestoredAnyway (a closed gate opens when the rate is not over the limit *)
(* of all kinds together) is a bug the property is known to catch: nothing *)
(* below uses it.                                                          *)
(***************************************************************************)
EXTENDS Naturals

CONSTANTS Kinds,          \* kinds of automatic decisions
          Observation,    \* the one of them with a limit of its own
          Runs, Calibrators,
          MinSample,      \* MIN_SAMPLE
          RateLimit, ObservationLimit,   \* override rates in percent
          MaxAuto         \* bound on the decisions of a kind

VARIABLES auto,           \* decisions in the log that a gate answers for
          undone,         \* those of them that were overridden
          gate,           \* settings judge_auto_enabled and one for each kind
          run,            \* the kind a run may decide on
          notice,         \* what the inbox says of a gate
          calib,          \* what a calibration has counted and read, and (history)
                          \* the gates that were closed since it began to count
          atClose         \* history: decisions counted when a gate closed last

vars == <<auto, undone, gate, run, notice, calib, atClose>>

Master == "master"
Nothing == "nothing"
Gates == Kinds \cup {Master}
None == [g \in Gates |-> 0]
NotCounted == [at |-> "idle", auto |-> None, undone |-> None, closed |-> {}, stale |-> {}]

(* The gate of a kind answers for its decisions, the master gate for those *)
(* of every kind.                                                          *)
OneMore(f, k) == [g \in Gates |-> IF g \in {k, Master} THEN f[g] + 1 ELSE f[g]]

Init ==
    /\ auto = None /\ undone = None
    /\ gate = [g \in Gates |-> TRUE]
    /\ run = [r \in Runs |-> Nothing]
    /\ notice = [g \in Gates |-> Nothing]
    /\ calib = [c \in Calibrators |-> NotCounted]
    /\ atClose = None

(* judge_auto_allowed, read at the start of a run.                         *)
Allowed(k) == gate[Master] /\ gate[k]
StartRun(r) ==
    /\ run[r] = Nothing
    /\ \E k \in Kinds : Allowed(k) /\ run' = [run EXCEPT ![r] = k]
    /\ UNCHANGED <<auto, undone, gate, notice, calib, atClose>>

Decide(r) ==
    /\ run[r] # Nothing /\ auto[run[r]] < MaxAuto
    /\ auto' = OneMore(auto, run[r])
    /\ UNCHANGED <<undone, gate, run, notice, calib, atClose>>

EndRun(r) ==
    /\ run[r] # Nothing /\ run' = [run EXCEPT ![r] = Nothing]
    /\ UNCHANGED <<auto, undone, gate, notice, calib, atClose>>

(* A person changes what was decided (JudgeOutcomes: Overridden).  A        *)
(* calibration that is counting sees it or has passed that decision.       *)
Override(k) ==
    /\ undone[k] < auto[k] /\ undone' = OneMore(undone, k)
    /\ \E S \in SUBSET {c \in Calibrators : /\ calib[c].at = "counting"
                                           /\ calib[c].undone[k] < calib[c].auto[k]} :
         calib' = [c \in Calibrators |-> IF c \in S
                     THEN [calib[c] EXCEPT !.undone = OneMore(@, k)] ELSE calib[c]]
    /\ UNCHANGED <<auto, gate, run, notice, atClose>>

(* The query for the decisions; those for their overrides follow one by one, *)
(* and find at least the overrides of now.                                 *)
Count(c) ==
    /\ calib[c].at = "idle"
    /\ calib' = [calib EXCEPT ![c] = [NotCounted EXCEPT
                    !.at = "counting", !.auto = auto, !.undone = undone]]
    /\ UNCHANGED <<auto, undone, gate, run, notice, atClose>>

(* When all is counted the gates are read.  They are read one by one, but   *)
(* each is flipped by its own numbers, and what is stated of one gate does  *)
(* not depend on when another was read.                                    *)
ReadGates(c) ==
    /\ calib[c].at = "counting"
    /\ calib' = [calib EXCEPT ![c] = [@ EXCEPT !.at = "read",
                                              !.closed = {g \in Gates : ~gate[g]}]]
    /\ UNCHANGED <<auto, undone, gate, run, notice, atClose>>

(* The new values: over its limit a gate closes, otherwise it is restored, *)
(* from enough decisions on; that of observation pairs never is.           *)
LimitOf(g) == IF g = Observation THEN ObservationLimit ELSE RateLimit
OverLimit(c, g) == 100 * calib[c].undone[g] > LimitOf(g) * calib[c].auto[g]
Enough(c, g) == calib[c].auto[g] >= MinSample
RestoredAnyway(c, g) == /\ Enough(c, g) /\ g \in calib[c].closed /\ g # Observation
                        /\ ~OverLimit(c, Master)
Restored(c, g) == /\ Enough(c, g) /\ g \in calib[c].closed /\ g # Observation
                  /\ ~OverLimit(c, g)
Downgraded(c, g) == Enough(c, g) /\ g \notin calib[c].closed /\ OverLimit(c, g)

(* The commit.  A gate that flips leaves its trace: one notice per gate.    *)
SetGates(c) ==
    /\ calib[c].at = "read"
    /\ gate' = [g \in Gates |-> IF Downgraded(c, g) THEN FALSE
                                ELSE IF Restored(c, g) THEN TRUE ELSE gate[g]]
    /\ notice' = [g \in Gates |-> IF Downgraded(c, g) THEN "downgraded"
                                  ELSE IF Restored(c, g) THEN "restored" ELSE notice[g]]
    /\ atClose' = [g \in Gates |-> IF Downgraded(c, g) THEN calib[c].auto[g]
                                   ELSE atClose[g]]
    /\ calib' = [d \in Calibrators |->
          IF d = c THEN NotCounted
          ELSE IF calib[d].at = "idle" THEN calib[d]
          ELSE [calib[d] EXCEPT !.stale = @ \cup {g \in Gates : Downgraded(c, g)}]]
    /\ UNCHANGED <<auto, undone, run>>

(* A calibration may fail; nothing of it stays.                            *)
CalibrationFails(c) ==
    /\ calib[c].at # "idle"
    /\ calib' = [calib EXCEPT ![c] = NotCounted]
    /\ UNCHANGED <<auto, undone, gate, run, notice, atClose>>

Next ==
    \/ \E r \in Runs : StartRun(r) \/ Decide(r) \/ EndRun(r)
    \/ \E k \in Kinds : Override(k)
    \/ \E c \in Calibrators : \/ Count(c) \/ ReadGates(c)
                              \/ SetGates(c) \/ CalibrationFails(c)
Spec == Init /\ [][Next]_vars

-----------------------------------------------------------------------------
TypeOK ==
    /\ auto \in [Gates -> Nat] /\ undone \in [Gates -> Nat]
    /\ \A k \in Kinds : undone[k] <= auto[k] /\ auto[k] <= MaxAuto
    /\ gate \in [Gates -> BOOLEAN] /\ run \in [Runs -> Kinds \cup {Nothing}]

(* Overrides only add up, so a gate that was closed over its limit can be    *)
(* within it again only on further decisions, which runs still make that had *)
(* read it open.  The brake opens a gate on more decisions than the closing *)
(* had counted, unless the gate was closed while the calibration that opens *)
(* it was under way; that of observation pairs it never opens; and the       *)
(* notice of a gate tells what the brake did last to it.                   *)
Opens(g) == ~gate[g] /\ gate'[g]
BrakeStep ==
    /\ \A g \in Gates : Opens(g) =>
         /\ g # Observation
         /\ \E c \in Calibrators :
               /\ calib[c].at = "read" /\ calib[c]'.at = "idle"
               /\ calib[c].auto[g] > atClose[g] \/ g \in calib[c].stale
    /\ \A g \in Gates : gate'[g] = (notice'[g] # "downgraded")
BrakeHolds == [][BrakeStep]_vars

(* A notice says that the rate fell back (judge_calibration.py:356): there   *)
(* are more decisions now than when the gate was closed.                   *)
FellBackStep == \A g \in Gates : Opens(g) => auto[g] > atClose[g]
RateFellBack == [][FellBackStep]_vars
=============================================================================
