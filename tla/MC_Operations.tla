---------------------------- MODULE MC_Operations ----------------------------
(***************************************************************************)
(* What people and background threads do with judged creatives, in one run: *)
(* part says which component a behaviour is about.  The families have their  *)
(* own variables and constants; v1, v2, ... are those of each other         *)
(* component in the order it declares them, empty where it needs fewer.     *)
(* What a behaviour is not about rests.                                    *)
(***************************************************************************)
EXTENDS DnaFamilies, Integers, Sequences, TLC

CONSTANT Parts          \* the components a run is about

CONSTANTS Batches, Names, Codes, Confirmed, MaxItems              \* of FamilyProposals
CONSTANTS LinkPairs, Factors, Measurable, Reviews, MaxLinks, MaxEdits  \* of Derivations
CONSTANTS Scored, Refreshers, Offered, Contexts,                  \* of CreativeRefresh
          Lines, MinSpend, MinPayers, Significant, IdleDays,
          Evolution(_), Confidence(_), Decay, ArchiveScore, ArchiveIdle, WatchScore,
          MaxRows, MaxDay, MaxRefreshes, MaxActs
CONSTANTS Judged, Market, VerdictIdle, MinInstalls                \* of Recommendation
CONSTANTS Frames, MaxSource, MaxTarget, Edge, MaxLonger           \* of VariantDiff
CONSTANTS Analysed, Themed, Text(_), Shipped(_), Theme(_, _), Confirmers,
          MinCorrections, MinSupport, MechanicMin, GenericMax, MaxWords, MaxLogs  \* of RuleWords
CONSTANTS Compared, Scores, Thresholds, Value(_), Float(_), Current,      \* of ThresholdCalibration
          MinRuled, MinGain, MaxRulings

VARIABLES part, v1, v2, v3, v4, v5, v6, v7, v8, v9

-----------------------------------------------------------------------------
(* The creatives, proposals and handlers of the families and the contexts of *)
(* the refreshes are interchangeable.                                      *)
Interchangeable ==
    Permutations(Creatives) \cup Permutations(Proposals) \cup Permutations(Handlers)
    \cup Permutations(Contexts)

Grouping == INSTANCE FamilyProposals WITH
    step <- v1, proposals <- v2, attaches <- v3, written <- v4

Words == INSTANCE RuleWords WITH
    Creatives <- Analysed, Families <- Themed, Handlers <- Confirmers,
    family <- v1, logs <- v2, suggestions <- v3, lists <- v4, cache <- v5, confirm <- v6

Calibration == INSTANCE ThresholdCalibration WITH
    Pairs <- Compared, Grid <- Thresholds, MinSamples <- MinRuled,
    score <- v1, merges <- v2, splits <- v3, suggestion <- v4

Links == INSTANCE Derivations WITH
    Pairs <- LinkPairs, link <- v1, graph <- v2, suggestion <- v3, review <- v4, edits <- v5

Difference == INSTANCE VariantDiff WITH source <- v1, target <- v2, size <- v3, finds <- v4

Verdicts == INSTANCE Recommendation WITH
    IdleDays <- VerdictIdle, pair <- v1, verdicts <- v2

Refresh == INSTANCE CreativeRefresh WITH
    Creatives <- Scored, Handlers <- Refreshers,
    rows <- v1, today <- v2, lifecycle <- v3, snapshots <- v4, refresh <- v5, clock <- v6,
    acts <- v7, last <- v8, context <- v9

(* The batches are slices of one list of creatives; no active family and no  *)
(* pair of variants is called like none.                                   *)
ASSUME OperationsAssumption ==
    /\ Batches \in Seq(SUBSET Grouping!All)
    /\ \A i, j \in DOMAIN Batches : i # j => Batches[i] \cap Batches[j] = {}
    /\ Grouping!None \notin Confirmed

(* Words are strings; no family is called like none.                       *)
ASSUME WordsAssumption ==
    /\ IsFiniteSet(Analysed) /\ IsFiniteSet(Themed) /\ Words!None \notin Themed
    /\ \A c \in Analysed : Text(c) \subseteq STRING
    /\ \A t \in Words!Targets : Shipped(t) \in Seq(STRING)
    /\ MechanicMin \in Nat /\ GenericMax \in Nat

(* Scores and thresholds are numbers, the threshold in force is the float it *)
(* is written as, and there are finitely many pairs.                       *)
ASSUME CalibrationAssumption ==
    /\ IsFiniteSet(Compared) /\ Scores \subseteq Nat
    /\ Thresholds \subseteq Nat /\ Current \in Thresholds /\ MinGain \in Nat
    /\ \A t \in Thresholds : Value(t) \in Nat /\ Float(t) \in Nat
    /\ Float(Current) = Value(Current)

(* What is measured is a number or missing, no line is negative, and one     *)
(* payer at least is asked for where payers decide.                        *)
ASSUME VerdictsAssumption ==
    /\ Judged \subseteq
           [spend : Nat, payers : Nat, objective : STRING, idle : Int, exhausted : Nat, roas : Int,
            installs : Nat, impressions : Nat, d3 : Int, retention : Int, recent : Nat,
            before : Nat, markets : Nat, ctr : Int]
    /\ Lines \in [spend : Nat, impressions : Nat, efficient : Nat, red : Nat, pause : Nat,
                  weak : Nat, green : Nat, d3 : Nat, retention : Nat]
    /\ Market.cpi \in Nat \cup {Verdicts!None} /\ MinPayers \in Nat \ {0} /\ MinInstalls \in Nat

-----------------------------------------------------------------------------
(* The instance: two batches; of two codes the model refers to one is of a   *)
(* family.                                                                 *)
TwoBatches == <<{"a", "b"}, {"c"}>>

(* One shipped word, which is the mechanic of a family and occurs in the    *)
(* text of one creative.                                                   *)
FewWords(c) == CASE c = 1 -> {"w", "v"} [] c = 2 -> {"w"} [] c = 3 -> {"v", "w", "b"}
OneShipped(t) == IF t = "mechanic" THEN <<"b">> ELSE <<>>
OneTheme(f, t) == IF f = "e" /\ t = "mechanic" THEN {"b"} ELSE {}

(* Each threshold of the rules; a creative delivered under two objectives,   *)
(* one that begins later; the other parts of a score even out.              *)
EachLine == [spend |-> 5, impressions |-> 5, efficient |-> 1, red |-> 2, pause |-> 3, weak |-> 2,
             green |-> 3, d3 |-> 2, retention |-> 2]
Offer(c, d, s, p, o) == [creative |-> c, day |-> d, spend |-> s, payers |-> p, objective |-> o]
EachOffer == {Offer("c", 1, 12, 3, "aeo"), Offer("c", 1, 12, 6, "vo"),
              Offer("d", 3, 12, 6, "aeo"), Offer("d", 1, 3, 0, "install")}
EvenEvolution(c) == 50
EvenConfidence(c) == 30

(* Metrics on both sides of every threshold; the later rules and the labels *)
(* get creatives of their own.                                             *)
Metrics(spend, payers, idle, exhausted, roas, installs, seen, late, before, markets, ctr) ==
    [spend : spend, payers : payers, objective : {"aeo", "vo", "install"}, idle : idle,
     exhausted : exhausted, roas : roas, installs : installs, impressions : seen, d3 : late,
     retention : late, recent : {4}, before : before, markets : markets, ctr : ctr]
Early == Metrics({0, 4, 12, 24}, {0, 1, 3, 6}, {0, 15}, 0..2, {-1, 1}, {0, 6}, {0, 9}, {-1},
                 {4}, {2}, {-1})
Late == Metrics({4, 12}, {3, 6}, {0}, {0}, {-1, 3}, {6}, {9}, {-1, 1, 2}, {4}, {2}, {-1})
Labelled == Metrics({4, 12, 24}, {0, 1, 3, 6}, {0}, {0}, {-1, 2}, {6}, {9}, {-1}, {4, 12},
                    {1, 2}, {1, 3})
EachMetrics == Early \cup Late \cup Labelled
Medians == [reliable |-> TRUE, cpi |-> 2, cpp |-> 2, ctr |-> 2]

(* A hundredth and what lies above it; the float of 0.30 lies above it.     *)
TwoAHundredth(t) == 2 * t
Drifting(t) == IF t = 30 THEN 61 ELSE 2 * t

-----------------------------------------------------------------------------
from3 == <<v3>>
from4 == <<v4>>
from5 == <<v5>>
from6 == <<v6>>
from7 == <<v7>>
from8 == <<v8, v9>>
others == <<v1, v2, from3, from4, from5, from6, from7, from8>>
MCvars == <<part, vars, others>>
(* In the beginning a new family is proposed: the only proposal, or one of   *)
(* two.                                                                    *)
NewFamilyProposed ==
    \E p \in Open : /\ proposals[p].into = None
                    /\ Cardinality(Open) = 1 => proposals[p].members = Creatives
Resting ==
    /\ fam = [f \in Families |-> "none"] /\ dna = [c \in Creatives |-> None]
    /\ proposals = [p \in Proposals |-> Unwritten]
    /\ keys = {} /\ ran = [k \in Keys |-> 0]
    /\ req = [h \in Handlers |-> Idle] /\ sent = 0
Empty7 == v7 = {} /\ v8 = {} /\ v9 = {}
Empty6 == v6 = {} /\ Empty7
Empty4 == v4 = {} /\ v5 = {} /\ Empty6

MCInit ==
    /\ part \in Parts
    /\ IF part = "families" THEN Init /\ NewFamilyProposed ELSE Resting
    /\ \/ part = "families" /\ v1 = {} /\ v2 = {} /\ v3 = {} /\ Empty4
       \/ part = "proposals" /\ Grouping!Init /\ v5 = {} /\ Empty6
       \/ part = "words" /\ Words!Init /\ Empty7
       \/ part = "calibration" /\ Calibration!Init /\ v5 = {} /\ Empty6
       \/ part = "links" /\ Links!Init /\ Empty6
       \/ part = "difference" /\ Difference!Init /\ v5 = {} /\ Empty6
       \/ part = "verdicts" /\ Verdicts!Init /\ v3 = {} /\ Empty4
       \/ part = "refresh" /\ Refresh!Init

Other ==
    \/ part = "proposals" /\ Grouping!Next
       /\ UNCHANGED <<from5, from6, from7, from8>>
    \/ part = "words" /\ Words!Next /\ UNCHANGED <<from7, from8>>
    \/ part = "calibration" /\ Calibration!Next
       /\ UNCHANGED <<from5, from6, from7, from8>>
    \/ part = "links" /\ Links!Next /\ UNCHANGED <<from6, from7, from8>>
    \/ part = "difference" /\ Difference!Next
       /\ UNCHANGED <<from5, from6, from7, from8>>
    \/ part = "verdicts" /\ Verdicts!Recommend
       /\ UNCHANGED <<from3, from4, from5, from6, from7, from8>>
    \/ part = "refresh" /\ Refresh!Next

MCNext ==
    /\ UNCHANGED part
    /\ \/ Other /\ UNCHANGED vars
       \/ part = "families" /\ Next /\ UNCHANGED others

MCSpec == MCInit /\ [][MCNext]_MCvars

-----------------------------------------------------------------------------
(* services/family_bootstrap.py: no creative is proposed for two families.  *)
FamiliesDisjoint == part = "proposals" => Grouping!FamiliesDisjoint
(* services/rule_feedback.py: words are learnt from what people corrected,   *)
(* once each, and ranked by what they tell apart.                          *)
MinedFairly == [][part = "words" => Words!MineStep]_MCvars
(* services/threshold_calibration.py: nothing beats what was tried for a      *)
(* suggested threshold.                                                    *)
CalibrationSettles == [][part = "calibration" => Calibration!SuggestStep]_MCvars
(* services/threshold_calibration.py: what is suggested gains over the      *)
(* threshold in force.                                                     *)
SuggestionGains == [][part = "calibration" => Calibration!GainStep]_MCvars
(* services/derivation_review.py: the system measures, people decide.       *)
MachineOnlyMeasures == [][part = "links" => Links!MachineStep]_MCvars
(* services/variant_diff.py: an intro or an end card that was added is found. *)
EditsAreFound == part = "difference" => Difference!EditsAreFound
(* services/recommendation_rules.py: for the same money, less is not judged  *)
(* more kindly.                                                            *)
DearerIsNotKinder == part = "verdicts" => Verdicts!DearerIsNotKinder
(* services/verdict_snapshots.py, services/lifecycle.py: a refresh of what    *)
(* has not changed writes nothing, and none archives.                      *)
QuietRefreshIsSilent == [][part = "refresh" => Refresh!RefreshStep]_MCvars
=============================================================================
