------------------------------ MODULE MC_Judging ------------------------------
(***************************************************************************)
(* What judges creatives, and what is made of its judgements, in one run:   *)
(* part says which component a behaviour is about.  The merge experiment    *)
(* has its own variables and constants; v1, v2, ... are those of each other *)
(* component in the order it declares them, empty where it needs fewer.     *)
(* What a behaviour is not about rests.                                    *)
(***************************************************************************)
EXTENDS MergeExperiment

CONSTANT Parts          \* the components a run is about

CONSTANTS LogCreatives, Labels, JudgeAnswers, MaxTime         \* of JudgeOutcomes
CONSTANTS GatedKinds, ObservationKind, Runs, Calibrators,     \* of JudgeBrake
          MinSample, RateLimit, ObservationLimit, MaxAuto
CONSTANTS Days, DeliveryRow, MinEffect, Odds, MinResults, MinSpend, MaxRows \* of ObservationPolicy
CONSTANTS Assets, Families, Tracks, Skeletons, NewSkeletons,  \* of FingerprintCards
          TrackFamily, SkeletonFamily, Endings
CONSTANTS CardKeys, Threads, CacheLimit, MaxBuilds            \* of SharedCards
CONSTANTS Creatives, FileKeys, FirstName(_), NewName(_),      \* of MergeInbox
          Bands, CaseRulings, Concluded, BorderlineLimit, MaxActs
CONSTANTS Confirmed, SampleFamilies, SampleEndings,           \* of ExperimentSample
          PerGold, SampleTotal

VARIABLES part, v1, v2, v3, v4, v5, v6, v7, v8, v9, v10, v11, v12, v13, v14

-----------------------------------------------------------------------------
Outcomes == INSTANCE JudgeOutcomes WITH
    Creatives <- LogCreatives, logs <- v1, now <- v2, begun <- v3, said <- v4
Brake == INSTANCE JudgeBrake WITH
    Kinds <- GatedKinds, Observation <- ObservationKind, auto <- v1, undone <- v2,
    gate <- v3, run <- v4, notice <- v5, calib <- v6, atClose <- v7

Policy == INSTANCE ObservationPolicy WITH
    Row <- DeliveryRow, registered <- v1, evidenceStart <- v2, today <- v3, rows <- v4

Cards == INSTANCE FingerprintCards WITH card <- v1

Sharing == INSTANCE SharedCards WITH
    Keys <- CardKeys,
    shared <- v1, kept <- v2, batch <- v3, asking <- v4, builds <- v5, era <- v6

Inbox == INSTANCE MergeInbox WITH
    Keys <- FileKeys, name <- v1, state <- v2, files <- v3, band <- v4, rulings <- v5,
    suggested <- v6, edges <- v7, up <- v8, cache <- v9, reader <- v10, page <- v11,
    judged <- v12, touched <- v13, acts <- v14

Sampling == INSTANCE ExperimentSample WITH
    Variants <- Confirmed, Families <- SampleFamilies, Endings <- SampleEndings,
    Total <- SampleTotal, item <- v1, gold <- v2, cursor <- v3, picked <- v4,
    filled <- v5, joined <- v6, parent <- v7

(* What a spreadsheet row says of the arm it is about.                      *)
PolicyRow(x, d, o, m, s, n) ==
    [arm |-> x, day |-> d, objective |-> o, market |-> m, spend |-> s, results |-> n]

(* No kind of decision is called like the master gate or like no kind, and   *)
(* no evidence like no key; rates are in percent; the cache holds something; *)
(* assets, creatives, variants and days are numbered, and no creative is      *)
(* called like an id; delivery is counted in whole numbers.                  *)
ASSUME JudgingAssumption ==
    /\ GatedKinds \cap {Brake!Master, Brake!Nothing} = {}
    /\ RateLimit \in Nat /\ ObservationLimit \in Nat
    /\ Sharing!NoKey \notin CardKeys /\ CacheLimit \in Nat \ {0}
    /\ Creatives \subseteq Nat /\ IsFiniteSet(Creatives) /\ Concluded \subseteq SUBSET Creatives
    /\ \A c \in Creatives : FirstName(c) \notin Creatives /\ NewName(c) \notin Creatives
    /\ Confirmed \subseteq Nat /\ IsFiniteSet(Confirmed) /\ PerGold \in Nat
    /\ Days \subseteq Nat /\ {MinEffect, Odds, MinResults, MinSpend} \subseteq Nat
    /\ \A r \in DeliveryRow :
          /\ r = PolicyRow(r.arm, r.day, r.objective, r.market, r.spend, r.results)
          /\ r.arm \in {"a", "b"} /\ {r.day, r.spend, r.results} \subseteq Nat

-----------------------------------------------------------------------------
(* The instance: each kind of answer, about two creatives or a derivation.   *)
Said(k, l, r, v) == [kind |-> k, left |-> l, right |-> r, verdict |-> v]
EachAnswer ==
    {Said("dna_assign", "c1", "f1", "f1"),
     Said("merge_pair", "c1", "c2", "merge"),
     Said("merge_pair", "c1", "c2", "split"),
     Said("derivation-factor", "derivation", "none", "not-a-derivation"),
     Said("derivation-factor", "derivation", "none", "f2"),
     Said("verdict", "derivation", "none", "f1")}

(* A family with two tracks, one with one, a skeleton for each.            *)
FamilyOfTrack == [t \in Tracks |-> IF t = "t3" THEN "f2" ELSE "f1"]
FamilyOfSkeleton == [s \in Skeletons |-> IF s = "s1" THEN "f1" ELSE "f2"]

(* Creatives 1 and 2 have a ruling of the case book, 1 and 3 may have been  *)
(* closed before, and each may be given a new name.                        *)
Named(c) == 10 + c
Renamed(c) == 20 + c
BookRulings == {{11, 22}}
NoneOrSome == {{}, {{11, 12}, {12, 13}, {11, 22}}}
ClosedBefore == {{1, 3}}

(* Rows of both arms: before and after a start, of other markets and        *)
(* objectives, undated, and without a market or a result.                  *)
FewRows ==
    UNION {{PolicyRow(x, 1, "aeo", "us", 1, 2), PolicyRow(x, 1, "aeo", "us", 3, 1),
            PolicyRow(x, 2, "aeo", "us", 1, 2), PolicyRow(x, 2, "aeo", "us", 3, 1),
            PolicyRow(x, 2, "aeo", "us", 1, 0), PolicyRow(x, 3, "vo", "us", 1, 1),
            PolicyRow(x, 3, "aeo", "", 1, 1), PolicyRow(x, 0, "aeo", "de", 1, 1),
            PolicyRow(x, 2, "install", "de", 3, 2)} : x \in {"a", "b"}}

(* The experiment has one pair to judge.                                    *)
OnePair == << <<1, 2>> >>

-----------------------------------------------------------------------------
from2 == <<v2, v3>>
from4 == <<v4>>
from5 == <<v5, v6>>
from7 == <<v7>>
from8 == <<v8, v9, v10, v11, v12, v13, v14>>
others == <<v1, from2, from4, from5, from7, from8>>
MCvars == <<part, vars, others>>
Empty2 == v2 = {} /\ v3 = {}
Empty8 == v8 = {} /\ v9 = {} /\ v10 = {} /\ v11 = {} /\ v12 = {} /\ v13 = {} /\ v14 = {}

MCInit ==
    /\ part \in Parts
    /\ Init /\ (part # "experiment" => model = "m1")
    /\ \/ part = "outcomes" /\ Outcomes!Init /\ v5 = {} /\ v6 = {} /\ v7 = {} /\ Empty8
       \/ part = "brake" /\ Brake!Init /\ Empty8
       \/ part = "policy" /\ Policy!Init /\ v5 = {} /\ v6 = {} /\ v7 = {} /\ Empty8
       \/ part = "cards" /\ Cards!Init /\ Empty2 /\ v4 = {} /\ v5 = {} /\ v6 = {} /\ v7 = {} /\ Empty8
       \/ part = "sharing" /\ Sharing!Init /\ v7 = {} /\ Empty8
       \/ part = "inbox" /\ Inbox!Init
       \/ part = "experiment" /\ v1 = {} /\ Empty2 /\ v4 = {} /\ v5 = {} /\ v6 = {} /\ v7 = {}
          /\ Empty8
       \/ part = "sampling" /\ Sampling!Init /\ Empty8

Other ==
    \/ part = "outcomes" /\ Outcomes!Next /\ UNCHANGED <<from5, from7, from8>>
    \/ part = "brake" /\ Brake!Next /\ UNCHANGED from8
    \/ part = "policy" /\ Policy!Next /\ UNCHANGED <<from5, from7, from8>>
    \/ part = "sharing" /\ Sharing!Next /\ UNCHANGED <<from7, from8>>
    \/ part = "inbox" /\ Inbox!Next
    \/ part = "sampling" /\ Sampling!Next /\ UNCHANGED from8
MCNext ==
    /\ UNCHANGED part
    /\ \/ Other /\ UNCHANGED vars
       \/ part = "experiment" /\ Next /\ UNCHANGED others

MCSpec == MCInit /\ [][MCNext]_MCvars

-----------------------------------------------------------------------------
(* services/judge_calibration.py: what became of a suggestion stands once no *)
(* older transaction is open, and no override is ever undone.               *)
JudgementsStand == [][part = "outcomes" => Outcomes!StandStep]_MCvars
(* services/judge_calibration.py:10: what people did after a suggestion      *)
(* decides whether it was accepted.                                        *)
AnswersFollow == part = "outcomes" => Outcomes!AnswersFollow
(* services/judge_calibration.py: a gate closed before a calibration began   *)
(* opens only on decisions the closing had not counted.                    *)
BrakeHolds == [][part = "brake" => Brake!BrakeStep]_MCvars
(* services/judge_calibration.py:356: a gate is restored when the rate fell. *)
RateFellBack == [][part = "brake" => Brake!FellBackStep]_MCvars
(* services/observation_policy.py: the verdict on a pair does not depend on  *)
(* which creative is called a, nor on rows outside the evidence.           *)
EvidenceDecides == part = "policy" => Policy!EvidenceDecides
(* services/fingerprint_card.py: the rules, the recheck and the replay of    *)
(* the rules agree on any two cards.                                       *)
CardRulesHold == part = "cards" => Cards!RulesAgree
(* services/fingerprint_card.py: one evidence, one card, for all threads.   *)
OneCardPerKey == part = "sharing" => Sharing!OneCardPerKey
(* services/review.py: the merge page shows each open pair once and nothing  *)
(* that was ruled on.                                                      *)
InboxIsOpen == [][part = "inbox" => Inbox!PageStep]_MCvars
(* services/review.py:310: a pair that the case book has split does not      *)
(* resurface as a candidate.                                               *)
CaseRulingsStayAway == [][part = "inbox" => Inbox!CaseStep]_MCvars
(* services/review.py:247: a pair people closed is excluded for good.        *)
RuledStaysAway == [][part = "inbox" => Inbox!RuledStep]_MCvars
(* scripts/run_merge_family_experiment.py: pairs are sampled evenly, and     *)
(* clusters are what the pairs judged the same connect.                    *)
SampledEvenly == part = "sampling" => Sampling!SampledEvenly
=============================================================================
