-------------------------- MODULE ObservationPolicy --------------------------
(***************************************************************************)
(* evaluate_observation_policy: whether the delivery data of the two        *)
(* creatives of an observation pair tell them apart.  Rows arrive with the *)
(* spreadsheets, day after day and late ones too; every evaluation reads   *)
(* all there are.  Amounts are whole numbers, and the mixture test is      *)
(* computed exactly: with a Beta(2,2) alternative its integral is          *)
(* 6 (a+b)^(k+l) / ((k+l+3) C(k+l+2, k+1) a^k b^l) for spends a, b and     *)
(* results k, l.  The ratio of costs is given in percent.                  *)
(*                                                                         *)
(* EarliestStart (rows from before the registration count) is a bug the    *)
(* property is known to catch: nothing below uses it.                      *)
(***************************************************************************)
EXTENDS Naturals, FiniteSets, FiniteSetsExt, Combinatorics

CONSTANTS Days,            \* 1..n
          Row,             \* arm, day, objective, market, spend and results; day 0
                           \* is none, market "" cannot be told, and a result is a
                           \* payer for "aeo", an install for "install"
          MinEffect,       \* min_effect_ratio, in percent
          Odds,            \* 1 / alpha
          MinResults, MinSpend,
          MaxRows          \* bound on the rows of an arm

VARIABLES registered, evidenceStart, today, rows
vars == <<registered, evidenceStart, today, rows>>

Arms == {"a", "b"}
NoDay == 0

Init ==
    /\ registered \in Days \cup {NoDay} /\ evidenceStart \in Days \cup {NoDay}
    /\ today = 1 /\ rows = {}
Import ==
    /\ \E r \in Row \ rows :
         /\ Cardinality({q \in rows : q.arm = r.arm}) < MaxRows
         /\ rows' = rows \cup {r}
    /\ UNCHANGED <<registered, evidenceStart, today>>
NextDay ==
    /\ today + 1 \in Days /\ today' = today + 1
    /\ UNCHANGED <<registered, evidenceStart, rows>>
Next == Import \/ NextDay
Spec == Init /\ [][Next]_vars

-----------------------------------------------------------------------------
(* The rows that count: dated, from the registration and the start of the  *)
(* evidence on, up to today.                                               *)
Later(d, e) == IF d > e THEN d ELSE e
EarliestStart == IF registered < evidenceStart THEN registered ELSE evidenceStart
EffectiveStart == Later(registered, evidenceStart)
Eligible(R) == {r \in R : r.day # NoDay /\ r.day >= EffectiveStart /\ r.day <= today}

Of(arm, R) == {r \in R : r.arm = arm}

(* The objective and the market must be one and the same.                  *)
OfObjective(R) == {r.objective : r \in R}
OfMarket(R) == {r.market : r \in R}
Mismatch(R) ==
    IF ~(OfObjective(R) \subseteq {"aeo", "install", "vo"}) THEN "unknown_objective"
    ELSE IF \E x \in Arms : Cardinality(OfObjective(Of(x, R))) # 1 THEN "mixed_objectives"
    ELSE IF Cardinality(OfObjective(R)) # 1 THEN "objective_mismatch"
    ELSE IF "vo" \in OfObjective(R) THEN "unsupported_objective"
    ELSE IF "" \in OfMarket(R) THEN "market_unknown"
    ELSE IF \E x \in Arms : Cardinality(OfMarket(Of(x, R))) # 1 THEN "mixed_markets"
    ELSE IF Cardinality(OfMarket(R)) # 1 THEN "market_mismatch" ELSE ""

(* What the rows of an arm add up to, and which arm paid less for a result. *)
Spend(x, R) == MapThenSumSet(LAMBDA r : r.spend, Of(x, R))
Result(x, R) == MapThenSumSet(LAMBDA r : r.results, Of(x, R))
Spends(R) == {Spend(x, R) : x \in Arms}
Results(R) == {Result(x, R) : x \in Arms}
MoreEfficient(R) == LET d(x, y) == Spend(x, R) * Result(y, R) IN
    IF \E x \in Arms : Result(x, R) = 0 THEN "unknown"
    ELSE IF d("a", "b") < d("b", "a") THEN "a"
    ELSE IF d("b", "a") < d("a", "b") THEN "b" ELSE "equal"
CostRatioReaches(R) ==
    \E x, y \in Arms : 100 * Spend(x, R) * Result(y, R) >= MinEffect * Spend(y, R) * Result(x, R)

(* msprt_decision: half the weight is the null, half the alternative.      *)
Power(b, n) == LET p[i \in 0..n] == IF i = 0 THEN 1 ELSE b * p[i - 1] IN p[n]
ThresholdCrossed(R) ==
    LET k == Result("a", R) l == Result("b", R) a == Spend("a", R) b == Spend("b", R) IN
    6 * Power(a + b, k + l)
        >= (2 * Odds - 1) * (k + l + 3) * choose(k + l + 2, k + 1) * Power(a, k) * Power(b, l)

(* The days are halved; the difference must be there in both halves.       *)
DaysOf(R) == {r.day : r \in R}
FirstDays(R) == {d \in DaysOf(R) :
    Cardinality({e \in DaysOf(R) : e <= d}) <= Cardinality(DaysOf(R)) \div 2}
Halves(R) == {{r \in R : r.day \in FirstDays(R)}, {r \in R : r.day \notin FirstDays(R)}}
Stable(R) ==
    \A H \in Halves(R) : MoreEfficient(H) = MoreEfficient(R) /\ CostRatioReaches(H)

Insufficient(R) ==
    IF 0 \in Results(R) THEN "zero_results"
    ELSE IF 0 \in Spends(R) THEN "insufficient_spend"
    ELSE IF \E n \in Results(R) : n < MinResults THEN "insufficient_results"
    ELSE IF \E s \in Spends(R) : s < MinSpend THEN "insufficient_spend" ELSE ""
WaitingFor(R) ==
    IF Insufficient(R) # "" THEN Insufficient(R)
    ELSE IF ~CostRatioReaches(R) THEN "effect_below_minimum"
    ELSE IF ~ThresholdCrossed(R) THEN "msprt_not_crossed"
    ELSE IF Cardinality(DaysOf(R)) < 2 THEN "insufficient_chronological_halves"
    ELSE IF \E H \in Halves(R) : 0 \in Spends(H) \cup Results(H)
         THEN "insufficient_half_data"
    ELSE IF ~Stable(R) THEN "unstable_halves" ELSE "uncertified_policy"

(* The waiting reason; a certified policy splits where others wait for the *)
(* certificate.                                                            *)
Evaluate(R) ==
    IF registered = NoDay THEN "registration_missing"
    ELSE IF evidenceStart = NoDay THEN "evidence_start_missing"
    ELSE IF R = {} THEN "no_performance_data"
    ELSE IF \E x \in Arms : Of(x, Eligible(R)) = {} THEN "no_post_registration_data"
    ELSE IF Mismatch(Eligible(R)) # "" THEN Mismatch(Eligible(R))
    ELSE WaitingFor(Eligible(R))

-----------------------------------------------------------------------------
TypeOK == rows \subseteq Row /\ today \in Days

(* The evaluation does not care which creative is called a, what was        *)
(* delivered before the registration or the start of the evidence, and what *)
(* is dated in the future or not at all.                                    *)
Swapped(R) == {[r EXCEPT !.arm = IF r.arm = "a" THEN "b" ELSE "a"] : r \in R}
InWindow(r) == registered <= r.day /\ evidenceStart <= r.day /\ r.day <= today /\ r.day # NoDay
EvidenceDecides ==
    /\ Evaluate(Swapped(rows)) = Evaluate(rows)
    /\ registered # NoDay /\ evidenceStart # NoDay =>
         LET known == {r \in rows : InWindow(r)} IN
         known # {} => Evaluate(known) = Evaluate(rows)
=============================================================================
