---------------------------- MODULE Recommendation ----------------------------
(***************************************************************************)
(* What is to be done with a creative (services/recommendation_rules.py):   *)
(* the first rule of the list that fires decides, and how the creative was  *)
(* optimised - for installs, for payers (aeo) or for value (vo) - decides    *)
(* what the rules go by.  A label is added to the verdict.                  *)
(* Two creatives are judged, the second doing worse than the first: what    *)
(* the rules promise is a matter of two.  Money is in whole units, a cost   *)
(* is compared as spend against line times number, and None stands for no   *)
(* data.                                                                   *)
(*                                                                         *)
(* IdleBeforeCost (a creative that has been idle is looked at again before   *)
(* its cost is) is a bug the properties are known to catch: nothing below   *)
(* uses it.                                                                *)
(***************************************************************************)
EXTENDS Integers, Sequences, FiniteSets, FiniteSetsExt

CONSTANTS Judged,         \* the metrics of creatives (see metrics.aggregate)
          Market,         \* the market's medians: reliable, cpi, cpp, ctr
          Lines,          \* thresholds: spend, impressions, efficient, red,
                          \* pause, weak, green, d3, retention
          MinSpend, MinPayers, Significant, IdleDays, MinInstalls

VARIABLES pair,           \* the metrics of the two creatives
          verdicts        \* their verdicts, or nothing yet
vars == <<pair, verdicts>>

None == -1

(* The second of the pair earns no more for the same money, on samples that *)
(* the rules think large enough to judge by.                               *)
Of(metric) == {m[metric] : m \in Judged}
Payers == Of("payers")
Returns == Of("roas")
Installs == Of("installs")
NoMore(a, b, least) == a = b \/ (a >= least /\ b >= a)
Earning(n, p, r, i) == [n EXCEPT !.payers = p, !.roas = r, !.installs = i]
NoBetter(n) ==
    {m \in {Earning(n, p, r, i) : p \in Payers, r \in Returns, i \in Installs} :
        /\ NoMore(m.payers, n.payers, MinPayers) /\ NoMore(m.roas, n.roas, 0)
        /\ NoMore(m.installs, n.installs, MinInstalls)}

Init ==
    /\ \E n \in Judged : \E m \in NoBetter(n) : pair = <<n, m>>
    /\ verdicts = <<>>

-----------------------------------------------------------------------------
(* OBJECTIVE_PROFILES: an unknown objective is judged like aeo.             *)
Install(m) == m.objective = "install"
JudgedBy(m) == IF Install(m) THEN {} ELSE {"cpp", "d1_roas", "d3_roas", "d1_retention"}
Doubled(m, line) == IF m.objective = "vo" THEN 2 * line ELSE line
Red(m) == Doubled(m, Lines.red)
Pause(m) == Doubled(m, Lines.pause)

CostsAtLeast(m, line) == m.payers > 0 /\ m.spend >= line * m.payers
CostKnown(m) == "cpp" \in JudgedBy(m) /\ m.payers >= MinPayers
Below(value, line) == value # None /\ value < line
LongIdle(m) == m.idle # None /\ m.idle > IdleDays

(* A multiple, in halves, of what an install costs in the market.           *)
InstallCostsOver(m, halves) ==
    /\ Install(m) /\ Market.reliable /\ Market.cpi # None
    /\ m.installs >= MinInstalls /\ 2 * m.spend >= halves * Market.cpi * m.installs

Fires(m, rule) ==
    CASE rule = "no_delivery"           -> m.spend = 0
      [] rule = "insufficient_data"     -> m.spend < Lines.spend /\ m.impressions < Lines.impressions
      [] rule = "idle_underperform"     ->
            LongIdle(m) /\ (m.payers = 0 \/ ("cpp" \in JudgedBy(m) /\ CostsAtLeast(m, Red(m))))
      [] rule = "derivations_exhausted" -> m.exhausted >= 2
      [] rule = "factor_exhausted"      -> m.exhausted >= 1
      [] rule = "zero_payers"           -> ~Install(m) /\ m.payers = 0 /\ m.spend >= MinSpend
      [] rule = "insufficient_payers"   -> m.spend >= MinSpend /\ m.payers \in 1..(MinPayers - 1)
      [] rule = "cpp_over_pause_line"   -> CostKnown(m) /\ CostsAtLeast(m, Pause(m))
      [] rule = "cpp_over_red_weak_roas" ->
            /\ CostKnown(m) /\ "d1_roas" \in JudgedBy(m) /\ CostsAtLeast(m, Red(m))
            /\ Below(m.roas, Lines.weak) /\ m.spend >= Significant
      [] rule = "cpi_far_over_market"   -> InstallCostsOver(m, 4)
      [] rule = "idle_was_healthy"      -> LongIdle(m)
      [] rule = "efficient_not_scaled"  ->
            CostKnown(m) /\ ~CostsAtLeast(m, Lines.efficient) /\ m.spend < Significant
      [] rule = "cpp_over_red"          -> CostKnown(m) /\ CostsAtLeast(m, Red(m))
      [] rule = "cpi_over_market"       -> InstallCostsOver(m, 3)
      [] rule = "d1_roas_below_green"   ->
            "d1_roas" \in JudgedBy(m) /\ m.spend >= MinSpend /\ Below(m.roas, Lines.green)
      [] rule = "d3_roas_weak"          ->
            "d3_roas" \in JudgedBy(m) /\ m.spend >= MinSpend /\ Below(m.d3, Lines.d3)
      [] rule = "d1_retention_weak"     ->
            "d1_retention" \in JudgedBy(m) /\ m.spend >= MinSpend /\ Below(m.retention, Lines.retention)
      [] rule = "keep_healthy"          -> TRUE

(* RULES, in the order that decides.                                       *)
Gates == <<"no_delivery", "insufficient_data", "idle_underperform", "derivations_exhausted",
           "factor_exhausted", "zero_payers", "insufficient_payers">>
CostRules == <<"cpp_over_pause_line", "cpp_over_red_weak_roas", "cpi_far_over_market">>
IdleBeforeCost == <<"idle_was_healthy">> \o CostRules
Stops == CostRules \o <<"idle_was_healthy">>
Rules == Gates \o Stops
         \o <<"efficient_not_scaled", "cpp_over_red", "cpi_over_market", "d1_roas_below_green",
              "d3_roas_weak", "d1_retention_weak", "keep_healthy">>
ActionOf(rule) ==
    CASE rule \in {"idle_underperform", "derivations_exhausted"} -> "ARCHIVE"
      [] rule \in {"zero_payers"} \cup {CostRules[i] : i \in DOMAIN CostRules} -> "PAUSE"
      [] rule = "keep_healthy" -> "KEEP"
      [] OTHER -> "ITERATE"
FirstRule(m) == Rules[Min({i \in DOMAIN Rules : Fires(m, Rules[i])})]

-----------------------------------------------------------------------------
(* classify_labels: the first of these that applies, or none.               *)
Halved(m) == m.before >= MinSpend /\ 2 * m.recent < m.before
Cheap(m) == m.payers >= MinPayers /\ ~CostsAtLeast(m, Lines.efficient)
Label(m, rule) ==
    CASE rule \in {"no_delivery", "insufficient_data"} \/ m.impressions < Lines.impressions
            -> "underexplored"
      [] ActionOf(rule) = "KEEP" /\ m.spend >= Significant /\ m.payers >= MinPayers
            -> "proven_winner"
      [] m.payers >= MinPayers /\ ~CostsAtLeast(m, Red(m)) /\ Halved(m) -> "saturated"
      [] /\ m.markets = 1 /\ m.payers >= MinPayers /\ Market.reliable /\ Market.cpp # None
         /\ ~CostsAtLeast(m, Market.cpp) -> "audience_niche_winner"
      [] /\ m.spend < Significant
         /\ Cheap(m) \/ (m.spend >= MinSpend /\ m.roas >= Lines.green) -> "potential_winner"
      [] /\ Market.reliable /\ Below(m.ctr, Market.ctr) /\ Cheap(m) -> "low_click_high_value"
      [] /\ Market.reliable /\ Market.ctr # None /\ m.ctr > Market.ctr
         /\ CostsAtLeast(m, Red(m)) \/ (m.payers = 0 /\ m.spend >= MinSpend)
            -> "high_click_low_value"
      [] OTHER -> "none"

Verdict(m) == [rule |-> FirstRule(m), action |-> ActionOf(FirstRule(m)),
               label |-> Label(m, FirstRule(m))]
Recommend ==
    /\ verdicts = <<>> /\ verdicts' = <<Verdict(pair[1]), Verdict(pair[2])>>
    /\ UNCHANGED pair
Next == Recommend
Spec == Init /\ [][Next]_vars

-----------------------------------------------------------------------------
(* Of two creatives with the same spend, the one with fewer payers or        *)
(* installs, enough of them to judge by, or a lower return is stopped at     *)
(* least as hard, whichever rules get in between.  With too few of them to   *)
(* judge by the rules may hold a worse one back more gently.               *)
Hardness == [KEEP |-> 0, ITERATE |-> 0, PAUSE |-> 1, ARCHIVE |-> 2]
LessIsNotKinder == Hardness[verdicts[2].action] >= Hardness[verdicts[1].action]

(* One whose installs cost twice the market's, or whose payers cost more     *)
(* than the line for its objective, is not let run: only too little data or  *)
(* a direction used up say something else.                                  *)
Allowance(m) == IF m.objective = "vo" THEN 2 ELSE 1
Overpaid(m) ==
    IF m.objective = "install"
    THEN /\ Market.reliable /\ Market.cpi # None /\ m.payers \notin 1..(MinPayers - 1)
         /\ m.installs >= MinInstalls /\ m.spend >= 2 * Market.cpi * m.installs
    ELSE m.payers >= MinPayers /\ m.spend >= Allowance(m) * Lines.pause * m.payers
EnoughSeen(m) == m.spend > 0 /\ (m.spend >= Lines.spend \/ m.impressions >= Lines.impressions)
OverpaidIsStopped ==
    \A i \in {1, 2} : (Overpaid(pair[i]) /\ EnoughSeen(pair[i]) /\ pair[i].exhausted # 1)
                          => Hardness[verdicts[i].action] > 0

(* What is blamed for its cost is not labelled cheap for its market's money. *)
BlamedIsNotCheap ==
    \A i \in {1, 2} :
        verdicts[i].rule \in {"cpp_over_pause_line", "cpp_over_red", "cpp_over_red_weak_roas"}
            => verdicts[i].label \notin {"saturated", "low_click_high_value", "proven_winner"}

(* The three together, once there are verdicts.                            *)
DearerIsNotKinder ==
    verdicts # <<>> => LessIsNotKinder /\ OverpaidIsStopped /\ BlamedIsNotCheap

(* recommendation_rules.py:21: creatives optimised for installs go by what    *)
(* an install costs in the market, few payers being normal for them.  With   *)
(* one or two payers they are held back as too thin a sample of payers, so   *)
(* this is not kept.                                                       *)
InstallsGoByTheMarket ==
    \A i \in DOMAIN verdicts :
        (/\ Install(pair[i]) /\ EnoughSeen(pair[i]) /\ pair[i].exhausted = 0
         /\ Market.reliable /\ pair[i].installs >= MinInstalls
         /\ pair[i].spend >= 2 * Market.cpi * pair[i].installs)
            => Hardness[verdicts[i].action] > 0
=============================================================================
