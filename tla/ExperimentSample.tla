-------------------------- MODULE ExperimentSample --------------------------
(***************************************************************************)
(* The sample of the experiment and the clusters of its verdicts: pairs of *)
(* the confirmed variants fall into strata, the strata of one gold take    *)
(* turns until its quota is filled, what is missing in all is filled up    *)
(* from the rest.  When all pairs have been judged, those judged the same  *)
(* are joined with a union-find.  The order within a stratum is shuffled:  *)
(* any.                                                                    *)
(*                                                                         *)
(* FirstStratum (no turns) is a bug the property is known to catch:        *)
(* nothing below uses it.                                                  *)
(***************************************************************************)
EXTENDS Naturals, Sequences, FiniteSets, SequencesExt

CONSTANTS Variants,        \* 1..n
          Families, Endings,
          PerGold, Total   \* SAMPLE_TARGET_PER_GOLD, SAMPLE_TARGET_TOTAL

VARIABLES item,            \* the confirmed family and ending of each variant
          gold,            \* the pool whose turn it is, then backfill, or cluster
          cursor, picked, filled, \* the pairs of the quotas, those filled up
          joined, parent   \* pairs judged the same, the union-find
vars == <<item, gold, cursor, picked, filled, joined, parent>>

Smaller(n, k) == IF n < k THEN n ELSE k
Pairs == {p \in Variants \X Variants : p[1] < p[2]}
Gold(p) == IF item[p[1]].family = item[p[2]].family THEN "same" ELSE "diff"
Pool(g) == {p \in Pairs : Gold(p) = g}
Stratum(p) == [gold |-> Gold(p), families |-> {item[p[1]].family, item[p[2]].family},
               alike |-> item[p[1]].ending = item[p[2]].ending]
Bucket(s) == {p \in Pairs : Stratum(p) = s}
Left(s) == Bucket(s) \ picked
Strata(g) == SetToSeq({Stratum(p) : p \in Pool(g)})

Init ==
    /\ item \in [Variants -> [family : Families, ending : Endings]]
    /\ gold \in {"same", "cluster"} /\ cursor = 0 /\ picked = {} /\ filled = {}
    /\ joined = {} /\ parent = [v \in Variants |-> v]

(* The stratum whose turn it is gives a pair, if it has one left.          *)
FirstStratum(g) ==
    LET full == SelectSeq(Strata(g), LAMBDA s : Left(s) # {}) IN full[1]
Turn(g) == Strata(g)[(cursor % Len(Strata(g))) + 1]
QuotaFilled(g) == Cardinality(picked \cap Pool(g)) = Smaller(PerGold, Cardinality(Pool(g)))
Take ==
    /\ gold \in {"same", "diff"} /\ ~QuotaFilled(gold)
    /\ IF Left(Turn(gold)) = {} THEN UNCHANGED picked
       ELSE \E p \in Left(Turn(gold)) : picked' = picked \cup {p}
    /\ cursor' = cursor + 1 /\ UNCHANGED <<item, gold, filled, joined, parent>>
NextPool ==
    /\ gold \in {"same", "diff"} /\ QuotaFilled(gold)
    /\ gold' = (IF gold = "same" THEN "diff" ELSE "backfill") /\ cursor' = 0
    /\ UNCHANGED <<item, picked, filled, joined, parent>>

(* Missing pairs come from what is left, the same ones first.              *)
Rest(g) == Pool(g) \ (picked \cup filled)
Selected == picked \cup filled
Backfill ==
    /\ gold = "backfill" /\ Cardinality(Selected) < Total
    /\ \E p \in IF Rest("same") # {} THEN Rest("same") ELSE Rest("diff") :
         filled' = filled \cup {p}
    /\ UNCHANGED <<item, gold, cursor, picked, joined, parent>>

(* A pair judged the same joins the trees of its two variants (halving the *)
(* paths on the way does not change the roots).                            *)
Root[v \in Variants] == IF parent[v] = v THEN v ELSE Root[parent[v]]
Linked(p) == [parent EXCEPT ![Root[p[1]]] = Root[p[2]]]
Link ==
    /\ gold = "cluster"
    /\ \E p \in Pairs \ joined : joined' = joined \cup {p} /\ parent' = Linked(p)
    /\ UNCHANGED <<item, gold, cursor, picked, filled>>

Next == Take \/ NextPool \/ Backfill \/ Link
Spec == Init /\ [][Next]_vars

-----------------------------------------------------------------------------
TypeOK == /\ picked \subseteq Pairs /\ filled \subseteq Pairs \ picked
          /\ parent \in [Variants -> Variants]

(* The strata of a pool are served evenly: one has more than another, by   *)
(* more than a pair, only once the other has none left.                    *)
Evenly ==
    \A g \in {"same", "diff"} : \A s, u \in {Stratum(p) : p \in Pool(g)} :
        Cardinality(Bucket(s) \cap picked) > Cardinality(Bucket(u) \cap picked) + 1
            => Left(u) = {}

(* The clusters are those the pairs judged the same connect: two variants  *)
(* have one root iff every set that holds the one and is closed under the  *)
(* pairs holds the other.                                                  *)
Connected(v, w) ==
    \A S \in SUBSET Variants :
        v \in S /\ (\A p \in joined : p[1] \in S <=> p[2] \in S) => w \in S
ClustersConnect == \A v, w \in Variants : (Root[v] = Root[w]) = Connected(v, w)
SampledEvenly == Evenly /\ ClustersConnect
=============================================================================
