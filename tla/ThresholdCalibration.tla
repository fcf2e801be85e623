------------------------ MODULE ThresholdCalibration ------------------------
(***************************************************************************)
(* The similarity from which creatives are recalled for merging, learnt     *)
(* from what people merged and kept apart (services/threshold_calibration.py). *)
(* The periodic consolidation calibrates; the threshold in force is a       *)
(* constant of the code, so a suggestion is all that comes of it.          *)
(*                                                                         *)
(* Thresholds are hundredths.  What is compared with the scores is not the  *)
(* hundredth but the float that 0.20 + i * 0.01 makes of it, which may lie  *)
(* just above (0.30000000000000004): Float and Value are both in the unit   *)
(* of the scores.                                                          *)
(*                                                                         *)
(* MergesWin (a merge of a pair counts over the ruling that splits it) is a *)
(* bug the properties are known to catch: nothing below uses it.            *)
(***************************************************************************)
EXTENDS Integers, Sequences, FiniteSets, FiniteSetsExt, SequencesExt

CONSTANTS Pairs,            \* pairs of creatives
          Scores,           \* what pairs can score
          Grid,             \* the thresholds tried, in hundredths
          Value(_),         \* so many hundredths, as a score
          Float(_),         \* what is tried for them, as a score
          Current,          \* TEXT_CLUSTER_THRESHOLD, in hundredths
          MinSamples,
          MinGain,          \* in percent of F1
          MaxRulings        \* bounds the rulings

VARIABLES score,            \* what each pair scores
          merges, splits,   \* the pairs in edit_logs, and in split_rulings
          suggestion        \* the threshold in the inbox, or NoSuggestion
vars == <<score, merges, splits, suggestion>>

NoSuggestion == -1
Init == /\ score \in [Pairs -> Scores] /\ merges = <<>> /\ splits = <<>>
        /\ suggestion = NoSuggestion

Merge(p) == /\ Len(merges \o splits) < MaxRulings /\ merges' = Append(merges, p)
            /\ UNCHANGED <<score, splits, suggestion>>
Split(p) == /\ Len(merges \o splits) < MaxRulings /\ splits' = Append(splits, p)
            /\ UNCHANGED <<score, merges, suggestion>>

-----------------------------------------------------------------------------
(* The records are read in this order; a split is not read over.           *)
Records == [i \in DOMAIN merges |-> [pair |-> merges[i], label |-> "merge"]]
           \o [i \in DOMAIN splits |-> [pair |-> splits[i], label |-> "split"]]
Read(labels, record) ==
    IF labels[record.pair] = "split" THEN labels
    ELSE [labels EXCEPT ![record.pair] = record.label]
MergesWin == FoldRight(LAMBDA r, l : [l EXCEPT ![r.pair] = r.label], Records,
                       [p \in Pairs |-> "none"])
Labels == FoldLeft(Read, [p \in Pairs |-> "none"], Records)
Labelled(l) == {p \in Pairs : Labels[p] = l}

(* F1 from a score on is a fraction: twice what is recalled right over all  *)
(* that is recalled and all that should be.                                *)
Recalled(v) == {p \in Pairs : Labels[p] # "none" /\ score[p] >= v}
Top(v) == 2 * Cardinality(Recalled(v) \cap Labelled("merge"))
Bottom(v) == Cardinality(Recalled(v)) + Cardinality(Labelled("merge"))
Beats(u, v) == Top(u) * Bottom(v) > Top(v) * Bottom(u)

(* The best by F1, of those that recall the same the nearest to the current *)
(* one, then the lower; equal fractions of other counts may round apart.   *)
Distance(t) == IF Float(t) > Value(Current) THEN Float(t) - Value(Current)
               ELSE Value(Current) - Float(t)
Nearer(t, s) == Distance(t) < Distance(s) \/ (Distance(t) = Distance(s) /\ t <= s)
Best == {t \in Grid : \A s \in Grid :
            /\ ~Beats(Float(s), Float(t))
            /\ Recalled(Float(s)) = Recalled(Float(t)) => Nearer(t, s)}

Enough == /\ Labelled("merge") # {} /\ Labelled("split") # {}
          /\ Cardinality(Labelled("merge") \cup Labelled("split")) >= MinSamples
Ahead(u, v) == 100 * (Top(u) * Bottom(v) - Top(v) * Bottom(u))
Noise(u, v) == MinGain * (Bottom(u) * Bottom(v))

(* suggest_threshold: a suggestion, or none and the old one goes.  Exactly  *)
(* the least gain may round to either side.                                *)
SuggestThreshold ==
    /\ \/ /\ Enough
          /\ \E t \in Best : /\ t # Current
                             /\ Ahead(Float(t), Value(Current)) >= Noise(Float(t), Value(Current))
                             /\ suggestion' = t
       \/ /\ Enough => \E t \in Best :
               \/ t = Current
               \/ Ahead(Float(t), Value(Current)) <= Noise(Float(t), Value(Current))
          /\ suggestion' = NoSuggestion
    /\ UNCHANGED <<score, merges, splits>>

Next == (\E p \in Pairs : Merge(p) \/ Split(p)) \/ SuggestThreshold
Spec == Init /\ [][Next]_vars

-----------------------------------------------------------------------------
(* What is suggested is what did best: by the same rulings, a split counting *)
(* over a merge of the same pair, no float of the grid does better than the *)
(* one that was tried for it; and where nothing is suggested, none of them  *)
(* gains more than the noise over the threshold in force.                  *)
Kept(p) == \E i \in DOMAIN splits : splits[i] = p
Joined(p) == ~Kept(p) /\ \E i \in DOMAIN merges : merges[i] = p
Right(v) == Cardinality({p \in Pairs : Joined(p) /\ score[p] >= v})
Missed(v) == Cardinality({p \in Pairs : Joined(p) /\ score[p] < v})
Wrong(v) == Cardinality({p \in Pairs : Kept(p) /\ score[p] >= v})
Known == /\ {p \in Pairs : Joined(p)} # {} /\ {p \in Pairs : Kept(p)} # {}
         /\ Cardinality({p \in Pairs : Joined(p) \/ Kept(p)}) >= MinSamples
All(v) == 2 * Right(v) + Missed(v) + Wrong(v)
Lead(u, v) == 200 * (Right(u) * All(v) - Right(v) * All(u))
SuggestStep ==
    SuggestThreshold =>
        IF suggestion' # NoSuggestion
        THEN \A t \in Grid : Lead(Float(t), Float(suggestion')) <= 0
        ELSE Known => \A t \in Grid : Lead(Float(t), Value(Current))
                                      <= MinGain * (All(Float(t)) * All(Value(Current)))
CalibrationSettles == [][SuggestStep]_vars

(* threshold_calibration.py: a suggestion is more than 2 % better than the   *)
(* current threshold.  Not kept: what is suggested is the hundredth, what    *)
(* was tried is the float above it, and pairs score exactly the hundredth.  *)
GainStep ==
    SuggestThreshold /\ suggestion' # NoSuggestion =>
        Lead(Value(suggestion'), Value(Current))
            >= MinGain * (All(Value(suggestion')) * All(Value(Current)))
=============================================================================
