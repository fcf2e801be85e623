----------------------------- MODULE VariantDiff -----------------------------
(***************************************************************************)
(* What changed between two videos, measured (services/variant_diff.py):    *)
(* one frame a second of both, the shift under which most of them agree,    *)
(* and what is left over in front of and behind the part that agrees.       *)
(* Frames are the same when their perceptual hashes are close.             *)
(*                                                                         *)
(* FromSource (what is left over is counted in the source) is a bug the     *)
(* property is known to catch: nothing below uses it.                      *)
(***************************************************************************)
EXTENDS Integers, Sequences, FiniteSets, FiniteSetsExt, SequencesExt

CONSTANTS Frames, MaxSource, MaxTarget,   \* frames, and how many a video has
          Edge,        \* MIN_UNMATCHED_EDGE_SEC
          MaxLonger    \* MAX_DURATION_DIFF_SEC, in whole seconds

VARIABLES source, target,   \* the frames of the two videos
          size,             \* the target's: "same", "scaled" or "turned"
          finds             \* what is found; Nothing before
vars == <<source, target, size, finds>>

Nothing == "nothing"
Unclear == "unclear"
Init == /\ source \in BoundedSeq(Frames, MaxSource) \ {<<>>}
        /\ target \in BoundedSeq(Frames, MaxTarget) \ {<<>>}
        /\ size \in {"same", "scaled", "turned"} /\ finds = Nothing

-----------------------------------------------------------------------------
(* align_sequences: the frames that agree when the target is k behind; of   *)
(* the shifts with most the smallest, and to the left of two that small.    *)
Agree(k) == {i \in DOMAIN source : i + k \in DOMAIN target /\ source[i] = target[i + k]}
Shifts == (1 - Len(source))..(Len(target) - 1)
Size(k) == IF k < 0 THEN -k ELSE k
Preferred(k, l) == \/ Cardinality(Agree(k)) > Cardinality(Agree(l))
                   \/ /\ Cardinality(Agree(k)) = Cardinality(Agree(l))
                      /\ Size(k) < Size(l) \/ (Size(k) = Size(l) /\ k <= l)
Shift == CHOOSE k \in Shifts : \A l \in Shifts : Preferred(k, l)
Aligned == Agree(Shift)
FromSource == Min(Aligned) - 1
Prefix == Min(Aligned) + Shift - 1
Suffix == Len(target) - (Max(Aligned) + Shift)
Longer == Size(Len(target) - Len(source))

(* classify: at least half of the longer video must agree, or the picture   *)
(* was turned at the same length.                                          *)
WellAligned == 2 * Cardinality(Aligned) >= IF Len(source) > Len(target) THEN Len(source) ELSE Len(target)
Resized == size # "same" /\ (WellAligned \/ (size = "turned" /\ Longer <= MaxLonger))
Classify ==
    /\ finds = Nothing
    /\ finds' = IF Resized THEN "aspect-ratio"
                ELSE IF ~WellAligned THEN "not-a-derivation"
                ELSE IF Prefix >= Edge THEN "intro-sticker"
                ELSE IF Suffix >= Edge THEN "brand-endcard" ELSE Unclear
    /\ UNCHANGED <<source, target, size>>
Next == Classify
Spec == Init /\ [][Next]_vars

-----------------------------------------------------------------------------
(* Where the target is the source with other frames put in front or behind, *)
(* at the same size, that is what is found: an intro, else an end card, if  *)
(* it is long enough; with more of it than of the source the link is in     *)
(* doubt. No copy of a video, scaled or not, is taken for another one.      *)
Apart(s, t) == ToSet(s) \cap ToSet(t) = {}
Around(h, s, t) == target = h \o s \o t /\ Apart(h, s) /\ Apart(t, s)
Expected(h, t) ==
    IF 2 * Len(source) < Len(target) THEN "not-a-derivation"
    ELSE IF Len(h) >= Edge THEN "intro-sticker"
    ELSE IF Len(t) >= Edge THEN "brand-endcard" ELSE Unclear
FrontOf(n) == SubSeq(target, 1, n)
BackOf(n) == SubSeq(target, n + Len(source) + 1, Len(target))
EditsAreFound ==
    finds # Nothing =>
        /\ \A n \in 0..(Len(target) - Len(source)) :
               (size = "same" /\ Around(FrontOf(n), source, BackOf(n)))
                   => finds = Expected(FrontOf(n), BackOf(n))
        /\ source = target => finds # "not-a-derivation"
=============================================================================
