-------------------------- MODULE FingerprintCards --------------------------
(***************************************************************************)
(* The cards that decide whether two creatives are one: what is accepted   *)
(* of the model's answer (parse_card), the rules that compare two cards     *)
(* (match_cards), the point a split is rechecked at, and the replay of the  *)
(* rules on stored cards for the diagnosis of an experiment.                *)
(*                                                                         *)
(* StrictAblation (the diagnosis compares all endings) is the bug the      *)
(* property is known to catch: nothing below uses it.                      *)
(***************************************************************************)
EXTENDS Sequences

CONSTANTS Assets,
          Families, Tracks, Skeletons, NewSkeletons,
          TrackFamily, SkeletonFamily,   \* the taxonomy of ip_pack
          Endings          \* ENDING_VALUES

VARIABLE card              \* the card of each asset

None == "none!"
Open == {"unknown", "none"}     \* endings that say nothing

-----------------------------------------------------------------------------
(* An answer as the parser reads it: fields may be missing or not be of    *)
(* the taxonomy.                                                           *)
Answers ==
    [family : Families \cup {None}, listed : BOOLEAN, candidates : {<<>>} \cup
        {<<t>> : t \in Tracks \cup {None}}, track : Tracks \cup {None},
     skeleton : Skeletons \cup {None, "outside"}, new : NewSkeletons \cup {None},
     ending : Endings \cup {None}]

(* The track is that of the first candidate the family has, if one is given *)
(* at all, otherwise the answer's own.                                     *)
FamilyTracks(f) == {t \in Tracks : TrackFamily[t] = f}
FirstTrack(a) ==
    LET known == SelectSeq(a.candidates, LAMBDA t : t \in FamilyTracks(a.family)) IN
    IF known # <<>> THEN known[1]
    ELSE IF a.track \in FamilyTracks(a.family) THEN a.track ELSE None

Accepted(a) ==
    /\ a.family # None /\ a.listed /\ FirstTrack(a) # None
    /\ a.skeleton = None \/ (a.skeleton \in Skeletons /\ SkeletonFamily[a.skeleton] = a.family)
    /\ a.skeleton # None \/ a.new # None
ParseCard(a) ==
    [family |-> a.family, track |-> FirstTrack(a), skeleton |-> a.skeleton,
     ending |-> IF a.ending = None THEN "unknown" ELSE a.ending]

Cards == {ParseCard(a) : a \in {x \in Answers : Accepted(x)}}

-----------------------------------------------------------------------------
(* The rules.                                                              *)
EndingsDiffer(a, b) == a.ending \notin Open /\ b.ending \notin Open /\ a.ending # b.ending

MatchCards(a, b) ==
    IF a.skeleton = None \/ b.skeleton = None THEN "grey"
    ELSE IF \/ a.family # b.family \/ a.track # b.track
            \/ a.skeleton # b.skeleton \/ EndingsDiffer(a, b)
    THEN "different_concept" ELSE "same_variant_family"

(* The first level at which two cards part.                                *)
AtTheEnd(a, b) == IF EndingsDiffer(a, b) THEN "ending" ELSE None
DivergencePoint(a, b) ==
    IF a.family # b.family THEN "family"
    ELSE IF a.track # b.track THEN "track"
    ELSE IF a.skeleton # b.skeleton THEN "skeleton"
    ELSE AtTheEnd(a, b)

(* The diagnosis replays the rules on stored cards, leaving some out.      *)
StrictAblation(a, b) == a.ending = b.ending
SameEnding(a, b) == a.ending \in Open \/ b.ending \in Open \/ a.ending = b.ending
AblateMatch(a, b, ignored) ==
    IF "skeleton" \notin ignored /\ None \in {a.skeleton, b.skeleton} THEN "grey"
    ELSE IF /\ "family" \in ignored \/ a.family = b.family
            /\ "track" \in ignored \/ a.track = b.track
            /\ "skeleton" \in ignored \/ a.skeleton = b.skeleton
            /\ "ending" \in ignored \/ SameEnding(a, b)
    THEN "same_variant_family" ELSE "different_concept"

-----------------------------------------------------------------------------
(* The cards of a run are what they are; the rules are applied to any two.  *)
Init == card \in [Assets -> Cards]
Spec == Init /\ [][UNCHANGED card]_card

-----------------------------------------------------------------------------
TypeOK == card \in [Assets -> Cards]

(* A split the rules find always has a point to recheck, which              *)
(* recheck_split reads without looking, a match never has one; and the     *)
(* replay of the rules for the diagnosis gives what the rules gave.        *)
RulesAgree ==
    \A i, j \in Assets :
        LET relation == MatchCards(card[i], card[j])
            parted == DivergencePoint(card[i], card[j]) # None IN
        /\ relation = "different_concept" => parted
        /\ relation = "same_variant_family" => ~parted
        /\ AblateMatch(card[i], card[j], {}) = relation
=============================================================================
