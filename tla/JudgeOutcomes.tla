---------------------------- MODULE JudgeOutcomes ----------------------------
(***************************************************************************)
(* What judge_calibration reads out of the audit log: which automatic       *)
(* decisions people overrode, per kind, and whether a suggestion of the    *)
(* judge was accepted.  The log only grows, but not at its end: created_at  *)
(* is the time at which the writing transaction began, and one that began   *)
(* earlier may commit later.  A value is reduced to what the code compares: *)
(* the label without the prefix "auto:" and the reason in brackets, and for *)
(* a merge the creative whose id old_value names.  A transaction writes one *)
(* entry here.  (One that writes several gives them one timestamp, and of   *)
(* these one that accepts would win.)                                       *)
(*                                                                         *)
(* Last (the newest entry decides) is a bug the property is known to catch: *)
(* nothing below uses it.                                                  *)
(***************************************************************************)
EXTENDS Naturals

CONSTANTS Creatives, Labels,
          JudgeAnswers,   \* what the judge may say: kind, left, right, verdict
          MaxTime         \* bound on the transactions

VARIABLES logs,           \* edit_logs, each entry with its created_at
          now, begun,     \* the clock, and when the open transactions began
          said            \* judge_suggestions: an answer, its created_at (since),
                          \* and (history) when its verdict was given (judged)
vars == <<logs, now, begun, said>>

None == "none"
Derivation == "derivation"
Entry(e, f, a, auto, v, gone) ==
    [entity |-> e, field |-> f, action |-> a, auto |-> auto, value |-> v, gone |-> gone]

Entries ==
    {Entry(c, "dna_id", "update", auto, l, None) :
        c \in Creatives, auto \in BOOLEAN, l \in Labels \cup {""}}
    \cup {e \in {Entry(c, "creative", "merge", auto, "", d) :
                    c, d \in Creatives, auto \in BOOLEAN} : e.entity # e.gone}
    \cup {Entry(c, "observation_pair", "update", auto, "", None) :
             c \in Creatives, auto \in BOOLEAN}
    \cup {Entry(c, "cluster", "update", TRUE, "", None) : c \in Creatives}
    \cup {Entry(c, "name", a, FALSE, "", None) : c \in Creatives, a \in {"split", "rename"}}
    \cup {Entry(Derivation, f, "update", FALSE, l, None) :
             f \in {"verdict", "factor"}, l \in Labels}
    \cup {Entry(Derivation, "", "delete", FALSE, "", None)}

Init == logs = {} /\ now = 0 /\ begun = {} /\ said = {}

Begin ==
    /\ now < MaxTime
    /\ now' = now + 1 /\ begun' = begun \cup {now'}
    /\ UNCHANGED <<logs, said>>

Record(t) ==
    /\ t \in begun /\ begun' = begun \ {t}
    /\ \E e \in Entries : logs' = logs \cup {[at |-> t, e |-> e]}
    /\ UNCHANGED <<now, said>>

(* upsert_suggestion: a new verdict on the same subject overwrites the old   *)
(* one and leaves created_at alone.                                        *)
Subject(s) == <<s.kind, s.left, s.right>>
Suggest(t) ==
    /\ t \in begun /\ begun' = begun \ {t}
    /\ \E a \in JudgeAnswers :
         LET row == {s \in said : Subject(s) = Subject(a)}
             Row(since, judged) ==
                [kind |-> a.kind, left |-> a.left, right |-> a.right,
                 verdict |-> a.verdict, since |-> since, judged |-> judged]
             Renewed(s) == IF s.verdict = a.verdict THEN s ELSE Row(s.since, t)
         IN said' = (said \ row)
                      \cup (IF row = {} THEN {Row(t, t)} ELSE {Renewed(s) : s \in row})
    /\ UNCHANGED <<logs, now>>

(* delete_suggestion.                                                      *)
Forget(s) ==
    /\ said' = said \ {s}
    /\ UNCHANGED <<logs, now, begun>>

Next ==
    \/ Begin
    \/ \E t \in begun : Record(t) \/ Suggest(t)
    \/ \E s \in said : Forget(s)
Spec == Init /\ [][Next]_vars

-----------------------------------------------------------------------------
(* The automatic decisions and those that were overridden.                 *)
AutoKind(e) ==
    CASE e.field = "dna_id" -> "dna_assign"
      [] e.field # "dna_id" /\ e.action = "merge" -> "merge_pair"
      [] e.field = "cluster" -> "cluster"
      [] e.field = "observation_pair" -> "observation_pair"
      [] OTHER -> "other"

Decisions(k) == {l \in logs : l.e.auto /\ l.e.entity # Derivation /\ AutoKind(l.e) = k}
OverriddenBy(l, m) ==
    /\ m.at > l.at /\ m.e.entity = l.e.entity /\ ~m.e.auto
    /\ m.e.field = l.e.field \/ m.e.action \in {"split", "rename"}
Overridden(k) == {l \in Decisions(k) : \E m \in logs : OverriddenBy(l, m)}
Kinds == {"dna_assign", "merge_pair", "cluster", "observation_pair", "other"}

-----------------------------------------------------------------------------
(* What became of a suggestion: which of the entries since it was made       *)
(* decide it, and which of them accept it; the first one counts.            *)
Is(l, e, f) == l.e.entity = e /\ l.e.field = f
MergedAway(l, c) == l.e.action = "merge" /\ l.e.gone = c

(* A change by hand of the family, or the creative merged away.            *)
DnaEvent(s, l) == (Is(l, s.left, "dna_id") /\ ~l.e.auto) \/ MergedAway(l, s.left)
DnaAccepts(s, l) == Is(l, s.left, "dna_id") /\ l.e.value = s.verdict

(* A merge of the two or of one of them into a third; for a split, a ruling *)
(* about one of the two.                                                   *)
Pair(s) == {s.left, s.right}
OfThePair(s, l) == l.e.action = "merge" /\ {l.e.entity, l.e.gone} = Pair(s)
Ruled(s, l) == s.verdict # "merge" /\ l.e.entity \in Pair(s) /\ l.e.field = "observation_pair"
MergeEvent(s, l) ==
    \/ OfThePair(s, l)
    \/ l.e.action = "merge" /\ l.e.entity \notin Pair(s) /\ l.e.gone \in Pair(s)
    \/ Ruled(s, l)
MergeAccepts(s, l) == Ruled(s, l) \/ (OfThePair(s, l) /\ s.verdict = "merge")

(* The field the suggestion is about, or the derivation's removal.         *)
DerivationField(s) == IF s.kind = "verdict" THEN "verdict" ELSE "factor"
DerivationEvent(s, l) ==
    l.e.entity = s.left /\ (l.e.action = "delete" \/ l.e.field = DerivationField(s))
DerivationAccepts(s, l) ==
    IF l.e.action = "delete"
    THEN s.kind = "derivation-factor" /\ s.verdict = "not-a-derivation"
    ELSE l.e.value = s.verdict

Decides(s, l) == CASE s.kind = "dna_assign" -> DnaEvent(s, l)
                   [] s.kind = "merge_pair" -> MergeEvent(s, l)
                   [] s.kind \in {"verdict", "derivation-factor"} -> DerivationEvent(s, l)
                   [] OTHER -> FALSE
Accepts(s, l) == CASE s.kind = "dna_assign" -> DnaAccepts(s, l)
                   [] s.kind = "merge_pair" -> MergeAccepts(s, l)
                   [] OTHER -> DerivationAccepts(s, l)

Events(s) == {l \in logs : l.at > s.since /\ Decides(s, l)}
Last(s) == {l \in Events(s) : \A m \in Events(s) : l.at >= m.at}
First(s) == {l \in Events(s) : \A m \in Events(s) : l.at <= m.at}
Outcome(s) == IF Events(s) = {} THEN "pending"
              ELSE IF \E l \in First(s) : Accepts(s, l) THEN "accepted" ELSE "rejected"

-----------------------------------------------------------------------------
TypeOK ==
    /\ begun \subseteq 1..now /\ now <= MaxTime
    /\ \A l \in logs : l.at \in 1..now /\ l.e \in Entries
    /\ \A s \in said : s.since <= s.judged /\ s.judged <= now

(* An outcome may be revised while a transaction is open that began before   *)
(* the entry that decided it, and by another verdict of the judge.          *)
Settled(s) == /\ Outcome(s) # "pending"
              /\ \A t \in begun : \E l \in Events(s) : l.at < t

(* Otherwise it stands; and an override is never undone, whatever commits    *)
(* late, so that the numbers the brake relies on only grow.                 *)
StandStep ==
    /\ \A s \in said : Settled(s) /\ s \in said' => Outcome(s)' = Outcome(s)
    /\ \A k \in Kinds : /\ Decisions(k) \subseteq Decisions(k)'
                        /\ Overridden(k) \subseteq Overridden(k)'
JudgementsStand == [][StandStep]_vars

(* Acceptance is read off what people did after the suggestion               *)
(* (judge_calibration.py:10): what decides came after the verdict was given. *)
AnswersFollow == \A s \in said : \A l \in First(s) : l.at > s.judged
=============================================================================
