----------------------------- MODULE Derivations -----------------------------
(***************************************************************************)
(* Links from a variant to one derived from it, and what changed between    *)
(* them (routes/derivations.py).  Every new link is reviewed in the         *)
(* background (services/derivation_review.py): the videos are fetched and   *)
(* measured, and what was measured replaces the factor unless a human has   *)
(* decided it; what cannot be measured goes to a judge, who only suggests.  *)
(*                                                                         *)
(* JudgeDecides (the judge's answer is written like a measurement) is a bug *)
(* the properties are known to catch: nothing below uses it.                *)
(***************************************************************************)
EXTENDS Naturals, FiniteSets

CONSTANTS Pairs,       \* pairs of variants of one creative
          Factors,     \* what may have changed, not counting "unknown"
          Measurable,  \* the factors a measurement can find
          Reviews,     \* background reviews
          MaxLinks, MaxEdits  \* bounds on links and on what people change

VARIABLES link,        \* variant_derivations: of each id
          graph,       \* DERIVED_FROM in Neo4j: of each pair, its factor or None
          suggestion,  \* derivation-factor suggestions: of each id, or None
          review,      \* each background review
          edits
vars == <<link, graph, suggestion, review, edits>>

None == "none"
NotDerived == "not-a-derivation"
Ids == 1..MaxLinks
NoLink == [alive |-> FALSE, pair |-> None, factor |-> None, reviewed |-> FALSE]
Idle == [pc |-> "idle", id |-> 0, factor |-> None, finds |-> None, open |-> FALSE]

Init ==
    /\ link = [i \in Ids |-> NoLink] /\ graph = [p \in Pairs |-> None]
    /\ suggestion = [i \in Ids |-> None] /\ review = [r \in Reviews |-> Idle] /\ edits = 0

Edit == edits < MaxEdits /\ edits' = edits + 1
Synced(p, factor) == graph' \in {graph, [graph EXCEPT ![p] = factor]}   \* Neo4j may be down
LinkOf(p) == {i \in Ids : link[i].alive /\ link[i].pair = p}
Fresh == {i \in Ids : link[i].pair = None /\ \A j \in Ids : j < i => link[j].pair # None}
Start(r, i) == /\ review[r].pc = "idle"
               /\ review' = [review EXCEPT ![r] = [Idle EXCEPT !.pc = "begin", !.id = i]]

-----------------------------------------------------------------------------
(* POST /derivations: a pair that is linked keeps its link and its factor,  *)
(* but giving a factor decides it.                                         *)
Create(p, f, r) ==
    /\ Edit
    /\ \E i \in IF LinkOf(p) # {} THEN LinkOf(p) ELSE Fresh :
        LET old == IF link[i].alive THEN link[i]
                   ELSE [alive |-> TRUE, pair |-> p, factor |-> f, reviewed |-> FALSE]
        IN /\ link' = [link EXCEPT ![i] =
                  [old EXCEPT !.reviewed = @ \/ f # "unknown"]]
           /\ Synced(p, old.factor) /\ Start(r, i)
    /\ UNCHANGED suggestion

(* PUT /derivations: another factor is a human's decision.                 *)
Update(i, f) ==
    /\ Edit /\ link[i].alive
    /\ link' = IF f = link[i].factor THEN link
               ELSE [link EXCEPT ![i].factor = f, ![i].reviewed = TRUE]
    /\ Synced(link[i].pair, f)
    /\ UNCHANGED <<suggestion, review>>

(* DELETE /derivations: its suggestion goes with it.                       *)
Delete(i) ==
    /\ Edit /\ link[i].alive
    /\ link' = [link EXCEPT ![i].alive = FALSE]
    /\ suggestion' = [suggestion EXCEPT ![i] = None]
    /\ Synced(link[i].pair, None)
    /\ UNCHANGED review

(* The inbox shows what differs from the factor; a human follows it.        *)
Shown == {i \in Ids : link[i].alive /\ suggestion[i] \notin {None, link[i].factor}}
Follow(i) ==
    /\ i \in Shown
    /\ IF suggestion[i] = NotDerived THEN Delete(i) ELSE Update(i, suggestion[i])

-----------------------------------------------------------------------------
(* review_derivation_edge reads the link; a decided one, or one between     *)
(* pictures, is left alone.                                                *)
Undecided(i) == link[i].alive /\ ~link[i].reviewed
Begin(r) ==
    /\ review[r].pc = "begin"
    /\ LET i == review[r].id
       IN IF Undecided(i)
          THEN \E finds \in Measurable \cup {NotDerived, "unclear"} :
                  review' = [review EXCEPT ![r] =
                      [pc |-> "write", id |-> i, factor |-> link[i].factor, finds |-> finds,
                       open |-> link[i].alive /\ ~link[i].reviewed]]
          ELSE review' = [review EXCEPT ![r] = Idle]
    /\ UNCHANGED <<link, graph, suggestion, edits>>

(* What it measured is written over the factor, whatever became of the link *)
(* meanwhile; that they are not related, and all that a judge of what could *)
(* not be measured answers, is a suggestion. It may also fail.              *)
JudgeDecides(r, answer) == answer \in Factors
Decides(r, answer) == review[r].finds \in Measurable
Answers(r) == IF review[r].finds \in Measurable \cup {NotDerived} THEN {review[r].finds}
              ELSE Factors \cup {NotDerived, None}
Finish(r) ==
    /\ review[r].pc = "write" /\ review' = [review EXCEPT ![r] = Idle]
    /\ LET i == review[r].id
       IN \E answer \in Answers(r) :
          \/ /\ Decides(r, answer) /\ answer # review[r].factor
             /\ link' = IF link[i].alive THEN [link EXCEPT ![i].factor = answer] ELSE link
             /\ Synced(link[i].pair, answer) /\ UNCHANGED suggestion
          \/ /\ ~Decides(r, answer) /\ answer # None
             /\ suggestion' = [suggestion EXCEPT ![i] = answer] /\ UNCHANGED <<link, graph>>
          \/ UNCHANGED <<link, graph, suggestion>>
    /\ UNCHANGED edits

Next ==
    \/ \E p \in Pairs, f \in Factors \cup {"unknown"}, r \in Reviews : Create(p, f, r)
    \/ \E i \in Ids : Delete(i) \/ Follow(i) \/ \E f \in Factors \cup {"unknown"} : Update(i, f)
    \/ \E r \in Reviews : Begin(r) \/ Finish(r)
Spec == Init /\ [][Next]_vars
-----------------------------------------------------------------------------
TypeOK ==
    /\ \A i \in Ids : /\ link[i].factor \in Factors \cup {"unknown", None}
                     /\ link[i].alive => link[i].pair \in Pairs
    /\ \A p \in Pairs : Cardinality(LinkOf(p)) <= 1
    /\ \A r \in Reviews : review[r].pc = "write" => link[review[r].id].pair \in Pairs

(* The system only measures: it removes and restores no link of the table,   *)
(* and it changes a factor only to what the review that is ending measured,  *)
(* of a link that was undecided when that review read it. What a judge      *)
(* thinks of a link, a factor one could measure too, changes it through a   *)
(* human or not at all.                                                    *)
ByMachine == edits' = edits
MachineStep ==
    ByMachine => \A i \in Ids :
        /\ link'[i].alive = link[i].alive /\ link'[i].reviewed = link[i].reviewed
        /\ link'[i].factor # link[i].factor =>
               /\ link'[i].factor \in Measurable
               /\ \E r \in Reviews : /\ review[r].id = i /\ review[r].open
                                     /\ review[r].finds = link'[i].factor
                                     /\ review'[r].pc = "idle"
MachineOnlyMeasures == [][MachineStep]_vars

(* models/derivation.py:62: what a human decided is neither corrected nor   *)
(* suggested on again.  Not kept by a review that read the link before.    *)
StandsStep ==
    \A i \in Ids : (ByMachine /\ link[i].reviewed) => link'[i].factor = link[i].factor
HumanFactorStands == [][StandsStep]_vars
=============================================================================
