--------------------------- MODULE FamilyProposals ---------------------------
(***************************************************************************)
(* suggest_families: the scattered creatives go to the model in batches,   *)
(* its answers are cleaned and collected into proposals for new families   *)
(* and attachments to existing ones, what is still scattered is asked about *)
(* once more, and the result replaces the suggestions of the last run.  An  *)
(* answer is a short list of new families and one of merges; it may name a  *)
(* creative twice, one of another batch, a family nobody proposed or a code *)
(* that does not exist.                                                    *)
(*                                                                         *)
(* AllOfThem (the rescue asks about everything) is the bug the property is *)
(* known to catch: nothing below uses it.                                  *)
(***************************************************************************)
EXTENDS Naturals, Sequences, FiniteSetsExt

CONSTANTS Batches,     \* the batches, sets of creatives in order
          Names,       \* names the model gives to new families
          Codes,       \* codes it refers to
          Confirmed,   \* those of the active families
          MaxItems     \* bound on the items of an answer

VARIABLES step,        \* the batch that comes next, then rescue, write, done
          proposals,   \* new families: name and members
          attaches,    \* members for each confirmed code
          written      \* judge_suggestions: code or None, which of the new ones, members
vars == <<step, proposals, attaches, written>>

None == "none"
All == UNION {Batches[i] : i \in DOMAIN Batches}
NewFamilies(b) == [name : Names, members : SUBSET b]
Merges(b) == [kind : {"family"}, to : Names, members : SUBSET b]
                \cup [kind : {"code"}, to : Codes, members : SUBSET b]
Answers(b) == UNION {[new : [1..n -> NewFamilies(b)], merges : [1..(m - n) -> Merges(b)]] :
                         n \in 0..MaxItems, m \in 0..MaxItems}

(* _parse_response keeps the ids that were asked about, each where it is    *)
(* named first, the new families before the merges.                        *)
Mentioned(items) == UNION {items[i].members : i \in DOMAIN items}
Earlier(items, i) == UNION {items[j].members : j \in 1..(i - 1)}
Cleaned(items, asked, seen) ==
    [i \in DOMAIN items |-> [items[i] EXCEPT !.members = (@ \cap asked) \ (seen \cup Earlier(items, i))]]
ToNew(a, asked) == Cleaned(a.new, asked, {})
ToMerge(a, asked) == Cleaned(a.merges, asked, Mentioned(a.new))

(* _apply_merges: to the attachment of a confirmed code, or to the last    *)
(* proposal of that name; an unknown target drops the members.             *)
Named(a, k, n) == UNION {a[i].members : i \in {j \in DOMAIN a : a[j].kind = k /\ a[j].to = n}}
LastOf(ps, n) == Max({i \in DOMAIN ps : ps[i].name = n})
Merged(ps, a) ==
    [i \in DOMAIN ps |-> IF i = LastOf(ps, ps[i].name)
                         THEN [ps[i] EXCEPT !.members = @ \cup Named(a, "family", ps[i].name)]
                         ELSE ps[i]]
Attached(at, a) == [c \in Confirmed |-> at[c] \cup Named(a, "code", c)]

(* The inbox may hold a proposal of an earlier run.                         *)
Suggestion(c, i, members) == [code |-> c, nth |-> i, members |-> members]
Init == /\ step = 1 /\ proposals = <<>> /\ attaches = [c \in Confirmed |-> {}]
        /\ written \in {{}, {Suggestion(None, 0, All)}}

(* One batch: two unusable answers count as none.  A merge names a family  *)
(* of an earlier batch; those of this answer are added after it.           *)
ProposeBatch ==
    /\ step \in DOMAIN Batches
    /\ \E a \in Answers(All) :
         LET merges == ToMerge(a, Batches[step])
         IN /\ proposals' = Merged(proposals, merges) \o ToNew(a, Batches[step])
            /\ attaches' = Attached(attaches, merges)
    /\ step' = step + 1 /\ UNCHANGED written

(* The rescue asks about what no proposal mentions and takes merges only.  *)
Referenced == Mentioned(proposals) \cup UNION {attaches[c] : c \in Confirmed}
AllOfThem == All
Scatter == All \ Referenced
RescueScatter ==
    /\ step = Len(Batches) + 1
    /\ \E a \in Answers(All) :
         /\ proposals' = Merged(proposals, ToMerge(a, Scatter))
         /\ attaches' = Attached(attaches, ToMerge(a, Scatter))
    /\ step' = step + 1 /\ UNCHANGED written

(* Proposals with fewer than two members are not kept; without any that is *)
(* the old suggestions stay.                                               *)
Worthy == {Suggestion(None, i, proposals[i].members) :
              i \in {j \in DOMAIN proposals : \E c, d \in proposals[j].members : c # d}}
          \cup {Suggestion(c, 0, attaches[c]) : c \in {d \in Confirmed : attaches[d] # {}}}
Write ==
    /\ step = Len(Batches) + 2
    /\ written' = IF Worthy # {} THEN Worthy ELSE written
    /\ step' = step + 1 /\ UNCHANGED <<proposals, attaches>>

Next == ProposeBatch \/ RescueScatter \/ Write
Spec == Init /\ [][Next]_vars

-----------------------------------------------------------------------------
TypeOK ==
    /\ step \in 1..(Len(Batches) + 3)
    /\ proposals \in Seq(NewFamilies(All)) /\ attaches \in [Confirmed -> SUBSET All]
    /\ \A s \in written : s.code \in Confirmed \cup {None} /\ s.members \subseteq All

(* A creative is in at most one proposal, whatever the model answers, and   *)
(* the inbox offers it once.                                               *)
Apart ==
    /\ \A i, j \in DOMAIN proposals :
         i # j => proposals[i].members \cap proposals[j].members = {}
    /\ \A c \in Confirmed :
         /\ \A i \in DOMAIN proposals : attaches[c] \cap proposals[i].members = {}
         /\ \A d \in Confirmed : c # d => attaches[c] \cap attaches[d] = {}
FamiliesDisjoint == Apart /\ \A s, t \in written : s # t => s.members \cap t.members = {}
=============================================================================
