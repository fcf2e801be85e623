------------------------------ MODULE RuleWords ------------------------------
(***************************************************************************)
(* The words the rules go by, learnt from corrections                      *)
(* (services/rule_feedback.py) and confirmed by a human (routes/dnas.py).   *)
(* A correction is a family the system assigned and a human then changed;  *)
(* words of corrected creatives are scored by how much more often two       *)
(* creatives of one family share them than two of different families.  The  *)
(* classifier (services/dna_classifier.py) asks a model only where no rule   *)
(* finds a family, and only the model assigns by itself.                    *)
(*                                                                         *)
(* NeverAnswered (an automatic assignment stays open after a human answered *)
(* it) is a bug the properties are known to catch: nothing below uses it.   *)
(***************************************************************************)
EXTENDS Integers, Sequences, FiniteSets, FiniteSetsExt, SequencesExt

CONSTANTS Creatives, Families,
          Text(_),          \* the words of a creative's analysis
          Shipped(_),       \* ip_pack: the words of a target
          Theme(_, _),      \* the words of a family's mechanic or hook
          Handlers,         \* requests confirming a suggestion
          MinCorrections, MinSupport, MechanicMin, GenericMax,  \* scores in percent
          MaxWords,         \* MAX_RULE_SUGGESTIONS
          MaxLogs           \* bounds the assignments

VARIABLES family,           \* dna_id of each creative, or None
          logs,             \* edit_logs of dna_id: creative, automatic or not, label
          suggestions,      \* rule_keyword suggestions: a target and a word
          lists,            \* the settings: the words of each target
          cache,            \* the classifier's tables, read at most every minute
          confirm           \* each handler: its suggestion and the list it has read
vars == <<family, logs, suggestions, lists, cache, confirm>>

None == "none"
Targets == {"mechanic", "hook", "generic"}
Idle == [pc |-> "idle", on |-> {}, words |-> <<>>]

(* _resolve_keywords: what was confirmed stands in for what was shipped.    *)
Resolved(t) == IF lists[t] # <<>> THEN lists[t] ELSE Shipped(t)
Tables == [mechanic |-> Resolved("mechanic"), hook |-> Resolved("hook")]

Init ==
    /\ family \in [Creatives -> Families \cup {None}] /\ logs = <<>>
    /\ suggestions = {} /\ lists = [t \in Targets |-> <<>>] /\ cache = Tables
    /\ confirm = [h \in Handlers |-> Idle]

-----------------------------------------------------------------------------
Assigned(c, label, auto) ==
    /\ Len(logs) < MaxLogs
    /\ family' = [family EXCEPT ![c] = label]
    /\ logs' = Append(logs, [creative |-> c, auto |-> auto, label |-> label])
    /\ UNCHANGED <<suggestions, lists, confirm>>

(* _rule_suggest: the first word of a table that occurs, and a family of it. *)
Hit(c, words) == {words[i] : i \in {j \in DOMAIN words : /\ words[j] \in Text(c)
                                     /\ \A k \in 1..(j - 1) : words[k] \notin Text(c)}}
Ruled(c, tables) ==
    \E t \in {"mechanic", "hook"}, f \in Families : Hit(c, tables[t]) \cap Theme(f, t) # {}
Assign(c) ==
    /\ family[c] = None /\ cache' \in {cache, Tables} /\ ~Ruled(c, cache')
    /\ \E f \in Families : Assigned(c, f, TRUE)
Rule(c) == (\E f \in Families \cup {None} : Assigned(c, f, FALSE)) /\ UNCHANGED cache

-----------------------------------------------------------------------------
(* correction_samples walks each creative's logs: the first human label     *)
(* after an automatic one answers it.                                      *)
NeverAnswered(pending, c) == pending
Answered(pending, c) == [pending EXCEPT ![c] = None]
After(acc, log) ==
    IF log.label = None THEN acc
    ELSE IF log.auto THEN [acc EXCEPT !.pending[log.creative] = log.label]
    ELSE [pending |-> Answered(acc.pending, log.creative),
          found |-> IF acc.pending[log.creative] \in {None, log.label} THEN acc.found
                    ELSE Append(acc.found, log.creative)]
Corrections ==
    FoldLeft(After, [pending |-> [c \in Creatives |-> None], found |-> <<>>], logs).found

(* score_candidates counts pairs by how many creatives share the word.      *)
In(f) == {c \in Creatives : family[c] = f}
Having(w, f) == {c \in In(f) : w \in Text(c)}
Pairs(n) == (n * (n - 1)) \div 2
Placed == {c \in Creatives : family[c] # None}
SamePairs == MapThenSumSet(LAMBDA f : Pairs(Cardinality(In(f))), Families)
CrossPairs == Pairs(Cardinality(Placed)) - SamePairs
Support(w) == Cardinality({c \in Placed : w \in Text(c)})
SameHits(w) == MapThenSumSet(LAMBDA f : Pairs(Cardinality(Having(w, f))), Families)
CrossHits(w) == Pairs(Support(w)) - SameHits(w)

(* The score in percent, times both numbers of pairs: as a fraction.        *)
ScoreAtLeast(w, min) ==
    100 * SameHits(w) * CrossPairs >= min * SamePairs * CrossPairs + 100 * CrossHits(w) * SamePairs
ScoreAtMost(w, max) ==
    100 * SameHits(w) * CrossPairs <= max * SamePairs * CrossPairs + 100 * CrossHits(w) * SamePairs
TargetOf(w) ==
    IF ScoreAtLeast(w, MechanicMin) THEN "mechanic"
    ELSE IF ScoreAtMost(w, GenericMax) THEN "generic" ELSE "hook"

Known == UNION {ToSet(Shipped(t)) \cup ToSet(lists[t]) : t \in Targets}
Pool == (UNION {Text(c) : c \in Range(Corrections)}) \ Known
Candidates ==
    IF SamePairs = 0 \/ CrossPairs = 0 THEN {}
    ELSE {[target |-> TargetOf(w), word |-> w] : w \in {v \in Pool : Support(v) >= MinSupport}}

(* Those that tell most either way are taken; of equals, any.               *)
Gap(w) == SameHits(w) * CrossPairs - CrossHits(w) * SamePairs
Telling(w) == IF Gap(w) < 0 THEN -Gap(w) ELSE Gap(w)
Most == {taken \in SUBSET Candidates :
            /\ Cardinality(taken) = Min({MaxWords, Cardinality(Candidates)})
            /\ \A s \in taken, t \in Candidates \ taken : Telling(s.word) >= Telling(t.word)}

Mine ==
    /\ Len(Corrections) >= MinCorrections
    /\ \E taken \in Most : suggestions' = suggestions \cup taken
    /\ UNCHANGED <<family, logs, lists, cache, confirm>>

-----------------------------------------------------------------------------
(* A confirmation reads the list and writes it back with the word.          *)
ReadList(h) ==
    /\ confirm[h].pc = "idle"
    /\ \E s \in suggestions :
        confirm' = [confirm EXCEPT ![h] = [pc |-> "write", on |-> {s}, words |-> lists[s.target]]]
    /\ UNCHANGED <<family, logs, suggestions, lists, cache>>
WriteList(h) ==
    /\ confirm[h].pc = "write"
    /\ \E s \in confirm[h].on :
        /\ lists' = IF s.word \notin ToSet(confirm[h].words)
                    THEN [lists EXCEPT ![s.target] = Append(confirm[h].words, s.word)]
                    ELSE IF s.target = "generic"
                    THEN [lists EXCEPT ![s.target] = confirm[h].words] ELSE lists
        /\ suggestions' = suggestions \ {s}
    /\ confirm' = [confirm EXCEPT ![h] = Idle]
    /\ UNCHANGED <<family, logs, cache>>
Dismiss ==
    /\ \E s \in suggestions : suggestions' = suggestions \ {s}
    /\ UNCHANGED <<family, logs, lists, cache, confirm>>

Next ==
    \/ \E c \in Creatives : Assign(c) \/ Rule(c)
    \/ Mine \/ Dismiss
    \/ \E h \in Handlers : ReadList(h) \/ WriteList(h)
Spec == Init /\ [][Next]_vars

-----------------------------------------------------------------------------
(* What is mined is fair. Every correction is one automatic assignment and  *)
(* the first human one after it: nobody's change of mind counts as a second *)
(* correction. A word that is mined is new, comes from a creative somebody  *)
(* corrected, and is ranked by its pairs: the share of same-family pairs    *)
(* with the word less the share of other pairs with it, counted pair by pair. *)
Labelled(i) == logs[i].label # None
Corrects(i, j) ==
    /\ i < j /\ logs[i].auto /\ ~logs[j].auto /\ Labelled(i) /\ Labelled(j)
    /\ logs[i].creative = logs[j].creative /\ logs[i].label # logs[j].label
    /\ \A k \in (i + 1)..(j - 1) : Labelled(k) => logs[k].creative # logs[i].creative
Corrected == {j \in DOMAIN logs : \E i \in DOMAIN logs : Corrects(i, j)}
Couples(Same(_, _)) == {p \in kSubset(2, Placed) : \A c, d \in p : c # d => Same(c, d)}
Share(w, pairs) == Cardinality({p \in pairs : \A c \in p : w \in Text(c)})
Alike(c, d) == family[c] = family[d]
Apart(c, d) == family[c] # family[d]
Difference(w) == 100 * (Share(w, Couples(Alike)) * Cardinality(Couples(Apart)))
Against(w) == 100 * (Share(w, Couples(Apart)) * Cardinality(Couples(Alike)))
Unit == Cardinality(Couples(Alike)) * Cardinality(Couples(Apart))
RankedRight(s) ==
    /\ s.target = "mechanic" <=> Difference(s.word) >= MechanicMin * Unit + Against(s.word)
    /\ s.target = "hook" => Difference(s.word) > GenericMax * Unit + Against(s.word)
MineStep ==
    Mine => /\ Len(Corrections) = Cardinality(Corrected)
            /\ \A s \in suggestions' \ suggestions :
                   /\ \A t \in Targets : s.word \notin ToSet(Shipped(t) \o lists[t])
                   /\ RankedRight(s)
                   /\ \E j \in Corrected : s.word \in Text(logs[j].creative)
MinedFairly == [][MineStep]_vars

(* rule_feedback.py:131 takes the words that were shipped to be in the      *)
(* tables, next to the confirmed ones, and so never suggests them: each is  *)
(* a word the classifier goes by. The first word that is confirmed puts all *)
(* shipped ones of its table out of use, and none can be learnt again: not   *)
(* kept.                                                                   *)
KnownWordsApply ==
    \A t \in {"mechanic", "hook"} : ToSet(Shipped(t)) \subseteq ToSet(Resolved(t))
=============================================================================
