------------------------------ MODULE MergeInbox ------------------------------
(***************************************************************************)
(* The merge candidates of the review queue (services/review.py): three    *)
(* channels, each computed on read from the creatives, the rulings, the    *)
(* judge's suggestions and the observed pairs, which come from Neo4j        *)
(* through a cache of the process (services/graph_sync.py).                *)
(*                                                                         *)
(* RecallRuled (the scanner's channel does not look at the rulings) is a   *)
(* bug the property is known to catch: nothing below uses it.              *)
(***************************************************************************)
EXTENDS Naturals, FiniteSets, FiniteSetsExt

CONSTANTS Creatives,      \* ids: numbers
          Keys,           \* file names without their market prefix
          FirstName(_), NewName(_),  \* a creative's name, and the one it may be given
          Bands,          \* sets of pairs of names, those whose texts are borderline similar
          CaseRulings,    \* pairs of names in docs/case-rulings.json
          Concluded,      \* pairs people may have closed before
          BorderlineLimit, MaxActs   \* MaxActs bounds the changes

VARIABLES name, state,    \* of each creative: "active", "archived" or "gone"
          files,          \* the keys of each creative's files
          band,           \* the pairs of names that are borderline similar
          rulings,        \* split_rulings
          suggested,      \* the pairs with the verdict merge
          edges, up,      \* SIMILAR_TO, and whether Neo4j answers
          cache,          \* the pairs this process remembers, or Nothing
          reader,         \* a request: its pc, and what it has read so far
          page, judged,   \* what it answers, and what the judge would be asked
          touched,        \* pairs that something happened to since it began
          acts
data == <<name, state, files, band, rulings, suggested, edges, up>>
vars == <<data, cache, reader, page, judged, touched, acts>>

Pairs == kSubset(2, Creatives)
Nothing == {Creatives}            \* no set of pairs
Waiting == [pc |-> "idle", seen |-> {}, ruled |-> {}, filed |-> {}, names |-> <<>>,
            current |-> {}]

Init ==
    /\ name = [c \in Creatives |-> FirstName(c)] /\ state = [c \in Creatives |-> "active"]
    /\ files \in [Creatives -> SUBSET Keys] /\ band \in Bands
    /\ rulings \in SUBSET {[names |-> {FirstName(c) : c \in p}, ids |-> p] : p \in Concluded}
    /\ suggested \in SUBSET Pairs /\ edges = {} /\ up = TRUE
    /\ cache = Nothing /\ reader = Waiting /\ page = {} /\ judged = {}
    /\ touched = {} /\ acts = 0

-----------------------------------------------------------------------------
(* What people, the judge and the graph do, between any two reads of a      *)
(* request.                                                                *)
NoAnswer == page' = {} /\ judged' = {}
Act(pairs) ==
    /\ acts < MaxActs /\ acts' = acts + 1 /\ NoAnswer /\ UNCHANGED reader
    /\ touched' = IF reader.pc = "idle" THEN {} ELSE touched \cup pairs
Names(p) == {name[c] : c \in p}
With(c) == {p \in Pairs : c \in p}

Observe(p) ==
    /\ Act({}) /\ up /\ p \notin edges /\ \A c \in p : state[c] # "gone"
    /\ edges' = edges \cup {p} /\ cache' = Nothing
    /\ UNCHANGED <<name, state, files, band, rulings, suggested, up>>
Conclude(p) ==
    /\ Act({q \in Pairs : Names(q) = Names(p)}) /\ up /\ p \in edges
    /\ rulings' = rulings \cup {[names |-> Names(p), ids |-> p]}
    /\ edges' = edges \ {p} /\ cache' = Nothing
    /\ UNCHANGED <<name, state, files, band, suggested, up>>
Suggest(p) ==   \* the judge answers merge, or revises what it answered
    /\ Act({p}) /\ \A c \in p : state[c] # "gone"
    /\ suggested' \in {suggested \cup {p}, suggested \ {p}}
    /\ UNCHANGED <<name, state, files, band, rulings, edges, up, cache>>
Rename(c) ==
    /\ Act(With(c)) /\ state[c] # "gone" /\ name' = [name EXCEPT ![c] = NewName(c)]
    /\ UNCHANGED <<state, files, band, rulings, suggested, edges, up, cache>>
SetState(c) ==
    /\ Act(With(c)) /\ state[c] # "gone"
    /\ \E s \in {"active", "archived", "gone"} \ {state[c]} :
           /\ state' = [state EXCEPT ![c] = s]
           /\ edges' = {p \in edges : s = "gone" => c \notin p}
    /\ UNCHANGED <<name, files, band, rulings, suggested, up, cache>>
Neo4j == /\ Act({}) /\ up' = ~up
         /\ UNCHANGED <<name, state, files, band, rulings, suggested, edges, cache>>
Expire == /\ cache # Nothing /\ cache' = Nothing /\ NoAnswer
          /\ UNCHANGED <<data, reader, touched, acts>>

-----------------------------------------------------------------------------
(* A request reads, one after the other: the observed pairs, the rulings,   *)
(* the creatives of the files, all creatives (those it has already met keep *)
(* the name they were met under), and the suggestions.                     *)
Current == {c \in Creatives : state[c] = "active"}
Reads(from, to) ==
    reader.pc = from /\ reader' = to /\ NoAnswer /\ UNCHANGED <<data, acts>>

LookUp ==
    /\ Reads("idle", [Waiting EXCEPT
                        !.pc = IF cache = Nothing /\ up THEN "remember" ELSE "rulings",
                        !.seen = IF cache # Nothing THEN cache ELSE IF up THEN edges ELSE {}])
    /\ touched' = {} /\ UNCHANGED cache
Remember ==
    /\ Reads("remember", [reader EXCEPT !.pc = "rulings"])
    /\ cache' = reader.seen /\ UNCHANGED touched
ReadRulings ==
    /\ Reads("rulings", [reader EXCEPT !.pc = "files",
                            !.ruled = {r.names : r \in rulings} \cup {r.ids : r \in rulings}])
    /\ UNCHANGED <<cache, touched>>
ReadFiles ==
    /\ Reads("files", [reader EXCEPT !.pc = "creatives", !.names = name,
                          !.filed = {c \in Current : files[c] # {}}])
    /\ UNCHANGED <<cache, touched>>
ReadCreatives ==
    /\ Reads("creatives", [reader EXCEPT !.pc = "suggestions", !.current = Current,
                !.names = [c \in Creatives |->
                               IF c \in reader.filed THEN reader.names[c] ELSE name[c]]])
    /\ UNCHANGED <<cache, touched>>

-----------------------------------------------------------------------------
(* The candidates, by what the request has read.                           *)
Called(p) == {reader.names[c] : c \in p}
Handled(p) == p \in reader.seen \/ Called(p) \in reader.ruled
Item(channel, p) == [channel |-> channel, pair |-> p]

(* H1: the same file in several creatives. Of each group only the pair of  *)
(* whichever creative comes first with the smallest other is looked at.    *)
Group(k) == {c \in reader.filed : k \in files[c]}
TwinOf(k, first) == {first, Min(Group(k) \ {first})}
Twins(first) ==
    {Item("twins", TwinOf(k, first[k])) :
        k \in {g \in Keys : Cardinality(Group(g)) >= 2 /\ ~Handled(TwinOf(g, first[g]))}}

(* H2: borderline similar, best first.                                     *)
Score(p) == Max(p) * 10 + Min(p)
InBand == {p \in Pairs : p \subseteq reader.current /\ Called(p) \in band /\ ~Handled(p)
                         /\ Called(p) \notin CaseRulings}
Best(pairs, cap) == {p \in pairs : Cardinality({q \in pairs : Score(q) > Score(p)}) < cap}
Borderline(cap) == {Item("borderline", p) : p \in Best(InBand, cap)}

(* H3: what the scanner found and the judge would merge.                   *)
RecallRuled(p) == p \notin reader.seen
Recallable(p) == ~Handled(p)
Recalled(shown) ==
    {Item("recall", p) : p \in {q \in suggested : q \subseteq reader.current /\ Recallable(q)
                                  /\ q \notin {i.pair : i \in shown}}}

Candidates(first, cap) ==
    LET shown == Twins(first) \cup Borderline(cap)
    IN shown \cup Recalled(shown)

(* merge_candidates_page: a pair is shown once, for the first channel.     *)
Deduped(items) ==
    {i \in items : i.channel = "twins" \/ Item("twins", i.pair) \notin items}

Answer ==   \* the suggestions are read last, and at once answered with
    /\ reader.pc = "suggestions" /\ reader' = Waiting
    /\ \E first \in [Keys -> Creatives] :
        /\ \A k \in Keys : Group(k) # {} => first[k] \in Group(k)
        /\ page' = Deduped(Candidates(first, Cardinality(Pairs)))
        /\ judged' = Candidates(first, BorderlineLimit)
    /\ touched' = {} /\ UNCHANGED <<data, cache, acts>>

Change ==
    \/ \E p \in Pairs : Observe(p) \/ Conclude(p) \/ Suggest(p)
    \/ \E c \in Creatives : Rename(c) \/ SetState(c)
    \/ Neo4j \/ Expire
Read == LookUp \/ Remember \/ ReadRulings \/ ReadFiles \/ ReadCreatives
Next == Change \/ Read \/ Answer
Spec == Init /\ [][Next]_vars

-----------------------------------------------------------------------------
(* The page shows a pair once, whichever channels found it.  Of the pairs   *)
(* that nothing happens to while the request goes through the tables, it   *)
(* shows none that people closed under these names, archived or lost, and  *)
(* each open one the judge would merge; and whatever the judge would be    *)
(* asked by the same reads is on the page too.                             *)
PairsOf(items) == {i.pair : i \in items}
Open(p) == p \subseteq Current /\ Names(p) \notin {r.names : r \in rulings}
PageStep ==
    Answer =>
        /\ \A i, j \in page' : i.pair = j.pair => i = j
        /\ \A i \in page' : i.pair \in touched \/ Open(i.pair)
        /\ {p \in suggested : Open(p)} \ (touched \cup reader.seen) \subseteq PairsOf(page')
        /\ PairsOf(judged') \subseteq PairsOf(page')
InboxIsOpen == [][PageStep]_vars

(* review.py:247: a pair that was ruled on is excluded for good.  The code *)
(* collects the ids of the rulings as well, but compares names only: a pair *)
(* comes back when one of the two is renamed.                              *)
RuledStep == Answer => \A i \in page' : i.pair \notin {r.ids : r \in rulings}
RuledStaysAway == [][RuledStep]_vars

(* review.py:310: pairs that the case book has split are decided and must   *)
(* not resurface as candidates.  Only the borderline channel asks it.      *)
CaseStep == Answer => \A i \in page' : i.pair \in touched \/ Names(i.pair) \notin CaseRulings
CaseRulingsStayAway == [][CaseStep]_vars
=============================================================================
