-------------------------- MODULE ObservationPairs --------------------------
(***************************************************************************)
(* Observation pairs: two creatives kept apart until their performance     *)
(* tells.  A pair lives in three places that share no transaction: its     *)
(* observation_pairs row and its split_rulings row in Postgres, and the    *)
(* SIMILAR_TO edge in Neo4j.  HTTP handlers register, close and reopen     *)
(* pairs; each worker runs run_observation_cycle, which aligns rows with   *)
(* edges and evaluates the open pairs one by one.                          *)
(*                                                                         *)
(* A handler is three steps: read the row, change the edge (visible at     *)
(* once), commit the row and the ruling.  A cycle loads its rows, then     *)
(* takes, evaluates and commits one pair after the other in one session,   *)
(* whose identity map keeps every row as it was FIRST loaded: SELECT FOR   *)
(* UPDATE locks the row and does not refresh the object.  A commit writes  *)
(* the columns whose value differs from the loaded one.                    *)
(*                                                                         *)
(* Which pairs are due, what the policy says of one and when the cache of  *)
(* edges times out are left open.  Creatives are never deleted here, and a *)
(* bulk request is one request per pair.                                   *)
(*                                                                         *)
(* UncompensatedClose, BarIgnored, LinkUnchecked, SyncAddsNothing and       *)
(* ReopenUnbarred are the bugs the properties are known to catch: nothing   *)
(* below uses them.                                                        *)
(***************************************************************************)
EXTENDS Naturals

CONSTANTS
    Pairs,       \* unordered pairs of creatives (canonical_ids)
    Handlers,    \* HTTP requests served at once
    Workers,     \* worker processes
    Offered,     \* the operations clients ask for, of Ops
    Ruled,       \* pairs that may have a ruling from before their rows existed
    MaxRulings,  \* bound: reopening stops at this many rulings of a pair
    MaxFaults,   \* bound on failed Neo4j calls, failed commits and crashes
    NoPair

ASSUME PairsAssumption == NoPair \notin Pairs
ASSUME BoundsAssumption == MaxRulings \in Nat /\ MaxFaults \in Nat
ASSUME RuledAssumption == Ruled \subseteq Pairs

Open == {"observing", "actionable"}
RowStatus == {"none", "resolved_split"} \cup Open

(* An observation_pairs row ("none" is no row); barred is auto_disabled.   *)
Row == [status : RowStatus, barred : BOOLEAN]
NoRow == [status |-> "none", barred |-> FALSE]
NewRow == [status |-> "observing", barred |-> FALSE]

(* A split_rulings row; no tells apart the rulings a pair had one after    *)
(* the other, as their ids do.                                             *)
RulingSource == {"none", "inbox_close", "auto_observation"}
Ruling == [source : RulingSource, no : Nat]
NewRuling(r, source) == [source |-> source, no |-> r.no + 1]
NoRuling(r) == [r EXCEPT !.source = "none"]

(* A row in a session: as it was loaded and as the code has left it.       *)
Object == [loaded : Row, value : Row]
Unloaded == [loaded |-> NoRow, value |-> NoRow]
Load(r) == [loaded |-> r, value |-> r]
Dirty(o) == o.value # o.loaded

(* The UPDATE or INSERT of a unit of work. *)
Flush(current, o) ==
    [status |-> IF o.value.status = o.loaded.status THEN current.status
                                                    ELSE o.value.status,
     barred |-> IF o.value.barred = o.loaded.barred THEN current.barred
                                                    ELSE o.value.barred]

Ops == {"link", "bulk", "close", "reopen"}
ASSUME OfferedAssumption == Offered \subseteq Ops
Registers == {"link", "bulk"}
(* The edge an operation asks of Neo4j. *)
Edge(op) == op # "close"

VARIABLES
    row,      \* the observation_pairs row, per pair
    ruling,   \* the split_rulings row, per pair
    edge,     \* is there a SIMILAR_TO edge, per pair
    request,  \* what each handler is doing
    cycle,    \* where each worker is in run_observation_cycle
    object,   \* the rows in each cycle's session
    cached,   \* each worker's _similar_pairs_cache
    faults,   \* faults so far
    marks     \* history, per pair

store == <<row, ruling, edge>>
runner == <<cycle, object, cached>>
vars == <<row, ruling, edge, request, cycle, object, cached, faults, marks>>

(* "raced":    somebody else moved the pair between two steps of an        *)
(*             operation on it.                                            *)
(* "lost":     a fault left the edge changed and the rows not.             *)
(* "overruled": a single registration ignored a ruling.                    *)
Marks == {"raced", "lost", "overruled"}
Mark(p, ms) == marks' = [marks EXCEPT ![p] = @ \cup ms]
RacedIf(test) == IF test THEN {"raced"} ELSE {}

Fault == faults < MaxFaults /\ faults' = faults + 1

(* What a handler knows of its pair. *)
State == [row : Row, ruling : Ruling, edge : BOOLEAN]
StateOf(p) == [row |-> row[p], ruling |-> ruling[p], edge |-> edge[p]]
Nothing == [row |-> NoRow, ruling |-> [source |-> "none", no |-> 0],
            edge |-> FALSE]

Request == [op : Ops \cup {"none"}, pair : Pairs \cup {NoPair},
            stage : {"idle", "read", "changed", "undoing"}, seen : State]
NoRequest == [op |-> "none", pair |-> NoPair, stage |-> "idle",
              seen |-> Nothing]

Cycle == [stage : {"idle", "between", "taken", "committing", "aborting"},
          todo : SUBSET Pairs, pair : Pairs \cup {NoPair},
          closing : BOOLEAN, found : Ruling]
NoCycle == [stage |-> "idle", todo |-> {}, pair |-> NoPair,
            closing |-> FALSE, found |-> Nothing.ruling]

(* The cache of SIMILAR_TO edges: kept until its TTL or an invalidation.   *)
Cache == [kept : BOOLEAN, edges : SUBSET Pairs]
NoCache == [kept |-> FALSE, edges |-> {}]

(* The row lock a cycle holds from FOR UPDATE to its commit. *)
Locked(p) == \E w \in Workers :
    cycle[w].pair = p /\ cycle[w].stage \in {"taken", "committing"}

(* A session has flushed an INSERT of the pair's row: another INSERT waits *)
(* for the outcome (uq_observation_pair).                                  *)
Inserting(p) ==
    \/ \E h \in Handlers : /\ request[h].pair = p /\ request[h].seen.row = NoRow
                          /\ request[h].stage # "undoing"
    \/ \E w \in Workers : object[w][p].loaded = NoRow /\ Dirty(object[w][p])

----------------------------------------------------------------------------
(* Edges and rulings may be older than the table of rows. *)
Init ==
    /\ row = [p \in Pairs |-> NoRow]
    /\ \E old \in SUBSET Ruled :
        /\ ruling = [p \in Pairs |->
              IF p \in old THEN [source |-> "inbox_close", no |-> 1]
                           ELSE Nothing.ruling]
        /\ edge \in {e \in [Pairs -> BOOLEAN] : \A p \in old : ~e[p]}
    /\ request = [h \in Handlers |-> NoRequest]
    /\ cycle = [w \in Workers |-> NoCycle]
    /\ object = [w \in Workers |-> [p \in Pairs |-> Unloaded]]
    /\ cached = [w \in Workers |-> NoCache]
    /\ faults = 0
    /\ marks = [p \in Pairs |-> {}]

----------------------------------------------------------------------------
(* HTTP handlers. *)

Answer(h) == request' = [request EXCEPT ![h] = NoRequest]

LinkUnchecked(op, p) == op = "bulk" => ruling[p].source = "none"

(* The checks that end in a 404 or 409, before anything is changed: only   *)
(* the bulk endpoint looks for a ruling.                                   *)
Registrable(op, p) ==
    /\ row[p].status # "resolved_split"
    /\ op = "bulk" => ruling[p].source = "none"
Admitted(op, p) ==
    \/ op \in Registers /\ Registrable(op, p)
    \/ op = "close"
    \/ op = "reopen" /\ ruling[p].source = "auto_observation"
                     /\ ruling[p].no < MaxRulings

Read(h, op, p) ==
    /\ request[h].stage = "idle"
    /\ op \in Offered /\ Admitted(op, p)
    /\ row[p] = NoRow => ~Inserting(p)
    /\ request' = [request EXCEPT ![h] = [op |-> op, pair |-> p,
                                  stage |-> "read", seen |-> StateOf(p)]]
    /\ UNCHANGED <<store, runner, faults, marks>>

(* link_similar or unlink_similar; close looks for a ruling only now. *)
ChangeEdge(h) ==
    LET r == request[h]
        p == r.pair
    IN
    /\ r.stage = "read"
    /\ edge' = [edge EXCEPT ![p] = Edge(r.op)]
    /\ request' = [request EXCEPT
          ![h].stage = "changed",
          ![h].seen.edge = Edge(r.op),
          ![h].seen.ruling = IF r.op = "close" THEN ruling[p] ELSE @]
    /\ Mark(p, RacedIf(StateOf(p) # r.seen)
                 \cup (IF r.op \in Registers /\ ruling[p].source # "none"
                       THEN {"overruled"} ELSE {}))
    /\ UNCHANGED <<row, ruling, runner, faults>>

(* Neo4j refuses: the handler answers 502; reopen still compensates. *)
GraphFails(h) ==
    LET r == request[h] IN
    /\ r.stage = "read"
    /\ Fault
    /\ IF r.op = "reopen"
       THEN request' = [request EXCEPT ![h].stage = "undoing"]
       ELSE Answer(h)
    /\ UNCHANGED <<store, runner, marks>>

ReopenUnbarred(op, r) ==
    [r EXCEPT !.status = IF op = "close" THEN "resolved_split" ELSE "observing"]

(* The row as the handler leaves it. *)
Target(op, r) ==
    CASE op \in Registers -> [r EXCEPT !.status = "observing"]
      [] op = "close" -> [r EXCEPT !.status = "resolved_split"]
      [] op = "reopen" -> [status |-> "observing", barred |-> TRUE]

(* close adds a ruling unless it found one; whoever closed meanwhile made  *)
(* the INSERT violate uq_split_ruling_pair.                                *)
Closed(current, seen) ==
    IF seen.source = "none" THEN NewRuling(current, "inbox_close") ELSE current
Conflicts(h) == /\ request[h].op = "close"
                /\ request[h].seen.ruling.source = "none"
                /\ ruling[request[h].pair].source # "none"

(* The ruling after the commit; reopen deletes the one it has read. *)
RulingAfter(op, current, seen) ==
    CASE op \in Registers -> current
      [] op = "close" -> Closed(current, seen)
      [] op = "reopen" -> IF current = seen THEN NoRuling(current) ELSE current

Commit(h) ==
    LET r == request[h]
        p == r.pair
    IN
    /\ r.stage = "changed" /\ ~Locked(p) /\ ~Conflicts(h)
    /\ row' = [row EXCEPT ![p] = Flush(@,
                 [loaded |-> r.seen.row, value |-> Target(r.op, r.seen.row)])]
    /\ ruling' = [ruling EXCEPT ![p] = RulingAfter(r.op, @, r.seen.ruling)]
    /\ Answer(h)
    /\ Mark(p, RacedIf(StateOf(p) # r.seen))
    /\ UNCHANGED <<edge, runner, faults>>

(* The commit fails: reopen compensates, close and link do not. *)
Abort(h) ==
    LET r == request[h] IN
    /\ r.stage = "changed"
    /\ IF Conflicts(h) THEN UNCHANGED faults ELSE Fault
    /\ IF r.op = "reopen"
       THEN request' = [request EXCEPT ![h].stage = "undoing"]
       ELSE Answer(h)
    /\ IF r.op = "close"
       THEN Mark(r.pair, IF Conflicts(h) THEN {"raced"} ELSE {"lost"})
       ELSE UNCHANGED marks
    /\ UNCHANGED <<store, runner>>

Undo(h) ==
    LET r == request[h] IN
    /\ r.stage = "undoing"
    /\ edge' = [edge EXCEPT ![r.pair] = FALSE]
    /\ Answer(h)
    /\ Mark(r.pair, RacedIf(StateOf(r.pair) # r.seen))
    /\ UNCHANGED <<row, ruling, runner, faults>>

(* The compensation fails too, or the API process dies. *)
Die(h) ==
    LET r == request[h] IN
    /\ r.stage \in {"changed", "undoing"}
    /\ Fault
    /\ Answer(h)
    /\ IF r.op \in Registers THEN UNCHANGED marks ELSE Mark(r.pair, {"lost"})
    /\ UNCHANGED <<store, runner>>

----------------------------------------------------------------------------
(* run_observation_cycle. *)

Goto(w, stage) == cycle' = [cycle EXCEPT ![w].stage = stage]
NextPair(w) == cycle' = [cycle EXCEPT ![w] =
                  [NoCycle EXCEPT !.stage = "between", !.todo = cycle[w].todo]]
Forget(w) == object' = [object EXCEPT ![w] = [p \in Pairs |-> Unloaded]]

CacheExpires(w) ==
    /\ cached[w].kept
    /\ cached' = [cached EXCEPT ![w] = NoCache]
    /\ UNCHANGED <<store, request, cycle, object, faults, marks>>

SyncAddsNothing(r, inView) ==
    [loaded |-> r, value |-> IF r.status \in Open /\ ~inView
                             THEN [r EXCEPT !.status = "actionable"] ELSE r]

(* sync_graph_pairs: an edge without a row gets one, an open row without   *)
(* an edge becomes actionable.                                             *)
Synced(r, inView) ==
    [loaded |-> r,
     value |-> IF r = NoRow /\ inView THEN NewRow
               ELSE IF r.status \in Open /\ ~inView
               THEN [r EXCEPT !.status = "actionable"] ELSE r]

(* sync_graph_pairs, and the list of the pairs to evaluate.  The session   *)
(* keeps the listed objects and the dirty ones.                            *)
BeginCycle(w) ==
    LET view == IF cached[w].kept THEN cached[w].edges
                                  ELSE {p \in Pairs : edge[p]}
        synced == [p \in Pairs |-> Synced(row[p], p \in view)]
        added == {p \in Pairs : row[p] = NoRow /\ Dirty(synced[p])}
    IN
    /\ cycle[w].stage = "idle"
    /\ \A p \in added : ~Inserting(p)
    /\ cached' = [cached EXCEPT ![w] = [kept |-> TRUE, edges |-> view]]
    /\ \E due \in SUBSET {p \in Pairs : row[p].status \in Open} :
        /\ cycle' = [cycle EXCEPT ![w] =
              [NoCycle EXCEPT !.stage = "between", !.todo = due \cup added]]
        /\ object' = [object EXCEPT ![w] =
              [p \in Pairs |-> IF p \in due \/ Dirty(synced[p])
                               THEN synced[p] ELSE Unloaded]]
    /\ UNCHANGED <<store, request, faults, marks>>

(* SELECT ... FOR UPDATE of the next pair: it refreshes only an object the *)
(* session has lost in a rollback.  A pair that is gone or resolved there  *)
(* is skipped.                                                             *)
TakePair(w, p) ==
    LET o == IF object[w][p] = Unloaded THEN Load(row[p]) ELSE object[w][p]
    IN
    /\ cycle[w].stage = "between" /\ p \in cycle[w].todo /\ ~Locked(p)
    /\ object' = [object EXCEPT ![w][p] = o]
    /\ cycle' = [cycle EXCEPT ![w].todo = @ \ {p},
                   ![w].stage = IF o.value.status \in Open THEN "taken" ELSE @,
                   ![w].pair = IF o.value.status \in Open THEN p ELSE @]
    /\ UNCHANGED <<store, request, cached, faults, marks>>

(* The policy leaves the pair waiting, or asks for a person: also when it  *)
(* would split the pair but may not.                                       *)
Evaluate(w, status) ==
    LET p == cycle[w].pair IN
    /\ cycle[w].stage = "taken"
    /\ object' = [object EXCEPT ![w][p].value.status = status]
    /\ Goto(w, "committing")
    /\ UNCHANGED <<store, request, cached, faults, marks>>

BarIgnored(w) == cycle[w].stage = "taken"

(* The certified policy splits the pair, and no person has barred that.    *)
MayAutoClose(w) == /\ cycle[w].stage = "taken"
                   /\ ~object[w][cycle[w].pair].value.barred

AutoClose(w) ==
    LET p == cycle[w].pair IN
    /\ MayAutoClose(w) /\ edge[p]
    /\ edge' = [edge EXCEPT ![p] = FALSE]
    /\ cached' = [cached EXCEPT ![w] = NoCache]
    /\ object' = [object EXCEPT ![w][p].value.status = "resolved_split"]
    /\ cycle' = [cycle EXCEPT ![w].stage = "committing", ![w].closing = TRUE,
                              ![w].found = ruling[p]]
    /\ UNCHANGED <<row, ruling, request, faults, marks>>

(* The edge is not there any more, or Neo4j refuses: the session rolls     *)
(* back.                                                                   *)
AutoCloseFails(w) ==
    LET p == cycle[w].pair IN
    /\ MayAutoClose(w)
    /\ IF edge[p] THEN Fault ELSE UNCHANGED faults
    /\ Forget(w)
    /\ Goto(w, "aborting")
    /\ UNCHANGED <<store, request, cached, marks>>

(* What a commit of the session makes of the rows. *)
Flushed(w) == [p \in Pairs |-> Flush(row[p], object[w][p])]
Saved(w) == [p \in Pairs |-> Load(object[w][p].value)]
Overwrites(w) == {p \in Pairs : /\ Dirty(object[w][p])
                                /\ row[p] # object[w][p].loaded}
Waits(w) == \E p \in Pairs : Dirty(object[w][p]) /\ \E v \in Workers \ {w} :
                cycle[v].pair = p /\ cycle[v].stage \in {"taken", "committing"}

CommitPair(w) ==
    LET c == cycle[w]
        p == c.pair
    IN
    /\ c.stage = "committing" /\ ~Waits(w)
    /\ row' = Flushed(w)
    /\ ruling' = IF c.closing /\ c.found.source = "none"
                 THEN [ruling EXCEPT ![p] = NewRuling(@, "auto_observation")]
                 ELSE ruling
    /\ object' = [object EXCEPT ![w] = Saved(w)]
    /\ NextPair(w)
    /\ marks' = [q \in Pairs |-> marks[q] \cup
          RacedIf(\/ q \in Overwrites(w)
                  \/ q = p /\ row[p] # object[w][p].loaded
                  \/ q = p /\ c.closing /\ (edge[p] \/ ruling[p] # c.found))]
    /\ UNCHANGED <<edge, request, cached, faults>>

(* The commit fails: the whole session is rolled back, with everything     *)
(* sync_graph_pairs did and no earlier pair has committed.                 *)
PairFails(w) ==
    /\ cycle[w].stage = "committing"
    /\ Fault
    /\ Forget(w)
    /\ IF cycle[w].closing THEN Goto(w, "aborting") ELSE NextPair(w)
    /\ UNCHANGED <<store, request, cached, marks>>

UncompensatedClose(p) == edge[p]

(* An automatic close that failed puts the edge back. *)
Compensated(p) == TRUE

Compensate(w) ==
    LET p == cycle[w].pair IN
    /\ cycle[w].stage = "aborting"
    /\ edge' = [edge EXCEPT ![p] = Compensated(p)]
    /\ cached' = [cached EXCEPT ![w] = NoCache]
    /\ NextPair(w)
    /\ Mark(p, RacedIf(row[p].status \notin Open))
    /\ UNCHANGED <<row, ruling, request, object, faults>>

(* Neo4j refuses that as well: only logged. *)
CompensationFails(w) ==
    /\ cycle[w].stage = "aborting"
    /\ Fault
    /\ NextPair(w)
    /\ Mark(cycle[w].pair, {"lost"})
    /\ UNCHANGED <<store, request, object, cached>>

(* The last commit of the cycle: what sync_graph_pairs left behind. *)
EndCycle(w) ==
    /\ cycle[w].stage = "between" /\ cycle[w].todo = {} /\ ~Waits(w)
    /\ row' = Flushed(w)
    /\ Forget(w)
    /\ cycle' = [cycle EXCEPT ![w] = NoCycle]
    /\ marks' = [p \in Pairs |-> marks[p] \cup RacedIf(p \in Overwrites(w))]
    /\ UNCHANGED <<ruling, edge, request, cached, faults>>

(* The worker dies, or (its cache survives) the last commit fails. *)
LoseCycle(w) ==
    LET c == cycle[w] IN
    /\ c.stage # "idle"
    /\ Fault
    /\ cycle' = [cycle EXCEPT ![w] = NoCycle]
    /\ Forget(w)
    /\ \/ cached' = [cached EXCEPT ![w] = NoCache]
       \/ c.stage = "between" /\ c.todo = {} /\ UNCHANGED cached
    /\ IF c.closing \/ c.stage = "aborting" THEN Mark(c.pair, {"lost"})
                                            ELSE UNCHANGED marks
    /\ UNCHANGED <<store, request>>

----------------------------------------------------------------------------
Serve(h) == ChangeEdge(h) \/ Commit(h) \/ Abort(h) \/ Undo(h)

Run(w) ==
    \/ \E p \in Pairs : TakePair(w, p)
    \/ \E status \in Open : Evaluate(w, status)
    \/ AutoClose(w)
    \/ AutoCloseFails(w)
    \/ CommitPair(w)
    \/ Compensate(w)
    \/ EndCycle(w)

Next ==
    \/ \E h \in Handlers, op \in Ops, p \in Pairs : Read(h, op, p)
    \/ \E h \in Handlers : Serve(h)
    \/ \E h \in Handlers : GraphFails(h)
    \/ \E h \in Handlers : Die(h)
    \/ \E w \in Workers : BeginCycle(w)
    \/ \E w \in Workers : Run(w)
    \/ \E w \in Workers : PairFails(w)
    \/ \E w \in Workers : CompensationFails(w)
    \/ \E w \in Workers : LoseCycle(w)
    \/ \E w \in Workers : CacheExpires(w)

Spec == Init /\ [][Next]_vars

(* An open request is answered; the worker's main loop starts a cycle      *)
(* every 300 s and works through it; the cache times out.                  *)
FairSpec ==
    /\ Spec
    /\ \A h \in Handlers : WF_vars(Serve(h))
    /\ \A w \in Workers : /\ WF_vars(BeginCycle(w))
                          /\ WF_vars(Run(w))
                          /\ WF_vars(CacheExpires(w))

----------------------------------------------------------------------------
(* Correctness. *)

(* Every variable stays in its declared domain, through every handler and  *)
(* every step of the cycle.                                                *)
TypeOK ==
    /\ row \in [Pairs -> Row]
    /\ ruling \in [Pairs -> Ruling]
    /\ edge \in [Pairs -> BOOLEAN]
    /\ request \in [Handlers -> Request]
    /\ cycle \in [Workers -> Cycle]
    /\ object \in [Workers -> [Pairs -> Object]]
    /\ cached \in [Workers -> Cache]
    /\ faults \in Nat
    /\ marks \in [Pairs -> SUBSET Marks]

(* Somebody has changed the pair's edge and not yet its rows. *)
Unsettled(p) ==
    \/ \E h \in Handlers : /\ request[h].pair = p
                           /\ request[h].stage \in {"changed", "undoing"}
    \/ \E w \in Workers : /\ cycle[w].pair = p
                          /\ cycle[w].closing \/ cycle[w].stage = "aborting"

(* Row, ruling and edge tell the same story whenever nobody is between the *)
(* two stores: an open pair has its edge and no ruling, a closed pair has  *)
(* a ruling and no edge, a ruled pair without a row has no edge.  This is  *)
(* what the order of the writes and the compensations of the runner and of *)
(* reopen are for; a close whose commit fails has none ("lost").           *)
StoresAgree ==
    \A p \in Pairs : marks[p] = {} /\ ~Unsettled(p) =>
        CASE row[p].status \in Open -> edge[p] /\ ruling[p].source = "none"
          [] row[p].status = "resolved_split" ->
                ~edge[p] /\ ruling[p].source # "none"
          [] OTHER -> ruling[p].source # "none" => ~edge[p]

(* A closed pair is open again only by a reopen of its automatic ruling,   *)
(* which deletes that ruling and bars the next automatic close; a person's *)
(* ruling stays.                                                           *)
VerdictLeavesByReopen ==
    [][\A p \in Pairs : "raced" \notin marks'[p] =>
        /\ row[p].status = "resolved_split" /\ row'[p] # row[p] =>
              /\ ruling[p].source = "auto_observation"
              /\ ruling'[p].source = "none" /\ row'[p].barred
        /\ ruling[p].source = "inbox_close" => ruling'[p] = ruling[p]]_vars

(* A pair a person has reopened is never closed automatically again: with  *)
(* one worker no cycle holds a row from before the reopening.              *)
ReopenedNeverAutoClosed ==
    [][\A p \in Pairs :
        /\ "raced" \notin marks[p]
        /\ row[p].barred /\ ruling[p].source = "none"
        => ruling'[p].source # "auto_observation"]_vars

(* Every edge gets a row in the end, however registrations and cycles fail *)
(* on the way: else nobody would ever evaluate the pair.                   *)
Unwatched(p) == edge[p] /\ row[p] = NoRow
EveryEdgeGetsRow == \A p \in Pairs : Unwatched(p) ~> ~Unwatched(p)

----------------------------------------------------------------------------
(* What comments and docstrings say and a run refutes. *)

(* models/ruling.py: "closing must be one-way, or the same pair circulates *)
(* in the candidate list for ever": only a reopen takes a closed pair out  *)
(* of resolved_split.                                                      *)
ClosedStaysClosed ==
    [][\A p \in Pairs :
        row[p].status = "resolved_split" /\ row'[p].status # row[p].status
        => \E h \in Handlers : request[h].op = "reopen" /\ request[h].pair = p
                               /\ request'[h].stage = "idle"]_vars

(* routes/graph.py, close: "removes the SIMILAR_TO edge": when nobody is   *)
(* between the two stores, a closed pair has no edge.  Not kept: a          *)
(* registration that read the open row links the edge after the close.      *)
ClosedPairHasNoEdge ==
    \A p \in Pairs :
        row[p].status = "resolved_split" /\ ~Unsettled(p) => ~edge[p]
=============================================================================
