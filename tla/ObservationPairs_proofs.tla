---------------------- MODULE ObservationPairs_proofs ----------------------
(***************************************************************************)
(* Proofs about ObservationPairs for any pairs, handlers, workers and      *)
(* bounds.                                                                 *)
(***************************************************************************)
EXTENDS ObservationPairsRefinement, TLAPS

(* What the stages of a request and of a cycle say.  Only a register-free  *)
(* row is registered, only an automatic ruling is reopened, and only a     *)
(* reopening compensates.                                                  *)
RequestOK(r) ==
    r.stage # "idle" =>
        /\ r.op \in Ops /\ r.pair \in Pairs
        /\ r.op \in Registers => r.seen.row.status # "resolved_split"
        /\ r.op = "reopen" => r.seen.ruling.source = "auto_observation"
        /\ r.stage = "undoing" => r.op = "reopen"
        /\ r.stage = "changed" => r.seen.edge = Edge(r.op)
HandlersInOrder == \A h \in Handlers : RequestOK(request[h])

(* An object of a session is clean, or leaves an unresolved row open, or   *)
(* is the one an automatic close is about to commit.                       *)
Closing(w, p) == /\ cycle[w].closing /\ cycle[w].pair = p
                 /\ cycle[w].stage = "committing"
ObjectOK(w, p) ==
    LET o == object[w][p] IN
    /\ o.value.barred = o.loaded.barred
    /\ o.value.status = "resolved_split" =>
          \/ o.loaded.status = "resolved_split"
          \/ Closing(w, p)
    /\ o.value.status \in Open => o.loaded.status # "resolved_split"
    /\ o.value.status = "none" => o.loaded.status = "none"
    /\ Closing(w, p) => /\ o.value.status = "resolved_split"
                        /\ o.loaded.status # "resolved_split"
                        /\ ~o.value.barred
CycleOK(w) ==
    LET c == cycle[w] IN
    /\ c.stage \in {"taken", "committing", "aborting"} => c.pair \in Pairs
    /\ c.closing => c.stage \in {"committing", "aborting"}
    /\ c.stage = "taken" => object[w][c.pair].value.status \in Open
    /\ \A p \in Pairs : ObjectOK(w, p)
CyclesInOrder == \A w \in Workers : CycleOK(w)

(* An operation that has changed the edge and, unless it is marked, ends   *)
(* with the stores in agreement.                                           *)
Handling(h, p) == /\ request[h].pair = p
                  /\ request[h].op \notin Registers
                  /\ request[h].stage \in {"changed", "undoing"}
Cutting(w, p) == /\ cycle[w].pair = p
                 /\ cycle[w].closing \/ cycle[w].stage = "aborting"
Pending(p) == \/ \E h \in Handlers : Handling(h, p)
              \/ \E w \in Workers : Cutting(w, p)

(* Row and ruling are committed together: they agree at every moment.  A   *)
(* ruling from before the row keeps the pair cut.                          *)
RulingFollowsRow(p) ==
    /\ row[p].status \in Open => ruling[p].source = "none"
    /\ row[p].status = "resolved_split" => ruling[p].source # "none"
    /\ row[p].status = "none" =>
          /\ ruling[p].source # "auto_observation"
          /\ ruling[p].source # "none" => ~edge[p]

EdgeFollowsRow(p) ==
    /\ row[p].status \in Open => edge[p]
    /\ row[p].status = "resolved_split" => ~edge[p]

(* Whoever is about to insert the row, now or from a cached edge, does it  *)
(* for a pair without a ruling whose edge is there or coming back.         *)
WouldInsert(w, p) ==
    \/ cached[w].kept /\ p \in cached[w].edges
    \/ object[w][p].loaded.status = "none" /\ Dirty(object[w][p])
InsertionsAreDue(p) ==
    row[p].status = "none" => \A w \in Workers : WouldInsert(w, p) =>
        ruling[p].source = "none" /\ (edge[p] \/ Pending(p))

RegistersUnruled(h, p) ==
    /\ request[h].pair = p /\ request[h].op \in Registers
    /\ request[h].stage = "changed"
    => request[h].seen.ruling.source = "none"

AgreeAt(p) ==
    marks[p] = {} =>
        /\ RulingFollowsRow(p)
        /\ EdgeFollowsRow(p) \/ Pending(p)
        /\ InsertionsAreDue(p)
        /\ \A h \in Handlers : RegistersUnruled(h, p)
AgreeInv == \A p \in Pairs : AgreeAt(p)

(* With one worker: what its session would still close has not been        *)
(* reopened since it was loaded.                                           *)
OneWorker == \A v, w \in Workers : v = w
MayStillClose(w, p) == LET v == object[w][p].value IN
    (v.status \in Open \/ Closing(w, p)) /\ ~v.barred
ReopenAt(p) ==
    "raced" \notin marks[p] =>
        /\ ruling[p].source = "auto_observation" =>
              row[p].status = "resolved_split"
        /\ \A w \in Workers : MayStillClose(w, p) =>
              ~row[p].barred /\ ruling[p].source # "auto_observation"
ReopenInv == \A p \in Pairs : ReopenAt(p)

----------------------------------------------------------------------------
(* Types. *)

LEMMA RowTypes ==
  /\ NoRow \in Row /\ NewRow \in Row /\ Unloaded \in Object
  /\ Nothing \in State /\ NoRequest \in Request
  /\ NoCycle \in Cycle /\ NoCache \in Cache
BY DEF NoRow, NewRow, Unloaded, Row, RowStatus, Open, Object, Nothing, State,
       Ruling, RulingSource, NoRequest, Request, NoCycle, Cycle, NoCache, Cache

LEMMA LoadType ==
  ASSUME NEW r \in Row PROVE Load(r) \in Object
BY DEF Load, Object

(* What a commit makes of a row is a row. *)
LEMMA FlushType ==
  ASSUME NEW r \in Row, NEW o \in Object PROVE Flush(r, o) \in Row
BY DEF Flush, Row, Object

LEMMA SyncedType ==
  ASSUME NEW r \in Row, NEW p, NEW view
  PROVE  Synced(r, p \in view) \in Object
BY RowTypes DEF Synced, Object, Row, RowStatus, Open

LEMMA StatusUpdateType ==
  ASSUME NEW o \in Object, NEW status \in RowStatus
  PROVE  [o EXCEPT !.value.status = status] \in Object
<1>1. [o.value EXCEPT !.status = status] \in Row
  BY DEF Object, Row
<1> QED
  BY <1>1 DEF Object

LEMMA TargetType ==
  ASSUME NEW op \in Ops, NEW r \in Row PROVE Target(op, r) \in Row
BY DEF Target, Ops, Registers, Row, RowStatus, Open

LEMMA RulingTypes ==
  ASSUME NEW r \in Ruling
  PROVE  /\ NewRuling(r, "inbox_close") \in Ruling
         /\ NewRuling(r, "auto_observation") \in Ruling
         /\ NoRuling(r) \in Ruling
BY DEF NewRuling, NoRuling, Ruling, RulingSource

LEMMA RulingAfterType ==
  ASSUME NEW op \in Ops, NEW r \in Ruling, NEW seen \in Ruling
  PROVE  RulingAfter(op, r, seen) \in Ruling
BY RulingTypes DEF RulingAfter, Closed, Ops, Registers

LEMMA StateType ==
  ASSUME TypeOK, NEW p \in Pairs PROVE StateOf(p) \in State
BY DEF StateOf, State, TypeOK

LEMMA MarksType ==
  ASSUME TypeOK, NEW p \in Pairs, NEW ms \in SUBSET Marks, Mark(p, ms)
  PROVE  marks' \in [Pairs -> SUBSET Marks]
BY DEF TypeOK, Mark

LEMMA RacedType == \A test \in BOOLEAN : RacedIf(test) \in SUBSET Marks
BY DEF RacedIf, Marks

LEMMA InitTypeOK == Init => TypeOK
<1> SUFFICES ASSUME Init PROVE TypeOK
  OBVIOUS
<1>1. PICK old \in SUBSET Ruled :
          /\ ruling = [p \in Pairs |->
                IF p \in old THEN [source |-> "inbox_close", no |-> 1]
                             ELSE Nothing.ruling]
          /\ edge \in {e \in [Pairs -> BOOLEAN] : \A p \in old : ~e[p]}
  BY DEF Init
<1>2. ruling \in [Pairs -> Ruling]
  BY <1>1 DEF Ruling, RulingSource, Nothing
<1>3. marks \in [Pairs -> SUBSET Marks] /\ faults \in Nat
  BY DEF Init
<1> QED
  BY <1>1, <1>2, <1>3, RowTypes DEF Init, TypeOK

LEMMA NextTypeOK ==
  ASSUME TypeOK, HandlersInOrder, CyclesInOrder, [Next]_vars
  PROVE  TypeOK'
<1> USE DEF TypeOK
<1>1. ASSUME NEW h \in Handlers, NEW op \in Ops, NEW p \in Pairs,
             Read(h, op, p)
      PROVE  TypeOK'
  <2>1. [op |-> op, pair |-> p, stage |-> "read", seen |-> StateOf(p)]
           \in Request
    BY StateType DEF Request
  <2> QED
    BY <1>1, <2>1 DEF Read, store, runner
<1>2. ASSUME NEW h \in Handlers, ChangeEdge(h)
      PROVE  TypeOK'
  <2> DEFINE r == request[h]
             p == r.pair
             ms == RacedIf(StateOf(p) # r.seen)
                     \cup (IF r.op \in Registers /\ ruling[p].source # "none"
                           THEN {"overruled"} ELSE {})
  <2>1. r \in Request /\ p \in Pairs /\ r.op \in Ops
    BY <1>2 DEF ChangeEdge, HandlersInOrder, RequestOK
  <2>2. request' \in [Handlers -> Request]
    BY <1>2, <2>1 DEF ChangeEdge, Request, State, Edge
  <2>3. ms \in SUBSET Marks
    BY RacedType DEF Marks
  <2>4. marks' \in [Pairs -> SUBSET Marks]
    <3>1. Mark(p, ms)
      BY <1>2 DEF ChangeEdge
    <3> QED
      BY <2>1, <2>3, <3>1, MarksType
  <2>5. edge' \in [Pairs -> BOOLEAN]
    BY <1>2, <2>1 DEF ChangeEdge, Edge
  <2> QED
    BY <1>2, <2>2, <2>4, <2>5 DEF ChangeEdge, runner
<1>3. ASSUME NEW h \in Handlers, GraphFails(h)
      PROVE  TypeOK'
  <2>1. request' \in [Handlers -> Request]
    <3>1. [request[h] EXCEPT !.stage = "undoing"] \in Request
      BY DEF Request
    <3> QED
      BY <1>3, <3>1, RowTypes DEF GraphFails, Answer
  <2> QED
    BY <1>3, <2>1 DEF GraphFails, Fault, store, runner
<1>4. ASSUME NEW h \in Handlers, Commit(h)
      PROVE  TypeOK'
  <2> DEFINE r == request[h]
             p == r.pair
             o == [loaded |-> r.seen.row, value |-> Target(r.op, r.seen.row)]
  <2>1. /\ r \in Request /\ p \in Pairs /\ r.op \in Ops
        /\ r.seen.row \in Row /\ r.seen.ruling \in Ruling
    BY <1>4 DEF Commit, HandlersInOrder, RequestOK, Request, State
  <2>2. o \in Object
    BY <2>1, TargetType DEF Object
  <2>3. row' \in [Pairs -> Row]
    <3>1. Flush(row[p], o) \in Row
      BY <2>1, <2>2, FlushType
    <3> QED
      BY <1>4, <3>1 DEF Commit
  <2>4. ruling' \in [Pairs -> Ruling]
    <3>1. RulingAfter(r.op, ruling[p], r.seen.ruling) \in Ruling
      BY <2>1, RulingAfterType
    <3> QED
      BY <1>4, <3>1 DEF Commit
  <2>5. marks' \in [Pairs -> SUBSET Marks]
    <3>1. Mark(p, RacedIf(StateOf(p) # r.seen))
      BY <1>4 DEF Commit
    <3> QED
      BY <2>1, <3>1, MarksType, RacedType
  <2>6. request' \in [Handlers -> Request]
    BY <1>4, RowTypes DEF Commit, Answer
  <2> QED
    BY <1>4, <2>3, <2>4, <2>5, <2>6 DEF Commit, runner
<1>5. ASSUME NEW h \in Handlers, Abort(h)
      PROVE  TypeOK'
  <2>1. request[h].pair \in Pairs
    BY <1>5 DEF Abort, HandlersInOrder, RequestOK
  <2>2. request' \in [Handlers -> Request]
    <3>1. [request[h] EXCEPT !.stage = "undoing"] \in Request
      BY DEF Request
    <3> QED
      BY <1>5, <3>1, RowTypes DEF Abort, Answer
  <2>3. marks' \in [Pairs -> SUBSET Marks]
    BY <1>5, <2>1 DEF Abort, Mark, Marks
  <2> QED
    BY <1>5, <2>2, <2>3 DEF Abort, Fault, store, runner
<1>6. ASSUME NEW h \in Handlers, Undo(h)
      PROVE  TypeOK'
  <2>1. request[h].pair \in Pairs
    BY <1>6 DEF Undo, HandlersInOrder, RequestOK
  <2>2. request' \in [Handlers -> Request]
    BY <1>6, RowTypes DEF Undo, Answer
  <2>3. marks' \in [Pairs -> SUBSET Marks]
    <3>1. Mark(request[h].pair,
               RacedIf(StateOf(request[h].pair) # request[h].seen))
      BY <1>6 DEF Undo
    <3> QED
      BY <2>1, <3>1, MarksType, RacedType
  <2> QED
    BY <1>6, <2>2, <2>3 DEF Undo, runner
<1>7. ASSUME NEW h \in Handlers, Die(h)
      PROVE  TypeOK'
  <2>1. request' \in [Handlers -> Request]
    BY <1>7, RowTypes DEF Die, Answer
  <2>2. marks' \in [Pairs -> SUBSET Marks]
    BY <1>7 DEF Die, Mark, Marks, HandlersInOrder, RequestOK
  <2> QED
    BY <1>7, <2>1, <2>2 DEF Die, Fault, store, runner
<1>8. ASSUME NEW w \in Workers, BeginCycle(w)
      PROVE  TypeOK'
  <2> DEFINE view == IF cached[w].kept THEN cached[w].edges
                                       ELSE {p \in Pairs : edge[p]}
             synced == [p \in Pairs |-> Synced(row[p], p \in view)]
             added == {p \in Pairs : row[p] = NoRow /\ Dirty(synced[p])}
  <2>1. view \in SUBSET Pairs
    BY DEF Cache
  <2>2. \A p \in Pairs : synced[p] \in Object
    <3> HIDE DEF view
    <3> QED
      BY SyncedType
  <2> HIDE DEF view, synced
  <2>3. PICK due \in SUBSET {p \in Pairs : row[p].status \in Open} :
          /\ cycle' = [cycle EXCEPT ![w] =
                [NoCycle EXCEPT !.stage = "between", !.todo = due \cup added]]
          /\ object' = [object EXCEPT ![w] =
                [p \in Pairs |-> IF p \in due \/ Dirty(synced[p])
                                 THEN synced[p] ELSE Unloaded]]
    BY <1>8 DEF BeginCycle, view, synced
  <2>4. object' \in [Workers -> [Pairs -> Object]]
    BY <2>2, <2>3, RowTypes
  <2>5. cycle' \in [Workers -> Cycle]
    BY <2>3, RowTypes DEF Cycle
  <2>6. cached' \in [Workers -> Cache]
    BY <1>8, <2>1 DEF BeginCycle, Cache, view
  <2> QED
    BY <1>8, <2>4, <2>5, <2>6 DEF BeginCycle, store
<1>9. ASSUME NEW w \in Workers, NEW p \in Pairs, TakePair(w, p)
      PROVE  TypeOK'
  <2>1. object' \in [Workers -> [Pairs -> Object]]
    BY <1>9, LoadType DEF TakePair
  <2>2. cycle' \in [Workers -> Cycle]
    <3>1. [cycle[w] EXCEPT !.todo = @ \ {p}, !.stage = "taken",
                           !.pair = p] \in Cycle
      BY DEF Cycle
    <3>2. [cycle[w] EXCEPT !.todo = @ \ {p}, !.stage = @, !.pair = @]
             \in Cycle
      BY DEF Cycle
    <3>3. CASE cycle' = [cycle EXCEPT ![w].todo = @ \ {p},
                            ![w].stage = "taken", ![w].pair = p]
      BY <3>1, <3>3
    <3>4. CASE cycle' = [cycle EXCEPT ![w].todo = @ \ {p}, ![w].stage = @,
                                      ![w].pair = @]
      BY <3>2, <3>4
    <3> QED
      BY <1>9, <3>3, <3>4 DEF TakePair
  <2> QED
    BY <1>9, <2>1, <2>2 DEF TakePair, store
<1>10. ASSUME NEW w \in Workers, NEW status \in Open, Evaluate(w, status)
       PROVE  TypeOK'
  <2>1. cycle[w].pair \in Pairs
    BY <1>10 DEF Evaluate, CyclesInOrder, CycleOK
  <2>2. object' \in [Workers -> [Pairs -> Object]]
    <3>1. [object[w][cycle[w].pair] EXCEPT !.value.status = status]
             \in Object
      BY <2>1, StatusUpdateType DEF RowStatus
    <3> QED
      BY <1>10, <2>1, <3>1 DEF Evaluate
  <2>3. cycle' \in [Workers -> Cycle]
    BY <1>10 DEF Evaluate, Goto, Cycle
  <2> QED
    BY <1>10, <2>2, <2>3 DEF Evaluate, store
<1>11. ASSUME NEW w \in Workers, AutoClose(w)
       PROVE  TypeOK'
  <2>1. cycle[w].pair \in Pairs
    BY <1>11 DEF AutoClose, MayAutoClose, CyclesInOrder, CycleOK
  <2>2. object' \in [Workers -> [Pairs -> Object]]
    <3>1. [object[w][cycle[w].pair] EXCEPT !.value.status = "resolved_split"]
             \in Object
      BY <2>1, StatusUpdateType DEF RowStatus
    <3> QED
      BY <1>11, <2>1, <3>1 DEF AutoClose
  <2>3. cycle' \in [Workers -> Cycle]
    <3>1. [cycle[w] EXCEPT !.stage = "committing", !.closing = TRUE,
                           !.found = ruling[cycle[w].pair]] \in Cycle
      BY <2>1 DEF Cycle
    <3> QED
      BY <1>11, <3>1 DEF AutoClose
  <2> QED
    BY <1>11, <2>2, <2>3, RowTypes DEF AutoClose
<1>12. ASSUME NEW w \in Workers, Forget(w)
       PROVE  object' \in [Workers -> [Pairs -> Object]]
  BY <1>12, RowTypes DEF Forget
<1>13. ASSUME NEW w \in Workers, NextPair(w)
       PROVE  cycle' \in [Workers -> Cycle]
  BY <1>13, RowTypes DEF NextPair, Cycle
<1>14. ASSUME NEW w \in Workers, AutoCloseFails(w)
       PROVE  TypeOK'
  <2>1. cycle' \in [Workers -> Cycle]
    BY <1>14 DEF AutoCloseFails, Goto, Cycle
  <2> QED
    BY <1>12, <1>14, <2>1 DEF AutoCloseFails, Fault, store
<1>15. ASSUME NEW w \in Workers
       PROVE  Flushed(w) \in [Pairs -> Row]
  BY FlushType DEF Flushed
<1>16. ASSUME NEW w \in Workers, CommitPair(w)
       PROVE  TypeOK'
  <2>1. Saved(w) \in [Pairs -> Object]
    BY LoadType DEF Saved, Object
  <2>2. object' \in [Workers -> [Pairs -> Object]]
    BY <1>16, <2>1 DEF CommitPair
  <2>3. ruling' \in [Pairs -> Ruling]
    BY <1>16, RulingTypes DEF CommitPair
  <2>4. marks' \in [Pairs -> SUBSET Marks]
    BY <1>16 DEF CommitPair, RacedIf, Marks
  <2> QED
    BY <1>13, <1>15, <1>16, <2>2, <2>3, <2>4 DEF CommitPair
<1>17. ASSUME NEW w \in Workers, PairFails(w)
       PROVE  TypeOK'
  <2>1. cycle' \in [Workers -> Cycle]
    <3>1. [cycle[w] EXCEPT !.stage = "aborting"] \in Cycle
      BY DEF Cycle
    <3> QED
      BY <1>13, <1>17, <3>1 DEF PairFails, Goto
  <2> QED
    BY <1>12, <1>17, <2>1 DEF PairFails, Fault, store
<1>18. ASSUME NEW w \in Workers, Compensate(w)
       PROVE  TypeOK'
  <2>1. cycle[w].pair \in Pairs
    BY <1>18 DEF Compensate, CyclesInOrder, CycleOK
  <2>2. marks' \in [Pairs -> SUBSET Marks]
    BY <1>18, <2>1 DEF Compensate, Mark, RacedIf, Marks
  <2> QED
    BY <1>13, <1>18, <2>1, <2>2, RowTypes DEF Compensate, Compensated
<1>19. ASSUME NEW w \in Workers, CompensationFails(w)
       PROVE  TypeOK'
  <2>1. marks' \in [Pairs -> SUBSET Marks]
    BY <1>19 DEF CompensationFails, Mark, Marks
  <2> QED
    BY <1>13, <1>19, <2>1 DEF CompensationFails, Fault, store
<1>20. ASSUME NEW w \in Workers, EndCycle(w)
       PROVE  TypeOK'
  <2>1. marks' \in [Pairs -> SUBSET Marks]
    BY <1>20 DEF EndCycle, RacedIf, Marks
  <2> QED
    BY <1>12, <1>15, <1>20, <2>1, RowTypes DEF EndCycle
<1>21. ASSUME NEW w \in Workers, LoseCycle(w)
       PROVE  TypeOK'
  <2>1. marks' \in [Pairs -> SUBSET Marks]
    BY <1>21 DEF LoseCycle, Mark, Marks
  <2>2. cached' \in [Workers -> Cache]
    BY <1>21, RowTypes DEF LoseCycle
  <2>3. cycle' \in [Workers -> Cycle] /\ faults' \in Nat
    BY <1>21, RowTypes DEF LoseCycle, Fault
  <2>4. object' \in [Workers -> [Pairs -> Object]]
    BY <1>12, <1>21 DEF LoseCycle
  <2> QED
    BY <1>21, <2>1, <2>2, <2>3, <2>4 DEF LoseCycle, store
<1>22. ASSUME NEW w \in Workers, CacheExpires(w)
       PROVE  TypeOK'
  BY <1>22, RowTypes DEF CacheExpires, store
<1>23. CASE UNCHANGED vars
  BY <1>23 DEF vars
<1> QED
  BY <1>1, <1>2, <1>3, <1>4, <1>5, <1>6, <1>7, <1>8, <1>9, <1>10, <1>11,
     <1>14, <1>16, <1>17, <1>18, <1>19, <1>20, <1>21, <1>22, <1>23
     DEF Next, Serve, Run

----------------------------------------------------------------------------
(* The stages of requests and cycles. *)

LEMMA NextHandlersInOrder ==
  ASSUME TypeOK, HandlersInOrder, [Next]_vars
  PROVE  HandlersInOrder'
<1> USE DEF HandlersInOrder
<1>1. RequestOK(NoRequest)
  BY DEF RequestOK, NoRequest
<1>2. ASSUME NEW h \in Handlers, Answer(h)
      PROVE  HandlersInOrder'
  BY <1>1, <1>2 DEF Answer, TypeOK
<1>3. ASSUME NEW h \in Handlers, NEW op \in Ops, NEW p \in Pairs,
             Read(h, op, p)
      PROVE  HandlersInOrder'
  <2> DEFINE r == [op |-> op, pair |-> p, stage |-> "read",
                   seen |-> StateOf(p)]
  <2>1. RequestOK(r)
    BY <1>3 DEF Read, Admitted, Registrable, RequestOK, StateOf, Registers
  <2>2. request' = [request EXCEPT ![h] = r]
    BY <1>3 DEF Read
  <2> QED
    BY <2>1, <2>2 DEF TypeOK
<1>4. ASSUME NEW h \in Handlers, ChangeEdge(h)
      PROVE  HandlersInOrder'
  <2>1. request[h].seen \in State
    BY DEF TypeOK, Request
  <2>2. RequestOK(request'[h])
    BY <1>4, <2>1 DEF ChangeEdge, RequestOK, TypeOK, Request, State, Registers
  <2>3. \A g \in Handlers \ {h} : request'[g] = request[g]
    BY <1>4 DEF ChangeEdge, TypeOK
  <2> QED
    BY <2>2, <2>3
<1>5. ASSUME NEW h \in Handlers, GraphFails(h) \/ Abort(h)
      PROVE  HandlersInOrder'
  <2>1. CASE Answer(h)
    BY <1>2, <2>1
  <2>2. CASE /\ request[h].op = "reopen"
             /\ request' = [request EXCEPT ![h].stage = "undoing"]
             /\ request[h].stage # "idle"
    <3>1. RequestOK(request'[h])
      BY <2>2 DEF RequestOK, TypeOK, Request, Registers
    <3>2. \A g \in Handlers \ {h} : request'[g] = request[g]
      BY <2>2 DEF TypeOK
    <3> QED
      BY <3>1, <3>2
  <2> QED
    BY <1>5, <2>1, <2>2 DEF GraphFails, Abort
<1>6. ASSUME NEW h \in Handlers, Commit(h) \/ Undo(h) \/ Die(h)
      PROVE  HandlersInOrder'
  BY <1>2, <1>6 DEF Commit, Undo, Die
<1>7. CASE request' = request
  BY <1>7
<1> QED
  BY <1>3, <1>4, <1>5, <1>6, <1>7
     DEF Next, Serve, Run, vars, BeginCycle, TakePair, Evaluate, AutoClose,
         AutoCloseFails, CommitPair, PairFails, Compensate, CompensationFails,
         EndCycle, LoseCycle, CacheExpires

(* What sync_graph_pairs makes of a row it has just read. *)
LEMMA SyncedStatus ==
  ASSUME NEW r \in Row, NEW p, NEW view
  PROVE  LET o == Synced(r, p \in view) IN
         /\ o.loaded = r
         /\ o.value.barred = r.barred
         /\ o.value.status = "resolved_split" <=> r.status = "resolved_split"
         /\ o.value.status = "none" => r.status = "none"
         /\ Dirty(o) => o.value.status \in Open
         /\ Dirty(o) /\ r.status = "none" => p \in view /\ r = NoRow
<1>1. CASE r = NoRow /\ p \in view
  BY <1>1 DEF Synced, Dirty, Open, NoRow, NewRow
<1>2. CASE ~(r = NoRow /\ p \in view) /\ r.status \in Open /\ p \notin view
  BY <1>2 DEF Synced, Dirty, Row, RowStatus, Open
<1>3. CASE /\ ~(r = NoRow /\ p \in view)
           /\ ~(r.status \in Open /\ p \notin view)
  BY <1>3 DEF Synced, Dirty
<1> QED
  BY <1>1, <1>2, <1>3

(* A session that has been emptied, or that holds clean objects only. *)
LEMMA CleanSession ==
  ASSUME NEW w \in Workers,
         ~cycle'[w].closing, cycle'[w].stage \notin {"taken", "committing"},
         cycle'[w].stage = "aborting" => cycle'[w].pair \in Pairs,
         \A p \in Pairs : object'[w][p].value = object'[w][p].loaded
  PROVE  CycleOK(w)'
BY DEF CycleOK, ObjectOK, Closing, Open

LEMMA NextCyclesInOrder ==
  ASSUME TypeOK, CyclesInOrder, [Next]_vars
  PROVE  CyclesInOrder'
<1> DEFINE Elsewhere(w) == \A v \in Workers \ {w} :
              cycle'[v] = cycle[v] /\ object'[v] = object[v]
<1>1. ASSUME NEW w \in Workers, Elsewhere(w), CycleOK(w)'
      PROVE  CyclesInOrder'
  BY <1>1 DEF CyclesInOrder, CycleOK, ObjectOK, Closing
<1>2. ASSUME NEW w \in Workers, Forget(w)
      PROVE  \A p \in Pairs : object'[w][p] = Unloaded
  BY <1>2 DEF Forget, TypeOK
<1>3. Unloaded.value = Unloaded.loaded
  BY DEF Unloaded
<1>4. ASSUME NEW w \in Workers, NextPair(w)
      PROVE  ~cycle'[w].closing /\ cycle'[w].stage = "between"
  BY <1>4 DEF NextPair, TypeOK, NoCycle
<1>5. ASSUME NEW w \in Workers, BeginCycle(w)
      PROVE  CyclesInOrder'
  <2> DEFINE view == IF cached[w].kept THEN cached[w].edges
                                       ELSE {p \in Pairs : edge[p]}
             synced == [p \in Pairs |-> Synced(row[p], p \in view)]
             added == {p \in Pairs : row[p] = NoRow /\ Dirty(synced[p])}
  <2> HIDE DEF view
  <2>1. PICK due \in SUBSET {p \in Pairs : row[p].status \in Open} :
          /\ cycle' = [cycle EXCEPT ![w] =
                [NoCycle EXCEPT !.stage = "between", !.todo = due \cup added]]
          /\ object' = [object EXCEPT ![w] =
                [p \in Pairs |-> IF p \in due \/ Dirty(synced[p])
                                 THEN synced[p] ELSE Unloaded]]
    BY <1>5 DEF BeginCycle, view
  <2>2. ~cycle'[w].closing /\ cycle'[w].stage = "between"
    BY <2>1 DEF TypeOK, NoCycle
  <2>3. ASSUME NEW p \in Pairs PROVE ObjectOK(w, p)'
    <3>1. CASE object'[w][p] = Unloaded
      BY <2>2, <3>1 DEF ObjectOK, Closing, Unloaded, Open
    <3>2. CASE object'[w][p] = Synced(row[p], p \in view)
      <4> DEFINE o == Synced(row[p], p \in view)
      <4>1. /\ o.loaded = row[p] /\ o.value.barred = row[p].barred
            /\ o.value.status = "resolved_split"
                  <=> row[p].status = "resolved_split"
            /\ o.value.status = "none" => row[p].status = "none"
        BY SyncedStatus DEF TypeOK
      <4> HIDE DEF o
      <4>2. object'[w][p] = o
        BY <3>2 DEF o
      <4> QED
        BY <2>2, <4>1, <4>2 DEF ObjectOK, Closing, Open
    <3> QED
      BY <2>1, <3>1, <3>2 DEF TypeOK
  <2>4. CycleOK(w)'
    BY <2>2, <2>3 DEF CycleOK
  <2> QED
    BY <1>1, <2>1, <2>4 DEF TypeOK
<1>6. ASSUME NEW w \in Workers, NEW p \in Pairs, TakePair(w, p)
      PROVE  CyclesInOrder'
  <2> DEFINE o == IF object[w][p] = Unloaded THEN Load(row[p])
                                             ELSE object[w][p]
  <2>1. CycleOK(w)
    BY DEF CyclesInOrder
  <2>2. cycle[w].stage = "between" /\ ~cycle[w].closing
    BY <1>6, <2>1 DEF TakePair, CycleOK
  <2>3. ~cycle'[w].closing /\ cycle'[w].stage \in {"between", "taken"}
    BY <1>6, <2>2 DEF TakePair, TypeOK, Cycle
  <2>4. cycle'[w].stage = "taken" =>
           cycle'[w].pair = p /\ o.value.status \in Open
    BY <1>6, <2>2 DEF TakePair, TypeOK, Cycle
  <2>5. object'[w][p] = o
        /\ \A q \in Pairs \ {p} : object'[w][q] = object[w][q]
    BY <1>6 DEF TakePair, TypeOK
  <2>6. ASSUME NEW q \in Pairs PROVE ObjectOK(w, q)'
    <3>1. ObjectOK(w, q)
      BY <2>1 DEF CycleOK
    <3>2. CASE object'[w][q] = object[w][q]
      BY <2>2, <2>3, <3>1, <3>2 DEF ObjectOK, Closing
    <3>3. CASE object'[w][q] = Load(row[p])
      BY <2>3, <3>3 DEF ObjectOK, Closing, Load, Open
    <3> QED
      BY <2>5, <3>2, <3>3
  <2>7. CycleOK(w)'
    BY <2>3, <2>4, <2>5, <2>6 DEF CycleOK
  <2>8. Elsewhere(w)
    BY <1>6 DEF TakePair, TypeOK
  <2> QED
    BY <1>1, <2>7, <2>8
<1>7. ASSUME NEW w \in Workers, NEW status \in Open, Evaluate(w, status)
      PROVE  CyclesInOrder'
  <2> DEFINE p == cycle[w].pair
  <2>1. CycleOK(w)
    BY DEF CyclesInOrder
  <2>2. /\ p \in Pairs /\ ~cycle[w].closing
        /\ object[w][p].value.status \in Open
    BY <1>7, <2>1 DEF Evaluate, CycleOK
  <2>3. /\ ~cycle'[w].closing /\ cycle'[w].stage = "committing"
        /\ cycle'[w].pair = p
    BY <1>7, <2>2 DEF Evaluate, Goto, TypeOK, Cycle
  <2>4. /\ object'[w][p] = [object[w][p] EXCEPT !.value.status = status]
        /\ \A q \in Pairs \ {p} : object'[w][q] = object[w][q]
    BY <1>7, <2>2 DEF Evaluate, TypeOK
  <2>5. ASSUME NEW q \in Pairs PROVE ObjectOK(w, q)'
    <3>1. ObjectOK(w, q) /\ object[w][q] \in Object
      BY <2>1 DEF CycleOK, TypeOK
    <3>2. CASE q # p
      BY <2>2, <2>3, <2>4, <3>1, <3>2 DEF ObjectOK, Closing
    <3>3. CASE q = p
      <4>1. /\ object'[w][q].loaded = object[w][q].loaded
            /\ object'[w][q].value.barred = object[w][q].value.barred
            /\ object'[w][q].value.status = status
        BY <2>4, <3>1, <3>3 DEF Object, Row
      <4> QED
        BY <2>2, <2>3, <3>1, <3>3, <4>1 DEF ObjectOK, Closing, Open
    <3> QED
      BY <3>2, <3>3
  <2>6. CycleOK(w)'
    BY <2>2, <2>3, <2>5 DEF CycleOK
  <2>7. Elsewhere(w)
    BY <1>7 DEF Evaluate, Goto, TypeOK
  <2> QED
    BY <1>1, <2>6, <2>7
<1>8. ASSUME NEW w \in Workers, AutoClose(w)
      PROVE  CyclesInOrder'
  <2> DEFINE p == cycle[w].pair
  <2>1. CycleOK(w)
    BY DEF CyclesInOrder
  <2>2. /\ p \in Pairs /\ ~cycle[w].closing
        /\ object[w][p].value.status \in Open /\ ~object[w][p].value.barred
    BY <1>8, <2>1 DEF AutoClose, MayAutoClose, CycleOK
  <2>3. /\ cycle'[w].closing /\ cycle'[w].stage = "committing"
        /\ cycle'[w].pair = p
    BY <1>8, <2>2 DEF AutoClose, TypeOK, Cycle
  <2>4. /\ object'[w][p] =
              [object[w][p] EXCEPT !.value.status = "resolved_split"]
        /\ \A q \in Pairs \ {p} : object'[w][q] = object[w][q]
    BY <1>8, <2>2 DEF AutoClose, TypeOK
  <2>5. ASSUME NEW q \in Pairs PROVE ObjectOK(w, q)'
    <3>1. ObjectOK(w, q) /\ object[w][q] \in Object
      BY <2>1 DEF CycleOK, TypeOK
    <3>2. CASE q # p
      BY <2>2, <2>3, <2>4, <3>1, <3>2 DEF ObjectOK, Closing
    <3>3. CASE q = p
      <4>1. /\ object'[w][q].loaded = object[w][q].loaded
            /\ object'[w][q].value.barred = object[w][q].value.barred
            /\ object'[w][q].value.status = "resolved_split"
        BY <2>4, <3>1, <3>3 DEF Object, Row
      <4> QED
        BY <2>2, <2>3, <3>1, <3>3, <4>1 DEF ObjectOK, Closing, Open
    <3> QED
      BY <3>2, <3>3
  <2>6. CycleOK(w)'
    BY <2>2, <2>3, <2>5 DEF CycleOK
  <2>7. Elsewhere(w)
    BY <1>8 DEF AutoClose, TypeOK
  <2> QED
    BY <1>1, <2>6, <2>7
<1>9. ASSUME NEW w \in Workers, AutoCloseFails(w)
      PROVE  CyclesInOrder'
  <2>1. cycle[w].pair \in Pairs /\ ~cycle[w].closing
    BY <1>9 DEF AutoCloseFails, MayAutoClose, CyclesInOrder, CycleOK
  <2>2. /\ ~cycle'[w].closing /\ cycle'[w].stage = "aborting"
        /\ cycle'[w].pair = cycle[w].pair
    BY <1>9, <2>1 DEF AutoCloseFails, Goto, TypeOK, Cycle
  <2>3. CycleOK(w)'
    BY <1>2, <1>3, <1>9, <2>1, <2>2, CleanSession DEF AutoCloseFails
  <2>4. Elsewhere(w)
    BY <1>9 DEF AutoCloseFails, Goto, Forget, TypeOK
  <2> QED
    BY <1>1, <2>3, <2>4
<1>10. ASSUME NEW w \in Workers, CommitPair(w)
       PROVE  CyclesInOrder'
  <2>1. \A p \in Pairs : object'[w][p] = Load(object[w][p].value)
    BY <1>10 DEF CommitPair, Saved, TypeOK
  <2>2. ~cycle'[w].closing /\ cycle'[w].stage = "between"
    BY <1>4, <1>10 DEF CommitPair
  <2>3. CycleOK(w)'
    <3>1. ASSUME NEW p \in Pairs
          PROVE  object'[w][p].value = object'[w][p].loaded
      <4>1. object'[w][p] = Load(object[w][p].value)
        BY <2>1
      <4> QED
        BY <4>1 DEF Load
    <3> QED
      BY <2>2, <3>1, CleanSession
  <2>4. Elsewhere(w)
    BY <1>10 DEF CommitPair, NextPair, TypeOK
  <2> QED
    BY <1>1, <2>3, <2>4
<1>11. ASSUME NEW w \in Workers, PairFails(w)
       PROVE  CyclesInOrder'
  <2>1. cycle[w].pair \in Pairs
    BY <1>11 DEF PairFails, CyclesInOrder, CycleOK
  <2>2. Elsewhere(w)
    BY <1>11 DEF PairFails, Goto, NextPair, Forget, TypeOK
  <2>3. CASE NextPair(w)
    BY <1>1, <1>2, <1>3, <1>4, <1>11, <2>2, <2>3, CleanSession DEF PairFails
  <2>4. CASE Goto(w, "aborting")
    <3>1. cycle'[w].stage = "aborting" /\ cycle'[w].pair \in Pairs
      BY <2>1, <2>4 DEF Goto, TypeOK, Cycle
    <3>2. ASSUME NEW p \in Pairs PROVE ObjectOK(w, p)'
      <4>1. object'[w][p] = Unloaded
        BY <1>2, <1>11 DEF PairFails
      <4> QED
        BY <3>1, <4>1 DEF ObjectOK, Closing, Unloaded, NoRow, Open
    <3>3. CycleOK(w)'
      BY <3>1, <3>2 DEF CycleOK
    <3> QED
      BY <1>1, <2>2, <3>3
  <2> QED
    BY <1>11, <2>3, <2>4 DEF PairFails
<1>12. ASSUME NEW w \in Workers, NextPair(w), UNCHANGED object,
              cycle[w].stage = "aborting"
       PROVE  CyclesInOrder'
  <2>1. ASSUME NEW p \in Pairs PROVE ObjectOK(w, p)'
    BY <1>4, <1>12 DEF CyclesInOrder, CycleOK, ObjectOK, Closing
  <2>2. CycleOK(w)'
    BY <1>4, <1>12, <2>1 DEF CycleOK
  <2> QED
    BY <1>1, <1>12, <2>2 DEF NextPair, TypeOK
<1>13. ASSUME NEW w \in Workers, Compensate(w) \/ CompensationFails(w)
       PROVE  CyclesInOrder'
  BY <1>12, <1>13 DEF Compensate, CompensationFails
<1>14. ASSUME NEW w \in Workers, EndCycle(w) \/ LoseCycle(w)
       PROVE  CyclesInOrder'
  <2>1. Forget(w) /\ cycle' = [cycle EXCEPT ![w] = NoCycle]
    BY <1>14 DEF EndCycle, LoseCycle
  <2>2. ~cycle'[w].closing /\ cycle'[w].stage = "idle"
    BY <2>1 DEF TypeOK, NoCycle
  <2>3. CycleOK(w)'
    BY <1>2, <1>3, <2>1, <2>2, CleanSession
  <2>4. Elsewhere(w)
    BY <2>1 DEF Forget, TypeOK
  <2> QED
    BY <1>1, <2>3, <2>4
<1>15. CASE UNCHANGED <<cycle, object>>
  BY <1>15 DEF CyclesInOrder, CycleOK, ObjectOK, Closing
<1>16. ASSUME NEW h \in Handlers,
              \/ \E op \in Ops, p \in Pairs : Read(h, op, p)
              \/ Serve(h) \/ GraphFails(h) \/ Die(h)
       PROVE  UNCHANGED <<cycle, object>>
  BY <1>16 DEF Serve, Read, ChangeEdge, Commit, Abort, Undo, GraphFails, Die,
               runner
<1> QED
  BY <1>5, <1>6, <1>7, <1>8, <1>9, <1>10, <1>11, <1>13, <1>14, <1>15, <1>16
     DEF Next, Run, CacheExpires, vars

(* The domains of the variables, and the stages of what is going on. *)
SessionInv == TypeOK /\ HandlersInOrder /\ CyclesInOrder

THEOREM SessionsStayInOrder == Spec => []SessionInv
<1>1. Init => SessionInv
  <2> SUFFICES ASSUME Init PROVE HandlersInOrder /\ CyclesInOrder
    BY InitTypeOK DEF SessionInv
  <2>1. HandlersInOrder
    BY DEF Init, HandlersInOrder, RequestOK, NoRequest
  <2>2. CyclesInOrder
    BY DEF Init, CyclesInOrder, CycleOK, ObjectOK, Closing, NoCycle, Unloaded,
           NoRow, Open
  <2> QED
    BY <2>1, <2>2
<1>2. SessionInv /\ [Next]_vars => SessionInv'
  BY NextTypeOK, NextHandlersInOrder, NextCyclesInOrder DEF SessionInv
<1> QED
  BY <1>1, <1>2, PTL DEF Spec

(* Every variable stays in its domain, whatever the handlers and the       *)
(* cycles do.                                                              *)
THEOREM TypesHold == Spec => []TypeOK
BY SessionsStayInOrder, PTL DEF SessionInv

----------------------------------------------------------------------------
(* Rows, rulings and edges agree. *)

LEMMA MarksAreKept ==
  ASSUME TypeOK, [Next]_vars, NEW p \in Pairs
  PROVE  marks[p] \subseteq marks'[p]
<1>1. ASSUME NEW q, NEW ms, Mark(q, ms)
      PROVE  marks[p] \subseteq marks'[p]
  BY <1>1 DEF Mark, TypeOK
<1>2. ASSUME NEW h \in Handlers,
             \/ \E op \in Ops, q \in Pairs : Read(h, op, q)
             \/ Serve(h) \/ GraphFails(h) \/ Die(h)
      PROVE  marks[p] \subseteq marks'[p]
  BY <1>1, <1>2
     DEF Serve, Read, ChangeEdge, Commit, Abort, Undo, GraphFails, Die
<1>3. ASSUME NEW w \in Workers,
             \/ BeginCycle(w) \/ CacheExpires(w) \/ PairFails(w)
             \/ \E q \in Pairs : TakePair(w, q)
             \/ \E status \in Open : Evaluate(w, status)
             \/ AutoClose(w) \/ AutoCloseFails(w)
      PROVE  marks' = marks
  BY <1>3 DEF BeginCycle, CacheExpires, PairFails, TakePair, Evaluate,
              AutoClose, AutoCloseFails
<1>4. ASSUME NEW w \in Workers,
             CommitPair(w) \/ EndCycle(w) \/ Compensate(w)
             \/ CompensationFails(w) \/ LoseCycle(w)
      PROVE  marks[p] \subseteq marks'[p]
  BY <1>1, <1>4
     DEF CommitPair, EndCycle, Compensate, CompensationFails, LoseCycle
<1> QED
  BY <1>2, <1>3, <1>4 DEF Next, Run, vars

(* What a mark, or its absence, says of the step. *)
LEMMA UnmarkedStep ==
  ASSUME TypeOK, NEW p \in Pairs, NEW ms, Mark(p, ms)
  PROVE  /\ marks'[p] = marks[p] \cup ms
         /\ \A q \in Pairs \ {p} : marks'[q] = marks[q]
BY DEF TypeOK, Mark

LEMMA UnracedStep ==
  ASSUME NEW test \in BOOLEAN, NEW ms, RacedIf(test) \subseteq ms
  PROVE  "raced" \notin ms => ~test
BY DEF RacedIf

(* A commit of a row nobody has touched since it was loaded. *)
LEMMA FlushFresh ==
  ASSUME NEW r \in Row, NEW v \in Row
  PROVE  Flush(r, [loaded |-> r, value |-> v]) = v
BY DEF Flush, Row

(* A clean object leaves a row alone. *)
LEMMA FlushClean ==
  ASSUME NEW r \in Row, NEW o \in Object, ~Dirty(o)
  PROVE  Flush(r, o) = r
BY DEF Flush, Row, Dirty

(* A dirty object that is not about to close its pair leaves it open.      *)
LEMMA DirtyIsOpen ==
  ASSUME SessionInv, NEW w \in Workers, NEW p \in Pairs,
         ~Closing(w, p), Dirty(object[w][p])
  PROVE  /\ object[w][p].value.status \in Open
         /\ object[w][p].loaded.status \in Open \cup {"none"}
<1> DEFINE o == object[w][p]
<1>1. ObjectOK(w, p) /\ o \in Object
  BY DEF SessionInv, CyclesInOrder, CycleOK, TypeOK
<1>2. o.value.status # o.loaded.status
  BY <1>1 DEF ObjectOK, Dirty, Object, Row
<1> QED
  BY <1>1, <1>2 DEF ObjectOK, Object, Row, RowStatus

(* A step that leaves the stores of p alone, ends no pending operation on  *)
(* it and plans no insertion.                                              *)
LEMMA StoresFrame ==
  ASSUME NEW p \in Pairs, marks[p] = {}, AgreeAt(p),
         row'[p].status = row[p].status, ruling'[p] = ruling[p],
         edge'[p] = edge[p], Pending(p) => Pending(p)',
         \A w \in Workers : WouldInsert(w, p)' => WouldInsert(w, p),
         \A h \in Handlers : RegistersUnruled(h, p)'
  PROVE  AgreeAt(p)'
BY DEF AgreeAt, RulingFollowsRow, EdgeFollowsRow, InsertionsAreDue

LEMMA HandlerFrame ==
  ASSUME NEW p \in Pairs, marks[p] = {}, AgreeAt(p), NEW h \in Handlers,
         \A g \in Handlers \ {h} : request'[g] = request[g],
         row'[p] = row[p], ruling'[p] = ruling[p], edge'[p] = edge[p],
         UNCHANGED runner, Handling(h, p) => Handling(h, p)',
         RegistersUnruled(h, p)'
  PROVE  AgreeAt(p)'
<1>1. Pending(p) => Pending(p)'
  <2>1. \A g \in Handlers : Handling(g, p) => Handling(g, p)'
    BY DEF Handling
  <2>2. \A w \in Workers : Cutting(w, p) => Cutting(w, p)'
    BY DEF Cutting, runner
  <2> QED
    BY <2>1, <2>2 DEF Pending
<1>2. \A w \in Workers : WouldInsert(w, p)' => WouldInsert(w, p)
  BY DEF WouldInsert, Dirty, runner
<1>3. \A g \in Handlers : RegistersUnruled(g, p)'
  BY DEF AgreeAt, RegistersUnruled
<1> QED
  BY <1>1, <1>2, <1>3, StoresFrame

LEMMA CycleFrame ==
  ASSUME NEW p \in Pairs, marks[p] = {}, AgreeAt(p), NEW w \in Workers,
         \A v \in Workers \ {w} : /\ cycle'[v] = cycle[v]
                                  /\ object'[v] = object[v]
                                  /\ cached'[v] = cached[v],
         row'[p].status = row[p].status, ruling'[p] = ruling[p],
         edge'[p] = edge[p], UNCHANGED request,
         Cutting(w, p) => Cutting(w, p)',
         WouldInsert(w, p)' => WouldInsert(w, p)
  PROVE  AgreeAt(p)'
<1>1. Pending(p) => Pending(p)'
  <2>1. \A g \in Handlers : Handling(g, p) => Handling(g, p)'
    BY DEF Handling
  <2>2. \A v \in Workers : Cutting(v, p) => Cutting(v, p)'
    BY DEF Cutting
  <2> QED
    BY <2>1, <2>2 DEF Pending
<1>2. \A v \in Workers : WouldInsert(v, p)' => WouldInsert(v, p)
  BY DEF WouldInsert, Dirty
<1>3. \A g \in Handlers : RegistersUnruled(g, p)'
  BY DEF AgreeAt, RegistersUnruled
<1> QED
  BY <1>1, <1>2, <1>3, StoresFrame

(* A step after which p is settled, whoever else is pending. *)
LEMMA Settles ==
  ASSUME NEW p \in Pairs, row'[p].status \in {"observing", "actionable",
                                              "resolved_split"},
         RulingFollowsRow(p)', EdgeFollowsRow(p)' \/ Pending(p)',
         \A h \in Handlers : RegistersUnruled(h, p)'
  PROVE  AgreeAt(p)'
BY DEF AgreeAt, InsertionsAreDue

LEMMA HandlersAgree ==
  ASSUME SessionInv, AgreeInv, NEW h \in Handlers, NEW q \in Pairs,
         marks'[q] = {}, marks[q] = {},
         \/ \E op \in Ops, p \in Pairs : Read(h, op, p)
         \/ Serve(h) \/ GraphFails(h) \/ Die(h)
  PROVE  AgreeAt(q)'
<1> USE DEF SessionInv
<1> DEFINE r == request[h]
<1>1. AgreeAt(q) /\ r \in Request /\ RequestOK(r) /\ StateOf(q) \in State
  BY StateType DEF AgreeInv, TypeOK, HandlersInOrder
<1>2. ASSUME NEW op \in Ops, NEW p \in Pairs, Read(h, op, p)
      PROVE  AgreeAt(q)'
  <2>1. /\ \A g \in Handlers \ {h} : request'[g] = request[g]
        /\ request'[h].stage = "read" /\ r.stage = "idle"
    BY <1>2 DEF Read, TypeOK
  <2>2. ~Handling(h, q) /\ RegistersUnruled(h, q)'
    BY <2>1 DEF Handling, RegistersUnruled
  <2> QED
    BY <1>1, <1>2, <2>1, <2>2, HandlerFrame DEF Read, store
<1>3. ASSUME Answer(h), ~Handling(h, q) \/ marks'[q] # {}, UNCHANGED runner,
             row'[q] = row[q], ruling'[q] = ruling[q], edge'[q] = edge[q]
      PROVE  AgreeAt(q)'
  <2>1. /\ \A g \in Handlers \ {h} : request'[g] = request[g]
        /\ request'[h].stage = "idle"
    BY <1>3 DEF Answer, TypeOK, NoRequest
  <2>2. RegistersUnruled(h, q)'
    BY <2>1 DEF RegistersUnruled
  <2> QED
    BY <1>1, <1>3, <2>1, <2>2, HandlerFrame
<1>4. ASSUME request' = [request EXCEPT ![h].stage = "undoing"],
             r.stage # "idle", UNCHANGED <<store, runner>>, r.op = "reopen"
      PROVE  AgreeAt(q)'
  <2>1. /\ \A g \in Handlers \ {h} : request'[g] = request[g]
        /\ request'[h].stage = "undoing" /\ request'[h].pair = r.pair
        /\ request'[h].op = r.op
    BY <1>4 DEF TypeOK, Request
  <2>2. Handling(h, q) => Handling(h, q)'
    BY <2>1 DEF Handling
  <2>3. RegistersUnruled(h, q)'
    BY <2>1 DEF RegistersUnruled
  <2> QED
    BY <1>1, <1>4, <2>1, <2>2, <2>3, HandlerFrame DEF store
<1>5. ASSUME ChangeEdge(h)
      PROVE  AgreeAt(q)'
  <2> DEFINE p == r.pair
             ms == RacedIf(StateOf(p) # r.seen)
                     \cup (IF r.op \in Registers /\ ruling[p].source # "none"
                           THEN {"overruled"} ELSE {})
  <2>1. /\ p \in Pairs /\ r.op \in Ops /\ r.stage = "read"
        /\ Mark(p, ms) /\ row' = row /\ ruling' = ruling /\ UNCHANGED runner
        /\ edge' = [edge EXCEPT ![p] = Edge(r.op)]
    BY <1>1, <1>5 DEF ChangeEdge, RequestOK
  <2>2. /\ \A g \in Handlers \ {h} : request'[g] = request[g]
        /\ request'[h].stage = "changed" /\ request'[h].pair = p
        /\ request'[h].op = r.op
        /\ r.op \in Registers => request'[h].seen.ruling = r.seen.ruling
    BY <1>1, <1>5 DEF ChangeEdge, TypeOK, Request, State, Registers
  <2>3. CASE q # p
    <3>1. ~Handling(h, q) /\ RegistersUnruled(h, q)'
      BY <2>2, <2>3 DEF Handling, RegistersUnruled
    <3>2. edge'[q] = edge[q]
      BY <2>1, <2>3 DEF TypeOK
    <3> QED
      BY <1>1, <1>5, <2>1, <2>2, <3>1, <3>2, HandlerFrame DEF ChangeEdge
  <2>4. CASE q = p
    <3>1. /\ StateOf(p) = r.seen
          /\ r.op \in Registers => ruling[p].source = "none"
      <4>1. marks'[p] = marks[p] \cup ms
        BY <2>1, UnmarkedStep DEF TypeOK
      <4>2. ms = {}
        BY <2>4, <4>1
      <4> QED
        BY <4>2 DEF RacedIf
    <3>2. edge'[q] = Edge(r.op)
      BY <2>1, <2>4 DEF TypeOK
    <3>3. \A w \in Workers : WouldInsert(w, q)' <=> WouldInsert(w, q)
      BY <2>1 DEF WouldInsert, Dirty, runner
    <3>4. \A g \in Handlers : RegistersUnruled(g, q)'
      <4>1. RegistersUnruled(h, q)'
        BY <2>2, <2>4, <3>1 DEF RegistersUnruled, StateOf
      <4> QED
        BY <1>1, <2>2, <4>1 DEF RegistersUnruled, AgreeAt
    <3>5. CASE r.op \in Registers
      <4>1. row[q].status # "resolved_split" /\ edge'[q]
        <5>1. r.seen.row = row[p]
          BY <3>1 DEF StateOf
        <5>2. r.seen.row.status # "resolved_split"
          BY <1>1, <2>1, <3>5 DEF RequestOK
        <5>3. Edge(r.op)
          BY <3>5 DEF Edge, Registers
        <5> QED
          BY <2>4, <3>2, <5>1, <5>2, <5>3
      <4> QED
        BY <1>1, <2>1, <2>4, <3>1, <3>3, <3>4, <3>5, <4>1
           DEF AgreeAt, RulingFollowsRow, EdgeFollowsRow, InsertionsAreDue
    <3>6. CASE r.op = "close"
      <4>1. Pending(q)' /\ ~edge'[q]
        BY <2>2, <2>4, <3>2, <3>6 DEF Pending, Handling, Registers, Edge
      <4> QED
        BY <1>1, <2>1, <3>3, <3>4, <4>1
           DEF AgreeAt, RulingFollowsRow, InsertionsAreDue
    <3>7. CASE r.op = "reopen"
      <4>1. Pending(q)' /\ ruling[q].source = "auto_observation"
        BY <1>1, <2>1, <2>2, <2>4, <3>1, <3>7
           DEF Pending, Handling, Registers, RequestOK, StateOf
      <4> QED
        BY <1>1, <2>1, <3>3, <3>4, <4>1
           DEF AgreeAt, RulingFollowsRow, InsertionsAreDue
    <3> QED
      BY <2>1, <3>5, <3>6, <3>7 DEF Ops, Registers
  <2> QED
    BY <2>3, <2>4
<1>6. ASSUME GraphFails(h)
      PROVE  AgreeAt(q)'
  <2>1. r.stage = "read" /\ UNCHANGED <<store, runner>>
    BY <1>6 DEF GraphFails
  <2>2. ~Handling(h, q)
    BY <2>1 DEF Handling
  <2>3. CASE r.op = "reopen"
    BY <1>4, <1>6, <2>1, <2>3 DEF GraphFails
  <2>4. CASE r.op # "reopen"
    BY <1>3, <1>6, <2>1, <2>2, <2>4 DEF GraphFails, store
  <2> QED
    BY <2>3, <2>4
<1>7. ASSUME Commit(h)
      PROVE  AgreeAt(q)'
  <2> DEFINE p == r.pair
             new == Target(r.op, r.seen.row)
             o == [loaded |-> r.seen.row, value |-> new]
  <2>1. /\ p \in Pairs /\ r.op \in Ops /\ r.stage = "changed" /\ Answer(h)
        /\ Mark(p, RacedIf(StateOf(p) # r.seen))
        /\ row' = [row EXCEPT ![p] = Flush(row[p], o)]
        /\ ruling' = [ruling EXCEPT ![p] =
                         RulingAfter(r.op, ruling[p], r.seen.ruling)]
        /\ edge' = edge /\ UNCHANGED runner
    BY <1>1, <1>7 DEF Commit, RequestOK
  <2>2. CASE q # p
    <3>1. row'[q] = row[q] /\ ruling'[q] = ruling[q]
      BY <2>1, <2>2 DEF TypeOK
    <3>2. ~Handling(h, q)
      BY <2>2 DEF Handling
    <3> QED
      BY <1>3, <2>1, <3>1, <3>2
  <2>3. CASE q = p
    <3>1. StateOf(p) = r.seen
      <4> DEFINE ms == RacedIf(StateOf(p) # r.seen)
      <4>1. Mark(p, ms) /\ p \in Pairs
        BY <2>1
      <4> HIDE DEF ms
      <4>2. marks'[p] = marks[p] \cup ms
        BY <4>1, UnmarkedStep
      <4>3. ms = {}
        BY <2>3, <4>2
      <4> QED
        BY <4>3 DEF ms, RacedIf
    <3>2. /\ r.seen.row = row[p] /\ r.seen.ruling = ruling[p]
          /\ edge[p] = Edge(r.op)
      BY <1>1, <2>1, <3>1 DEF StateOf, RequestOK
    <3>3. row'[p] = new
      <4>1. new \in Row /\ row[p] \in Row
        BY <2>1, <3>2, TargetType DEF TypeOK
      <4> QED
        BY <2>1, <3>2, <4>1, FlushFresh DEF TypeOK
    <3>4. ruling'[p] = RulingAfter(r.op, ruling[p], ruling[p])
      BY <2>1, <3>2 DEF TypeOK
    <3>5. \A g \in Handlers : RegistersUnruled(g, q)'
      <4>1. /\ \A g \in Handlers \ {h} : request'[g] = request[g]
            /\ request'[h].stage = "idle"
        BY <2>1 DEF Answer, TypeOK, NoRequest
      <4> QED
        BY <1>1, <4>1 DEF RegistersUnruled, AgreeAt
    <3>6. row[p] \in Row /\ ruling[p] \in Ruling
      BY <2>1 DEF TypeOK
    <3>7. CASE r.op \in Registers
      <4>1. row'[p].status = "observing" /\ r.op \notin {"close", "reopen"}
        BY <3>2, <3>3, <3>6, <3>7 DEF Target, Row, Registers
      <4>2. ruling'[p].source = "none"
        <5>1. ruling[p].source = "none"
          BY <1>1, <2>1, <2>3, <3>2, <3>7 DEF AgreeAt, RegistersUnruled
        <5> QED
          BY <3>4, <3>7, <4>1, <5>1 DEF RulingAfter
      <4> QED
        BY <2>1, <2>3, <3>2, <3>5, <4>1, <4>2, Settles
           DEF RulingFollowsRow, EdgeFollowsRow, Edge, Open
    <3>8. CASE r.op = "close"
      <4>1. row'[p].status = "resolved_split"
        BY <3>2, <3>3, <3>6, <3>8 DEF Target, Row, Registers
      <4>2. ruling'[p].source # "none"
        BY <3>4, <3>8 DEF RulingAfter, Closed, NewRuling, Registers
      <4> QED
        BY <2>1, <2>3, <3>2, <3>5, <3>8, <4>1, <4>2, Settles
           DEF RulingFollowsRow, EdgeFollowsRow, Edge, Open
    <3>9. CASE r.op = "reopen"
      <4>1. row'[p].status = "observing"
        BY <3>3, <3>9 DEF Target, Registers
      <4>2. ruling'[p].source = "none"
        BY <3>4, <3>6, <3>9 DEF RulingAfter, NoRuling, Ruling, Registers
      <4> QED
        BY <2>1, <2>3, <3>2, <3>5, <3>9, <4>1, <4>2, Settles
           DEF RulingFollowsRow, EdgeFollowsRow, Edge, Open
    <3> QED
      BY <2>1, <3>7, <3>8, <3>9 DEF Ops, Registers
  <2> QED
    BY <2>2, <2>3
<1>8. ASSUME Abort(h)
      PROVE  AgreeAt(q)'
  <2>1. /\ r.stage = "changed" /\ r.pair \in Pairs
        /\ UNCHANGED <<store, runner>>
    BY <1>1, <1>8 DEF Abort, RequestOK
  <2>2. CASE r.op = "reopen"
    BY <1>4, <1>8, <2>1, <2>2 DEF Abort
  <2>3. CASE r.op # "reopen"
    <3>1. Handling(h, q) => r.op = "close" /\ r.pair = q
      BY <1>1, <2>1, <2>3 DEF Handling, RequestOK, Ops, Registers
    <3>2. Handling(h, q) => marks'[q] # {}
      BY <1>8, <3>1 DEF Abort, Mark, TypeOK
    <3> QED
      BY <1>3, <1>8, <2>1, <2>3, <3>2 DEF Abort, store
  <2> QED
    BY <2>2, <2>3
<1>9. ASSUME Undo(h)
      PROVE  AgreeAt(q)'
  <2> DEFINE p == r.pair
  <2>1. /\ p \in Pairs /\ r.op = "reopen" /\ r.stage = "undoing" /\ Answer(h)
        /\ Mark(p, RacedIf(StateOf(p) # r.seen))
        /\ edge' = [edge EXCEPT ![p] = FALSE]
        /\ row' = row /\ ruling' = ruling /\ UNCHANGED runner
    BY <1>1, <1>9 DEF Undo, RequestOK
  <2>2. CASE q # p
    <3>1. edge'[q] = edge[q] /\ ~Handling(h, q)
      BY <2>1, <2>2 DEF TypeOK, Handling
    <3> QED
      BY <1>3, <2>1, <3>1
  <2>3. CASE q = p
    <3>1. StateOf(p) = r.seen
      <4> DEFINE ms == RacedIf(StateOf(p) # r.seen)
      <4>1. Mark(p, ms) /\ p \in Pairs
        BY <2>1
      <4> HIDE DEF ms
      <4>2. marks'[p] = marks[p] \cup ms
        BY <4>1, UnmarkedStep
      <4>3. ms = {}
        BY <2>3, <4>2
      <4> QED
        BY <4>3 DEF ms, RacedIf
    <3>2. ruling[p].source = "auto_observation"
      BY <1>1, <2>1, <3>1 DEF RequestOK, StateOf
    <3>3. row[p].status = "resolved_split"
      BY <1>1, <2>1, <2>3, <3>2
         DEF AgreeAt, RulingFollowsRow, TypeOK, Row, RowStatus
    <3>4. ~edge'[p]
      BY <2>1 DEF TypeOK
    <3>5. \A g \in Handlers : RegistersUnruled(g, q)'
      <4>1. /\ \A g \in Handlers \ {h} : request'[g] = request[g]
            /\ request'[h].stage = "idle"
        BY <2>1 DEF Answer, TypeOK, NoRequest
      <4> QED
        BY <1>1, <4>1 DEF RegistersUnruled, AgreeAt
    <3> QED
      BY <2>1, <2>3, <3>2, <3>3, <3>4, <3>5, Settles
         DEF RulingFollowsRow, EdgeFollowsRow, Open
  <2> QED
    BY <2>2, <2>3
<1>10. ASSUME Die(h)
       PROVE  AgreeAt(q)'
  <2>1. Handling(h, q) => marks'[q] # {}
    BY <1>10 DEF Die, Handling, Mark, TypeOK
  <2> QED
    BY <1>3, <1>10, <2>1 DEF Die, store
<1> QED
  BY <1>2, <1>5, <1>6, <1>7, <1>8, <1>9, <1>10 DEF Serve

(* A session writes a row it does not close.                               *)
LEMMA FlushAgrees ==
  ASSUME SessionInv, NEW p \in Pairs, NEW w \in Workers,
         marks[p] = {}, AgreeAt(p), ~Closing(w, p), ~Cutting(w, p),
         p \notin Overwrites(w), row'[p] = Flush(row[p], object[w][p]),
         \A v \in Workers \ {w} : /\ cycle'[v] = cycle[v]
                                  /\ object'[v] = object[v],
         ruling'[p] = ruling[p], UNCHANGED <<edge, request, cached>>,
         ~Dirty(object'[w][p])
  PROVE  AgreeAt(p)'
<1> DEFINE o == object[w][p]
<1>1. row[p] \in Row /\ o \in Object
  BY DEF SessionInv, TypeOK
<1>2. WouldInsert(w, p)' => WouldInsert(w, p)
  BY DEF WouldInsert
<1>3. CASE ~Dirty(o)
  <2>1. row'[p] = row[p]
    BY <1>1, <1>3, FlushClean
  <2> QED
    BY <1>2, <2>1, CycleFrame
<1>4. CASE Dirty(o)
  <2>1. /\ o.value.status \in Open
        /\ row[p] = o.loaded
        /\ row[p].status \in Open \cup {"none"}
    BY <1>4, DirtyIsOpen DEF Overwrites
  <2>2. row'[p].status \in Open
    BY <2>1 DEF Flush
  <2>3. ruling[p].source = "none" /\ (edge[p] \/ Pending(p))
    BY <1>4, <2>1
       DEF AgreeAt, RulingFollowsRow, EdgeFollowsRow, InsertionsAreDue,
           WouldInsert
  <2>4. Pending(p) => Pending(p)'
    BY DEF Pending, Handling, Cutting
  <2>5. \A h \in Handlers : RegistersUnruled(h, p)'
    BY DEF AgreeAt, RegistersUnruled
  <2> QED
    BY <2>2, <2>3, <2>4, <2>5, Settles
       DEF RulingFollowsRow, EdgeFollowsRow, Open
<1> QED
  BY <1>3, <1>4

LEMMA CyclesAgree ==
  ASSUME SessionInv, AgreeInv, NEW w \in Workers, NEW q \in Pairs,
         marks'[q] = {}, marks[q] = {},
         \/ BeginCycle(w) \/ Run(w) \/ PairFails(w) \/ CompensationFails(w)
         \/ LoseCycle(w) \/ CacheExpires(w)
  PROVE  AgreeAt(q)'
<1> USE DEF SessionInv
<1> DEFINE c == cycle[w]
           p == c.pair
<1>1. /\ AgreeAt(q) /\ c \in Cycle /\ CycleOK(w) /\ ObjectOK(w, q)
      /\ object[w][q] \in Object /\ row[q] \in Row
  BY DEF AgreeInv, TypeOK, CyclesInOrder, CycleOK
<1>2. ASSUME Forget(w) PROVE ~Dirty(object'[w][q])
  BY <1>2 DEF Forget, TypeOK, Dirty, Unloaded
<1>3. ASSUME BeginCycle(w)
      PROVE  AgreeAt(q)'
  <2> DEFINE view == IF cached[w].kept THEN cached[w].edges
                                       ELSE {x \in Pairs : edge[x]}
             synced == [x \in Pairs |-> Synced(row[x], x \in view)]
             added == {x \in Pairs : row[x] = NoRow /\ Dirty(synced[x])}
  <2>1. q \in view => (cached[w].kept /\ q \in cached[w].edges) \/ edge[q]
    OBVIOUS
  <2>2. cached' = [cached EXCEPT ![w] = [kept |-> TRUE, edges |-> view]]
    BY <1>3 DEF BeginCycle
  <2> HIDE DEF view
  <2>3. PICK due \in SUBSET {x \in Pairs : row[x].status \in Open} :
          /\ cycle' = [cycle EXCEPT ![w] =
                [NoCycle EXCEPT !.stage = "between", !.todo = due \cup added]]
          /\ object' = [object EXCEPT ![w] =
                [x \in Pairs |-> IF x \in due \/ Dirty(synced[x])
                                 THEN synced[x] ELSE Unloaded]]
    BY <1>3 DEF BeginCycle, view
  <2>4. c.stage = "idle" /\ UNCHANGED <<store, request>>
    BY <1>3 DEF BeginCycle
  <2>5. ~Cutting(w, q)
    BY <1>1, <2>4 DEF CycleOK, Cutting
  <2>6. /\ object'[w][q].loaded.status = "none" /\ Dirty(object'[w][q])
        => q \in view
    <3>1. CASE object'[w][q] = Unloaded
      BY <3>1 DEF Unloaded, Dirty
    <3>2. CASE object'[w][q] = Synced(row[q], q \in view)
      <4> DEFINE o == Synced(row[q], q \in view)
      <4>1. /\ o.loaded = row[q]
            /\ Dirty(o) /\ row[q].status = "none" => q \in view
        BY <1>1, SyncedStatus
      <4> HIDE DEF o
      <4>2. object'[w][q] = o
        BY <3>2 DEF o
      <4> QED
        BY <4>1, <4>2
    <3> QED
      BY <2>3, <3>1, <3>2 DEF TypeOK
  <2>7. WouldInsert(w, q)' => WouldInsert(w, q) \/ edge[q]
    <3>1. cached'[w].edges = view
      BY <2>2 DEF TypeOK
    <3> QED
      BY <2>1, <2>6, <3>1 DEF WouldInsert
  <2>8. \A v \in Workers \ {w} : /\ cycle'[v] = cycle[v]
                                 /\ object'[v] = object[v]
                                 /\ cached'[v] = cached[v]
    BY <2>2, <2>3 DEF TypeOK
  <2>9. CASE ~WouldInsert(w, q)' \/ WouldInsert(w, q)
    BY <1>1, <2>4, <2>5, <2>8, <2>9, CycleFrame DEF store
  <2>10. CASE edge[q]
    <3>1. Pending(q) => Pending(q)'
      BY <2>4, <2>5, <2>8 DEF Pending, Handling, Cutting
    <3> QED
      BY <1>1, <2>4, <2>10, <3>1
         DEF AgreeAt, RulingFollowsRow, EdgeFollowsRow, InsertionsAreDue,
             RegistersUnruled, store
  <2> QED
    BY <2>7, <2>9, <2>10
<1>4. ASSUME NEW x \in Pairs, TakePair(w, x)
      PROVE  AgreeAt(q)'
  <2>1. c.stage = "between" /\ UNCHANGED <<store, request, cached>>
    BY <1>4 DEF TakePair
  <2>2. ~Cutting(w, q)
    BY <1>1, <2>1 DEF CycleOK, Cutting
  <2>3. object'[w][q] = object[w][q] \/ object'[w][q] = Load(row[q])
    BY <1>4 DEF TakePair, TypeOK
  <2>4. WouldInsert(w, q)' => WouldInsert(w, q)
    BY <2>1, <2>3 DEF WouldInsert, Dirty, Load
  <2>5. \A v \in Workers \ {w} : /\ cycle'[v] = cycle[v]
                                 /\ object'[v] = object[v]
    BY <1>4 DEF TakePair, TypeOK
  <2> QED
    BY <1>1, <2>1, <2>2, <2>4, <2>5, CycleFrame DEF store
<1>5. ASSUME c.stage = "taken", NEW status \in RowStatus,
             object' = [object EXCEPT ![w][p].value.status = status]
      PROVE  /\ object'[w][q].loaded.status = "none" /\ Dirty(object'[w][q])
             => object[w][q].loaded.status = "none" /\ Dirty(object[w][q])
  <2>1. p \in Pairs /\ object[w][p].value.status \in Open
    BY <1>1, <1>5 DEF CycleOK
  <2>2. CASE q # p
    <3>1. object'[w][q] = object[w][q]
      BY <1>5, <2>1, <2>2 DEF TypeOK
    <3> QED
      BY <3>1
  <2>3. CASE q = p
    <3>1. object'[w][q].loaded = object[w][q].loaded
      BY <1>1, <1>5, <2>1, <2>3 DEF TypeOK, Object
    <3> QED
      BY <2>1, <2>3, <3>1 DEF Dirty, Open
  <2> QED
    BY <2>2, <2>3
<1>6. ASSUME NEW status \in Open, Evaluate(w, status)
      PROVE  AgreeAt(q)'
  <2>1. /\ c.stage = "taken" /\ UNCHANGED <<store, request, cached>>
        /\ object' = [object EXCEPT ![w][p].value.status = status]
        /\ \A v \in Workers \ {w} : /\ cycle'[v] = cycle[v]
                                    /\ object'[v] = object[v]
    BY <1>6 DEF Evaluate, Goto, TypeOK
  <2>2. ~Cutting(w, q)
    BY <1>1, <2>1 DEF CycleOK, Cutting
  <2>3. WouldInsert(w, q)' => WouldInsert(w, q)
    BY <1>5, <2>1 DEF WouldInsert, RowStatus
  <2> QED
    BY <1>1, <2>1, <2>2, <2>3, CycleFrame DEF store
<1>7. ASSUME AutoClose(w)
      PROVE  AgreeAt(q)'
  <2>1. /\ c.stage = "taken" /\ p \in Pairs
        /\ UNCHANGED <<row, ruling, request>>
        /\ edge' = [edge EXCEPT ![p] = FALSE]
        /\ object' = [object EXCEPT ![w][p].value.status = "resolved_split"]
        /\ \A v \in Workers \ {w} : /\ cycle'[v] = cycle[v]
                                    /\ object'[v] = object[v]
                                    /\ cached'[v] = cached[v]
    BY <1>1, <1>7 DEF AutoClose, MayAutoClose, CycleOK, TypeOK
  <2>2. ~Cutting(w, q)
    BY <1>1, <2>1 DEF CycleOK, Cutting
  <2>3. ~cached'[w].kept
    BY <1>7 DEF AutoClose, TypeOK, NoCache
  <2>4. WouldInsert(w, q)' => WouldInsert(w, q)
    BY <1>5, <2>1, <2>3 DEF WouldInsert, RowStatus
  <2>5. CASE q # p
    <3>1. edge'[q] = edge[q]
      BY <2>1, <2>5 DEF TypeOK
    <3> QED
      BY <1>1, <2>1, <2>2, <2>4, <3>1, CycleFrame
  <2>6. CASE q = p
    <3>1. Pending(q)'
      <4>1. cycle'[w].closing /\ cycle'[w].pair = p
        BY <1>7 DEF AutoClose, TypeOK, Cycle
      <4> QED
        BY <2>6, <4>1 DEF Pending, Cutting
    <3>2. ~edge'[q]
      BY <2>1, <2>6 DEF TypeOK
    <3>3. \A v \in Workers : WouldInsert(v, q)' => WouldInsert(v, q)
      BY <2>1, <2>4 DEF WouldInsert, Dirty
    <3> QED
      BY <1>1, <2>1, <3>1, <3>2, <3>3
         DEF AgreeAt, RulingFollowsRow, InsertionsAreDue, RegistersUnruled
  <2> QED
    BY <2>5, <2>6
<1>8. ASSUME Forget(w), UNCHANGED <<store, request>>,
             \A v \in Workers \ {w} : /\ cycle'[v] = cycle[v]
                                      /\ cached'[v] = cached[v],
             cached'[w] = cached[w] \/ ~cached'[w].kept,
             Cutting(w, q) => Cutting(w, q)'
      PROVE  AgreeAt(q)'
  <2>1. WouldInsert(w, q)' => WouldInsert(w, q)
    BY <1>2, <1>8 DEF WouldInsert
  <2>2. \A v \in Workers \ {w} : object'[v] = object[v]
    BY <1>8 DEF Forget, TypeOK
  <2> QED
    BY <1>1, <1>8, <2>1, <2>2, CycleFrame DEF store
<1>9. ASSUME AutoCloseFails(w)
      PROVE  AgreeAt(q)'
  <2>1. c.stage = "taken" /\ UNCHANGED <<store, request, cached>> /\ Forget(w)
    BY <1>9 DEF AutoCloseFails, MayAutoClose
  <2>2. ~Cutting(w, q)
    BY <1>1, <2>1 DEF CycleOK, Cutting
  <2>3. \A v \in Workers \ {w} : cycle'[v] = cycle[v]
    BY <1>9 DEF AutoCloseFails, Goto, TypeOK
  <2> QED
    BY <1>8, <2>1, <2>2, <2>3
<1>10. ASSUME PairFails(w)
       PROVE  AgreeAt(q)'
  <2>1. UNCHANGED <<store, request, cached>> /\ Forget(w)
        /\ c.stage = "committing"
    BY <1>10 DEF PairFails
  <2>2. \A v \in Workers \ {w} : cycle'[v] = cycle[v]
    BY <1>10 DEF PairFails, Goto, NextPair, TypeOK
  <2>3. Cutting(w, q) => Cutting(w, q)'
    BY <1>1, <1>10, <2>1 DEF PairFails, Goto, Cutting, TypeOK, Cycle
  <2> QED
    BY <1>8, <2>1, <2>2, <2>3
<1>11. ASSUME LoseCycle(w)
       PROVE  AgreeAt(q)'
  <2>1. UNCHANGED <<store, request>> /\ Forget(w)
    BY <1>11 DEF LoseCycle
  <2>2. ~Cutting(w, q)
    <3> SUFFICES ASSUME Cutting(w, q) PROVE FALSE
      OBVIOUS
    <3>1. p = q /\ Mark(q, {"lost"})
      BY <1>11 DEF LoseCycle, Cutting
    <3> QED
      BY <3>1, UnmarkedStep
  <2>3. \A v \in Workers \ {w} : /\ cycle'[v] = cycle[v]
                                 /\ cached'[v] = cached[v]
    BY <1>11 DEF LoseCycle, TypeOK
  <2>4. cached'[w] = cached[w] \/ ~cached'[w].kept
    BY <1>11 DEF LoseCycle, TypeOK, NoCache
  <2> QED
    BY <1>8, <2>1, <2>2, <2>3, <2>4
<1>12. ASSUME CommitPair(w)
       PROVE  AgreeAt(q)'
  <2>1. /\ c.stage = "committing" /\ p \in Pairs
        /\ UNCHANGED <<edge, request, cached>>
        /\ row'[q] = Flush(row[q], object[w][q])
        /\ object'[w][q] = Load(object[w][q].value)
        /\ \A v \in Workers \ {w} : /\ cycle'[v] = cycle[v]
                                    /\ object'[v] = object[v]
    BY <1>1, <1>12
       DEF CommitPair, CycleOK, Flushed, Saved, NextPair, TypeOK
  <2>2. /\ q \notin Overwrites(w)
        /\ q = p => row[p] = object[w][p].loaded
        /\ q = p /\ c.closing => ~edge[p] /\ ruling[p] = c.found
    <3> DEFINE test == \/ q \in Overwrites(w)
                       \/ q = p /\ row[p] # object[w][p].loaded
                       \/ q = p /\ c.closing /\ (edge[p] \/ ruling[p] # c.found)
    <3>1. marks'[q] = marks[q] \cup RacedIf(test)
      BY <1>12 DEF CommitPair
    <3>2. ~test
      BY <3>1 DEF RacedIf
    <3> QED
      BY <3>2
  <2>3. ~Dirty(object'[w][q])
    BY <2>1 DEF Load, Dirty
  <2>4. CASE ~(q = p /\ c.closing)
    <3>1. ruling'[q] = ruling[q]
      BY <1>12, <2>4 DEF CommitPair, TypeOK
    <3>2. ~Closing(w, q) /\ ~Cutting(w, q)
      BY <2>1, <2>4 DEF Closing, Cutting
    <3> QED
      BY <1>1, <2>1, <2>2, <2>3, <3>1, <3>2, FlushAgrees
  <2>5. CASE q = p /\ c.closing
    <3>1. row'[q].status = "resolved_split"
      BY <1>1, <2>1, <2>5 DEF ObjectOK, Closing, Flush
    <3>2. ruling'[q].source # "none"
      BY <1>12, <2>1, <2>2, <2>5 DEF CommitPair, NewRuling, TypeOK
    <3>3. \A h \in Handlers : RegistersUnruled(h, q)'
      BY <1>1, <2>1 DEF AgreeAt, RegistersUnruled
    <3> QED
      BY <2>1, <2>2, <2>5, <3>1, <3>2, <3>3, Settles
         DEF RulingFollowsRow, EdgeFollowsRow, Open
  <2> QED
    BY <2>4, <2>5
<1>13. ASSUME Compensate(w)
       PROVE  AgreeAt(q)'
  <2>1. /\ c.stage = "aborting" /\ p \in Pairs
        /\ edge' = [edge EXCEPT ![p] = TRUE]
        /\ UNCHANGED <<row, ruling, request, object>>
        /\ \A v \in Workers \ {w} : /\ cycle'[v] = cycle[v]
                                    /\ cached'[v] = cached[v]
        /\ ~cached'[w].kept
    BY <1>1, <1>13
       DEF Compensate, Compensated, CycleOK, NextPair, TypeOK, NoCache
  <2>2. WouldInsert(w, q)' => WouldInsert(w, q)
    BY <2>1 DEF WouldInsert, Dirty
  <2>3. CASE q # p
    <3>1. edge'[q] = edge[q] /\ ~Cutting(w, q)
      BY <2>1, <2>3 DEF Cutting, TypeOK
    <3> QED
      BY <1>1, <2>1, <2>2, <3>1, CycleFrame
  <2>4. CASE q = p
    <3>1. row[q].status \in Open
      <4> DEFINE ms == RacedIf(row[p].status \notin Open)
      <4>1. Mark(p, ms)
        BY <1>13 DEF Compensate
      <4> HIDE DEF ms
      <4>2. ms = {}
        BY <2>1, <2>4, <4>1, UnmarkedStep
      <4> QED
        BY <2>4, <4>2 DEF ms, RacedIf
    <3>2. edge'[q]
      BY <2>1, <2>4 DEF TypeOK
    <3>3. \A h \in Handlers : RegistersUnruled(h, q)'
      BY <1>1, <2>1 DEF AgreeAt, RegistersUnruled
    <3> QED
      BY <1>1, <2>1, <3>1, <3>2, <3>3, Settles
         DEF AgreeAt, RulingFollowsRow, EdgeFollowsRow, Open
  <2> QED
    BY <2>3, <2>4
<1>14. ASSUME CompensationFails(w)
       PROVE  AgreeAt(q)'
  <2>1. UNCHANGED <<store, request, object, cached>>
        /\ \A v \in Workers \ {w} : cycle'[v] = cycle[v]
    BY <1>14 DEF CompensationFails, NextPair, TypeOK
  <2>2. ~Cutting(w, q)
    BY <1>14 DEF CompensationFails, Cutting, Mark, TypeOK
  <2>3. WouldInsert(w, q)' => WouldInsert(w, q)
    BY <2>1 DEF WouldInsert, Dirty
  <2> QED
    BY <1>1, <2>1, <2>2, <2>3, CycleFrame DEF store
<1>15. ASSUME EndCycle(w)
       PROVE  AgreeAt(q)'
  <2>1. /\ c.stage = "between"
        /\ UNCHANGED <<ruling, edge, request, cached>>
        /\ row'[q] = Flush(row[q], object[w][q]) /\ Forget(w)
        /\ \A v \in Workers \ {w} : /\ cycle'[v] = cycle[v]
                                    /\ object'[v] = object[v]
    BY <1>15 DEF EndCycle, Flushed, Forget, TypeOK
  <2>2. ~Closing(w, q) /\ ~Cutting(w, q)
    BY <1>1, <2>1 DEF CycleOK, Closing, Cutting
  <2>3. q \notin Overwrites(w)
    <3>1. marks'[q] = marks[q] \cup RacedIf(q \in Overwrites(w))
      BY <1>15 DEF EndCycle
    <3> QED
      BY <3>1 DEF RacedIf
  <2>4. ~Dirty(object'[w][q])
    BY <1>2, <2>1
  <2> QED
    BY <1>1, <2>1, <2>2, <2>3, <2>4, FlushAgrees
<1>16. ASSUME CacheExpires(w)
       PROVE  AgreeAt(q)'
  <2>1. /\ UNCHANGED <<store, request, cycle, object>>
        /\ \A v \in Workers \ {w} : cached'[v] = cached[v]
        /\ ~cached'[w].kept
    BY <1>16 DEF CacheExpires, TypeOK, NoCache
  <2>2. /\ WouldInsert(w, q)' => WouldInsert(w, q)
        /\ Cutting(w, q) => Cutting(w, q)'
    BY <2>1 DEF WouldInsert, Dirty, Cutting
  <2> QED
    BY <1>1, <2>1, <2>2, CycleFrame DEF store
<1> QED
  BY <1>3, <1>4, <1>6, <1>7, <1>9, <1>10, <1>11, <1>12, <1>13, <1>14, <1>15,
     <1>16 DEF Run

(* The agreement is kept: by requests and by cycles, each conjunct.          *)
LEMMA AgreementKept == Spec => [](SessionInv /\ AgreeInv)
<1>1. Init => AgreeInv
  <2> SUFFICES ASSUME Init, NEW p \in Pairs PROVE AgreeAt(p)
    BY DEF AgreeInv
  <2>1. PICK old \in SUBSET Ruled :
          /\ ruling = [x \in Pairs |->
                IF x \in old THEN [source |-> "inbox_close", no |-> 1]
                             ELSE Nothing.ruling]
          /\ edge \in {e \in [Pairs -> BOOLEAN] : \A x \in old : ~e[x]}
    BY DEF Init
  <2>2. row[p].status = "none"
    BY DEF Init, NoRow
  <2>3. \A w \in Workers : ~WouldInsert(w, p)
    BY DEF Init, WouldInsert, NoCache, Unloaded, Dirty
  <2>4. \A h \in Handlers : RegistersUnruled(h, p)
    BY DEF Init, RegistersUnruled, NoRequest
  <2>5. RulingFollowsRow(p)
    BY <2>1, <2>2 DEF RulingFollowsRow, Nothing, Open
  <2> QED
    BY <2>2, <2>3, <2>4, <2>5
       DEF AgreeAt, EdgeFollowsRow, InsertionsAreDue, Open
<1>2. SessionInv /\ AgreeInv /\ [Next]_vars => AgreeInv'
  <2> SUFFICES ASSUME SessionInv, AgreeInv, [Next]_vars, NEW p \in Pairs,
                      marks'[p] = {}
               PROVE  AgreeAt(p)'
    BY DEF AgreeInv, AgreeAt
  <2>1. marks[p] = {}
    BY MarksAreKept DEF SessionInv
  <2>2. CASE UNCHANGED vars
    BY <2>2 DEF vars, AgreeInv, AgreeAt, RulingFollowsRow, EdgeFollowsRow,
                InsertionsAreDue, WouldInsert, Dirty, RegistersUnruled,
                Pending, Handling, Cutting
  <2> QED
    BY <2>1, <2>2, HandlersAgree, CyclesAgree DEF Next
<1> QED
  BY <1>1, <1>2, SessionsStayInOrder, PTL DEF Spec


(* Row, ruling and edge of a pair tell the same story whenever nobody is   *)
(* between the two stores.                                                 *)
THEOREM StoresTellOneStory == Spec => []StoresAgree
<1>1. SessionInv /\ AgreeInv => StoresAgree
  <2> SUFFICES ASSUME SessionInv, AgreeInv, NEW p \in Pairs, marks[p] = {},
                      ~Unsettled(p)
               PROVE  CASE row[p].status \in Open ->
                             edge[p] /\ ruling[p].source = "none"
                        [] row[p].status = "resolved_split" ->
                             ~edge[p] /\ ruling[p].source # "none"
                        [] OTHER -> ruling[p].source # "none" => ~edge[p]
    BY DEF StoresAgree
  <2>1. AgreeAt(p) /\ ~Pending(p)
    BY DEF AgreeInv, Unsettled, Pending, Handling, Cutting
  <2>2. row[p].status \in RowStatus
    BY DEF SessionInv, TypeOK, Row
  <2>3. CASE row[p].status \in Open
    BY <2>1, <2>3 DEF AgreeAt, RulingFollowsRow, EdgeFollowsRow, Open
  <2>4. CASE row[p].status = "resolved_split"
    BY <2>1, <2>4 DEF AgreeAt, RulingFollowsRow, EdgeFollowsRow, Open
  <2>5. CASE row[p].status = "none"
    BY <2>1, <2>5 DEF AgreeAt, RulingFollowsRow, Open
  <2> QED
    BY <2>2, <2>3, <2>4, <2>5 DEF RowStatus
<1> QED
  BY <1>1, AgreementKept, PTL

----------------------------------------------------------------------------
(* Verdicts. *)

(* What an unraced step makes of the row and the ruling of a pair: nothing, *)
(* what a handler commits, or what a session writes.                       *)
Committed(h, p) ==
    LET r == request[h] IN
    /\ r.pair = p /\ r.stage = "changed" /\ r.seen = StateOf(p)
    /\ row'[p] = Target(r.op, row[p])
    /\ ruling'[p] = RulingAfter(r.op, ruling[p], ruling[p])
Closes(w, p) ==
    /\ Closing(w, p) /\ row[p] = object[w][p].loaded
    /\ row'[p].status = "resolved_split"
    /\ ruling'[p] = IF ruling[p].source = "none"
                    THEN NewRuling(ruling[p], "auto_observation")
                    ELSE ruling[p]
Updates(w, p) ==
    /\ row[p] = object[w][p].loaded /\ row[p].status \in Open \cup {"none"}
    /\ row'[p].barred = row[p].barred
    /\ ruling'[p] = ruling[p]

LEMMA HandlersCommit ==
  ASSUME SessionInv, NEW h \in Handlers, NEW p \in Pairs, Commit(h),
         "raced" \notin marks'[p]
  PROVE  \/ row'[p] = row[p] /\ ruling'[p] = ruling[p]
         \/ Committed(h, p)
<1> DEFINE r == request[h]
           q == r.pair
           new == Target(r.op, r.seen.row)
           ms == RacedIf(StateOf(q) # r.seen)
<1>1. q \in Pairs /\ r.op \in Ops /\ r.stage = "changed"
  BY DEF SessionInv, HandlersInOrder, RequestOK, Commit
<1>2. /\ row' = [row EXCEPT ![q] =
                    Flush(row[q], [loaded |-> r.seen.row, value |-> new])]
      /\ ruling' = [ruling EXCEPT ![q] =
                    RulingAfter(r.op, ruling[q], r.seen.ruling)]
  BY DEF Commit
<1>3. CASE p # q
  BY <1>1, <1>2, <1>3 DEF SessionInv, TypeOK
<1>4. CASE p = q
  <2>1. Mark(q, ms) /\ TypeOK
    BY DEF Commit, SessionInv
  <2>2. r.seen = StateOf(p)
    <3> HIDE DEF ms
    <3>1. "raced" \notin ms
      BY <1>1, <1>4, <2>1, UnmarkedStep
    <3> QED
      BY <1>4, <3>1 DEF ms, RacedIf
  <2>3. r.seen.row = row[p] /\ r.seen.ruling = ruling[p]
    BY <2>2 DEF StateOf
  <2>4. new \in Row /\ row[p] \in Row
    BY <1>1, <2>3, TargetType DEF SessionInv, TypeOK
  <2>5. row'[p] = new
    BY <1>2, <1>4, <2>3, <2>4, FlushFresh DEF SessionInv, TypeOK
  <2>6. ruling'[p] = RulingAfter(r.op, ruling[p], ruling[p])
    BY <1>2, <1>4, <2>3 DEF SessionInv, TypeOK
  <2> QED
    BY <1>1, <1>4, <2>2, <2>3, <2>5, <2>6 DEF Committed
<1> QED
  BY <1>3, <1>4

LEMMA SessionsWrite ==
  ASSUME SessionInv, NEW w \in Workers, NEW p \in Pairs,
         CommitPair(w) \/ EndCycle(w), "raced" \notin marks'[p]
  PROVE  \/ row'[p] = row[p] /\ ruling'[p] = ruling[p]
         \/ CommitPair(w) /\ Closes(w, p)
         \/ ~Closing(w, p) /\ Dirty(object[w][p]) /\ Updates(w, p)
<1> DEFINE c == cycle[w]
           o == object[w][p]
<1>1. /\ row'[p] = Flush(row[p], o) /\ row[p] \in Row /\ o \in Object
      /\ ObjectOK(w, p) /\ CycleOK(w)
  <2>1. row' = Flushed(w)
    BY DEF CommitPair, EndCycle
  <2> QED
    BY <2>1 DEF Flushed, SessionInv, TypeOK, CyclesInOrder, CycleOK
<1>2. p \notin Overwrites(w)
  <2>1. "raced" \notin RacedIf(p \in Overwrites(w))
    BY DEF CommitPair, EndCycle, RacedIf
  <2> QED
    BY <2>1 DEF RacedIf
<1>3. CASE CommitPair(w) /\ c.pair = p /\ c.closing
  <2>1. row[p] = o.loaded /\ ruling[p] = c.found
    BY <1>3 DEF CommitPair, RacedIf
  <2>2. Closing(w, p)
    BY <1>3 DEF CommitPair, Closing
  <2>3. row'[p].status = "resolved_split"
    BY <1>1, <2>1, <2>2 DEF ObjectOK, Flush
  <2>4. ruling'[p] = IF ruling[p].source = "none"
                     THEN NewRuling(ruling[p], "auto_observation")
                     ELSE ruling[p]
    BY <1>3, <2>1 DEF CommitPair, SessionInv, TypeOK
  <2> QED
    BY <1>3, <2>1, <2>2, <2>3, <2>4 DEF Closes
<1>4. CASE ~(CommitPair(w) /\ c.pair = p /\ c.closing)
  <2>1. ruling'[p] = ruling[p]
    BY <1>4 DEF CommitPair, EndCycle, SessionInv, TypeOK
  <2>2. ~Closing(w, p)
    BY <1>1, <1>4 DEF EndCycle, Closing
  <2>3. CASE ~Dirty(o)
    BY <1>1, <2>1, <2>3, FlushClean
  <2>4. CASE Dirty(o)
    <3>1. row[p] = o.loaded /\ row[p].status \in Open \cup {"none"}
      BY <1>2, <2>2, <2>4, DirtyIsOpen DEF Overwrites
    <3>2. row'[p].barred = row[p].barred
      BY <1>1 DEF ObjectOK, Flush
    <3> QED
      BY <2>1, <2>2, <2>4, <3>1, <3>2 DEF Updates
  <2> QED
    BY <2>3, <2>4
<1> QED
  BY <1>3, <1>4

LEMMA RowsAndRulingsChange ==
  ASSUME SessionInv, [Next]_vars, NEW p \in Pairs, "raced" \notin marks'[p]
  PROVE  \/ row'[p] = row[p] /\ ruling'[p] = ruling[p]
         \/ \E h \in Handlers : Committed(h, p)
         \/ \E w \in Workers : Closes(w, p) \/ Updates(w, p)
<1>1. CASE \E h \in Handlers : Commit(h)
  BY <1>1, HandlersCommit
<1>2. CASE \E w \in Workers : CommitPair(w) \/ EndCycle(w)
  BY <1>2, SessionsWrite
<1>3. CASE row' = row /\ ruling' = ruling
  BY <1>3
<1> QED
  BY <1>1, <1>2, <1>3
     DEF Next, Serve, Run, vars, store, Read, ChangeEdge, Abort, Undo,
         GraphFails, Die, BeginCycle, TakePair, Evaluate, AutoClose,
         AutoCloseFails, PairFails, Compensate, CompensationFails, LoseCycle,
         CacheExpires

(* What a handler that found the pair as it still is makes of it.          *)
LEMMA CommittedVerdict ==
  ASSUME SessionInv, NEW h \in Handlers, NEW p \in Pairs, Committed(h, p)
  PROVE  LET op == request[h].op IN
         \/ /\ op \in Registers /\ row[p].status # "resolved_split"
            /\ row'[p].barred = row[p].barred /\ ruling'[p] = ruling[p]
         \/ /\ op = "close" /\ row'[p].status = "resolved_split"
            /\ row'[p].barred = row[p].barred
            /\ row[p].status = "resolved_split" => row'[p] = row[p]
            /\ \/ ruling[p].source # "none" /\ ruling'[p] = ruling[p]
               \/ /\ ruling[p].source = "none"
                  /\ ruling'[p].source = "inbox_close"
         \/ /\ op = "reopen" /\ ruling[p].source = "auto_observation"
            /\ row'[p].barred /\ ruling'[p].source = "none"
<1> DEFINE r == request[h]
<1>1. RequestOK(r) /\ row[p] \in Row /\ ruling[p] \in Ruling
  BY DEF SessionInv, HandlersInOrder, TypeOK
<1>2. r.seen.row = row[p] /\ r.seen.ruling = ruling[p]
  BY DEF Committed, StateOf
<1>3. r.op \in Ops /\ r.stage = "changed"
  BY <1>1 DEF RequestOK, Committed
<1>4. CASE r.op \in Registers
  <2>1. row[p].status # "resolved_split"
    BY <1>1, <1>2, <1>3, <1>4 DEF RequestOK
  <2>2. row'[p].barred = row[p].barred
    BY <1>1, <1>4 DEF Committed, Target, Row, Registers
  <2>3. ruling'[p] = ruling[p]
    BY <1>4 DEF Committed, RulingAfter, Registers
  <2> QED
    BY <1>4, <2>1, <2>2, <2>3
<1>5. CASE r.op = "close"
  <2>1. row'[p] = [row[p] EXCEPT !.status = "resolved_split"]
    BY <1>5 DEF Committed, Target, Registers
  <2>2. ruling'[p] = Closed(ruling[p], ruling[p])
    BY <1>5 DEF Committed, RulingAfter, Registers
  <2>3. /\ row'[p].status = "resolved_split"
        /\ row'[p].barred = row[p].barred
        /\ row[p].status = "resolved_split" => row'[p] = row[p]
    BY <1>1, <2>1 DEF Row
  <2>4. \/ ruling[p].source # "none" /\ ruling'[p] = ruling[p]
        \/ ruling[p].source = "none" /\ ruling'[p].source = "inbox_close"
    BY <2>2 DEF Closed, NewRuling
  <2> QED
    BY <1>5, <2>3, <2>4
<1>6. CASE r.op = "reopen"
  <2>1. ruling[p].source = "auto_observation"
    BY <1>1, <1>2, <1>3, <1>6 DEF RequestOK
  <2>2. row'[p].barred
    BY <1>6 DEF Committed, Target, Registers
  <2>3. ruling'[p].source = "none"
    BY <1>1, <1>6 DEF Committed, RulingAfter, NoRuling, Ruling, Registers
  <2> QED
    BY <1>6, <2>1, <2>2, <2>3
<1> QED
  BY <1>3, <1>4, <1>5, <1>6 DEF Ops, Registers

(* A closed pair is open again only by a reopening of its automatic        *)
(* ruling, and a person's ruling stays.                                    *)
THEOREM OnlyReopeningUndoesAVerdict == Spec => VerdictLeavesByReopen
<1>1. SessionInv /\ [Next]_vars =>
        [\A p \in Pairs : "raced" \notin marks'[p] =>
            /\ row[p].status = "resolved_split" /\ row'[p] # row[p] =>
                  /\ ruling[p].source = "auto_observation"
                  /\ ruling'[p].source = "none" /\ row'[p].barred
            /\ ruling[p].source = "inbox_close" => ruling'[p] = ruling[p]]_vars
  <2> SUFFICES ASSUME SessionInv, [Next]_vars, NEW p \in Pairs,
                      "raced" \notin marks'[p]
               PROVE  /\ row[p].status = "resolved_split" /\ row'[p] # row[p] =>
                            /\ ruling[p].source = "auto_observation"
                            /\ ruling'[p].source = "none" /\ row'[p].barred
                      /\ ruling[p].source = "inbox_close" =>
                            ruling'[p] = ruling[p]
    OBVIOUS
  <2>1. CASE row'[p] = row[p] /\ ruling'[p] = ruling[p]
    BY <2>1
  <2>2. ASSUME NEW h \in Handlers, Committed(h, p)
        PROVE  /\ row[p].status = "resolved_split" /\ row'[p] # row[p] =>
                     /\ ruling[p].source = "auto_observation"
                     /\ ruling'[p].source = "none" /\ row'[p].barred
               /\ ruling[p].source = "inbox_close" => ruling'[p] = ruling[p]
    BY <2>2, CommittedVerdict
  <2>3. ASSUME NEW w \in Workers, Closes(w, p)
        PROVE  /\ row[p].status # "resolved_split"
               /\ ruling[p].source = "inbox_close" => ruling'[p] = ruling[p]
    BY <2>3 DEF Closes, SessionInv, CyclesInOrder, CycleOK, ObjectOK
  <2>4. ASSUME NEW w \in Workers, Updates(w, p)
        PROVE  row[p].status # "resolved_split" /\ ruling'[p] = ruling[p]
    BY <2>4 DEF Updates, Open
  <2> QED
    BY <2>1, <2>2, <2>3, <2>4, RowsAndRulingsChange
<1> QED
  BY <1>1, SessionsStayInOrder, PTL DEF Spec, VerdictLeavesByReopen

(* Where nothing is written, and no object becomes one its session could   *)
(* still close.                                                            *)
LEMMA ReopenFrame ==
  ASSUME NEW p \in Pairs, ReopenAt(p), "raced" \notin marks[p],
         row'[p] = row[p], ruling'[p] = ruling[p],
         \A w \in Workers : MayStillClose(w, p)' => MayStillClose(w, p)
  PROVE  ReopenAt(p)'
BY DEF ReopenAt

LEMMA CommitsKeepReopenInv ==
  ASSUME SessionInv, NEW h \in Handlers, NEW p \in Pairs, ReopenAt(p),
         "raced" \notin marks[p], Committed(h, p), UNCHANGED runner
  PROVE  ReopenAt(p)'
<1>1. \A w \in Workers : MayStillClose(w, p)' <=> MayStillClose(w, p)
  BY DEF MayStillClose, Closing, runner
<1>2. CASE ruling[p].source = "auto_observation"
  <2>1. row[p].status = "resolved_split"
        /\ \A w \in Workers : ~MayStillClose(w, p)
    BY <1>2 DEF ReopenAt
  <2>2. \/ ruling'[p].source = "none"
        \/ row'[p].status = "resolved_split"
    BY <1>2, <2>1, CommittedVerdict
  <2> QED
    BY <1>1, <2>1, <2>2 DEF ReopenAt
<1>3. CASE ruling[p].source # "auto_observation"
  <2>1. /\ ruling'[p].source # "auto_observation"
        /\ row'[p].barred = row[p].barred
    BY <1>3, CommittedVerdict
  <2> QED
    BY <1>1, <2>1 DEF ReopenAt
<1> QED
  BY <1>2, <1>3

LEMMA WritesKeepReopenInv ==
  ASSUME SessionInv, OneWorker, NEW w \in Workers, NEW p \in Pairs,
         ReopenAt(p), "raced" \notin marks[p], "raced" \notin marks'[p],
         CommitPair(w) \/ EndCycle(w)
  PROVE  ReopenAt(p)'
<1> DEFINE o == object[w][p]
<1>1. \A v \in Workers : v = w
  BY DEF OneWorker
<1>2. /\ object'[w][p] = Load(o.value) \/ object'[w][p] = Unloaded
      /\ cycle'[w].stage \in {"between", "idle"}
  <2>1. CASE CommitPair(w)
    BY <2>1 DEF CommitPair, Saved, NextPair, NoCycle, SessionInv, TypeOK
  <2>2. CASE EndCycle(w)
    BY <2>2 DEF EndCycle, Forget, NoCycle, SessionInv, TypeOK
  <2> QED
    BY <2>1, <2>2
<1>3. MayStillClose(w, p)' =>
         /\ o.value.status \in Open /\ ~o.value.barred
         /\ MayStillClose(w, p)
  BY <1>2 DEF MayStillClose, Closing, Load, Unloaded, NoRow, Open
<1>4. CASE row'[p] = row[p] /\ ruling'[p] = ruling[p]
  BY <1>1, <1>3, <1>4, ReopenFrame
<1>5. CASE Closes(w, p)
  <2>1. o.value.status = "resolved_split"
    BY <1>5 DEF Closes, SessionInv, CyclesInOrder, CycleOK, ObjectOK
  <2>2. ~MayStillClose(w, p)'
    BY <1>3, <2>1 DEF Open
  <2> QED
    BY <1>1, <1>5, <2>2 DEF Closes, ReopenAt
<1>6. CASE Updates(w, p)
  <2>1. ruling[p].source # "auto_observation"
    BY <1>6 DEF Updates, ReopenAt, Open
  <2> QED
    BY <1>1, <1>3, <1>6, <2>1 DEF Updates, ReopenAt
<1> QED
  BY <1>4, <1>5, <1>6, SessionsWrite

LEMMA CyclesKeepReopenInv ==
  ASSUME SessionInv, SessionInv', OneWorker, NEW w \in Workers,
         NEW p \in Pairs, ReopenAt(p),
         "raced" \notin marks[p], "raced" \notin marks'[p],
         \/ BeginCycle(w) \/ Run(w) \/ PairFails(w) \/ CompensationFails(w)
         \/ LoseCycle(w) \/ CacheExpires(w)
  PROVE  ReopenAt(p)'
<1> DEFINE c == cycle[w]
<1>1. /\ \A v \in Workers : v = w
      /\ CycleOK(w) /\ ObjectOK(w, p) /\ row[p] \in Row
      /\ c \in Cycle /\ object[w][p] \in Object /\ ObjectOK(w, p)'
  BY DEF SessionInv, OneWorker, CyclesInOrder, CycleOK, TypeOK
<1>2. ASSUME Forget(w) PROVE ~MayStillClose(w, p)'
  <2>1. object'[w][p] = Unloaded
    BY <1>2 DEF Forget, SessionInv, TypeOK
  <2> QED
    BY <1>1, <2>1 DEF MayStillClose, ObjectOK, Unloaded, NoRow, Open
<1>3. ASSUME row'[p] = row[p], ruling'[p] = ruling[p],
             MayStillClose(w, p)' => MayStillClose(w, p)
      PROVE  ReopenAt(p)'
  BY <1>1, <1>3, ReopenFrame
<1>4. CASE BeginCycle(w)
  <2> DEFINE view == IF cached[w].kept THEN cached[w].edges
                                       ELSE {x \in Pairs : edge[x]}
             synced == [x \in Pairs |-> Synced(row[x], x \in view)]
             added == {x \in Pairs : row[x] = NoRow /\ Dirty(synced[x])}
  <2> HIDE DEF view
  <2>1. PICK due \in SUBSET {x \in Pairs : row[x].status \in Open} :
          /\ cycle' = [cycle EXCEPT ![w] =
                [NoCycle EXCEPT !.stage = "between", !.todo = due \cup added]]
          /\ object' = [object EXCEPT ![w] =
                [x \in Pairs |-> IF x \in due \/ Dirty(synced[x])
                                 THEN synced[x] ELSE Unloaded]]
    BY <1>4 DEF BeginCycle, view
  <2>2. ~Closing(w, p)'
    BY <2>1 DEF Closing, SessionInv, TypeOK, NoCycle
  <2>3. ASSUME object'[w][p] = Unloaded PROVE ~MayStillClose(w, p)'
    BY <2>2, <2>3 DEF MayStillClose, Unloaded, NoRow, Open
  <2>4. ASSUME object'[w][p] = Synced(row[p], p \in view),
               MayStillClose(w, p)'
        PROVE  ~row[p].barred /\ row[p].status # "resolved_split"
    <3> DEFINE o == Synced(row[p], p \in view)
    <3>1. /\ o.loaded = row[p]
          /\ o.value.barred = row[p].barred
          /\ o.value.status = "resolved_split"
                <=> row[p].status = "resolved_split"
          /\ o.value.status = "none" => row[p].status = "none"
          /\ Dirty(o) => o.value.status \in Open
          /\ Dirty(o) /\ row[p].status = "none" => p \in view /\ row[p] = NoRow
      <4>1. row[p] \in Row
        BY DEF SessionInv, TypeOK
      <4> QED
        BY <4>1, SyncedStatus, Zenon
    <3> HIDE DEF o
    <3>2. object'[w][p] = o
      BY <2>4 DEF o
    <3> QED
      BY <2>2, <2>4, <3>1, <3>2 DEF MayStillClose, Open
  <2>5. MayStillClose(w, p)' =>
           ~row[p].barred /\ row[p].status # "resolved_split"
    BY <2>1, <2>3, <2>4 DEF SessionInv, TypeOK
  <2>6. row' = row /\ ruling' = ruling
    BY <1>4 DEF BeginCycle, store
  <2> QED
    BY <1>1, <2>5, <2>6 DEF ReopenAt
<1>5. CASE \E x \in Pairs : TakePair(w, x)
  <2>1. PICK x \in Pairs : TakePair(w, x)
    BY <1>5
  <2>2. row' = row /\ ruling' = ruling
    BY <2>1 DEF TakePair, store
  <2>3. object'[w][p] = object[w][p] \/ object'[w][p] = Load(row[p])
    BY <2>1 DEF TakePair, SessionInv, TypeOK
  <2>4. ~Closing(w, p)'
    BY <1>1, <2>1 DEF TakePair, CycleOK, Closing, SessionInv, TypeOK
  <2>5. CASE object'[w][p] = object[w][p]
    BY <1>3, <2>2, <2>4, <2>5 DEF MayStillClose
  <2>6. CASE object'[w][p] = Load(row[p])
    <3>1. MayStillClose(w, p)' =>
             ~row[p].barred /\ row[p].status # "resolved_split"
      BY <2>4, <2>6 DEF MayStillClose, Load, Open
    <3> QED
      BY <1>1, <2>2, <3>1 DEF ReopenAt
  <2> QED
    BY <2>3, <2>5, <2>6
<1>6. ASSUME c.stage = "taken", NEW status \in RowStatus,
             object' = [object EXCEPT ![w][c.pair].value.status = status],
             row' = row, ruling' = ruling, cycle'[w].pair = c.pair
      PROVE  ReopenAt(p)'
  <2>1. c.pair \in Pairs /\ object[w][c.pair].value.status \in Open
    BY <1>1, <1>6 DEF CycleOK
  <2>2. CASE p # c.pair
    <3>1. object'[w][p] = object[w][p] /\ ~Closing(w, p)'
      BY <1>6, <2>1, <2>2 DEF SessionInv, TypeOK, Closing
    <3> QED
      BY <1>3, <1>6, <3>1 DEF MayStillClose
  <2>3. CASE p = c.pair
    <3>1. object'[w][p].value.barred = object[w][p].value.barred
      BY <1>1, <1>6, <2>1, <2>3 DEF SessionInv, TypeOK, Object, Row
    <3> QED
      BY <1>3, <1>6, <2>1, <2>3, <3>1 DEF MayStillClose
  <2> QED
    BY <2>2, <2>3
<1>7. CASE \E status \in Open : Evaluate(w, status)
  <2>1. PICK status \in Open : Evaluate(w, status)
    BY <1>7
  <2>2. cycle'[w].pair = c.pair /\ row' = row /\ ruling' = ruling
    BY <1>1, <2>1 DEF Evaluate, Goto, store, SessionInv, TypeOK, Cycle
  <2> QED
    BY <1>6, <2>1, <2>2 DEF Evaluate, RowStatus
<1>8. CASE AutoClose(w)
  <2>1. cycle'[w].pair = c.pair /\ row' = row /\ ruling' = ruling
    BY <1>1, <1>8 DEF AutoClose, SessionInv, TypeOK, Cycle
  <2> QED
    BY <1>6, <1>8, <2>1 DEF AutoClose, MayAutoClose, RowStatus
<1>9. CASE AutoCloseFails(w) \/ PairFails(w) \/ LoseCycle(w)
  BY <1>2, <1>3, <1>9 DEF AutoCloseFails, PairFails, LoseCycle, store
<1>10. CASE Compensate(w) \/ CompensationFails(w)
  <2>1. /\ row' = row /\ ruling' = ruling /\ object' = object
        /\ ~cycle'[w].closing
    BY <1>10 DEF Compensate, CompensationFails, NextPair, NoCycle, store,
                 SessionInv, TypeOK
  <2> QED
    BY <1>3, <2>1 DEF MayStillClose, Closing
<1>11. CASE CommitPair(w) \/ EndCycle(w)
  BY <1>11, WritesKeepReopenInv
<1>12. CASE CacheExpires(w)
  BY <1>3, <1>12 DEF CacheExpires, store, MayStillClose, Closing
<1> QED
  BY <1>4, <1>5, <1>7, <1>8, <1>9, <1>10, <1>11, <1>12 DEF Run

(* With one worker, a pair a person has reopened is never closed           *)
(* automatically again.  (With two, the other one's session may still hold *)
(* the row from before the reopening.)                                     *)
THEOREM ReopeningLasts ==
  ASSUME OneWorker
  PROVE  Spec => ReopenedNeverAutoClosed
<1>1. Init => ReopenInv
  BY DEF Init, ReopenInv, ReopenAt, MayStillClose, Closing, NoCycle, Unloaded,
         NoRow, Open, Nothing
<1>2. SessionInv /\ SessionInv' /\ ReopenInv /\ [Next]_vars => ReopenInv'
  <2> SUFFICES ASSUME SessionInv, SessionInv', ReopenInv, [Next]_vars,
                      NEW p \in Pairs, "raced" \notin marks'[p]
               PROVE  ReopenAt(p)'
    BY DEF ReopenInv, ReopenAt
  <2>1. ReopenAt(p) /\ "raced" \notin marks[p]
    BY MarksAreKept DEF ReopenInv, SessionInv
  <2>2. ASSUME NEW h \in Handlers,
               \/ \E op \in Ops, q \in Pairs : Read(h, op, q)
               \/ Serve(h) \/ GraphFails(h) \/ Die(h)
        PROVE  ReopenAt(p)'
    <3>1. UNCHANGED runner
      BY <2>2 DEF Serve, Read, ChangeEdge, Commit, Abort, Undo, GraphFails, Die
    <3>2. CASE row'[p] = row[p] /\ ruling'[p] = ruling[p]
      BY <2>1, <3>1, <3>2, ReopenFrame DEF MayStillClose, Closing, runner
    <3>3. CASE Commit(h)
      BY <2>1, <3>1, <3>2, <3>3, HandlersCommit, CommitsKeepReopenInv
    <3> QED
      BY <2>2, <3>2, <3>3
         DEF Serve, Read, ChangeEdge, Abort, Undo, GraphFails, Die, store
  <2>3. CASE UNCHANGED vars
    BY <2>1, <2>3, ReopenFrame DEF vars, MayStillClose, Closing
  <2> QED
    BY <2>1, <2>2, <2>3, CyclesKeepReopenInv DEF Next
<1>3. SessionInv /\ ReopenInv /\ [Next]_vars =>
        [\A p \in Pairs :
            /\ "raced" \notin marks[p]
            /\ row[p].barred /\ ruling[p].source = "none"
            => ruling'[p].source # "auto_observation"]_vars
  <2> SUFFICES ASSUME SessionInv, ReopenInv, [Next]_vars, NEW p \in Pairs,
                      "raced" \notin marks[p],
                      row[p].barred, ruling[p].source = "none"
               PROVE  ruling'[p].source # "auto_observation"
    OBVIOUS
  <2>1. ASSUME NEW h \in Handlers, Commit(h)
        PROVE  ruling'[p].source # "auto_observation"
    <3>1. /\ request[h].pair \in Pairs /\ request[h].op \in Ops
          /\ ruling' = [ruling EXCEPT ![request[h].pair] =
                RulingAfter(request[h].op, @, request[h].seen.ruling)]
      BY <2>1 DEF Commit, SessionInv, HandlersInOrder, RequestOK
    <3>2. ruling[p] \in Ruling
      BY DEF SessionInv, TypeOK
    <3> QED
      BY <3>1, <3>2
         DEF RulingAfter, Closed, NewRuling, NoRuling, Ruling, Ops, Registers,
             SessionInv, TypeOK
  <2>2. ASSUME NEW w \in Workers, CommitPair(w)
        PROVE  ruling'[p].source # "auto_observation"
    <3>1. CASE cycle[w].closing /\ cycle[w].pair = p
      <4>1. Closing(w, p) /\ ObjectOK(w, p)
        BY <2>2, <3>1 DEF CommitPair, Closing, SessionInv, CyclesInOrder,
                          CycleOK
      <4>2. MayStillClose(w, p)
        BY <4>1 DEF MayStillClose, ObjectOK
      <4> QED
        BY <4>2 DEF ReopenInv, ReopenAt
    <3>2. CASE ~(cycle[w].closing /\ cycle[w].pair = p)
      BY <2>2, <3>2 DEF CommitPair, SessionInv, TypeOK
    <3> QED
      BY <3>1, <3>2
  <2>3. CASE ruling' = ruling
    BY <2>3
  <2> QED
    BY <2>1, <2>2, <2>3
       DEF Next, Serve, Run, vars, store, Read, ChangeEdge, Abort, Undo,
           GraphFails, Die, BeginCycle, TakePair, Evaluate, AutoClose,
           AutoCloseFails, PairFails, Compensate, CompensationFails, EndCycle,
           LoseCycle, CacheExpires
<1> QED
  BY <1>1, <1>2, <1>3, SessionsStayInOrder, PTL DEF Spec, ReopenedNeverAutoClosed

----------------------------------------------------------------------------
(* The refinement: an undisturbed pair follows PairLifecycle. *)

(* Nobody but a reopening adds a bar, and an undisturbed registration of a  *)
(* pair without a row finds no ruling.                                     *)
LEMMA CommittedFollows ==
  ASSUME SessionInv, NEW h \in Handlers, NEW p \in Pairs, Committed(h, p),
         AgreeAt(p), marks[p] = {}
  PROVE  [Lifecycle(p)!Next]_(Lifecycle(p)!vars)
<1> DEFINE r == request[h]
<1>1. RequestOK(r) /\ row[p] \in Row /\ ruling[p] \in Ruling
  BY DEF SessionInv, HandlersInOrder, TypeOK
<1>2. RulingFollowsRow(p) /\ RegistersUnruled(h, p)
  BY DEF AgreeAt
<1>3. r.op \in Ops /\ r.stage = "changed" /\ r.pair = p
  BY <1>1 DEF RequestOK, Committed
<1>4. CASE r.op \in Registers
  <2>1. /\ row[p].status # "resolved_split" /\ row'[p].status = "observing"
        /\ row'[p].barred = row[p].barred /\ ruling'[p] = ruling[p]
    BY <1>1, <1>3, <1>4, CommittedVerdict
       DEF Committed, Target, Row, Registers
  <2>2. ruling[p].source = "none"
    BY <1>2, <1>3, <1>4 DEF RegistersUnruled, Committed, StateOf
  <2>3. CASE row[p].status = "none"
    <3>1. Lifecycle(p)!Watch
      BY <2>1, <2>2, <2>3 DEF Lifecycle!Watch, PhaseOf, VerdictOf, Open
    <3> QED
      BY <3>1 DEF Lifecycle!Next
  <2>4. CASE row[p].status \in Open
    BY <2>1, <2>4 DEF Lifecycle!vars, PhaseOf, VerdictOf, Open
  <2> QED
    BY <1>1, <2>1, <2>3, <2>4 DEF Row, RowStatus
<1>5. CASE r.op = "close"
  <2>1. /\ row'[p].status = "resolved_split" /\ row'[p].barred = row[p].barred
        /\ row[p].status = "resolved_split" => row'[p] = row[p]
        /\ \/ ruling[p].source # "none" /\ ruling'[p] = ruling[p]
           \/ ruling[p].source = "none" /\ ruling'[p].source = "inbox_close"
    BY <1>5, CommittedVerdict DEF Registers
  <2>2. CASE row[p].status = "resolved_split"
    BY <1>2, <2>1, <2>2
       DEF RulingFollowsRow, Lifecycle!vars, PhaseOf, VerdictOf
  <2>3. CASE row[p].status # "resolved_split"
    <3>1. ruling'[p].source = "inbox_close"
      BY <1>1, <1>2, <2>1, <2>3
         DEF RulingFollowsRow, Row, RowStatus, Ruling, RulingSource
    <3>2. PhaseOf(p) # "split" /\ PhaseOf(p)' = "split"
      BY <1>1, <2>1, <2>3 DEF PhaseOf, Row, RowStatus, Open
    <3>3. VerdictOf(p)' = "person"
      BY <3>1 DEF VerdictOf
    <3>4. Lifecycle(p)!PersonSplits
      BY <2>1, <3>2, <3>3 DEF Lifecycle!PersonSplits
    <3> QED
      BY <3>4 DEF Lifecycle!Next
  <2> QED
    BY <2>2, <2>3
<1>6. CASE r.op = "reopen"
  <2>1. /\ ruling[p].source = "auto_observation"
        /\ row'[p].barred /\ ruling'[p].source = "none"
    BY <1>6, CommittedVerdict DEF Registers
  <2>2. row[p].status = "resolved_split"
    BY <1>1, <1>2, <2>1 DEF RulingFollowsRow, Row, RowStatus
  <2>3. row'[p] = [status |-> "observing", barred |-> TRUE]
    BY <1>6 DEF Committed, Target, Registers
  <2>4. Lifecycle(p)!Reopen
    BY <2>1, <2>2, <2>3 DEF Lifecycle!Reopen, PhaseOf, VerdictOf, Open
  <2> QED
    BY <2>4 DEF Lifecycle!Next
<1> QED
  BY <1>3, <1>4, <1>5, <1>6 DEF Ops, Registers

(* A session writes what it closes and what it leaves open; a row it would  *)
(* insert is due.                                                          *)
LEMMA WrittenFollows ==
  ASSUME SessionInv, NEW w \in Workers, NEW p \in Pairs,
         CommitPair(w) \/ EndCycle(w), AgreeAt(p), marks'[p] = {}, marks[p] = {}
  PROVE  [Lifecycle(p)!Next]_(Lifecycle(p)!vars)
<1> DEFINE o == object[w][p]
<1>1. /\ row'[p] = Flush(row[p], o) /\ row[p] \in Row /\ o \in Object
      /\ ObjectOK(w, p) /\ ruling[p] \in Ruling
  <2>1. row' = Flushed(w)
    BY DEF CommitPair, EndCycle
  <2> QED
    BY <2>1 DEF Flushed, SessionInv, TypeOK, CyclesInOrder, CycleOK
<1>2. RulingFollowsRow(p) /\ InsertionsAreDue(p)
  BY DEF AgreeAt
<1>3. CASE row'[p] = row[p] /\ ruling'[p] = ruling[p]
  BY <1>3 DEF Lifecycle!vars, PhaseOf, VerdictOf
<1>4. CASE Closes(w, p)
  <2>1. /\ row[p] = o.loaded /\ row'[p].status = "resolved_split"
        /\ o.value.status = "resolved_split" /\ ~o.value.barred
        /\ row[p].status # "resolved_split" /\ o.value.barred = row[p].barred
    BY <1>1, <1>4 DEF Closes, ObjectOK
  <2>2. ruling[p].source = "none"
    <3>1. Dirty(o)
      BY <2>1 DEF Dirty
    <3> QED
      BY <1>1, <1>2, <2>1, <3>1
         DEF RulingFollowsRow, InsertionsAreDue, WouldInsert, Row, RowStatus
  <2>3. ruling'[p].source = "auto_observation"
    BY <1>4, <2>2 DEF Closes, NewRuling
  <2>4. row'[p].barred = row[p].barred
    BY <1>1, <2>1 DEF Flush
  <2>5. PhaseOf(p) # "split" /\ PhaseOf(p)' = "split"
    BY <1>1, <2>1 DEF PhaseOf, Row, RowStatus, Open
  <2>6. Lifecycle(p)!MachineSplits
    BY <2>1, <2>2, <2>3, <2>4, <2>5 DEF Lifecycle!MachineSplits, VerdictOf
  <2> QED
    BY <2>6 DEF Lifecycle!Next
<1>5. CASE ~Closing(w, p) /\ Dirty(o) /\ Updates(w, p)
  <2>1. /\ row[p] = o.loaded /\ row[p].status \in Open \cup {"none"}
        /\ row'[p].barred = row[p].barred /\ ruling'[p] = ruling[p]
    BY <1>5 DEF Updates
  <2>2. o.value.status \in Open
    BY <1>1, <1>5, <2>1, DirtyIsOpen
  <2>3. row'[p].status \in Open
    BY <1>1, <2>1, <2>2 DEF Flush
  <2>4. CASE row[p].status = "none"
    <3>1. ruling[p].source = "none"
      BY <1>2, <1>5, <2>1, <2>4 DEF InsertionsAreDue, WouldInsert
    <3>2. Lifecycle(p)!Watch
      BY <2>1, <2>3, <2>4, <3>1
         DEF Lifecycle!Watch, PhaseOf, VerdictOf, Open
    <3> QED
      BY <3>2 DEF Lifecycle!Next
  <2>5. CASE row[p].status \in Open
    BY <2>1, <2>3, <2>5 DEF Lifecycle!vars, PhaseOf, VerdictOf, Open
  <2> QED
    BY <2>1, <2>4, <2>5
<1> QED
  BY <1>3, <1>4, <1>5, SessionsWrite

(* services/observation_ops.py, services/observation_runner.py: as long as   *)
(* nothing disturbs it, a pair is watched until a person or the policy      *)
(* splits it, only the policy's verdict is taken back, and the policy       *)
(* splits it at most once; for any pairs, handlers, workers, rulings and     *)
(* faults.                                                                 *)
THEOREM PairsFollowTheLifecycle == Spec => ImplementsPairs
<1>1. Init => \A p \in Pairs : Lifecycle(p)!Init
  <2> SUFFICES ASSUME Init, NEW p \in Pairs PROVE Lifecycle(p)!Init
    OBVIOUS
  <2>1. PICK old \in SUBSET Ruled :
          ruling = [x \in Pairs |->
                IF x \in old THEN [source |-> "inbox_close", no |-> 1]
                             ELSE Nothing.ruling]
    BY DEF Init
  <2>2. PhaseOf(p) = "unknown" /\ row[p].barred = FALSE
    <3>1. row[p] = NoRow
      BY DEF Init
    <3> QED
      BY <3>1 DEF NoRow, PhaseOf, Open
  <2>3. /\ VerdictOf(p) \in {"none", "person"}
        /\ VerdictOf(p) = "person" => p \in Ruled
    <3>1. ruling[p].source = IF p \in old THEN "inbox_close" ELSE "none"
      BY <2>1 DEF Nothing
    <3> QED
      BY <3>1 DEF VerdictOf
  <2> QED
    BY <2>2, <2>3 DEF Lifecycle!Init
<1>2. SessionInv /\ AgreeInv /\ [Next]_vars =>
        [\A p \in Pairs :
            marks'[p] = {} => [Lifecycle(p)!Next]_(Lifecycle(p)!vars)]_vars
  <2> SUFFICES ASSUME SessionInv, AgreeInv, [Next]_vars, NEW p \in Pairs,
                      marks'[p] = {}
               PROVE  [Lifecycle(p)!Next]_(Lifecycle(p)!vars)
    OBVIOUS
  <2>1. marks[p] = {} /\ AgreeAt(p)
    BY MarksAreKept DEF SessionInv, AgreeInv
  <2>2. CASE row'[p] = row[p] /\ ruling'[p] = ruling[p]
    BY <2>2 DEF Lifecycle!vars, PhaseOf, VerdictOf
  <2>3. ASSUME NEW h \in Handlers, Commit(h)
        PROVE  [Lifecycle(p)!Next]_(Lifecycle(p)!vars)
    <3>1. (row'[p] = row[p] /\ ruling'[p] = ruling[p]) \/ Committed(h, p)
      BY <2>3, HandlersCommit
    <3> QED
      BY <2>1, <2>2, <3>1, CommittedFollows
  <2>4. ASSUME NEW w \in Workers, CommitPair(w) \/ EndCycle(w)
        PROVE  [Lifecycle(p)!Next]_(Lifecycle(p)!vars)
    BY <2>1, <2>4, WrittenFollows
  <2>5. CASE row' = row /\ ruling' = ruling
    BY <2>2, <2>5
  <2> QED
    BY <2>3, <2>4, <2>5
       DEF Next, Serve, Run, vars, store, Read, ChangeEdge, Abort, Undo,
           GraphFails, Die, BeginCycle, TakePair, Evaluate, AutoClose,
           AutoCloseFails, PairFails, Compensate, CompensationFails, LoseCycle,
           CacheExpires
<1> QED
  BY <1>1, <1>2, AgreementKept, PTL DEF Spec, ImplementsPairs
=============================================================================
