--------------------------- MODULE MergeScan_proofs ---------------------------
(***************************************************************************)
(* Proofs about MergeScan for any creatives, phases, sweepers and bound on  *)
(* what people do.                                                         *)
(***************************************************************************)
EXTENDS MergeScan, TLAPS

(* Loops: the outermost one is no rescan, those above it are rescans of one *)
(* creative, and a rescan only lists pairs that creative would survive.     *)
LoopsOK(r) ==
    /\ \A i \in 1..Len(r.stack) : r.stack[i].kind = "rescan" <=> i > 1
    /\ \A i \in 1..Len(r.stack), j \in 1..Len(r.stack) :
          i > 1 /\ j > 1 => r.stack[i].anchor = r.stack[j].anchor
    /\ \A i \in 1..Len(r.stack) : i > 1 =>
          /\ r.stack[i].anchor \in r.locks \ r.open
          /\ \A p \in r.stack[i].todo : p[1] = r.stack[i].anchor

(* The pair at hand is one of the innermost loop; from the guard to the     *)
(* rescan its rows are locked, and its survivor is not merged away.         *)
PairOK(r) ==
    /\ r.stage \in {"ask", "guard", "mirror"} =>
          /\ r.stack # <<>> /\ r.pair \in Pairs
          /\ Len(r.stack) > 1 => r.pair[1] = r.stack[Len(r.stack)].anchor
    /\ r.stage = "mirror" => SetOf(r.pair) \subseteq r.locks /\ r.pair[1] \notin r.open

(* Rows under change are locked, and no locked survivor is gone: what is    *)
(* locked and not deleted by the transaction itself is alive.              *)
RowsOK(r) ==
    /\ r.open \subseteq r.locks
    /\ \A i \in 1..Len(r.stack) : i > 1 => r.stack[i].anchor \in live
    /\ r.stage = "mirror" => r.pair[1] \in live
LocksApart == \A t, u \in Threads : t # u => th[t].locks \cap th[u].locks = {}

RulingsOK(r) == r.ruledThen \subseteq ruled

ThreadOK(r) == LoopsOK(r) /\ PairOK(r) /\ RowsOK(r) /\ RulingsOK(r)
ScanInv == TypeOK /\ LocksApart /\ \A t \in Threads : ThreadOK(th[t])

-----------------------------------------------------------------------------
(* Steps of one thread.                                                    *)

(* A step that commits nothing and takes no row another thread has locked.  *)
LEMMA ThreadMoves ==
    ASSUME ScanInv, NEW t \in Threads, NEW r \in Thread, th' = [th EXCEPT ![t] = r],
           live' = live, ruled' = ruled, old' = old, human' = human, ThreadOK(r),
           \A u \in Threads \ {t} : r.locks \cap th[u].locks = {}
    PROVE  ScanInv'
<1>1. /\ th' \in [Threads -> Thread] /\ th'[t] = r
      /\ \A u \in Threads \ {t} : th'[u] = th[u]
  BY DEF ScanInv, TypeOK
<1>2. TypeOK'
  BY <1>1 DEF ScanInv, TypeOK
<1>3. LocksApart'
  BY <1>1 DEF ScanInv, LocksApart
<1>4. ASSUME NEW u \in Threads PROVE ThreadOK(th[u])'
  <2>1. PICK q : q = th'[u]
    OBVIOUS
  <2>2. ThreadOK(q)
    BY <1>1, <2>1 DEF ScanInv
  <2>3. ThreadOK(q)'
    BY <2>2 DEF ThreadOK, LoopsOK, PairOK, RowsOK, RulingsOK
  <2> QED BY <2>1, <2>3
<1> QED BY <1>2, <1>3, <1>4 DEF ScanInv

(* A commit removes creatives no other thread has locked, so no survivor.   *)
LEMMA ThreadCommits ==
    ASSUME ScanInv, NEW t \in Threads, NEW r \in Thread, th' = [th EXCEPT ![t] = r],
           live' = View(t), ruled' = ruled, old' = old, human' = human, ThreadOK(r),
           r.open = {}, r.locks = {}, Len(r.stack) <= 1, r.stage # "mirror"
    PROVE  ScanInv'
<1>1. /\ th' \in [Threads -> Thread] /\ th'[t] = r
      /\ \A u \in Threads \ {t} : th'[u] = th[u]
  BY DEF ScanInv, TypeOK
<1>2. TypeOK'
  BY <1>1 DEF ScanInv, TypeOK, View
<1>3. LocksApart'
  BY <1>1 DEF ScanInv, LocksApart
<1>4. ASSUME NEW u \in Threads \ {t} PROVE ThreadOK(th[u])'
  <2>1. PICK q : q = th[u]
    OBVIOUS
  <2>2. ThreadOK(q) /\ q.locks \cap th[t].open = {}
    BY <2>1 DEF ScanInv, LocksApart, ThreadOK, RowsOK
  <2>3. \A x \in q.locks \cap live : x \in live'
    BY <2>2 DEF View
  <2>4. RowsOK(q)'
    <3>1. \A i \in 1..Len(q.stack) : i > 1 => q.stack[i].anchor \in live'
      BY <2>2, <2>3 DEF ThreadOK, LoopsOK, RowsOK
    <3>2. q.stage = "mirror" => q.pair[1] \in live'
      BY <2>2, <2>3 DEF ThreadOK, PairOK, RowsOK, SetOf
    <3> QED BY <2>2, <3>1, <3>2 DEF ThreadOK, RowsOK
  <2>5. ThreadOK(q)'
    BY <2>2, <2>4 DEF ThreadOK, LoopsOK, PairOK, RulingsOK
  <2> QED BY <1>1, <2>1, <2>5
<1>5. ThreadOK(th[t])'
  <2>1. \A i \in 1..Len(r.stack) : ~(i > 1)
    BY DEF Thread
  <2>2. RowsOK(r)'
    BY <2>1 DEF RowsOK
  <2>3. ThreadOK(r)'
    BY <2>2 DEF ThreadOK, LoopsOK, PairOK, RulingsOK
  <2> QED BY <1>1, <2>3
<1>6. \A u \in Threads : ThreadOK(th[u])'
  BY <1>4, <1>5
<1> QED BY <1>2, <1>3, <1>6 DEF ScanInv

(* The pair is over.                                                       *)
LEMMA PairEnds ==
    ASSUME ScanInv, NEW t \in Threads, NEW row \in Thread, EndPair(t, row),
           ruled' = ruled, old' = old, human' = human, LoopsOK(row), RowsOK(row),
           row.locks = th[t].locks, row.stage # "mirror"
    PROVE  ScanInv'
<1>1. PICK over : over = [row EXCEPT !.stage = "next", !.pair = NoPair, !.ruledThen = {}]
  OBVIOUS
<1>2. /\ over \in Thread /\ over.stage = "next" /\ over.stack = row.stack /\ over.open = row.open
      /\ over.locks = row.locks /\ over.ruledThen = {} /\ over.pair = NoPair
  BY <1>1 DEF Thread
<1>3. IF Len(over.stack) = 1 THEN Commit(t, over) ELSE Keep(t, over)
  BY <1>1 DEF EndPair
<1>4. ThreadOK(over)
  BY <1>2 DEF ThreadOK, LoopsOK, PairOK, RowsOK, RulingsOK
<1>5. CASE Len(over.stack) = 1
  <2>1. PICK r : r = [over EXCEPT !.open = {}, !.locks = {}, !.mirror = FALSE]
    OBVIOUS
  <2>2. live' = View(t) /\ th' = [th EXCEPT ![t] = r]
    BY <1>3, <1>5, <2>1 DEF Commit
  <2>3. PICK no \in BOOLEAN : no = FALSE
    OBVIOUS
  <2>4. /\ r \in Thread /\ r.stage = "next" /\ r.stack = over.stack /\ r.open = {}
        /\ r.locks = {} /\ r.ruledThen = {}
    BY <1>2, <2>1, <2>3 DEF Thread
  <2>a. r.stack = over.stack
    BY <2>4
  <2>b. Len(r.stack) = 1
    BY <1>5, <2>a, Zenon
  <2>5. \A i \in 1..Len(r.stack) : ~(i > 1)
    BY <2>b
  <2>6. ThreadOK(r)
    BY <1>4, <2>4, <2>5 DEF ThreadOK, LoopsOK, PairOK, RowsOK, RulingsOK
  <2>7. Len(r.stack) <= 1
    BY <2>b
  <2> QED BY <2>2, <2>4, <2>6, <2>7, ThreadCommits
<1>6. CASE Len(over.stack) # 1
  <2>1. live' = live /\ th' = [th EXCEPT ![t] = over]
    BY <1>3, <1>6 DEF Keep
  <2>2. \A u \in Threads \ {t} : over.locks \cap th[u].locks = {}
    BY <1>2 DEF ScanInv, LocksApart
  <2> QED BY <1>2, <1>4, <2>1, <2>2, ThreadMoves
<1> QED BY <1>5, <1>6

(* A rolled back transaction leaves no rescan behind.                       *)
LEMMA AbandonKeeps ==
    ASSUME ScanInv, NEW t \in Threads, Abandon(t), th[t].stack # <<>>,
           ruled' = ruled, old' = old, human' = human
    PROVE  ScanInv'
<1>1. PICK q : q = th[t]
  OBVIOUS
<1>2. q \in Thread /\ ThreadOK(q)
  BY <1>1 DEF ScanInv, TypeOK
<1>3. PICK row : row = [q EXCEPT !.open = {}, !.locks = {}, !.mirror = FALSE,
                        !.gone = @ \ q.open, !.pair = NoPair, !.ruledThen = {}]
  OBVIOUS
<1>4. /\ row \in Thread /\ row.open = {} /\ row.locks = {} /\ row.ruledThen = {}
  <2>1. PICK no \in BOOLEAN : no = FALSE
    OBVIOUS
  <2>2. PICK s : s = q.gone \ q.open
    OBVIOUS
  <2> QED BY <1>2, <1>3, <2>1, <2>2 DEF Thread
<1>5. PICK f : f = Outermost(t)
  OBVIOUS
<1>6. f \in Frames /\ f.kind # "rescan" /\ q.stack # <<>> /\ f = q.stack[1]
  <2>1. q.stack \in Seq(Frames) /\ q.stack # <<>>
    BY <1>1, <1>2 DEF Thread
  <2>2. 1 \in 1..Len(q.stack) /\ q.stack[1] \in Frames
    BY <2>1
  <2>3. q.stack[1].kind # "rescan"
    BY <1>2, <2>2 DEF ThreadOK, LoopsOK
  <2> QED BY <1>1, <1>5, <2>1, <2>2, <2>3 DEF Outermost
<1>7. CASE f.kind = "judge"
  <2>1. PICK r : r = [row EXCEPT !.stage = "next", !.stack = <<f>>]
    OBVIOUS
  <2>2. live' = live /\ th' = [th EXCEPT ![t] = r]
    BY <1>1, <1>3, <1>5, <1>7, <2>1 DEF Abandon, Keep
  <2>3. <<f>> \in Seq(Frames) /\ Len(<<f>>) = 1 /\ <<f>>[1] = f
    BY <1>6
  <2>4. /\ r \in Thread /\ r.stage = "next" /\ r.stack = <<f>> /\ r.open = {}
        /\ r.locks = {} /\ r.ruledThen = {}
    BY <1>4, <2>1, <2>3 DEF Thread
  <2>5. ThreadOK(r)
    BY <1>6, <2>3, <2>4 DEF ThreadOK, LoopsOK, PairOK, RowsOK, RulingsOK
  <2> QED BY <2>2, <2>4, <2>5, ThreadMoves
<1>8. CASE f.kind # "judge"
  <2>1. PICK b \in BOOLEAN : b = (t \in Phases)
    <3>1. CASE t \in Phases
      <4>1. TRUE = (t \in Phases)
        BY <3>1
      <4> QED BY <4>1
    <3>2. CASE t \notin Phases
      <4>1. FALSE = (t \in Phases)
        BY <3>2
      <4> QED BY <4>1
    <3> QED BY <3>1, <3>2
  <2>2. PICK r : r = [row EXCEPT !.stage = "note", !.stack = <<>>, !.broken = b]
    OBVIOUS
  <2>3. live' = live /\ th' = [th EXCEPT ![t] = r]
    BY <1>1, <1>3, <1>5, <1>8, <2>1, <2>2 DEF Abandon, Keep
  <2>4. <<>> \in Seq(Frames) /\ Len(<<>>) = 0
    OBVIOUS
  <2>5. /\ r \in Thread /\ r.stage = "note" /\ r.stack = <<>> /\ r.open = {}
        /\ r.locks = {} /\ r.ruledThen = {}
    BY <1>4, <2>2, <2>4 DEF Thread
  <2>6. ThreadOK(r)
    BY <2>4, <2>5 DEF ThreadOK, LoopsOK, PairOK, RowsOK, RulingsOK
  <2> QED BY <2>3, <2>5, <2>6, ThreadMoves
<1> QED BY <1>7, <1>8

-----------------------------------------------------------------------------
(* The actions, one after the other.                                       *)

(* The pairs of a rescan are those its creative survives.                   *)
LEMMA FramesAre ==
    ASSUME ScanInv, NEW t \in Threads, NEW x \in Creatives \cup {None},
           NEW kind \in {"judge", "scan", "rescan"}, NEW by \in Pairs \cup {NoPair}
    PROVE  /\ JudgeFrame(t, x) \in Frames /\ JudgeFrame(t, x).kind = "judge"
           /\ ScanFrame(t, x, kind, by) \in Frames
           /\ ScanFrame(t, x, kind, by).kind = kind /\ ScanFrame(t, x, kind, by).anchor = x
           /\ x # None => \A p \in ScanFrame(t, x, kind, by).todo : p[1] = x
<1>1. live \subseteq Creatives
  BY DEF ScanInv, TypeOK
<1> QED BY <1>1 DEF JudgeFrame, ScanFrame, Frames, View

LEMMA BeginKeeps == ASSUME ScanInv, NEW t \in Threads, Begin(t) PROVE ScanInv'
<1>1. PICK q : q = th[t]
  OBVIOUS
<1>2. q \in Thread /\ ThreadOK(q) /\ q.stage = "begin"
  BY <1>1 DEF ScanInv, TypeOK, Begin
<1>3. PICK x \in live :
         th' = [th EXCEPT ![t].stage = "next",
                          ![t].stack = <<IF t \in Sweepers
                                         THEN ScanFrame(t, None, "scan", NoPair)
                                         ELSE JudgeFrame(t, x)>>]
  BY DEF Begin
<1>4. PICK f : f = IF t \in Sweepers THEN ScanFrame(t, None, "scan", NoPair) ELSE JudgeFrame(t, x)
  OBVIOUS
<1>5. f \in Frames /\ f.kind # "rescan"
  <2>1. x \in Creatives
    BY DEF ScanInv, TypeOK
  <2> QED BY <1>4, <2>1, FramesAre
<1>6. PICK r : r = [q EXCEPT !.stage = "next", !.stack = <<f>>]
  OBVIOUS
<1>7. <<f>> \in Seq(Frames) /\ Len(<<f>>) = 1 /\ <<f>>[1] = f
  BY <1>5
<1>8. /\ r \in Thread /\ r.stage = "next" /\ r.stack = <<f>> /\ r.open = q.open
      /\ r.locks = q.locks /\ r.ruledThen = q.ruledThen
  BY <1>2, <1>6, <1>7 DEF Thread
<1>9. th' = [th EXCEPT ![t] = r]
  BY <1>1, <1>3, <1>4, <1>6 DEF ScanInv, TypeOK
<1>10. ThreadOK(r)
  BY <1>2, <1>5, <1>7, <1>8 DEF ThreadOK, LoopsOK, PairOK, RowsOK, RulingsOK
<1>11. \A u \in Threads \ {t} : r.locks \cap th[u].locks = {}
  BY <1>1, <1>8 DEF ScanInv, LocksApart
<1> QED BY <1>8, <1>9, <1>10, <1>11, ThreadMoves DEF Begin

LEMMA TakePairKeeps == ASSUME ScanInv, NEW t \in Threads, TakePair(t) PROVE ScanInv'
<1>1. PICK q : q = th[t]
  OBVIOUS
<1>2. /\ q \in Thread /\ ThreadOK(q) /\ q.stage = "next" /\ q.stack # <<>>
      /\ q.stack \in Seq(Frames)
  BY <1>1 DEF ScanInv, TypeOK, TakePair, Thread
<1>3. PICK n : n = Len(q.stack)
  OBVIOUS
<1>4. n \in Nat \ {0} /\ n \in 1..Len(q.stack)
  BY <1>2, <1>3
<1>5. PICK f : f = Top(t)
  OBVIOUS
<1>6. f = q.stack[n] /\ f \in Frames
  BY <1>1, <1>2, <1>3, <1>4, <1>5 DEF Top
<1>7. PICK p \in Worth(t) :
         th' = [th EXCEPT ![t].stack = InTop(t, [Top(t) EXCEPT !.todo = Worth(t) \ {p}]),
                          ![t].pair = p, ![t].stage = "ask"]
  BY DEF TakePair
<1>8. p \in f.todo /\ Worth(t) \subseteq f.todo
  BY <1>5 DEF Worth
<1>9. PICK todo, g, s : /\ todo = Worth(t) \ {p} /\ g = [f EXCEPT !.todo = todo]
                        /\ s = [q.stack EXCEPT ![n] = g]
  OBVIOUS
<1>10. /\ g \in Frames /\ g.kind = f.kind /\ g.anchor = f.anchor
       /\ g.todo \subseteq f.todo /\ p \in Pairs
  BY <1>6, <1>8, <1>9 DEF Frames
<1>11. /\ s \in Seq(Frames) /\ Len(s) = Len(q.stack) /\ s # <<>>
       /\ \A i \in 1..Len(q.stack) : s[i] = IF i = n THEN g ELSE q.stack[i]
  BY <1>2, <1>3, <1>4, <1>9, <1>10
<1>12. PICK r : r = [q EXCEPT !.stack = s, !.pair = p, !.stage = "ask"]
  OBVIOUS
<1>13. /\ r \in Thread /\ r.stage = "ask" /\ r.stack = s /\ r.open = q.open
       /\ r.locks = q.locks /\ r.ruledThen = q.ruledThen /\ r.pair = p
  BY <1>2, <1>10, <1>11, <1>12 DEF Thread
<1>14. th' = [th EXCEPT ![t] = r]
  BY <1>1, <1>3, <1>5, <1>7, <1>9, <1>12 DEF ScanInv, TypeOK, InTop
<1>15. LoopsOK(r)
  BY <1>2, <1>4, <1>6, <1>10, <1>11, <1>13 DEF ThreadOK, LoopsOK
<1>16. PairOK(r)
  <2>1. n > 1 => p[1] = f.anchor
    BY <1>2, <1>4, <1>6, <1>8 DEF ThreadOK, LoopsOK
  <2>2. s[Len(s)].anchor = f.anchor
    BY <1>3, <1>4, <1>10, <1>11
  <2> QED BY <1>3, <1>10, <1>11, <1>13, <2>1, <2>2 DEF PairOK
<1>17. RowsOK(r) /\ RulingsOK(r)
  BY <1>2, <1>4, <1>6, <1>10, <1>11, <1>13 DEF ThreadOK, RowsOK, RulingsOK
<1>18. \A u \in Threads \ {t} : r.locks \cap th[u].locks = {}
  BY <1>1, <1>13 DEF ScanInv, LocksApart
<1> QED BY <1>13, <1>14, <1>15, <1>16, <1>17, <1>18, ThreadMoves DEF TakePair, ThreadOK

LEMMA AnsweredKeeps == ASSUME ScanInv, NEW t \in Threads, Answered(t) PROVE ScanInv'
<1>1. PICK q : q = th[t]
  OBVIOUS
<1>2. q \in Thread /\ ThreadOK(q) /\ q.stage = "ask"
  BY <1>1 DEF ScanInv, TypeOK, Answered
<1>3. ruled' = ruled /\ old' = old /\ human' = human /\ ruled \in SUBSET SUBSET Creatives
  BY DEF Answered, ScanInv, TypeOK
<1>4. \A u \in Threads \ {t} : q.locks \cap th[u].locks = {}
  BY <1>1 DEF ScanInv, LocksApart
<1>5. CASE Keep(t, [th[t] EXCEPT !.stage = "next", !.pair = NoPair])
  <2>1. PICK r : r = [q EXCEPT !.stage = "next", !.pair = NoPair]
    OBVIOUS
  <2>2. /\ r \in Thread /\ r.stage = "next" /\ r.stack = q.stack /\ r.open = q.open
        /\ r.locks = q.locks /\ r.ruledThen = q.ruledThen
    BY <1>2, <2>1 DEF Thread
  <2>3. ThreadOK(r)
    BY <1>2, <2>2 DEF ThreadOK, LoopsOK, PairOK, RowsOK, RulingsOK
  <2>4. th' = [th EXCEPT ![t] = r] /\ live' = live
    BY <1>1, <1>5, <2>1 DEF Keep
  <2> QED BY <1>3, <1>4, <2>2, <2>3, <2>4, ThreadMoves
<1>6. CASE EndPair(t, th[t])
  <2>1. EndPair(t, q) /\ q.locks = th[t].locks
    BY <1>1, <1>6
  <2> QED BY <1>2, <1>3, <2>1, PairEnds DEF ThreadOK
<1>7. CASE Keep(t, [th[t] EXCEPT !.stage = "guard", !.ruledThen = ruled])
  <2>1. PICK r : r = [q EXCEPT !.stage = "guard", !.ruledThen = ruled]
    OBVIOUS
  <2>2. /\ r \in Thread /\ r.stage = "guard" /\ r.stack = q.stack /\ r.open = q.open
        /\ r.locks = q.locks /\ r.ruledThen = ruled /\ r.pair = q.pair
    BY <1>2, <1>3, <2>1 DEF Thread
  <2>3. ThreadOK(r)
    BY <1>2, <2>2 DEF ThreadOK, LoopsOK, PairOK, RowsOK, RulingsOK
  <2>4. th' = [th EXCEPT ![t] = r] /\ live' = live
    BY <1>1, <1>7, <2>1 DEF Keep
  <2> QED BY <1>3, <1>4, <2>2, <2>3, <2>4, ThreadMoves
<1> QED BY <1>5, <1>6, <1>7 DEF Answered

(* The rows a merge writes are locked by nobody else, and a rescan never    *)
(* merges its own creative away.                                           *)
LEMMA GuardedKeeps == ASSUME ScanInv, NEW t \in Threads, Guarded(t) PROVE ScanInv'
<1>1. PICK q, p : q = th[t] /\ p = th[t].pair
  OBVIOUS
<1>2. q \in Thread /\ ThreadOK(q) /\ q.stage = "guard" /\ Runnable(t)
  BY <1>1 DEF ScanInv, TypeOK, Guarded
<1>3. ruled' = ruled /\ old' = old /\ human' = human
  BY DEF Guarded
<1>4. \A u \in Threads \ {t} : q.locks \cap th[u].locks = {}
  BY <1>1 DEF ScanInv, LocksApart
<1>5. p \in Pairs /\ q.stack # <<>> /\ q.pair = p
  BY <1>1, <1>2 DEF ThreadOK, PairOK
<1>6. CASE Missed(t, p)
  <2>1. PICK r : r = [q EXCEPT !.stage = "next", !.pair = NoPair, !.ruledThen = {}]
    OBVIOUS
  <2>2. /\ r \in Thread /\ r.stage = "next" /\ r.stack = q.stack /\ r.open = q.open
        /\ r.locks = q.locks /\ r.ruledThen = {}
    BY <1>2, <2>1 DEF Thread
  <2>3. ThreadOK(r)
    BY <1>2, <2>2 DEF ThreadOK, LoopsOK, PairOK, RowsOK, RulingsOK
  <2>4. th' = [th EXCEPT ![t] = r] /\ live' = live
    BY <1>1, <1>6, <2>1 DEF Guarded, Keep
  <2> QED BY <1>3, <1>4, <2>2, <2>3, <2>4, ThreadMoves
<1>7. CASE ~Missed(t, p) /\ BlockedByRuling(p)
  <2>1. EndPair(t, q) /\ q.locks = th[t].locks
    BY <1>1, <1>7 DEF Guarded
  <2> QED BY <1>2, <1>3, <2>1, PairEnds DEF ThreadOK
<1>8. CASE ~Missed(t, p) /\ ~BlockedByRuling(p) /\ Survivor(p) \notin View(t)
  <2>1. Abandon(t)
    BY <1>1, <1>8 DEF Guarded
  <2> QED BY <1>1, <1>3, <1>5, <2>1, AbandonKeeps
<1>9. CASE ~Missed(t, p) /\ ~BlockedByRuling(p) /\ Survivor(p) \in View(t)
  <2>1. PICK open, gone, locks : /\ open = q.open \cup {Absorbed(p)}
                                 /\ gone = q.gone \cup {Absorbed(p)}
                                 /\ locks = q.locks \cup SetOf(p)
    OBVIOUS
  <2>2. PICK r : r = [q EXCEPT !.stage = "mirror", !.open = open, !.gone = gone, !.locks = locks]
    OBVIOUS
  <2>3. th' = [th EXCEPT ![t] = r] /\ live' = live
    <3>1. Keep(t, [th[t] EXCEPT !.stage = "mirror", !.open = @ \cup {Absorbed(p)},
                                !.gone = @ \cup {Absorbed(p)}, !.locks = @ \cup SetOf(p)])
      BY <1>1, <1>9 DEF Guarded
    <3> QED BY <1>1, <2>1, <2>2, <3>1 DEF Keep
  <2>4. /\ SetOf(p) = {p[1], p[2]} /\ Absorbed(p) = p[2] /\ Survivor(p) = p[1]
        /\ p[1] # p[2] /\ p[1] \in Creatives /\ p[2] \in Creatives
    BY <1>5 DEF SetOf, Absorbed, Survivor, Pairs
  <2>5. p[1] \in live /\ p[1] \notin q.open
    BY <1>1, <1>9, <2>4 DEF View
  <2>6. open \subseteq Creatives /\ gone \subseteq Creatives /\ locks \subseteq Creatives
    BY <1>2, <2>1, <2>4 DEF Thread
  <2>7. /\ r \in Thread /\ r.stage = "mirror" /\ r.stack = q.stack /\ r.open = open
        /\ r.locks = locks /\ r.ruledThen = q.ruledThen /\ r.pair = p
    BY <1>2, <1>5, <2>2, <2>6 DEF Thread
  <2>8. ASSUME NEW i \in 1..Len(q.stack), i > 1
        PROVE  q.stack[i].anchor = p[1]
    <3>1. q.stack \in Seq(Frames)
      BY <1>2 DEF Thread
    <3>2. Len(q.stack) \in 1..Len(q.stack) /\ Len(q.stack) > 1
      BY <2>8, <3>1
    <3>3. q.pair[1] = q.stack[Len(q.stack)].anchor
      BY <1>2, <3>2 DEF ThreadOK, PairOK
    <3> QED BY <1>2, <1>5, <2>8, <3>2, <3>3 DEF ThreadOK, LoopsOK
  <2>9. LoopsOK(r)
    BY <1>2, <2>1, <2>4, <2>7, <2>8 DEF ThreadOK, LoopsOK
  <2>10. PairOK(r)
    BY <1>2, <1>5, <2>1, <2>4, <2>5, <2>7 DEF ThreadOK, PairOK
  <2>11. RowsOK(r) /\ RulingsOK(r)
    BY <1>2, <2>1, <2>4, <2>5, <2>7 DEF ThreadOK, RowsOK, RulingsOK
  <2>12. \A u \in Threads \ {t} : r.locks \cap th[u].locks = {}
    <3>1. \A u \in Threads \ {t} : SetOf(p) \cap th[u].locks = {}
      BY <1>1, <1>2 DEF Runnable, Blocks
    <3> QED BY <1>4, <2>1, <2>7, <3>1
  <2> QED BY <1>3, <2>3, <2>7, <2>9, <2>10, <2>11, <2>12, ThreadMoves DEF ThreadOK
<1> QED BY <1>6, <1>7, <1>8, <1>9

LEMMA RescanKeeps == ASSUME ScanInv, NEW t \in Threads, Rescan(t) PROVE ScanInv'
<1>1. PICK q, p : q = th[t] /\ p = th[t].pair
  OBVIOUS
<1>2. /\ q \in Thread /\ ThreadOK(q) /\ q.stage = "mirror" /\ q.stack \in Seq(Frames)
  BY <1>1 DEF ScanInv, TypeOK, Rescan, Thread
<1>3. ruled' = ruled /\ old' = old /\ human' = human /\ live' = live
  BY DEF Rescan
<1>4. /\ p \in Pairs /\ q.stack # <<>> /\ q.pair = p
      /\ Len(q.stack) > 1 => p[1] = q.stack[Len(q.stack)].anchor
      /\ SetOf(p) \subseteq q.locks /\ p[1] \notin q.open /\ p[1] \in live
  BY <1>1, <1>2 DEF ThreadOK, PairOK, RowsOK
<1>5. p[1] \in Creatives /\ p[1] # None /\ p[1] \in q.locks /\ Survivor(p) = p[1]
  BY <1>4, ScanAssumption DEF Pairs, SetOf, None, Survivor
<1>6. PICK f : f = ScanFrame(t, p[1], "rescan", p)
  OBVIOUS
<1>7. f \in Frames /\ f.kind = "rescan" /\ f.anchor = p[1] /\ \A x \in f.todo : x[1] = p[1]
  BY <1>4, <1>5, <1>6, FramesAre
<1>8. PICK s, n : s = Append(q.stack, f) /\ n = Len(q.stack)
  OBVIOUS
<1>9. n \in Nat \ {0}
  BY <1>2, <1>4, <1>8
<1>10. /\ s \in Seq(Frames) /\ Len(s) = n + 1 /\ s[n + 1] = f
       /\ \A i \in 1..n : s[i] = q.stack[i]
  BY <1>2, <1>7, <1>8
<1>11. PICK r : r = [q EXCEPT !.stage = "next", !.mirror = TRUE, !.pair = NoPair,
                              !.ruledThen = {}, !.stack = s]
  OBVIOUS
<1>12. /\ r \in Thread /\ r.stage = "next" /\ r.stack = s /\ r.open = q.open
       /\ r.locks = q.locks /\ r.ruledThen = {}
  <2>1. PICK yes \in BOOLEAN : yes = TRUE
    OBVIOUS
  <2> QED BY <1>2, <1>10, <1>11, <2>1 DEF Thread
<1>13. th' = [th EXCEPT ![t] = r]
  <2>1. th' = [th EXCEPT ![t].stage = "next", ![t].mirror = TRUE, ![t].pair = NoPair,
                         ![t].ruledThen = {},
                         ![t].stack = Append(@, ScanFrame(t, p[1], "rescan", p))]
    BY <1>1, <1>5 DEF Rescan
  <2> QED BY <1>1, <1>6, <1>8, <1>11, <2>1 DEF ScanInv, TypeOK
<1>14. \A i \in 1..n : i > 1 => q.stack[i].anchor = p[1]
  <2>1. \A i \in 1..n : i > 1 => n \in 1..n /\ n > 1
    BY <1>9
  <2> QED BY <1>2, <1>4, <1>8, <1>9, <2>1 DEF ThreadOK, LoopsOK
<1>15. LoopsOK(r)
  <2>1. \A i \in 1..n + 1 : i \in 1..n \/ i = n + 1
    BY <1>9
  <2>2. \A i \in 1..n + 1 : s[i].kind = "rescan" <=> i > 1
    BY <1>2, <1>7, <1>8, <1>9, <1>10, <2>1 DEF ThreadOK, LoopsOK
  <2>3. \A i \in 1..n + 1 : i > 1 => s[i].anchor = p[1]
    BY <1>7, <1>10, <1>14, <2>1
  <2>4. \A i \in 1..n + 1 : i > 1 => \A x \in s[i].todo : x[1] = p[1]
    BY <1>2, <1>7, <1>8, <1>10, <1>14, <2>1 DEF ThreadOK, LoopsOK
  <2> QED BY <1>4, <1>5, <1>10, <1>12, <2>2, <2>3, <2>4 DEF LoopsOK
<1>16. PairOK(r) /\ RulingsOK(r)
  BY <1>12 DEF PairOK, RulingsOK
<1>17. RowsOK(r)
  <2>1. \A i \in 1..n + 1 : i > 1 => s[i].anchor = p[1]
    <3>1. \A i \in 1..n + 1 : i \in 1..n \/ i = n + 1
      BY <1>9
    <3> QED BY <1>7, <1>10, <1>14, <3>1
  <2> QED BY <1>2, <1>4, <1>10, <1>12, <2>1 DEF ThreadOK, RowsOK
<1>18. \A u \in Threads \ {t} : r.locks \cap th[u].locks = {}
  BY <1>1, <1>12 DEF ScanInv, LocksApart
<1> QED BY <1>3, <1>12, <1>13, <1>15, <1>16, <1>17, <1>18, ThreadMoves DEF ThreadOK

LEMMA RescanEndsKeeps == ASSUME ScanInv, NEW t \in Threads, RescanEnds(t) PROVE ScanInv'
<1>1. PICK q : q = th[t]
  OBVIOUS
<1>2. /\ q \in Thread /\ ThreadOK(q) /\ q.stage = "next" /\ q.stack \in Seq(Frames)
      /\ Len(q.stack) > 1
  BY <1>1 DEF ScanInv, TypeOK, RescanEnds, LoopOver, Thread
<1>3. PICK n, gone : n = Len(q.stack) - 1 /\ gone = {Absorbed(Top(t).by)}
  OBVIOUS
<1>4. n \in Nat \ {0} /\ n < Len(q.stack) /\ n \in 1..Len(q.stack)
  <2>1. PICK m : m = Len(q.stack)
    OBVIOUS
  <2>2. m \in Nat
    BY <1>2, <2>1
  <2>3. m > 1 /\ n = m - 1
    BY <1>2, <1>3, <2>1, Zenon
  <2>4. n \in Nat \ {0} /\ n < m /\ n \in 1..m
    BY <2>2, <2>3
  <2> QED BY <2>1, <2>4, Zenon
<1>5. PICK f, g, short, rest :
         /\ f = q.stack[n] /\ g = [f EXCEPT !.alive = f.alive \ gone]
         /\ short = SubSeq(q.stack, 1, n) /\ rest = [short EXCEPT ![n] = g]
  OBVIOUS
<1>6. f \in Frames
  BY <1>2, <1>4, <1>5
<1>7. g \in Frames /\ g.kind = f.kind /\ g.anchor = f.anchor /\ g.todo = f.todo
  <2>1. PICK alive : alive = f.alive \ gone
    OBVIOUS
  <2> QED BY <1>5, <1>6, <2>1 DEF Frames
<1>8. short \in Seq(Frames) /\ Len(short) = n /\ \A i \in 1..n : short[i] = q.stack[i]
  <2>1. /\ short \in Seq(Frames) /\ Len(short) = n
    BY <1>2, <1>4, <1>5
  <2>2. short = [i \in 1..n |-> q.stack[i]]
    BY <1>2, <1>4, <1>5
  <2> QED BY <2>1, <2>2
<1>9. /\ rest \in Seq(Frames) /\ Len(rest) = n
      /\ \A i \in 1..n : rest[i] = IF i = n THEN g ELSE q.stack[i]
  <2>1. n \in 1..n /\ n \in 1..Len(short)
    BY <1>4, <1>8
  <2>2. Len(rest) = n /\ rest \in Seq(Frames)
    BY <1>5, <1>7, <1>8, <2>1
  <2>3. DOMAIN short = 1..n
    BY <1>8
  <2> QED BY <1>5, <1>8, <2>2, <2>3
<1>10. \A i \in 1..n : /\ i \in 1..Len(q.stack) /\ rest[i].kind = q.stack[i].kind
                       /\ rest[i].anchor = q.stack[i].anchor
                       /\ rest[i].todo = q.stack[i].todo
  BY <1>4, <1>5, <1>7, <1>9
<1>11. PICK row : row = [q EXCEPT !.stack = rest]
  OBVIOUS
<1>12. /\ row \in Thread /\ row.stage = "next" /\ row.stack = rest /\ row.open = q.open
       /\ row.locks = q.locks
  BY <1>2, <1>9, <1>11 DEF Thread
<1>13. EndPair(t, row) /\ ruled' = ruled /\ old' = old /\ human' = human
  <2>1. EndPair(t, [th[t] EXCEPT !.stack =
           [SubSeq(th[t].stack, 1, n) EXCEPT ![n].alive = @ \ {Absorbed(Top(t).by)}]])
    BY <1>1, <1>3 DEF RescanEnds
  <2>2. [short EXCEPT ![n].alive = @ \ gone] = rest
    <3>1. short[n] = f
      BY <1>4, <1>5, <1>8
    <3> QED BY <1>5, <3>1
  <2>3. [SubSeq(th[t].stack, 1, n) EXCEPT ![n].alive = @ \ {Absorbed(Top(t).by)}] = rest
    BY <1>1, <1>3, <1>5, <2>2, Zenon
  <2> QED BY <1>1, <1>11, <2>1, <2>3 DEF RescanEnds
<1>14. LoopsOK(row)
  BY <1>2, <1>9, <1>10, <1>12 DEF ThreadOK, LoopsOK
<1>15. RowsOK(row)
  BY <1>2, <1>9, <1>10, <1>12 DEF ThreadOK, RowsOK
<1> QED BY <1>1, <1>12, <1>13, <1>14, <1>15, PairEnds

LEMMA LoopEndsKeeps == ASSUME ScanInv, NEW t \in Threads, LoopEnds(t) PROVE ScanInv'
<1>1. PICK q : q = th[t]
  OBVIOUS
<1>2. /\ q \in Thread /\ ThreadOK(q) /\ q.stage = "next" /\ q.stack \in Seq(Frames)
      /\ Len(q.stack) = 1
  BY <1>1 DEF ScanInv, TypeOK, LoopEnds, LoopOver, Thread
<1>3. PICK f : f = Top(t)
  OBVIOUS
<1>4. f = q.stack[1] /\ f \in Frames
  BY <1>1, <1>2, <1>3 DEF Top
<1>5. ruled' = ruled /\ old' = old /\ human' = human
  BY DEF LoopEnds
<1>6. CASE f.kind = "judge"
  <2>1. PICK g : g = ScanFrame(t, f.anchor, "scan", NoPair)
    OBVIOUS
  <2>2. g \in Frames /\ g.kind = "scan"
    <3>1. f.anchor \in Creatives \cup {None}
      BY <1>4 DEF Frames
    <3> QED BY <2>1, <3>1, FramesAre
  <2>3. PICK r : r = [q EXCEPT !.stack = <<g>>]
    OBVIOUS
  <2>4. live' = live /\ th' = [th EXCEPT ![t] = r]
    BY <1>1, <1>3, <1>6, <2>1, <2>3 DEF LoopEnds, Keep
  <2>5. <<g>> \in Seq(Frames) /\ Len(<<g>>) = 1 /\ <<g>>[1] = g
    BY <2>2
  <2>6. /\ r \in Thread /\ r.stage = "next" /\ r.stack = <<g>> /\ r.open = q.open
        /\ r.locks = q.locks /\ r.ruledThen = q.ruledThen
    BY <1>2, <2>3, <2>5 DEF Thread
  <2>7. ThreadOK(r)
    BY <1>2, <2>2, <2>5, <2>6 DEF ThreadOK, LoopsOK, PairOK, RowsOK, RulingsOK
  <2>8. \A u \in Threads \ {t} : r.locks \cap th[u].locks = {}
    BY <1>1, <2>6 DEF ScanInv, LocksApart
  <2> QED BY <1>5, <2>4, <2>6, <2>7, <2>8, ThreadMoves
<1>7. CASE f.kind # "judge"
  <2>1. PICK s : s = [q EXCEPT !.stage = "note", !.stack = <<>>]
    OBVIOUS
  <2>2. <<>> \in Seq(Frames) /\ Len(<<>>) = 0
    OBVIOUS
  <2>3. s \in Thread /\ s.stage = "note" /\ s.stack = <<>> /\ s.ruledThen = q.ruledThen
    BY <1>2, <2>1, <2>2 DEF Thread
  <2>4. PICK r : r = [s EXCEPT !.open = {}, !.locks = {}, !.mirror = FALSE]
    OBVIOUS
  <2>5. /\ r \in Thread /\ r.stage = "note" /\ r.stack = <<>> /\ r.open = {}
        /\ r.locks = {} /\ r.ruledThen = q.ruledThen
    <3>1. PICK no \in BOOLEAN : no = FALSE
      OBVIOUS
    <3> QED BY <2>3, <2>4, <3>1 DEF Thread
  <2>6. live' = View(t) /\ th' = [th EXCEPT ![t] = r]
    BY <1>1, <1>3, <1>7, <2>1, <2>4 DEF LoopEnds, Commit
  <2>7. ThreadOK(r)
    BY <1>2, <2>2, <2>5 DEF ThreadOK, LoopsOK, PairOK, RowsOK, RulingsOK
  <2>8. Len(r.stack) = 0
    BY <2>2, <2>5, Zenon
  <2>9. Len(r.stack) <= 1
    BY <2>8
  <2> QED BY <1>5, <2>5, <2>6, <2>7, <2>9, ThreadCommits
<1> QED BY <1>6, <1>7

LEMMA NoteKeeps == ASSUME ScanInv, NEW t \in Threads, Note(t) PROVE ScanInv'
<1>1. PICK q : q = th[t]
  OBVIOUS
<1>2. q \in Thread /\ ThreadOK(q)
  BY <1>1 DEF ScanInv, TypeOK
<1>3. PICK b \in BOOLEAN : b = (t \in Phases /\ ~th[t].broken)
  <2>1. CASE t \in Phases /\ ~th[t].broken
    <3>1. TRUE = (t \in Phases /\ ~th[t].broken)
      BY <2>1
    <3> QED BY <3>1
  <2>2. CASE ~(t \in Phases /\ ~th[t].broken)
    <3>1. FALSE = (t \in Phases /\ ~th[t].broken)
      BY <2>2
    <3> QED BY <3>1
  <2> QED BY <2>1, <2>2
<1>4. PICK r : r = [q EXCEPT !.stage = "done", !.counted = b]
  OBVIOUS
<1>5. /\ r \in Thread /\ r.stage = "done" /\ r.stack = q.stack /\ r.open = q.open
      /\ r.locks = q.locks /\ r.ruledThen = q.ruledThen
  BY <1>2, <1>3, <1>4 DEF Thread
<1>6. th' = [th EXCEPT ![t] = r]
  BY <1>1, <1>3, <1>4 DEF Note, ScanInv, TypeOK
<1>7. ThreadOK(r)
  BY <1>2, <1>5 DEF ThreadOK, LoopsOK, PairOK, RowsOK, RulingsOK
<1>8. \A u \in Threads \ {t} : r.locks \cap th[u].locks = {}
  BY <1>1, <1>5 DEF ScanInv, LocksApart
<1> QED BY <1>5, <1>6, <1>7, <1>8, ThreadMoves DEF Note

LEMMA DeadlockVictimKeeps ==
    ASSUME ScanInv, NEW t \in Threads, DeadlockVictim(t) PROVE ScanInv'
<1>1. th[t].stage \in {"guard", "mirror"}
  BY DEF DeadlockVictim, Blocks
<1>2. th[t].stack # <<>>
  BY <1>1 DEF ScanInv, ThreadOK, PairOK
<1> QED BY <1>2, AbandonKeeps DEF DeadlockVictim

(* A ruling adds to what is ruled; a merge by hand waits for locked rows.   *)
LEMMA RuleKeeps == ASSUME ScanInv, Rule PROVE ScanInv'
<1>1. PICK p \in Pairs : ruled' = ruled \cup {SetOf(p)}
  BY DEF Rule
<1>2. TypeOK'
  <2>1. SetOf(p) \subseteq Creatives
    BY DEF Pairs, SetOf
  <2>2. human' \in 0..MaxHuman
    BY ScanAssumption DEF ScanInv, TypeOK, Rule
  <2> QED BY <1>1, <2>1, <2>2 DEF ScanInv, TypeOK, Rule
<1>3. LocksApart'
  BY DEF ScanInv, LocksApart, Rule
<1>4. ASSUME NEW u \in Threads PROVE ThreadOK(th[u])'
  <2>1. PICK q : q = th[u]
    OBVIOUS
  <2>2. ThreadOK(q)
    BY <2>1 DEF ScanInv
  <2>3. ThreadOK(q)'
    BY <1>1, <2>2 DEF ThreadOK, LoopsOK, PairOK, RowsOK, RulingsOK, Rule
  <2> QED BY <2>1, <2>3 DEF Rule
<1> QED BY <1>2, <1>3, <1>4 DEF ScanInv

LEMMA MergeByHandKeeps == ASSUME ScanInv, MergeByHand PROVE ScanInv'
<1>1. PICK p \in Pairs : /\ \A t \in Threads : SetOf(p) \cap th[t].locks = {}
                         /\ live' = live \ {Absorbed(p)}
  BY DEF MergeByHand
<1>2. Absorbed(p) \in SetOf(p)
  BY DEF Absorbed, SetOf
<1>3. TypeOK'
  <2>1. human' \in 0..MaxHuman
    BY ScanAssumption DEF ScanInv, TypeOK, MergeByHand
  <2> QED BY <1>1, <2>1 DEF ScanInv, TypeOK, MergeByHand
<1>4. LocksApart'
  BY DEF ScanInv, LocksApart, MergeByHand
<1>5. ASSUME NEW u \in Threads PROVE ThreadOK(th[u])'
  <2>1. PICK q : q = th[u]
    OBVIOUS
  <2>2. ThreadOK(q) /\ \A x \in q.locks \cap live : x \in live'
    BY <1>1, <1>2, <2>1 DEF ScanInv
  <2>3. \A i \in 1..Len(q.stack) : i > 1 => q.stack[i].anchor \in live'
    BY <2>2 DEF ThreadOK, LoopsOK, RowsOK
  <2>4. q.stage = "mirror" => q.pair[1] \in live'
    BY <2>2 DEF ThreadOK, PairOK, RowsOK, SetOf
  <2>5. ThreadOK(q)'
    BY <2>2, <2>3, <2>4 DEF ThreadOK, LoopsOK, PairOK, RowsOK, RulingsOK, MergeByHand
  <2> QED BY <2>1, <2>5 DEF MergeByHand
<1> QED BY <1>3, <1>4, <1>5 DEF ScanInv

LEMMA DecayKeeps == ASSUME ScanInv, Decay PROVE ScanInv'
<1>1. UNCHANGED <<live, ruled, th, human>> /\ old' \subseteq ruled
  BY DEF ScanInv, TypeOK, Decay
<1>2. TypeOK' /\ LocksApart'
  BY <1>1 DEF ScanInv, TypeOK, LocksApart
<1>3. ASSUME NEW u \in Threads PROVE ThreadOK(th[u])'
  BY <1>1 DEF ScanInv, ThreadOK, LoopsOK, PairOK, RowsOK, RulingsOK
<1> QED BY <1>2, <1>3 DEF ScanInv

-----------------------------------------------------------------------------
(* The scans in every behaviour.                                           *)

LEMMA ScansStart == Init => ScanInv
<1> SUFFICES ASSUME Init PROVE ScanInv
  OBVIOUS
<1>1. PICK r : r = [stage |-> "begin", stack |-> <<>>, pair |-> NoPair, gone |-> {},
                    open |-> {}, locks |-> {}, mirror |-> FALSE, broken |-> FALSE,
                    ruledThen |-> {}, counted |-> FALSE]
  OBVIOUS
<1>2. <<>> \in Seq(Frames) /\ Len(<<>>) = 0
  OBVIOUS
<1>3. /\ r \in Thread /\ r.stage = "begin" /\ r.stack = <<>> /\ r.open = {}
      /\ r.locks = {} /\ r.ruledThen = {}
  BY <1>1, <1>2 DEF Thread
<1>4. th = [t \in Threads |-> r]
  BY <1>1 DEF Init
<1>5. TypeOK
  <2>1. th \in [Threads -> Thread]
    BY <1>3, <1>4
  <2>2. live \subseteq Creatives /\ ruled \subseteq SUBSET Creatives /\ old \subseteq ruled /\ human \in 0..MaxHuman
    BY ScanAssumption DEF Init
  <2> QED BY <2>1, <2>2 DEF TypeOK
<1>6. LocksApart
  BY <1>3, <1>4 DEF LocksApart
<1>7. ThreadOK(r)
  BY <1>2, <1>3 DEF ThreadOK, LoopsOK, PairOK, RowsOK, RulingsOK
<1> QED BY <1>4, <1>5, <1>6, <1>7 DEF ScanInv

LEMMA ScansGoOn == ScanInv /\ [Next]_vars => ScanInv'
<1> SUFFICES ASSUME ScanInv, [Next]_vars PROVE ScanInv'
  OBVIOUS
<1>1. ASSUME NEW t \in Threads, Step(t) PROVE ScanInv'
  BY <1>1, BeginKeeps, TakePairKeeps, AnsweredKeeps, GuardedKeeps, RescanKeeps, RescanEndsKeeps,
     LoopEndsKeeps, NoteKeeps, DeadlockVictimKeeps DEF Step
<1>2. CASE Rule
  BY <1>2, RuleKeeps
<1>3. CASE MergeByHand
  BY <1>3, MergeByHandKeeps
<1>5. CASE Decay
  BY <1>5, DecayKeeps
<1>4. CASE UNCHANGED vars
  <2>1. TypeOK' /\ LocksApart'
    BY <1>4 DEF ScanInv, TypeOK, LocksApart, vars
  <2>2. ASSUME NEW u \in Threads PROVE ThreadOK(th[u])'
    BY <1>4 DEF ScanInv, ThreadOK, LoopsOK, PairOK, RowsOK, RulingsOK, vars
  <2> QED BY <2>1, <2>2 DEF ScanInv
<1> QED BY <1>1, <1>2, <1>3, <1>4, <1>5 DEF Next, Over

(* The stacks of rescans, the row locks and the pairs at hand of every      *)
(* judge phase and consolidation stay consistent, however they interleave,  *)
(* fail and are rolled back (jobs/postanalysis.py, services/merge_scan.py,  *)
(* services/review.py).                                                    *)
THEOREM ScansStayInOrder == Spec => []ScanInv
BY ScansStart, ScansGoOn, PTL DEF Spec

(* The committed creatives, the rulings and the threads stay in their       *)
(* types.                                                                   *)
THEOREM ScansTyped == Spec => []TypeOK
<1>1. ScanInv => TypeOK
  BY DEF ScanInv
<1> QED BY <1>1, ScansStayInOrder, PTL

(* services/review.py: a merge that waits for the rescan it started, or for *)
(* one below it, never finds its surviving creative merged away, neither by  *)
(* its own thread nor by another thread nor by a person: the surviving row   *)
(* is locked, and a rescan lists only pairs its creative survives.          *)
THEOREM SurvivorsSurvive == Spec => []SurvivorSurvives
<1>1. ScanInv => SurvivorSurvives
  <2> SUFFICES ASSUME ScanInv, NEW t \in Threads, NEW i \in 1..Len(th[t].stack),
                      th[t].stack[i].kind = "rescan"
               PROVE  th[t].stack[i].anchor \in View(t)
    BY DEF SurvivorSurvives
  <2>1. ThreadOK(th[t])
    BY DEF ScanInv
  <2>2. i > 1
    BY <2>1 DEF ThreadOK, LoopsOK
  <2>3. th[t].stack[i].anchor \in th[t].locks \ th[t].open
    BY <2>1, <2>2 DEF ThreadOK, LoopsOK
  <2>4. th[t].stack[i].anchor \in live
    BY <2>1, <2>2 DEF ThreadOK, RowsOK
  <2> QED BY <2>3, <2>4 DEF View
<1> QED BY <1>1, ScansStayInOrder, PTL

-----------------------------------------------------------------------------
(* Only the merge behind the guard writes rows.                            *)
LEMMA OnlyGuardedWrites ==
    ASSUME ScanInv, NEW t \in Threads, Step(t), NEW u \in Threads
    PROVE  \/ th'[u].open \subseteq th[u].open
           \/ u = t /\ SetOf(th[t].pair) \notin ruled \ old
<1>1. th \in [Threads -> Thread] /\ th[t] \in Thread
  BY DEF ScanInv, TypeOK
<1>2. ASSUME NEW row \in Thread, row.open = th[t].open, EndPair(t, row)
      PROVE  th'[u].open \subseteq th[u].open
  <2>1. PICK over : over = [row EXCEPT !.stage = "next", !.pair = NoPair, !.ruledThen = {}]
    OBVIOUS
  <2>2. over \in Thread /\ over.open = row.open
    BY <2>1 DEF Thread
  <2>3. Commit(t, over) \/ Keep(t, over)
    BY <1>2, <2>1 DEF EndPair
  <2>4. CASE Commit(t, over)
    BY <1>1, <2>2, <2>4 DEF Commit, Thread
  <2>5. CASE Keep(t, over)
    BY <1>1, <1>2, <2>2, <2>5 DEF Keep
  <2> QED BY <2>3, <2>4, <2>5
<1>3. ASSUME Abandon(t) PROVE th'[u].open \subseteq th[u].open
  <2>1. PICK q, f : q = th[t] /\ f = Outermost(t)
    OBVIOUS
  <2>2. PICK row : row = [q EXCEPT !.open = {}, !.locks = {}, !.mirror = FALSE,
                          !.gone = @ \ q.open, !.pair = NoPair, !.ruledThen = {}]
    OBVIOUS
  <2>3. row.open = {} /\ q \in Thread
    BY <1>1, <2>1, <2>2 DEF Thread
  <2>4. PICK r, s : /\ r = [row EXCEPT !.stage = "next", !.stack = <<f>>]
                    /\ s = [row EXCEPT !.stage = "note", !.stack = <<>>, !.broken = t \in Phases]
    OBVIOUS
  <2>5. r.open = {} /\ s.open = {}
    <3>1. PICK b : b = (t \in Phases)
      OBVIOUS
    <3>2. s = [row EXCEPT !.stage = "note", !.stack = <<>>, !.broken = b]
      BY <2>4, <3>1
    <3> QED BY <1>1, <2>1, <2>2, <2>3, <2>4, <3>2 DEF Thread
  <2>6. th' = [th EXCEPT ![t] = r] \/ th' = [th EXCEPT ![t] = s]
    BY <1>3, <2>1, <2>2, <2>4 DEF Abandon, Keep
  <2> QED BY <1>1, <2>5, <2>6
<1>4. CASE Begin(t)
  BY <1>1, <1>4 DEF Begin, Thread
<1>5. CASE TakePair(t)
  BY <1>1, <1>5 DEF TakePair, Thread
<1>6. CASE Answered(t)
  <2>1. CASE Keep(t, [th[t] EXCEPT !.stage = "next", !.pair = NoPair])
    BY <1>1, <2>1 DEF Keep, Thread
  <2>2. CASE EndPair(t, th[t])
    BY <1>1, <1>2, <2>2
  <2>3. CASE Keep(t, [th[t] EXCEPT !.stage = "guard", !.ruledThen = ruled])
    BY <1>1, <2>3 DEF Keep, Thread
  <2> QED BY <1>6, <2>1, <2>2, <2>3 DEF Answered
<1>7. CASE Guarded(t)
  <2>1. PICK p : p = th[t].pair
    OBVIOUS
  <2>2. CASE Missed(t, p)
    <3>1. PICK q : q = th[t]
      OBVIOUS
    <3>2. PICK r : r = [q EXCEPT !.stage = "next", !.pair = NoPair, !.ruledThen = {}]
      OBVIOUS
    <3>3. th' = [th EXCEPT ![t] = r]
      BY <1>7, <2>1, <2>2, <3>1, <3>2 DEF Guarded, Keep
    <3>4. r.open = q.open
      BY <1>1, <3>1, <3>2 DEF Thread
    <3> QED BY <1>1, <3>1, <3>3, <3>4
  <2>3. CASE ~Missed(t, p) /\ BlockedByRuling(p)
    <3>1. EndPair(t, th[t])
      BY <1>7, <2>1, <2>3 DEF Guarded
    <3> QED BY <1>1, <1>2, <3>1
  <2>4. CASE ~Missed(t, p) /\ ~BlockedByRuling(p) /\ Survivor(p) \notin View(t)
    <3>1. Abandon(t)
      BY <1>7, <2>1, <2>4 DEF Guarded
    <3> QED BY <1>3, <3>1
  <2>5. CASE ~Missed(t, p) /\ ~BlockedByRuling(p) /\ Survivor(p) \in View(t)
    <3>1. CASE u = t
      BY <2>1, <2>5, <3>1 DEF BlockedByRuling
    <3>2. CASE u # t
      BY <1>1, <1>7, <2>1, <2>5, <3>2 DEF Guarded, Keep
    <3> QED BY <3>1, <3>2
  <2> QED BY <2>2, <2>3, <2>4, <2>5
<1>8. CASE Rescan(t)
  BY <1>1, <1>8 DEF Rescan, Thread
<1>9. CASE RescanEnds(t)
  <2>1. PICK n : n = Len(th[t].stack) - 1
    OBVIOUS
  <2>2. PICK q, rest : /\ q = th[t]
                       /\ rest = [SubSeq(q.stack, 1, n) EXCEPT ![n].alive = @ \ {Absorbed(Top(t).by)}]
    OBVIOUS
  <2>3. PICK row : row = [q EXCEPT !.stack = rest]
    OBVIOUS
  <2>4. EndPair(t, row)
    BY <1>9, <2>1, <2>2, <2>3 DEF RescanEnds
  <2>5. PICK over : over = [row EXCEPT !.stage = "next", !.pair = NoPair, !.ruledThen = {}]
    OBVIOUS
  <2>6. over.open = q.open
    BY <1>1, <2>2, <2>3, <2>5 DEF Thread
  <2>7. CASE Commit(t, over)
    <3>1. PICK r : r = [over EXCEPT !.open = {}, !.locks = {}, !.mirror = FALSE]
      OBVIOUS
    <3>2. r.open = {}
      BY <1>1, <2>2, <2>3, <2>5, <3>1 DEF Thread
    <3>3. th' = [th EXCEPT ![t] = r]
      BY <2>7, <3>1 DEF Commit
    <3> QED BY <1>1, <3>2, <3>3
  <2>8. CASE Keep(t, over)
    BY <1>1, <2>2, <2>6, <2>8 DEF Keep
  <2> QED BY <2>4, <2>5, <2>7, <2>8 DEF EndPair
<1>10. CASE LoopEnds(t)
  <2>1. PICK f : f = ScanFrame(t, Top(t).anchor, "scan", NoPair)
    OBVIOUS
  <2>2. CASE Keep(t, [th[t] EXCEPT !.stack = <<f>>])
    BY <1>1, <2>2 DEF Keep, Thread
  <2>3. CASE Commit(t, [th[t] EXCEPT !.stage = "note", !.stack = <<>>])
    BY <1>1, <2>3 DEF Commit, Thread
  <2> QED BY <1>10, <2>1, <2>2, <2>3 DEF LoopEnds
<1>11. CASE Note(t)
  BY <1>1, <1>11 DEF Note, Thread
<1>12. CASE DeadlockVictim(t)
  BY <1>3, <1>12 DEF DeadlockVictim
<1> QED BY <1>4, <1>5, <1>6, <1>7, <1>8, <1>9, <1>10, <1>11, <1>12 DEF Step

(* services/merge_guard.py: a pair that people had ruled split when the      *)
(* model answered is not merged, whatever happens before the merge, unless   *)
(* the ruling is more than 90 days old by then: the merge reads the rulings  *)
(* again, and no ruling is ever lost.                                       *)
THEOREM RulingsBeatAnswers == Spec => RulingBeatsAnswer
<1>1. ScanInv /\ [Next]_vars => [RulingStep]_vars
  <2> SUFFICES ASSUME ScanInv, Next, NEW u \in Threads, th'[u].open \ th[u].open # {}
               PROVE  SetOf(th[u].pair) \notin th[u].ruledThen \ old
    BY DEF RulingStep
  <2>1. th[u].ruledThen \subseteq ruled
    BY DEF ScanInv, ThreadOK, RulingsOK
  <2>2. ASSUME NEW t \in Threads, Step(t)
        PROVE  SetOf(th[u].pair) \notin ruled \ old
    BY <2>2, OnlyGuardedWrites
  <2>3. CASE Rule \/ MergeByHand \/ Decay \/ Over
    BY <2>3 DEF Rule, MergeByHand, Decay, Over, vars
  <2> QED BY <2>1, <2>2, <2>3 DEF Next
<1> QED BY <1>1, ScansStayInOrder, PTL DEF Spec, RulingBeatsAnswer

=============================================================================
